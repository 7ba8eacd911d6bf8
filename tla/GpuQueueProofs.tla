---------------------------- MODULE GpuQueueProofs ----------------------------
(***************************************************************************)
(* Proofs about GpuQueue, for every finite set of threads, every program   *)
(* of command buffers on each ring, and every depth and limit.             *)
(***************************************************************************)
EXTENDS GpuQueue, FiniteSetTheorems, FunctionTheorems, SequenceTheorems, TLAPS

Items == [kind : {"none", "submit", "flip", "flush", "shutdown"}, ring : Rings, n : Nat,
          done : Callers \cup {Nobody}]
Buffers == [n : Nat, pos : Nat, label : Labels \cup {"none"}, rounds : Nat, latched : BOOLEAN]
Works == [at : {"recv", "flush", "walk", "recheck", "drain", "done"}, item : Items,
          ring : Rings, n : Nat, pos : Nat, why : {"none", "submit", "resume", "drain"},
          pass : Nat, moved : BOOLEAN, cut : BOOLEAN]
CallRecords == [at : {"idle", "sending", "permit", "admit", "drain", "recv", "inline",
                      "stop", "close"},
                op : {"none", "submit", "flip", "idle", "shutdown"}, item : Items,
                mark : [Rings -> Nat]]
Histories == [admitted : [Rings -> Nat], started : [Rings -> Seq(Nat)],
              since : [Rings -> {"never", "held", "released"}],
              left : SUBSET Labels, broken : SUBSET Rings]

(***************************************************************************)
(* The types of the variables, and the buffers that exist.                 *)
(***************************************************************************)
IsBuffer(q, n) == n \in DOMAIN Programs[q]

Types ==
    /\ lifecycle \in {"Open", "Closing", "Closed"}
    /\ lock \in Callers \cup {Nobody}
    /\ worker \in {"none", "alive", "failed", "gone"}
    /\ chan \in Seq(Items) /\ Len(chan) <= Depth
    /\ inFlight \in Nat
    /\ permits \in 0..FramesInFlight
    /\ memory \in BOOLEAN
    /\ susp \in [Rings -> Buffers]
    /\ pend \in [Rings -> Seq(Nat)]
    /\ produced \in [Rings -> SUBSET Labels]
    /\ deferred \subseteq Labels
    /\ label \in [Labels -> BOOLEAN]
    /\ w \in Works
    /\ call \in [Callers -> CallRecords]
    /\ hist \in Histories

BuffersMeant ==
    /\ \A q \in Rings : \A i \in DOMAIN pend[q] : IsBuffer(q, pend[q][i])
    /\ \A i \in DOMAIN chan : chan[i].kind = "submit" => IsBuffer(chan[i].ring, chan[i].n)
    /\ \A t \in Callers : In(t, "sending") /\ call[t].op = "submit"
                            => IsBuffer(call[t].item.ring, call[t].item.n)
    /\ w.at = "walk" => IsBuffer(w.ring, w.n) /\ w.pos >= 1 /\ ~Suspended(w.ring)
    /\ \A q \in Rings : Suspended(q) =>
         /\ IsBuffer(q, susp[q].n) /\ susp[q].label \in Labels
         /\ susp[q].pos >= 2 /\ susp[q].rounds < DeadRounds

(***************************************************************************)
(* Where a thread is in its call says which call it is; who is sending has *)
(* the lifecycle lock, and the session is open as long as it has.          *)
(***************************************************************************)
OpsAt(p) ==
    CASE p = "idle" -> {"none"}
      [] p = "sending" -> {"submit", "flip", "idle"}
      [] p = "permit" -> {"flip"}
      [] p = "admit" -> {"flip", "idle"}
      [] p = "drain" -> {"idle", "shutdown"}
      [] p = "recv" -> {"idle"}
      [] p = "inline" -> {"flip", "idle", "shutdown"}
      [] OTHER -> {"shutdown"}

SentItem(t) ==
    CASE call[t].op = "submit" -> Item("submit", call[t].item.ring,
                                       hist.admitted[call[t].item.ring], Nobody)
      [] call[t].op = "flip" -> Item("flip", "dcb", 0, Nobody)
      [] OTHER -> Item("flush", "dcb", 0, t)

CallsMeant ==
    /\ \A t \in Callers :
         /\ call[t].op \in OpsAt(call[t].at)
         /\ t # Host => call[t].op # "shutdown"
         /\ In(t, "sending") => lock = t /\ call[t].item = SentItem(t)
    /\ call[Host].op \in {"none", "shutdown"}
    /\ lock # Nobody => In(lock, "sending") /\ lifecycle = "Open"

(***************************************************************************)
(* The Shutdown marker is sent once, after the last submission is over.    *)
(***************************************************************************)
ClosingMeant ==
    /\ lifecycle = "Closing" <=> ~In(Host, "idle")
    /\ \A i \in DOMAIN chan : chan[i].kind # "none"
    /\ (\E i \in DOMAIN chan : chan[i].kind = "shutdown") \/ worker = "gone" =>
         lifecycle = "Closed" \/ In(Host, "close")
    /\ lifecycle # "Open" /\ ~In(Host, "drain") => inFlight = 0

(***************************************************************************)
(* Only a running worker has work, and what a flush answers is a caller    *)
(* that waits for it.                                                      *)
(***************************************************************************)
WorkMeant ==
    /\ worker \in {"none", "failed"} =>
         chan = <<>> /\ \A q \in Rings : ~Suspended(q) /\ pend[q] = <<>>
    /\ w.at # "recv" => worker = "alive" /\ w.item.kind \in {"submit", "flip", "flush"}

FlushesAnswered ==
    /\ \A i \in DOMAIN chan : chan[i].kind = "flush" =>
         /\ chan[i].done \in Threads /\ In(chan[i].done, "recv")
         /\ w.at # "recv" /\ w.item.kind = "flush" => w.item.done # chan[i].done
         /\ \A j \in DOMAIN chan : chan[j].kind = "flush" /\ chan[j].done = chan[i].done => i = j
    /\ w.at # "recv" /\ w.item.kind = "flush" =>
         w.item.done \in Threads /\ In(w.item.done, "recv")

(***************************************************************************)
(* Buffers are parked behind a suspended one, or the worker is about to    *)
(* run them.                                                               *)
(***************************************************************************)
ParkedMeant ==
    \A q \in Rings \ hist.broken : pend[q] # <<>> =>
      \/ Suspended(q)
      \/ w.ring = q /\ (w.at = "drain" \/ (w.at = "walk" /\ w.why # "submit"))

(***************************************************************************)
(* Every buffer of a ring was begun, is parked, is in the channel or is    *)
(* being sent, in the order of admission.                                  *)
(***************************************************************************)
Sending(q) == lock # Nobody /\ call[lock].op = "submit" /\ call[lock].item.ring = q
Sent(q) == IF Sending(q) THEN hist.admitted[q] - 1 ELSE hist.admitted[q]
InChan(q) == {i \in DOMAIN chan : chan[i].kind = "submit" /\ chan[i].ring = q}
NumbersInChan(q) == {chan[i].n : i \in InChan(q)}

AllKept ==
    \A q \in Rings :
      /\ Sending(q) => hist.admitted[q] >= 1
      /\ \A n \in 1..Sent(q) : n \in Range(hist.started[q]) \cup Range(pend[q]) \cup NumbersInChan(q)

InOrder ==
    /\ \A q \in Rings : \A i, j \in InChan(q) : i < j => chan[i].n < chan[j].n
    /\ \A q \in Rings : \A i \in InChan(q) : chan[i].n <= Sent(q)
    /\ \A q \in Rings \ hist.broken :
         /\ \A i \in DOMAIN hist.started[q] : hist.started[q][i] = i
         /\ \A i \in DOMAIN pend[q] : pend[q][i] = Len(hist.started[q]) + i
         /\ Len(hist.started[q]) + Len(pend[q]) <= Sent(q)
         /\ \A i \in InChan(q) : chan[i].n > Len(hist.started[q]) + Len(pend[q])

(***************************************************************************)
(* What a walk writes is recorded until its end, and then latched in the   *)
(* waits it satisfies; the history says no more than that.                 *)
(***************************************************************************)
LatchesMeant ==
    /\ \A r \in Rings : \A l \in produced[r] \ hist.left : w.at = "walk" /\ r = w.ring
    /\ \A q \in Rings : Suspended(q) =>
         /\ hist.since[q] = "released" /\ susp[q].label \notin hist.left =>
              susp[q].latched \/ (w.at = "walk" /\ susp[q].label \in produced[w.ring])
         /\ susp[q].latched => hist.since[q] = "released" \/ susp[q].label \in hist.left
         /\ w.at = "walk" /\ susp[q].label \in produced[w.ring] =>
              hist.since[q] = "released" \/ susp[q].label \in hist.left
         /\ label[susp[q].label] => hist.since[q] # "never"

(***************************************************************************)
(* A re-check ends with no latched wait: its last pass resumed nothing, so *)
(* each ring was still as the pass found it.                               *)
(***************************************************************************)
Waiting(q) == Suspended(q) => ~susp[q].latched
PassesMeant ==
    memory =>
      /\ w.at = "drain" \/ (w.at = "walk" /\ w.why # "submit") => w.moved
      /\ w.at = "recheck" /\ w.ring = "acb" /\ ~w.moved => Waiting("dcb")
      /\ w.at \in {"recv", "done"} /\ ~w.cut => \A q \in Rings : Waiting(q)

(***************************************************************************)
(* A wait_idle that has seen nothing in flight has nothing left to wait    *)
(* for but its flush.                                                      *)
(***************************************************************************)
Over(q, n) ==
    /\ n \in Range(hist.started[q]) \cup Range(pend[q])
    /\ \A i \in InChan(q) : chan[i].n # n
    /\ w.at # "recv" => w.item # Item("submit", q, n, Nobody)

IdlesMeant ==
    \A t \in Threads : call[t].op = "idle" =>
      \A q \in Rings :
        /\ call[t].mark[q] <= hist.admitted[q]
        /\ ~In(t, "drain") => /\ call[t].mark[q] <= Sent(q)
                              /\ \A n \in 1..call[t].mark[q] : Over(q, n)

GpuIInv ==
    /\ Types /\ BuffersMeant
    /\ CallsMeant /\ ClosingMeant
    /\ WorkMeant /\ FlushesAnswered
    /\ CountsExact
    /\ ParkedMeant
    /\ AllKept /\ InOrder
    /\ LatchesMeant /\ PassesMeant
    /\ IdlesMeant
    /\ ShutdownIsLast

-------------------------------------------------------------------------------
(***************************************************************************)
(* The records the actions write.                                          *)
(***************************************************************************)
LEMMA RecordFacts ==
  /\ NoItem \in Items /\ NoItem.kind = "none" /\ ShutdownItem \in Items
  /\ ShutdownItem.kind = "shutdown"
  /\ NoBuffer \in Buffers /\ NoBuffer.n = 0
  /\ NoWork \in Works /\ NoWork.at = "recv" /\ NoWork.ring = "dcb" /\ ~NoWork.cut
  /\ NoCall \in CallRecords /\ NoCall.at = "idle" /\ NoCall.op = "none"
  /\ Nobody \notin Callers /\ Host \in Callers /\ Threads \subseteq Callers
  /\ \A k \in {"submit", "flip", "flush"}, q \in Rings, n \in Nat, t \in Callers \cup {Nobody} :
       /\ Item(k, q, n, t) \in Items
       /\ Item(k, q, n, t).kind = k /\ Item(k, q, n, t).ring = q
       /\ Item(k, q, n, t).n = n /\ Item(k, q, n, t).done = t
<1>1. NoItem \in Items /\ NoItem.kind = "none"
  BY CallersAssumption DEF NoItem, Item, Items, Rings, Callers
<1>2. ShutdownItem \in Items /\ ShutdownItem.kind = "shutdown"
  BY CallersAssumption DEF ShutdownItem, Item, Items, Rings, Callers
<1>3. NoBuffer \in Buffers /\ NoBuffer.n = 0
  BY DEF NoBuffer, Buffers
<1>4. NoWork \in Works /\ NoWork.at = "recv" /\ NoWork.ring = "dcb" /\ ~NoWork.cut
  BY <1>1 DEF NoWork, Works, Rings
<1>5. NoCall \in CallRecords /\ NoCall.at = "idle" /\ NoCall.op = "none"
  BY <1>1 DEF NoCall, CallRecords, Unmarked
<1>6. Nobody \notin Callers /\ Host \in Callers /\ Threads \subseteq Callers
  BY CallersAssumption DEF Callers
<1>7. \A k \in {"submit", "flip", "flush"}, q \in Rings, n \in Nat, t \in Callers \cup {Nobody} :
       /\ Item(k, q, n, t) \in Items
       /\ Item(k, q, n, t).kind = k /\ Item(k, q, n, t).ring = q
       /\ Item(k, q, n, t).n = n /\ Item(k, q, n, t).done = t
  BY DEF Item, Items
<1> QED BY <1>1, <1>2, <1>3, <1>4, <1>5, <1>6, <1>7

(***************************************************************************)
(* Where the worker goes after a walk, a flush or a ring of the re-check.  *)
(***************************************************************************)
LEMMA WorkFacts ==
  ASSUME Types
  PROVE  /\ BeginRecheck \in Works /\ BeginRecheck.item = w.item /\ ~BeginRecheck.cut
         /\ BeginRecheck.at = IF memory THEN "recheck" ELSE "done"
         /\ BeginRecheck.ring = "dcb"
         /\ NextRing \in Works /\ NextRing.item = w.item
         /\ \/ /\ w.ring = "dcb" /\ NextRing.at = "recheck" /\ NextRing.ring = "acb"
               /\ (w.moved => NextRing.moved)
            \/ w.ring = "acb" /\ NextRing.at = "recheck" /\ NextRing.ring = "dcb"
            \/ w.ring = "acb" /\ NextRing.at = "done" /\ (w.moved => NextRing.cut)
         /\ AfterWalk \in Works /\ AfterWalk.item = w.item
         /\ w.why = "submit" => AfterWalk = BeginRecheck
         /\ w.why # "submit" => AfterWalk.at = "drain" /\ AfterWalk.ring = w.ring
                                  /\ (w.moved => AfterWalk.moved)
<1> USE RecordFacts DEF Types
<1>1. /\ BeginRecheck \in Works /\ BeginRecheck.item = w.item /\ ~BeginRecheck.cut
      /\ BeginRecheck.at = IF memory THEN "recheck" ELSE "done"
      /\ BeginRecheck.ring = "dcb"
  BY DEF BeginRecheck, Works
<1>2. /\ NextRing \in Works /\ NextRing.item = w.item
      /\ \/ /\ w.ring = "dcb" /\ NextRing.at = "recheck" /\ NextRing.ring = "acb"
            /\ (w.moved => NextRing.moved)
         \/ w.ring = "acb" /\ NextRing.at = "recheck" /\ NextRing.ring = "dcb"
         \/ w.ring = "acb" /\ NextRing.at = "done" /\ (w.moved => NextRing.cut)
  <2>1. w.ring \in {"dcb", "acb"} /\ "dcb" # "acb"
    BY DEF Works, Rings
  <2>2. CASE w.ring = "dcb"
    BY <2>2, ZenonT(40) DEF NextRing, Works, Rings
  <2>3. CASE w.ring = "acb" /\ w.moved /\ w.pass < MaxPasses
    <3>1. NextRing = [NoWork EXCEPT !.at = "recheck", !.item = w.item, !.pass = w.pass + 1]
      BY <2>3 DEF NextRing, Works, Rings
    <3>2. w.pass + 1 \in Nat /\ w.item \in Items
      BY DEF Works
    <3> QED BY <2>3, <3>1, <3>2 DEF Works
  <2>4. CASE w.ring = "acb" /\ ~(w.moved /\ w.pass < MaxPasses)
    BY <2>4, ZenonT(40) DEF NextRing, Works, Rings
  <2> QED BY <2>1, <2>2, <2>3, <2>4
<1>3. AfterWalk \in Works /\ AfterWalk.item = w.item
  BY <1>1, ZenonT(40) DEF AfterWalk, Works
<1>4. w.why = "submit" => AfterWalk = BeginRecheck
  BY DEF AfterWalk
<1>5. w.why # "submit" => /\ AfterWalk.at = "drain" /\ AfterWalk.ring = w.ring
                          /\ (w.moved => AfterWalk.moved)
  BY DEF AfterWalk, Works
<1> QED BY <1>1, <1>2, <1>3, <1>4, <1>5

(***************************************************************************)
(* What a step does to the history, field by field, and what the beginning *)
(* of a walk changes.                                                      *)
(***************************************************************************)
Past(a, s, e, l, b) ==
    /\ hist' \in Histories
    /\ hist'.admitted = a /\ hist'.started = s /\ hist'.since = e
    /\ hist'.left = l /\ hist'.broken = b

Begins(item, q, n, pos, why) ==
    /\ w' \in Works /\ w'.at = (IF memory THEN "walk" ELSE "drain") /\ w'.item = item
    /\ w'.ring = q /\ w'.n = n /\ w'.pos = pos /\ w'.why = why
    /\ Past(hist.admitted,
            IF pos = 1 THEN [hist.started EXCEPT ![q] = Append(@, n)] ELSE hist.started,
            [hist.since EXCEPT ![q] = "never"], hist.left, hist.broken)

(***************************************************************************)
(* EnterWalk, field by field: the walk begins and its buffer is counted as *)
(* begun when it starts from its first packet.                             *)
(***************************************************************************)
LEMMA EnterFacts ==
  ASSUME Types, NEW work \in Works, NEW q \in Rings, NEW n \in Nat, NEW pos \in Nat,
         NEW why \in {"submit", "resume", "drain"}, EnterWalk(work, q, n, pos, why)
  PROVE  /\ Begins(work.item, q, n, pos, why)
         /\ why = "resume" => w'.moved
         /\ work.moved => w'.moved
<1> USE DEF Types
<1>1. /\ w' \in Works
      /\ w'.at = (IF memory THEN "walk" ELSE "drain") /\ w'.item = work.item
      /\ w'.ring = q /\ w'.n = n /\ w'.pos = pos /\ w'.why = why
  BY DEF EnterWalk, Works
<1>2. why = "resume" => w'.moved
  BY DEF EnterWalk, Works
<1>3. work.moved => w'.moved
  BY DEF EnterWalk, Works
<1>4. /\ hist'.admitted = hist.admitted /\ hist'.left = hist.left
      /\ hist'.broken = hist.broken
      /\ hist'.since = [hist.since EXCEPT ![q] = "never"]
  BY DEF EnterWalk, Histories
<1>5. hist'.started = IF pos = 1 THEN [hist.started EXCEPT ![q] = Append(@, n)]
                      ELSE hist.started
  BY DEF EnterWalk, Histories
<1>6. hist'.started \in [Rings -> Seq(Nat)]
  BY <1>5 DEF Histories
<1>7. hist' \in Histories
  BY <1>4, <1>6 DEF EnterWalk, Histories
<1> QED BY <1>1, <1>2, <1>3, <1>4, <1>5, <1>7 DEF Begins, Past

-------------------------------------------------------------------------------
(***************************************************************************)
(* How a step moves one caller through its call.                           *)
(***************************************************************************)
Places == {"idle", "sending", "permit", "admit", "drain", "recv", "inline", "stop", "close"}
Ops == {"none", "submit", "flip", "idle", "shutdown"}

Moves(t, p, o, i, m) ==
    /\ call' \in [Callers -> CallRecords]
    /\ call'[t].at = p /\ call'[t].op = o /\ call'[t].item = i /\ call'[t].mark = m
    /\ \A u \in Callers \ {t} : call'[u] = call[u]

(***************************************************************************)
(* What each way of writing a thread's call record does to its fields.     *)
(***************************************************************************)
LEMMA MoveFacts ==
  ASSUME call \in [Callers -> CallRecords], NEW t \in Callers,
         NEW p \in Places, NEW o \in Ops, NEW i \in Items, NEW m \in [Rings -> Nat]
  PROVE  /\ Goto(t, p) => Moves(t, p, call[t].op, call[t].item, call[t].mark)
         /\ Return(t) => /\ Moves(t, "idle", "none", NoItem, Unmarked)
                         /\ call' = [call EXCEPT ![t] = NoCall]
         /\ call' = [call EXCEPT ![t].at = p, ![t].op = o]
              => Moves(t, p, o, call[t].item, call[t].mark)
         /\ call' = [call EXCEPT ![t].at = p, ![t].item = i]
              => Moves(t, p, call[t].op, i, call[t].mark)
         /\ call' = [call EXCEPT ![t].at = p, ![t].op = o, ![t].item = i]
              => Moves(t, p, o, i, call[t].mark)
         /\ call' = [call EXCEPT ![t].at = p, ![t].op = o, ![t].mark = m]
              => Moves(t, p, o, call[t].item, m)
<1>1. call[t] \in CallRecords
  OBVIOUS
<1> DEFINE c1 == [call[t] EXCEPT !.at = p]
           c2 == [c1 EXCEPT !.op = o]
           c3 == [c1 EXCEPT !.item = i]
           c4 == [c2 EXCEPT !.item = i]
           c5 == [c2 EXCEPT !.mark = m]
<1>2. /\ c1 \in CallRecords /\ c1.at = p /\ c1.op = call[t].op /\ c1.item = call[t].item
      /\ c1.mark = call[t].mark
  BY <1>1 DEF CallRecords, Places
<1>3. /\ c2 \in CallRecords /\ c2.at = p /\ c2.op = o /\ c2.item = call[t].item
      /\ c2.mark = call[t].mark
  BY <1>2 DEF CallRecords, Ops
<1>4. /\ c3 \in CallRecords /\ c3.at = p /\ c3.op = call[t].op /\ c3.item = i
      /\ c3.mark = call[t].mark
  BY <1>2 DEF CallRecords
<1>5. c4 \in CallRecords /\ c4.at = p /\ c4.op = o /\ c4.item = i /\ c4.mark = call[t].mark
  BY <1>3 DEF CallRecords
<1>6. c5 \in CallRecords /\ c5.at = p /\ c5.op = o /\ c5.item = call[t].item /\ c5.mark = m
  BY <1>3 DEF CallRecords
<1>7. Goto(t, p) => Moves(t, p, call[t].op, call[t].item, call[t].mark)
  BY <1>2 DEF Goto, Moves
<1>8. Return(t) => /\ Moves(t, "idle", "none", NoItem, Unmarked)
                   /\ call' = [call EXCEPT ![t] = NoCall]
  <2>1. NoCall.item = NoItem /\ NoCall.mark = Unmarked
    BY DEF NoCall
  <2> QED BY <2>1, RecordFacts DEF Return, Moves
<1> HIDE DEF c1, c2, c3, c4, c5
<1>9. call' = [call EXCEPT ![t].at = p, ![t].op = o]
        => Moves(t, p, o, call[t].item, call[t].mark)
  BY <1>3 DEF Moves, c2, c1
<1>10. call' = [call EXCEPT ![t].at = p, ![t].item = i]
         => Moves(t, p, call[t].op, i, call[t].mark)
  BY <1>4 DEF Moves, c3, c1
<1>11. call' = [call EXCEPT ![t].at = p, ![t].op = o, ![t].item = i]
         => Moves(t, p, o, i, call[t].mark)
  BY <1>5 DEF Moves, c4, c2, c1
<1>12. call' = [call EXCEPT ![t].at = p, ![t].op = o, ![t].mark = m]
         => Moves(t, p, o, call[t].item, m)
  BY <1>6 DEF Moves, c5, c2, c1
<1> QED BY <1>7, <1>8, <1>9, <1>10, <1>11, <1>12

(***************************************************************************)
(* What a step does to the history, field by field.                        *)
(***************************************************************************)
LEMMA HistFacts ==
  ASSUME hist \in Histories, NEW q \in Rings, NEW n \in Nat,
         NEW e \in [Rings -> {"never", "held", "released"}],
         NEW l \in SUBSET Labels, NEW b \in SUBSET Rings
  PROVE  /\ hist' = hist
              => Past(hist.admitted, hist.started, hist.since, hist.left, hist.broken)
         /\ hist' = [hist EXCEPT !.admitted[q] = n]
              => Past([hist.admitted EXCEPT ![q] = n], hist.started, hist.since, hist.left,
                      hist.broken)
         /\ hist' = [hist EXCEPT !.started[q] = Append(@, n)]
              => Past(hist.admitted, [hist.started EXCEPT ![q] = Append(@, n)], hist.since,
                      hist.left, hist.broken)
         /\ hist' = [hist EXCEPT !.since = e]
              => Past(hist.admitted, hist.started, e, hist.left, hist.broken)
         /\ hist' = [hist EXCEPT !.since[q] = "never"]
              => Past(hist.admitted, hist.started, [hist.since EXCEPT ![q] = "never"],
                      hist.left, hist.broken)
         /\ hist' = [hist EXCEPT !.left = l]
              => Past(hist.admitted, hist.started, hist.since, l, hist.broken)
         /\ hist' = [hist EXCEPT !.left = l, !.broken = b]
              => Past(hist.admitted, hist.started, hist.since, l, b)
<1>1. hist' = hist
        => Past(hist.admitted, hist.started, hist.since, hist.left, hist.broken)
  BY DEF Past
<1>2. hist' = [hist EXCEPT !.admitted[q] = n]
        => Past([hist.admitted EXCEPT ![q] = n], hist.started, hist.since, hist.left,
                hist.broken)
  <2>1. [hist.admitted EXCEPT ![q] = n] \in [Rings -> Nat]
    BY DEF Histories
  <2> QED BY <2>1 DEF Past, Histories
<1>3. hist' = [hist EXCEPT !.started[q] = Append(@, n)]
        => Past(hist.admitted, [hist.started EXCEPT ![q] = Append(@, n)], hist.since,
                hist.left, hist.broken)
  <2>1. [hist.started EXCEPT ![q] = Append(@, n)] \in [Rings -> Seq(Nat)]
    BY DEF Histories
  <2> QED BY <2>1 DEF Past, Histories
<1>4. hist' = [hist EXCEPT !.since = e]
        => Past(hist.admitted, hist.started, e, hist.left, hist.broken)
  BY DEF Past, Histories
<1>5. hist' = [hist EXCEPT !.since[q] = "never"]
        => Past(hist.admitted, hist.started, [hist.since EXCEPT ![q] = "never"],
                hist.left, hist.broken)
  <2>1. [hist.since EXCEPT ![q] = "never"] \in [Rings -> {"never", "held", "released"}]
    BY DEF Histories
  <2> QED BY <2>1 DEF Past, Histories
<1>6. hist' = [hist EXCEPT !.left = l]
        => Past(hist.admitted, hist.started, hist.since, l, hist.broken)
  BY DEF Past, Histories
<1>7. hist' = [hist EXCEPT !.left = l, !.broken = b]
        => Past(hist.admitted, hist.started, hist.since, l, b)
  BY ZenonT(40) DEF Past, Histories
<1> QED BY <1>1, <1>2, <1>3, <1>4, <1>5, <1>6, <1>7

(***************************************************************************)
(* The channel: what a send appends and what the worker takes.             *)
(***************************************************************************)
LEMMA ChanFacts ==
  ASSUME Types
  PROVE  /\ Len(chan) \in Nat /\ DOMAIN chan = 1..Len(chan)
         /\ \A i \in DOMAIN chan : chan[i] \in Items
         /\ \A x \in Items : Len(chan) < Depth =>
              /\ Append(chan, x) \in Seq(Items) /\ Len(Append(chan, x)) <= Depth
              /\ Len(Append(chan, x)) = Len(chan) + 1
              /\ DOMAIN Append(chan, x) = 1..(Len(chan) + 1)
              /\ Append(chan, x)[Len(chan) + 1] = x
              /\ \A i \in 1..Len(chan) : Append(chan, x)[i] = chan[i]
         /\ chan # <<>> =>
              /\ Head(chan) = chan[1] /\ 1 \in DOMAIN chan /\ Head(chan) \in Items
              /\ Tail(chan) \in Seq(Items) /\ Len(Tail(chan)) <= Depth
              /\ Len(Tail(chan)) = Len(chan) - 1
              /\ DOMAIN Tail(chan) = 1..(Len(chan) - 1)
              /\ \A i \in 1..(Len(chan) - 1) : Tail(chan)[i] = chan[i + 1]
<1>1. chan \in Seq(Items) /\ Len(chan) <= Depth /\ Depth \in Nat
  BY LimitsAssumption DEF Types
<1>2. /\ Len(chan) \in Nat /\ DOMAIN chan = 1..Len(chan)
      /\ \A i \in DOMAIN chan : chan[i] \in Items
  BY <1>1
<1>3. ASSUME NEW x \in Items, Len(chan) < Depth
      PROVE  /\ Append(chan, x) \in Seq(Items) /\ Len(Append(chan, x)) <= Depth
             /\ Len(Append(chan, x)) = Len(chan) + 1
             /\ DOMAIN Append(chan, x) = 1..(Len(chan) + 1)
             /\ Append(chan, x)[Len(chan) + 1] = x
             /\ \A i \in 1..Len(chan) : Append(chan, x)[i] = chan[i]
  BY <1>1, <1>3
<1>4. ASSUME chan # <<>>
      PROVE  /\ Head(chan) = chan[1] /\ 1 \in DOMAIN chan /\ Head(chan) \in Items
             /\ Tail(chan) \in Seq(Items) /\ Len(Tail(chan)) <= Depth
             /\ Len(Tail(chan)) = Len(chan) - 1
             /\ DOMAIN Tail(chan) = 1..(Len(chan) - 1)
             /\ \A i \in 1..(Len(chan) - 1) : Tail(chan)[i] = chan[i + 1]
  BY <1>1, <1>4
<1> QED BY <1>2, <1>3, <1>4

(***************************************************************************)
(* What the helpers of the walks and flushes compute.                      *)
(***************************************************************************)
LEMMA ValueFacts ==
  ASSUME Types
  PROVE  /\ \A ls : \A by \in {"held", "released"} :
              Since(ls, by) \in [Rings -> {"never", "held", "released"}]
         /\ \A ls : /\ Latched(ls) \in [Rings -> Buffers]
                    /\ \A q \in Rings :
                         /\ ~Suspended(q) => Latched(ls)[q] = NoBuffer
                         /\ Latched(ls)[q] = NoBuffer => ~Suspended(q)
                         /\ Suspended(q) =>
                              /\ Latched(ls)[q].n = susp[q].n /\ Latched(ls)[q].pos = susp[q].pos
                              /\ Latched(ls)[q].label = susp[q].label
                              /\ Latched(ls)[q].rounds = susp[q].rounds
                              /\ Latched(ls)[q].latched <=> susp[q].latched \/ susp[q].label \in ls
         /\ \A ls : [l \in Labels |-> label[l] \/ l \in ls] \in [Labels -> BOOLEAN]
         /\ Released \in 0..FramesInFlight
<1> USE DEF Types
<1>1. \A ls : \A by \in {"held", "released"} :
        Since(ls, by) \in [Rings -> {"never", "held", "released"}]
  BY DEF Since, Histories
<1>2. ASSUME NEW ls, NEW q \in Rings
      PROVE  /\ Latched(ls)[q] \in Buffers
             /\ ~Suspended(q) => Latched(ls)[q] = NoBuffer
             /\ Latched(ls)[q] = NoBuffer => ~Suspended(q)
             /\ Suspended(q) =>
                  /\ Latched(ls)[q].n = susp[q].n /\ Latched(ls)[q].pos = susp[q].pos
                  /\ Latched(ls)[q].label = susp[q].label
                  /\ Latched(ls)[q].rounds = susp[q].rounds
                  /\ Latched(ls)[q].latched <=> susp[q].latched \/ susp[q].label \in ls
  <2>1. susp[q] \in Buffers
    OBVIOUS
  <2> DEFINE b == [susp[q] EXCEPT !.latched = TRUE]
  <2>2. /\ b \in Buffers /\ b.n = susp[q].n /\ b.pos = susp[q].pos /\ b.label = susp[q].label
        /\ b.rounds = susp[q].rounds /\ b.latched
    BY <2>1 DEF Buffers
  <2>3. b # NoBuffer
    BY <2>2 DEF NoBuffer
  <2>4. Latched(ls)[q] = IF Suspended(q) /\ susp[q].label \in ls THEN b ELSE susp[q]
    BY DEF Latched
  <2> HIDE DEF b
  <2>5. CASE Suspended(q) /\ susp[q].label \in ls
    BY <2>2, <2>3, <2>4, <2>5
  <2>6. CASE ~(Suspended(q) /\ susp[q].label \in ls)
    BY <2>1, <2>4, <2>6 DEF Suspended
  <2> QED BY <2>5, <2>6
<1>3. \A ls : Latched(ls) \in [Rings -> Buffers]
  BY <1>2 DEF Latched
<1>4. \A ls : [l \in Labels |-> label[l] \/ l \in ls] \in [Labels -> BOOLEAN]
  OBVIOUS
<1>5. Released \in 0..FramesInFlight
  BY LimitsAssumption DEF Released
<1> QED BY <1>1, <1>2, <1>3, <1>4, <1>5

(***************************************************************************)
(* The packet a walk stands at has a label.                                *)
(***************************************************************************)
LEMMA PacketFacts ==
  ASSUME Types, BuffersMeant, w.at = "walk", w.pos \in DOMAIN Programs[w.ring][w.n]
  PROVE  Packet.label \in Labels
<1>1. w.ring \in Rings /\ w.n \in DOMAIN Programs[w.ring]
  BY DEF Types, BuffersMeant, IsBuffer, Works
<1>2. Programs[w.ring] \in Seq(Seq(Packets))
  BY <1>1, ProgramsAssumption
<1>3. Programs[w.ring][w.n] \in Seq(Packets)
  BY <1>1, <1>2
<1>4. Packet \in Packets
  BY <1>3 DEF Packet
<1> QED BY <1>4 DEF Packets

(***************************************************************************)
(* A flush leaves the history alone but for the labels it writes.          *)
(***************************************************************************)
Writes(ls, by) ==
    /\ label' \in [Labels -> BOOLEAN]
    /\ \A l \in Labels : label'[l] => label[l] \/ l \in ls
    /\ Past(hist.admitted, hist.started, Since(ls, by), hist.left, hist.broken)

(***************************************************************************)
(* Writes that land are no release of a command processor.                 *)
(***************************************************************************)
LEMMA LandFacts ==
  ASSUME Types, NEW ls, ls \subseteq Labels, Land(ls)
  PROVE  Writes(ls, "held") /\ deferred' = {} /\ memory' = memory
<1>1. label' = [l \in Labels |-> label[l] \/ l \in ls] /\ deferred' = {} /\ memory' = memory
      /\ hist' = [hist EXCEPT !.since = Since(ls, "held")]
  BY DEF Land
<1>2. label' \in [Labels -> BOOLEAN]
  BY <1>1, ValueFacts
<1>3. \A l \in Labels : label'[l] => label[l] \/ l \in ls
  BY <1>1
<1>4. Past(hist.admitted, hist.started, Since(ls, "held"), hist.left, hist.broken)
  <2>1. hist \in Histories /\ Since(ls, "held") \in [Rings -> {"never", "held", "released"}]
    BY ValueFacts DEF Types
  <2>2. {} \in SUBSET Labels /\ {} \in SUBSET Rings /\ "dcb" \in Rings /\ 0 \in Nat
    BY DEF Rings
  <2> QED BY <1>1, <2>1, <2>2, HistFacts
<1> QED BY <1>1, <1>2, <1>3, <1>4 DEF Writes

(***************************************************************************)
(* A flush lands what dispatches have left, if the guest memory is there.  *)
(***************************************************************************)
LEMMA FlushFacts ==
  ASSUME Types, FlushAndPresent
  PROVE  /\ \E ls \in SUBSET Labels : Writes(ls, "held")
         /\ deferred' = {} /\ memory' = memory
<1>1. (IF memory THEN deferred ELSE {}) \subseteq Labels
  BY DEF Types
<1> QED BY <1>1, LandFacts DEF FlushAndPresent

-------------------------------------------------------------------------------
(***************************************************************************)
(* The steps of the callers, each in terms of what it moves.               *)
(***************************************************************************)
LEMMA CallSteps ==
  ASSUME Types, NEW t \in Callers
  PROVE  /\ SendWork(t) =>
              /\ call[t].op = "idle" => Moves(t, "recv", call[t].op, call[t].item, call[t].mark)
              /\ call[t].op # "idle" => Moves(t, "idle", "none", NoItem, Unmarked)
         /\ SubmitInline(t) => Moves(t, "idle", "none", NoItem, Unmarked)
         /\ FlushRefused(t) => Moves(t, "inline", call[t].op, call[t].item, call[t].mark)
         /\ Acquire(t) => Moves(t, "admit", call[t].op, call[t].item, call[t].mark)
         /\ AdmitFlush(t) =>
              /\ lifecycle # "Open" => Moves(t, "inline", call[t].op, call[t].item, call[t].mark)
              /\ lifecycle = "Open" /\ call[t].op = "flip" =>
                   Moves(t, "sending", call[t].op, Item("flip", "dcb", 0, Nobody), call[t].mark)
              /\ lifecycle = "Open" /\ call[t].op # "flip" =>
                   Moves(t, "sending", call[t].op, Item("flush", "dcb", 0, t), call[t].mark)
         /\ Drained(t) =>
              \E p \in {"inline", "admit"} :
                /\ call[t].op = "shutdown" => p = "inline"
                /\ Moves(t, p, call[t].op, call[t].item, call[t].mark)
         /\ FlushInline(t) =>
              /\ call[t].op = "shutdown" =>
                   Moves(t, "stop", call[t].op, call[t].item, call[t].mark)
              /\ call[t].op # "shutdown" => Moves(t, "idle", "none", NoItem, Unmarked)
<1>1. call \in [Callers -> CallRecords]
  BY DEF Types
<1>2. /\ {"idle", "recv", "inline", "admit", "sending", "stop"} \subseteq Places
      /\ "none" \in Ops /\ NoItem \in Items /\ Unmarked \in [Rings -> Nat]
      /\ Item("flip", "dcb", 0, Nobody) \in Items /\ Item("flush", "dcb", 0, t) \in Items
  BY RecordFacts DEF Places, Ops, Unmarked, Rings
<1>3. \A p \in Places : Goto(t, p) => Moves(t, p, call[t].op, call[t].item, call[t].mark)
  BY <1>1, <1>2, MoveFacts
<1>4. Return(t) => Moves(t, "idle", "none", NoItem, Unmarked)
  BY <1>1, <1>2, MoveFacts
<1>5. \A i \in Items : call' = [call EXCEPT ![t].at = "sending", ![t].item = i]
        => Moves(t, "sending", call[t].op, i, call[t].mark)
  BY <1>1, <1>2, MoveFacts
<1>6. SendWork(t) =>
        /\ call[t].op = "idle" => Moves(t, "recv", call[t].op, call[t].item, call[t].mark)
        /\ call[t].op # "idle" => Moves(t, "idle", "none", NoItem, Unmarked)
  BY <1>2, <1>3, <1>4 DEF SendWork
<1>7. SubmitInline(t) => Moves(t, "idle", "none", NoItem, Unmarked)
  BY <1>4 DEF SubmitInline
<1>8. FlushRefused(t) => Moves(t, "inline", call[t].op, call[t].item, call[t].mark)
  BY <1>2, <1>3 DEF FlushRefused
<1>9. Acquire(t) => Moves(t, "admit", call[t].op, call[t].item, call[t].mark)
  BY <1>2, <1>3 DEF Acquire
<1>10. AdmitFlush(t) =>
         /\ lifecycle # "Open" => Moves(t, "inline", call[t].op, call[t].item, call[t].mark)
         /\ lifecycle = "Open" /\ call[t].op = "flip" =>
              Moves(t, "sending", call[t].op, Item("flip", "dcb", 0, Nobody), call[t].mark)
         /\ lifecycle = "Open" /\ call[t].op # "flip" =>
              Moves(t, "sending", call[t].op, Item("flush", "dcb", 0, t), call[t].mark)
  BY <1>2, <1>3, <1>5 DEF AdmitFlush
<1>11. Drained(t) =>
         \E p \in {"inline", "admit"} :
           /\ call[t].op = "shutdown" => p = "inline"
           /\ Moves(t, p, call[t].op, call[t].item, call[t].mark)
  BY <1>2, <1>3 DEF Drained
<1>12. FlushInline(t) =>
         /\ call[t].op = "shutdown" =>
              Moves(t, "stop", call[t].op, call[t].item, call[t].mark)
         /\ call[t].op # "shutdown" => Moves(t, "idle", "none", NoItem, Unmarked)
  BY <1>2, <1>3, <1>4 DEF FlushInline
<1> QED BY <1>6, <1>7, <1>8, <1>9, <1>10, <1>11, <1>12

(***************************************************************************)
(* Where each new call of a guest thread begins.                           *)
(***************************************************************************)
LEMMA NewCallSteps ==
  ASSUME Types, NEW t \in Threads
  PROVE  /\ \A q \in Rings : SubmitDcb(t, q) =>
              Moves(t, "sending", "submit", Item("submit", q, hist.admitted[q] + 1, Nobody),
                    call[t].mark)
         /\ Flip(t) => \E p \in {"inline", "permit"} :
              Moves(t, p, "flip", call[t].item, call[t].mark)
         /\ WaitIdle(t) => Moves(t, "drain", "idle", call[t].item, hist.admitted)
<1>1. call \in [Callers -> CallRecords] /\ t \in Callers /\ hist.admitted \in [Rings -> Nat]
  BY RecordFacts DEF Types, Histories
<1>2. /\ {"sending", "inline", "permit", "drain"} \subseteq Places
      /\ {"submit", "flip", "idle"} \subseteq Ops
      /\ NoItem \in Items /\ Unmarked \in [Rings -> Nat]
      /\ \A q \in Rings : Item("submit", q, hist.admitted[q] + 1, Nobody) \in Items
  BY <1>1, RecordFacts DEF Places, Ops, Unmarked
<1>3. ASSUME NEW q \in Rings, SubmitDcb(t, q)
      PROVE  Moves(t, "sending", "submit", Item("submit", q, hist.admitted[q] + 1, Nobody),
                   call[t].mark)
  BY <1>1, <1>2, <1>3, MoveFacts DEF SubmitDcb
<1>4. ASSUME Flip(t)
      PROVE  \E p \in {"inline", "permit"} : Moves(t, p, "flip", call[t].item, call[t].mark)
  <2>1. PICK p \in {"inline", "permit"} : call' = [call EXCEPT ![t].at = p, ![t].op = "flip"]
    BY <1>4 DEF Flip
  <2> QED BY <1>1, <1>2, <2>1, MoveFacts
<1>5. ASSUME WaitIdle(t) PROVE Moves(t, "drain", "idle", call[t].item, hist.admitted)
  BY <1>1, <1>2, <1>5, MoveFacts DEF WaitIdle
<1> QED BY <1>3, <1>4, <1>5

(***************************************************************************)
(* Where each step of the shutdown leads.                                  *)
(***************************************************************************)
LEMMA HostSteps ==
  ASSUME Types
  PROVE  /\ Shutdown => Moves(Host, "drain", "shutdown", call[Host].item, call[Host].mark)
         /\ SendShutdown =>
              Moves(Host, "close", call[Host].op, call[Host].item, call[Host].mark)
         /\ Close => Moves(Host, "idle", "none", NoItem, Unmarked)
<1>1. call \in [Callers -> CallRecords] /\ Host \in Callers
  BY RecordFacts DEF Types
<1>2. /\ {"drain", "close"} \subseteq Places /\ "shutdown" \in Ops
      /\ NoItem \in Items /\ Unmarked \in [Rings -> Nat]
  BY RecordFacts DEF Places, Ops, Unmarked
<1>3. Shutdown => Moves(Host, "drain", "shutdown", call[Host].item, call[Host].mark)
  BY <1>1, <1>2, MoveFacts DEF Shutdown
<1>4. SendShutdown => Moves(Host, "close", call[Host].op, call[Host].item, call[Host].mark)
  BY <1>1, <1>2, MoveFacts DEF SendShutdown
<1>5. Close => Moves(Host, "idle", "none", NoItem, Unmarked)
  BY <1>1, <1>2, MoveFacts DEF Close
<1> QED BY <1>3, <1>4, <1>5

(***************************************************************************)
(* The steps of the worker.                                                *)
(***************************************************************************)
WalksOn ==
    /\ w' \in Works /\ w'.at = w.at /\ w'.item = w.item /\ w'.ring = w.ring /\ w'.n = w.n
    /\ w'.pos = w.pos + 1 /\ w'.why = w.why
    /\ w.moved => w'.moved

(***************************************************************************)
(* What the worker does with the item it takes, and where it ends.         *)
(***************************************************************************)
LEMMA RecvSteps ==
  ASSUME Types
  PROVE  /\ RecvSubmit /\ Suspended(Head(chan).ring) =>
              /\ w' \in Works /\ w'.item = Head(chan) /\ ~w'.cut
              /\ w'.at = (IF memory THEN "recheck" ELSE "done") /\ w'.ring = "dcb"
              /\ hist' = hist
              /\ pend' = [pend EXCEPT ![Head(chan).ring] = Append(@, Head(chan).n)]
         /\ RecvSubmit /\ ~Suspended(Head(chan).ring) =>
              /\ Begins(Head(chan), Head(chan).ring, Head(chan).n, 1, "submit")
              /\ pend' = pend
         /\ RecvFlush => w' \in Works /\ w'.at = "flush" /\ w'.item = Head(chan)
         /\ FinishItem => w' \in Works /\ w'.at = "recv" /\ (w.cut => w'.cut)
<1>1. chan # <<>> => Head(chan) \in Items /\ Head(chan).ring \in Rings /\ Head(chan).n \in Nat
  BY ChanFacts DEF Items
<1>2. ASSUME RecvSubmit, Suspended(Head(chan).ring)
      PROVE  /\ w' \in Works /\ w'.item = Head(chan) /\ ~w'.cut
             /\ w'.at = (IF memory THEN "recheck" ELSE "done") /\ w'.ring = "dcb"
             /\ hist' = hist
             /\ pend' = [pend EXCEPT ![Head(chan).ring] = Append(@, Head(chan).n)]
  <2>1. /\ w' = [BeginRecheck EXCEPT !.item = Head(chan)] /\ Head(chan) \in Items
        /\ hist' = hist
        /\ pend' = [pend EXCEPT ![Head(chan).ring] = Append(@, Head(chan).n)]
    BY <1>1, <1>2 DEF RecvSubmit, MustPark
  <2>2. /\ w' \in Works /\ w'.item = Head(chan) /\ ~w'.cut
        /\ w'.at = (IF memory THEN "recheck" ELSE "done") /\ w'.ring = "dcb"
    BY <2>1, WorkFacts DEF Works
  <2> QED BY <2>1, <2>2
<1>3. ASSUME RecvSubmit, ~Suspended(Head(chan).ring)
      PROVE  /\ Begins(Head(chan), Head(chan).ring, Head(chan).n, 1, "submit")
             /\ pend' = pend
  <2>1. /\ EnterWalk([NoWork EXCEPT !.item = Head(chan)], Head(chan).ring, Head(chan).n, 1,
                     "submit")
        /\ pend' = pend
        /\ Head(chan) \in Items /\ Head(chan).ring \in Rings /\ Head(chan).n \in Nat /\ 1 \in Nat
    BY <1>1, <1>3 DEF RecvSubmit, MustPark
  <2>2. /\ [NoWork EXCEPT !.item = Head(chan)] \in Works
        /\ [NoWork EXCEPT !.item = Head(chan)].item = Head(chan)
    BY <2>1, RecordFacts DEF Works
  <2>3. Begins(Head(chan), Head(chan).ring, Head(chan).n, 1, "submit")
    BY <2>1, <2>2, EnterFacts
  <2> QED BY <2>1, <2>3
<1>4. RecvFlush => w' \in Works /\ w'.at = "flush" /\ w'.item = Head(chan)
  BY <1>1, RecordFacts, ZenonT(40) DEF RecvFlush, Works
<1>5. FinishItem => w' \in Works /\ w'.at = "recv" /\ (w.cut => w'.cut)
  BY RecordFacts, ZenonT(40) DEF FinishItem, Types, Works
<1> QED BY <1>2, <1>3, <1>4, <1>5

(***************************************************************************)
(* What a packet, the end of a walk, a fault and a panic do.               *)
(***************************************************************************)
LEMMA WalkSteps ==
  ASSUME Types, BuffersMeant
  PROVE  /\ WalkRelease \/ WalkDispatch \/ WalkWait => WalksOn /\ Packet.label \in Labels
         /\ WalkRelease => Writes({Packet.label}, "released")
         /\ WalkSuspends =>
              /\ Packet.label \in Labels
              /\ Past(hist.admitted, hist.started, [hist.since EXCEPT ![w.ring] = "never"],
                      hist.left, hist.broken)
              /\ susp' \in [Rings -> Buffers]
              /\ susp'[w.ring].n = w.n /\ susp'[w.ring].pos = w.pos + 1
              /\ susp'[w.ring].label = Packet.label /\ susp'[w.ring].rounds = 0
              /\ ~susp'[w.ring].latched
              /\ \A q \in Rings \ {w.ring} : susp'[q] = Latched(produced[w.ring])[q]
         /\ WalkFlushes => Writes(deferred, "held") /\ deferred' = {} /\ memory' = memory
         /\ WalkFails =>
              \/ /\ susp' = Latched(produced[w.ring])
                 /\ produced' = [produced EXCEPT ![w.ring] = {}]
                 /\ Past(hist.admitted, hist.started, hist.since, hist.left, hist.broken)
              \/ /\ susp' = susp /\ produced' = produced
                 /\ Past(hist.admitted, hist.started, hist.since,
                         hist.left \cup produced[w.ring], hist.broken)
         /\ Panics =>
              /\ w' \in Works /\ w'.at = "done" /\ w'.item = w.item /\ w'.cut
              /\ w.at = "flush" =>
                   Past(hist.admitted, hist.started, hist.since, hist.left, hist.broken)
              /\ w.at = "walk" =>
                   Past(hist.admitted, hist.started, hist.since, hist.left \cup produced[w.ring],
                        IF pend[w.ring] = <<>> THEN hist.broken ELSE hist.broken \cup {w.ring})
<1>0. /\ w.ring \in Rings /\ w \in Works /\ hist \in Histories /\ produced[w.ring] \in SUBSET Labels
      /\ w.n \in Nat /\ w.pos + 1 \in Nat /\ hist.left \in SUBSET Labels
      /\ hist.broken \in SUBSET Rings /\ hist.since \in [Rings -> {"never", "held", "released"}]
      /\ 0 \in Nat
  BY DEF Types, Works, Histories
<1>1. WalkRelease \/ WalkDispatch \/ WalkWait => WalksOn /\ Packet.label \in Labels
  <2>1. WalkRelease \/ WalkDispatch \/ WalkWait =>
          w' = [w EXCEPT !.pos = @ + 1] /\ w.at = "walk" /\ w.pos \in DOMAIN Programs[w.ring][w.n]
    BY DEF WalkRelease, WalkDispatch, WalkWait, AtPacket
  <2>2. w' = [w EXCEPT !.pos = @ + 1] => WalksOn
    BY <1>0 DEF WalksOn, Works
  <2> QED BY <2>1, <2>2, PacketFacts
<1>2. ASSUME WalkRelease PROVE Writes({Packet.label}, "released")
  <2>1. /\ label' = [label EXCEPT ![Packet.label] = TRUE]
        /\ hist' = [hist EXCEPT !.since = Since({Packet.label}, "released")]
    BY <1>2 DEF WalkRelease
  <2>2. /\ label' \in [Labels -> BOOLEAN]
        /\ \A l \in Labels : label'[l] => label[l] \/ l \in {Packet.label}
    BY <2>1 DEF Types
  <2>3. Past(hist.admitted, hist.started, Since({Packet.label}, "released"), hist.left,
             hist.broken)
    BY <1>0, <2>1, ValueFacts, HistFacts
  <2> QED BY <2>2, <2>3 DEF Writes
<1>3. ASSUME WalkSuspends
      PROVE  /\ Packet.label \in Labels
             /\ Past(hist.admitted, hist.started, [hist.since EXCEPT ![w.ring] = "never"],
                     hist.left, hist.broken)
             /\ susp' \in [Rings -> Buffers]
             /\ susp'[w.ring].n = w.n /\ susp'[w.ring].pos = w.pos + 1
             /\ susp'[w.ring].label = Packet.label /\ susp'[w.ring].rounds = 0
             /\ ~susp'[w.ring].latched
             /\ \A q \in Rings \ {w.ring} : susp'[q] = Latched(produced[w.ring])[q]
  <2>1. Packet.label \in Labels
    BY <1>3, PacketFacts DEF WalkSuspends, AtPacket
  <2> DEFINE b == [NoBuffer EXCEPT !.n = w.n, !.pos = w.pos + 1, !.label = Packet.label]
  <2>2. /\ b \in Buffers /\ b.n = w.n /\ b.pos = w.pos + 1 /\ b.label = Packet.label
        /\ b.rounds = 0 /\ ~b.latched
    <3>1. NoBuffer \in Buffers /\ NoBuffer.rounds = 0 /\ ~NoBuffer.latched
      BY RecordFacts DEF NoBuffer
    <3> QED BY <1>0, <2>1, <3>1 DEF Buffers
  <2>3. Latched(produced[w.ring]) \in [Rings -> Buffers]
    BY ValueFacts
  <2>4. susp' = [Latched(produced[w.ring]) EXCEPT ![w.ring] = b]
    BY <1>3 DEF WalkSuspends
  <2>5. hist' = [hist EXCEPT !.since[w.ring] = "never"]
    BY <1>3 DEF WalkSuspends
  <2>6. Past(hist.admitted, hist.started, [hist.since EXCEPT ![w.ring] = "never"],
             hist.left, hist.broken)
    BY <1>0, <2>5, HistFacts
  <2> HIDE DEF b
  <2> QED BY <1>0, <2>1, <2>2, <2>3, <2>4, <2>6
<1>4. WalkFlushes => Writes(deferred, "held") /\ deferred' = {} /\ memory' = memory
  BY LandFacts DEF WalkFlushes, Types
<1>5. ASSUME WalkFails
      PROVE  \/ /\ susp' = Latched(produced[w.ring])
                /\ produced' = [produced EXCEPT ![w.ring] = {}]
                /\ Past(hist.admitted, hist.started, hist.since, hist.left, hist.broken)
             \/ /\ susp' = susp /\ produced' = produced
                /\ Past(hist.admitted, hist.started, hist.since,
                        hist.left \cup produced[w.ring], hist.broken)
  <2>1. hist.left \cup produced[w.ring] \in SUBSET Labels
    BY <1>0
  <2>2. \/ /\ susp' = Latched(produced[w.ring])
           /\ produced' = [produced EXCEPT ![w.ring] = {}]
           /\ hist' = hist
        \/ /\ susp' = susp /\ produced' = produced
           /\ hist' = [hist EXCEPT !.left = hist.left \cup produced[w.ring]]
    BY <1>5 DEF WalkFails, TakeProduced
  <2> QED BY <1>0, <2>1, <2>2, HistFacts
<1>6. ASSUME Panics
      PROVE  /\ w' \in Works /\ w'.at = "done" /\ w'.item = w.item /\ w'.cut
             /\ w.at = "flush" =>
                  Past(hist.admitted, hist.started, hist.since, hist.left, hist.broken)
             /\ w.at = "walk" =>
                  Past(hist.admitted, hist.started, hist.since, hist.left \cup produced[w.ring],
                       IF pend[w.ring] = <<>> THEN hist.broken ELSE hist.broken \cup {w.ring})
  <2>1. w' = [NoWork EXCEPT !.at = "done", !.item = w.item, !.cut = TRUE]
    BY <1>6 DEF Panics
  <2>2. w' \in Works /\ w'.at = "done" /\ w'.item = w.item /\ w'.cut
    BY <1>0, <2>1, RecordFacts DEF Works
  <2> DEFINE l == hist.left \cup produced[w.ring]
             b == IF pend[w.ring] = <<>> THEN hist.broken ELSE hist.broken \cup {w.ring}
  <2>3. l \in SUBSET Labels /\ b \in SUBSET Rings
    BY <1>0
  <2>4. /\ w.at = "flush" => hist' = hist
        /\ w.at = "walk" => hist' = [hist EXCEPT !.left = l, !.broken = b]
    BY <1>6 DEF Panics
  <2> HIDE DEF l, b
  <2>5. /\ w.at = "flush" =>
             Past(hist.admitted, hist.started, hist.since, hist.left, hist.broken)
        /\ w.at = "walk" => Past(hist.admitted, hist.started, hist.since, l, b)
    BY <1>0, <2>3, <2>4, HistFacts
  <2> QED BY <2>2, <2>5 DEF l, b
<1> QED BY <1>1, <1>2, <1>3, <1>4, <1>5, <1>6

(***************************************************************************)
(* What the re-check of a ring and the drain of its parked buffers do.     *)
(***************************************************************************)
LEMMA RecheckSteps ==
  ASSUME Types
  PROVE  /\ Resume =>
              /\ Begins(w.item, w.ring, susp[w.ring].n, susp[w.ring].pos, "resume") /\ w'.moved
              /\ susp' \in [Rings -> Buffers] /\ susp'[w.ring] = NoBuffer
              /\ \A q \in Rings \ {w.ring} : susp'[q] = susp[q]
         /\ StillUnmet =>
              /\ susp' \in [Rings -> Buffers]
              /\ susp'[w.ring].n = susp[w.ring].n /\ susp'[w.ring].pos = susp[w.ring].pos
              /\ susp'[w.ring].label = susp[w.ring].label
              /\ susp'[w.ring].rounds = susp[w.ring].rounds + 1
              /\ susp'[w.ring].latched <=> susp[w.ring].latched
              /\ \A q \in Rings \ {w.ring} : susp'[q] = susp[q]
         /\ DrainParked /\ ~Suspended(w.ring) /\ pend[w.ring] # <<>> =>
              /\ Begins(w.item, w.ring, Head(pend[w.ring]), 1, "drain")
              /\ w.moved => w'.moved
              /\ pend' = [pend EXCEPT ![w.ring] = Tail(@)]
         /\ DrainParked /\ (Suspended(w.ring) \/ pend[w.ring] = <<>>) =>
              w' = NextRing /\ pend' = pend /\ hist' = hist
<1>0. /\ w.ring \in Rings /\ w \in Works /\ 1 \in Nat
      /\ susp[w.ring] \in Buffers /\ susp[w.ring].n \in Nat /\ susp[w.ring].pos \in Nat
      /\ susp \in [Rings -> Buffers] /\ pend[w.ring] \in Seq(Nat)
  BY DEF Types, Works, Buffers
<1>1. ASSUME Resume
      PROVE  /\ Begins(w.item, w.ring, susp[w.ring].n, susp[w.ring].pos, "resume") /\ w'.moved
             /\ susp' \in [Rings -> Buffers] /\ susp'[w.ring] = NoBuffer
             /\ \A q \in Rings \ {w.ring} : susp'[q] = susp[q]
  <2>1. EnterWalk(w, w.ring, susp[w.ring].n, susp[w.ring].pos, "resume")
    BY <1>1 DEF Resume
  <2>2. Begins(w.item, w.ring, susp[w.ring].n, susp[w.ring].pos, "resume") /\ w'.moved
    BY <1>0, <2>1, EnterFacts
  <2> QED BY <1>0, <1>1, <2>2, RecordFacts DEF Resume
<1>2. ASSUME StillUnmet
      PROVE  /\ susp' \in [Rings -> Buffers]
             /\ susp'[w.ring].n = susp[w.ring].n /\ susp'[w.ring].pos = susp[w.ring].pos
             /\ susp'[w.ring].label = susp[w.ring].label
             /\ susp'[w.ring].rounds = susp[w.ring].rounds + 1
             /\ susp'[w.ring].latched <=> susp[w.ring].latched
             /\ \A q \in Rings \ {w.ring} : susp'[q] = susp[q]
  <2> DEFINE b == [susp[w.ring] EXCEPT !.rounds = susp[w.ring].rounds + 1]
  <2>1. susp[w.ring].rounds + 1 \in Nat
    BY <1>0 DEF Buffers
  <2>2. /\ b \in Buffers /\ b.n = susp[w.ring].n /\ b.pos = susp[w.ring].pos
        /\ b.label = susp[w.ring].label /\ b.rounds = susp[w.ring].rounds + 1
    BY <1>0, <2>1 DEF Buffers
  <2>3. b.latched = susp[w.ring].latched
    BY <1>0 DEF Buffers
  <2>4. susp' = [susp EXCEPT ![w.ring] = b]
    BY <1>2 DEF StillUnmet
  <2> HIDE DEF b
  <2> QED BY <1>0, <2>2, <2>3, <2>4
<1>3. ASSUME DrainParked, ~Suspended(w.ring), pend[w.ring] # <<>>
      PROVE  /\ Begins(w.item, w.ring, Head(pend[w.ring]), 1, "drain")
             /\ w.moved => w'.moved
             /\ pend' = [pend EXCEPT ![w.ring] = Tail(@)]
  <2>1. /\ EnterWalk(w, w.ring, Head(pend[w.ring]), 1, "drain")
        /\ pend' = [pend EXCEPT ![w.ring] = Tail(@)]
    BY <1>3 DEF DrainParked
  <2>2. Head(pend[w.ring]) \in Nat
    BY <1>0, <1>3
  <2> QED BY <1>0, <2>1, <2>2, EnterFacts
<1>4. DrainParked /\ (Suspended(w.ring) \/ pend[w.ring] = <<>>) =>
        w' = NextRing /\ pend' = pend /\ hist' = hist
  BY DEF DrainParked
<1> QED BY <1>1, <1>2, <1>3, <1>4

(***************************************************************************)
(* What the calls and the flushes do to the labels and the history.        *)
(***************************************************************************)
LEMMA CallWrites ==
  ASSUME Types
  PROVE  /\ \A t \in Threads, q \in Rings : SubmitDcb(t, q) =>
              Past([hist.admitted EXCEPT ![q] = hist.admitted[q] + 1], hist.started, hist.since,
                   hist.left, hist.broken)
         /\ \A t \in Callers : SubmitInline(t) =>
              /\ label' \in [Labels -> BOOLEAN]
              /\ Past(hist.admitted,
                      [hist.started EXCEPT ![call[t].item.ring] = Append(@, call[t].item.n)],
                      hist.since, hist.left, hist.broken)
         /\ \A t \in Threads, l \in GuestLabels : Store(t, l) =>
              \/ Writes({l}, "held")
              \/ Writes({}, "held")
         /\ \A t \in Callers : FlushInline(t) =>
              /\ \E ls \in SUBSET Labels : Writes(ls, "held")
              /\ deferred' = {} /\ memory' = memory
         /\ FlushItem => /\ \E ls \in SUBSET Labels : Writes(ls, "held")
                         /\ deferred' = {} /\ memory' = memory
<1>0. /\ hist \in Histories /\ hist.admitted \in [Rings -> Nat] /\ "dcb" \in Rings
      /\ {} \in SUBSET Labels /\ {} \in SUBSET Rings /\ 0 \in Nat
      /\ hist.since \in [Rings -> {"never", "held", "released"}]
  BY DEF Types, Histories, Rings
<1>1. ASSUME NEW t \in Threads, NEW q \in Rings, SubmitDcb(t, q)
      PROVE  Past([hist.admitted EXCEPT ![q] = hist.admitted[q] + 1], hist.started, hist.since,
                  hist.left, hist.broken)
  <2>1. hist.admitted[q] + 1 \in Nat
    BY <1>0
  <2>2. hist' = [hist EXCEPT !.admitted[q] = hist.admitted[q] + 1]
    BY <1>1 DEF SubmitDcb
  <2> QED BY <1>0, <2>1, <2>2, HistFacts
<1>2. ASSUME NEW t \in Callers, SubmitInline(t)
      PROVE  /\ label' \in [Labels -> BOOLEAN]
             /\ Past(hist.admitted,
                     [hist.started EXCEPT ![call[t].item.ring] = Append(@, call[t].item.n)],
                     hist.since, hist.left, hist.broken)
  <2>1. call[t].item.ring \in Rings /\ call[t].item.n \in Nat
    BY DEF Types, CallRecords, Items
  <2>2. hist' = [hist EXCEPT !.started[call[t].item.ring] = Append(@, call[t].item.n)]
    BY <1>2 DEF SubmitInline
  <2>3. label' \in [Labels -> BOOLEAN]
    BY <1>2, ValueFacts DEF SubmitInline
  <2> QED BY <1>0, <2>1, <2>2, <2>3, HistFacts
<1>3. ASSUME NEW t \in Threads, NEW l \in GuestLabels, Store(t, l)
      PROVE  Writes({l}, "held") \/ Writes({}, "held")
  <2>1. /\ label' = [label EXCEPT ![l] = ~label[l]] /\ l \in Labels
        /\ label[l] => hist' = [hist EXCEPT !.since = hist.since]
        /\ ~label[l] => hist' = [hist EXCEPT !.since = Since({l}, "held")]
    BY <1>3, MakesAssumption DEF Store
  <2>2. label' \in [Labels -> BOOLEAN]
    BY <2>1 DEF Types
  <2>3. CASE label[l]
    <3>1. \A x \in Labels : label'[x] => label[x] \/ x \in {}
      BY <2>1, <2>3 DEF Types
    <3>2. Since({}, "held") = hist.since
      BY <1>0 DEF Since
    <3>3. Past(hist.admitted, hist.started, hist.since, hist.left, hist.broken)
      BY <1>0, <2>1, <2>3, HistFacts
    <3> QED BY <2>2, <3>1, <3>2, <3>3 DEF Writes
  <2>4. CASE ~label[l]
    <3>1. \A x \in Labels : label'[x] => label[x] \/ x \in {l}
      BY <2>1, <2>4 DEF Types
    <3>2. Since({l}, "held") \in [Rings -> {"never", "held", "released"}]
      BY ValueFacts
    <3>3. Past(hist.admitted, hist.started, Since({l}, "held"), hist.left, hist.broken)
      BY <1>0, <2>1, <2>4, <3>2, HistFacts
    <3> QED BY <2>2, <3>1, <3>3 DEF Writes
  <2> QED BY <2>3, <2>4
<1>4. \A t \in Callers : FlushInline(t) => FlushAndPresent
  BY DEF FlushInline
<1>5. FlushItem => FlushAndPresent
  BY DEF FlushItem
<1>6. FlushAndPresent => /\ \E ls \in SUBSET Labels : Writes(ls, "held")
                         /\ deferred' = {} /\ memory' = memory
  BY FlushFacts
<1> QED BY <1>1, <1>2, <1>3, <1>4, <1>5, <1>6

-------------------------------------------------------------------------------
(***************************************************************************)
(* The sets that are counted.                                              *)
(***************************************************************************)
CallersIn(op, places) == {t \in Callers : call[t].op = op /\ call[t].at \in places}
QueuedItems(kind) == {i \in DOMAIN chan : chan[i].kind = kind}

(***************************************************************************)
(* There are finitely many callers, and finitely many items in a channel.  *)
(***************************************************************************)
LEMMA CountFacts ==
  /\ IsFiniteSet(Callers)
  /\ \A op, places : /\ IsFiniteSet(CallersIn(op, places))
                     /\ CallersAt(op, places) = Cardinality(CallersIn(op, places))
                     /\ CallersAt(op, places) \in Nat
<1>1. IsFiniteSet(Callers)
  BY ThreadsFinite, FS_AddElement DEF Callers
<1>2. ASSUME NEW op, NEW places
      PROVE  /\ IsFiniteSet(CallersIn(op, places))
             /\ CallersAt(op, places) = Cardinality(CallersIn(op, places))
             /\ CallersAt(op, places) \in Nat
  <2>1. CallersIn(op, places) \subseteq Callers
    BY DEF CallersIn
  <2>2. IsFiniteSet(CallersIn(op, places))
    BY <1>1, <2>1, FS_Subset
  <2>3. CallersAt(op, places) = Cardinality(CallersIn(op, places))
    BY DEF CallersAt, CallersIn, Number
  <2> QED BY <2>2, <2>3, FS_CardinalityType
<1> QED BY <1>1, <1>2

(***************************************************************************)
(* There are finitely many items of a kind in the channel.                 *)
(***************************************************************************)
LEMMA QueuedFacts ==
  Types => \A kind : /\ IsFiniteSet(QueuedItems(kind))
                     /\ Queued(kind) = Cardinality(QueuedItems(kind))
                     /\ Queued(kind) \in Nat
<1> SUFFICES ASSUME Types, NEW kind
             PROVE  /\ IsFiniteSet(QueuedItems(kind))
                    /\ Queued(kind) = Cardinality(QueuedItems(kind))
                    /\ Queued(kind) \in Nat
  OBVIOUS
<1>1. DOMAIN chan = 1..Len(chan) /\ Len(chan) \in Nat
  BY DEF Types
<1>2. IsFiniteSet(DOMAIN chan)
  BY <1>1, FS_Interval
<1>3. QueuedItems(kind) \subseteq DOMAIN chan
  BY DEF QueuedItems
<1>4. IsFiniteSet(QueuedItems(kind))
  BY <1>2, <1>3, FS_Subset
<1>5. Queued(kind) = Cardinality(QueuedItems(kind))
  BY DEF Queued, QueuedItems, Number
<1> QED BY <1>4, <1>5, FS_CardinalityType

(***************************************************************************)
(* A caller that is counted makes the count positive; so does an item.     *)
(***************************************************************************)
LEMMA CallerCounted ==
  ASSUME NEW op, NEW places, NEW t \in Callers, call[t].op = op, call[t].at \in places
  PROVE  CallersAt(op, places) >= 1
<1>1. CallersIn(op, places) # {}
  BY DEF CallersIn
<1> QED BY <1>1, CountFacts, FS_EmptySet, FS_CardinalityType

(***************************************************************************)
(* An item in the channel is counted among those of its kind.              *)
(***************************************************************************)
LEMMA ItemCounted ==
  ASSUME Types, NEW i \in DOMAIN chan
  PROVE  Queued(chan[i].kind) >= 1
<1>1. QueuedItems(chan[i].kind) # {}
  BY DEF QueuedItems
<1>2. Cardinality(QueuedItems(chan[i].kind)) \in Nat /\ Cardinality(QueuedItems(chan[i].kind)) # 0
  BY <1>1, QueuedFacts, FS_EmptySet
<1> QED BY <1>2, QueuedFacts

-------------------------------------------------------------------------------
(***************************************************************************)
(* Every step keeps the types.                                             *)
(***************************************************************************)
LEMMA StepTypes ==
  Types /\ BuffersMeant /\ CountsExact /\ [GpuNext]_gpuVars => Types'
<1> SUFFICES ASSUME Types, BuffersMeant, CountsExact, [GpuNext]_gpuVars PROVE Types'
  OBVIOUS
<1> USE RecordFacts DEF shared, waits, guest
<1>1. ASSUME NEW t \in Threads, NEW q \in Rings, SubmitDcb(t, q) PROVE Types'
  <2>1. call' \in [Callers -> CallRecords] /\ hist' \in Histories
    BY <1>1, NewCallSteps, CallWrites DEF Moves, Past
  <2> QED BY <1>1, <2>1 DEF SubmitDcb, Types
<1>2. ASSUME NEW t \in Callers, SendWork(t) PROVE Types'
  <2>1. call' \in [Callers -> CallRecords]
    BY <1>2, CallSteps DEF Moves
  <2>2. call[t].item \in Items
    BY DEF Types, CallRecords
  <2>3. chan' \in Seq(Items) /\ Len(chan') <= Depth
    BY <1>2, <2>2, ChanFacts DEF SendWork
  <2> QED BY <1>2, <2>1, <2>3 DEF SendWork, Types
<1>3. ASSUME NEW t \in Callers, SubmitInline(t) PROVE Types'
  <2>1. inFlight - 1 \in Nat
    <3>1. CallersAt("submit", {"sending"}) >= 1
      BY <1>3, CallerCounted DEF SubmitInline, In
    <3>2. CallersAt("submit", {"sending"}) \in Nat /\ Queued("submit") \in Nat
          /\ AtWorker("submit") \in Nat /\ inFlight \in Nat
      BY CountFacts, QueuedFacts DEF AtWorker, Types
    <3>3. inFlight >= 1
      BY <3>1, <3>2 DEF CountsExact
    <3> QED BY <3>2, <3>3
  <2>2. call' \in [Callers -> CallRecords] /\ label' \in [Labels -> BOOLEAN] /\ hist' \in Histories
    BY <1>3, CallSteps, CallWrites DEF Moves, Past
  <2> QED BY <1>3, <2>1, <2>2 DEF SubmitInline, Types
<1>4. ASSUME NEW t \in Callers, FlushRefused(t) \/ Acquire(t) \/ AdmitFlush(t) \/ Drained(t)
      PROVE  Types'
  <2>1. /\ permits' \in 0..FramesInFlight
        /\ UNCHANGED <<lifecycle, worker, chan, inFlight, waits, guest, w, used, hist>>
    BY <1>4, ValueFacts, LimitsAssumption
       DEF FlushRefused, Acquire, AdmitFlush, Drained, Types
  <2>2. call' \in [Callers -> CallRecords]
    BY <1>4, CallSteps DEF Moves
  <2>3. lock' \in Callers \cup {Nobody}
    BY <1>4 DEF FlushRefused, Acquire, AdmitFlush, Drained, Types
  <2> QED BY <2>1, <2>2, <2>3 DEF Types
<1>5. ASSUME NEW t \in Callers, FlushInline(t) PROVE Types'
  <2>1. /\ label' \in [Labels -> BOOLEAN] /\ deferred' = {} /\ memory' = memory
        /\ hist' \in Histories
    BY <1>5, CallWrites DEF Writes, Past
  <2>2. call' \in [Callers -> CallRecords]
    BY <1>5, CallSteps DEF Moves
  <2> QED BY <1>5, <2>1, <2>2 DEF FlushInline, Types
<1>6. CASE Shutdown \/ SendShutdown \/ Close
  <2>1. call' \in [Callers -> CallRecords]
    BY <1>6, HostSteps DEF Moves
  <2>2. chan' \in Seq(Items) /\ Len(chan') <= Depth
    <3>1. CASE SendShutdown
      <4>1. \/ chan' = chan
            \/ Len(chan) < Depth /\ chan' = Append(chan, ShutdownItem)
        BY <3>1 DEF SendShutdown
      <4>2. ShutdownItem \in Items
        OBVIOUS
      <4>3. chan \in Seq(Items) /\ Len(chan) <= Depth
        BY DEF Types
      <4>4. Len(chan) < Depth => /\ Append(chan, ShutdownItem) \in Seq(Items)
                                 /\ Len(Append(chan, ShutdownItem)) <= Depth
        BY <4>2, ChanFacts
      <4> QED BY ONLY <4>1, <4>3, <4>4
    <3>2. CASE Shutdown \/ Close
      BY <3>2 DEF Shutdown, Close, Types
    <3> QED BY <1>6, <3>1, <3>2
  <2>3. /\ lifecycle' \in {"Open", "Closing", "Closed"} /\ memory' \in BOOLEAN
        /\ UNCHANGED <<lock, worker, inFlight, permits, waits, deferred, label, w, hist>>
    BY <1>6 DEF Shutdown, SendShutdown, Close, Types
  <2> QED BY <2>1, <2>2, <2>3 DEF Types
<1>7. ASSUME NEW t \in Threads, Flip(t) \/ WaitIdle(t) PROVE Types'
  <2>1. call' \in [Callers -> CallRecords]
    BY <1>7, NewCallSteps DEF Moves
  <2> QED BY <1>7, <2>1 DEF Flip, WaitIdle, Types
<1>8. ASSUME NEW t \in Threads, NEW l \in GuestLabels, Store(t, l) PROVE Types'
  <2>1. label' \in [Labels -> BOOLEAN] /\ hist' \in Histories
    BY <1>8, CallWrites DEF Writes, Past
  <2> QED BY <1>8, <2>1 DEF Store, Types
<1>9. CASE RecvSubmit
  <2>1. /\ chan' \in Seq(Items) /\ Len(chan') <= Depth
        /\ Head(chan).ring \in Rings /\ Head(chan).n \in Nat
    BY <1>9, ChanFacts DEF RecvSubmit, Items
  <2>2. w' \in Works /\ hist' \in Histories
    <3>1. CASE Suspended(Head(chan).ring)
      BY <1>9, <3>1, RecvSteps DEF Types
    <3>2. CASE ~Suspended(Head(chan).ring)
      BY <1>9, <3>2, RecvSteps DEF Begins, Past
    <3> QED BY <3>1, <3>2
  <2>3. Append(pend[Head(chan).ring], Head(chan).n) \in Seq(Nat)
    BY <2>1 DEF Types
  <2>4. pend' \in {pend, [pend EXCEPT ![Head(chan).ring] = Append(@, Head(chan).n)]}
    BY <1>9, RecvSteps
  <2>5. pend' \in [Rings -> Seq(Nat)]
    <3>1. pend \in [Rings -> Seq(Nat)]
      BY DEF Types
    <3> QED BY ONLY <2>1, <2>3, <2>4, <3>1
  <2> QED BY <1>9, <2>1, <2>2, <2>5 DEF RecvSubmit, Types
<1>10. CASE RecvFlush \/ RecvShutdown
  <2>1. chan' \in Seq(Items) /\ Len(chan') <= Depth
    BY <1>10, ChanFacts DEF RecvFlush, RecvShutdown
  <2>2. w' \in Works
    BY <1>10, RecvSteps DEF RecvShutdown, Types
  <2> QED BY <1>10, <2>1, <2>2 DEF RecvFlush, RecvShutdown, Types
<1>11. CASE FlushItem
  <2>1. /\ label' \in [Labels -> BOOLEAN] /\ deferred' = {} /\ memory' = memory
        /\ hist' \in Histories
    BY <1>11, CallWrites DEF Writes, Past
  <2> QED BY <1>11, <2>1, WorkFacts DEF FlushItem, Types
<1>12. CASE FinishItem
  <2>1. w' \in Works
    BY <1>12, RecvSteps
  <2>2. call' \in [Callers -> CallRecords]
    BY <1>12 DEF FinishItem, Types
  <2>3. inFlight' \in Nat /\ permits' \in 0..FramesInFlight
    BY <1>12, ValueFacts DEF FinishItem, Types, PermitReturned
  <2> QED BY <1>12, <2>1, <2>2, <2>3 DEF FinishItem, Types
<1>13. CASE WalkRelease
  <2>1. /\ w' \in Works /\ Packet.label \in Labels /\ w.ring \in Rings
        /\ label' \in [Labels -> BOOLEAN] /\ hist' \in Histories
    BY <1>13, WalkSteps DEF WalksOn, Writes, Past, Types, Works
  <2>2. produced' \in [Rings -> SUBSET Labels]
    BY <1>13, <2>1 DEF WalkRelease, Types
  <2> QED BY <1>13, <2>1, <2>2 DEF WalkRelease, Types
<1>14. CASE WalkDispatch \/ WalkWait
  <2>1. w' \in Works /\ Packet.label \in Labels
    BY <1>14, WalkSteps DEF WalksOn
  <2> QED BY <1>14, <2>1 DEF WalkDispatch, WalkWait, Types
<1>15. CASE WalkFlushes
  BY <1>15, WalkSteps DEF WalkFlushes, Writes, Past, Types
<1>16. CASE WalkEnds
  <2>1. /\ susp' = Latched(produced[w.ring]) /\ w' = AfterWalk
        /\ produced' = [produced EXCEPT ![w.ring] = {}]
    BY <1>16 DEF WalkEnds, TakeProduced
  <2>2. susp' \in [Rings -> Buffers] /\ w' \in Works
    BY <2>1, ValueFacts, WorkFacts
  <2> QED BY <1>16, <2>1, <2>2 DEF WalkEnds, Types
<1>17. CASE WalkSuspends
  <2>1. /\ susp' \in [Rings -> Buffers] /\ w' \in Works /\ w.ring \in Rings
        /\ produced' = [produced EXCEPT ![w.ring] = {}] /\ hist' \in Histories
    BY <1>17, WalkSteps, WorkFacts, ZenonT(40) DEF WalkSuspends, TakeProduced, Types, Works, Past
  <2> QED BY <1>17, <2>1 DEF WalkSuspends, Types
<1>18. CASE WalkFails
  <2>1. /\ susp' \in [Rings -> Buffers] /\ w.ring \in Rings /\ hist' \in Histories
        /\ produced' \in {produced, [produced EXCEPT ![w.ring] = {}]}
    <3>1. \/ susp' = Latched(produced[w.ring]) /\ produced' = [produced EXCEPT ![w.ring] = {}]
          \/ susp' = susp /\ produced' = produced
      BY <1>18, WalkSteps
    <3>2. hist' \in Histories
      BY <1>18, WalkSteps DEF Past
    <3>3. Latched(produced[w.ring]) \in [Rings -> Buffers] /\ susp \in [Rings -> Buffers]
      BY ValueFacts DEF Types
    <3>4. w.ring \in Rings
      BY DEF Types, Works
    <3> QED BY <3>1, <3>2, <3>3, <3>4
  <2>2. w' \in Works
    BY <1>18, WorkFacts DEF WalkFails
  <2> QED BY <1>18, <2>1, <2>2 DEF WalkFails, Types
<1>19. CASE Panics
  <2>1. w' \in Works /\ hist' \in Histories
    BY <1>19, WalkSteps DEF Panics, Past
  <2> QED BY <1>19, <2>1 DEF Panics, Types
<1>20. CASE Resume
  <2>1. w' \in Works /\ hist' \in Histories /\ susp' \in [Rings -> Buffers]
    BY <1>20, RecheckSteps DEF Begins, Past
  <2> QED BY <1>20, <2>1 DEF Resume, Types
<1>21. CASE StillUnmet \/ NothingSuspended
  <2>1. susp' \in [Rings -> Buffers] /\ w' \in Works
    BY <1>21, RecheckSteps, WorkFacts DEF StillUnmet, NothingSuspended, Types
  <2> QED BY <1>21, <2>1 DEF StillUnmet, NothingSuspended, Types
<1>22. CASE DrainParked
  <2>1. w' \in Works /\ hist' \in Histories
    BY <1>22, RecheckSteps, WorkFacts DEF Begins, Past, Types
  <2>2. w.ring \in Rings /\ pend[w.ring] \in Seq(Nat)
    BY DEF Types, Works
  <2>3. pend[w.ring] # <<>> => Tail(pend[w.ring]) \in Seq(Nat)
    BY <2>2
  <2>4. pend' = pend \/ (pend[w.ring] # <<>> /\ pend' = [pend EXCEPT ![w.ring] = Tail(@)])
    BY <1>22, RecheckSteps
  <2>5. pend' \in [Rings -> Seq(Nat)]
    <3>1. pend \in [Rings -> Seq(Nat)]
      BY DEF Types
    <3> QED BY ONLY <2>2, <2>3, <2>4, <3>1
  <2> QED BY <1>22, <2>1, <2>5 DEF DrainParked, Types
<1>23. CASE UNCHANGED gpuVars
  BY <1>23 DEF gpuVars, Types
<1> QED
  BY <1>1, <1>2, <1>3, <1>4, <1>5, <1>6, <1>7, <1>8, <1>9, <1>10, <1>11, <1>12, <1>13, <1>14,
     <1>15, <1>16, <1>17, <1>18, <1>19, <1>20, <1>21, <1>22, <1>23
     DEF GpuNext, WorkerStep, HostStep, CallStep, NewCall

-------------------------------------------------------------------------------
(***************************************************************************)
(* The steps inside an item concern the worker only.                       *)
(***************************************************************************)
InsideItem ==
    \/ FlushItem \/ WalkRelease \/ WalkDispatch \/ WalkWait \/ WalkEnds \/ WalkSuspends
    \/ Resume \/ StillUnmet \/ NothingSuspended \/ DrainParked
    \/ WalkFlushes \/ WalkFails \/ Panics

(***************************************************************************)
(* Inside an item the worker touches neither the calls nor the channel.    *)
(***************************************************************************)
LEMMA InsideFacts ==
  ASSUME Types, BuffersMeant, InsideItem
  PROVE  /\ UNCHANGED <<lifecycle, lock, worker, chan, inFlight, permits, call>>
         /\ w.at # "recv" /\ w'.at # "recv" /\ w'.item = w.item
         /\ memory' = memory /\ hist'.admitted = hist.admitted
<1> USE DEF shared, waits, guest
<1>1. UNCHANGED <<lifecycle, lock, worker, chan, inFlight, permits, call>> /\ w.at # "recv"
  BY DEF InsideItem, FlushItem, WalkRelease, WalkDispatch, WalkWait, WalkEnds, WalkSuspends,
         Resume, StillUnmet, NothingSuspended, DrainParked, WalkFlushes, WalkFails, Panics,
         AtPacket
<1>2. w'.at # "recv" /\ w'.item = w.item
  <2>1. CASE FlushItem \/ WalkEnds \/ WalkSuspends \/ WalkFails \/ StillUnmet \/ NothingSuspended
    BY <2>1, WorkFacts
       DEF FlushItem, WalkEnds, WalkSuspends, WalkFails, StillUnmet, NothingSuspended
  <2>2. CASE WalkRelease \/ WalkDispatch \/ WalkWait
    BY <1>1, <2>2, WalkSteps DEF WalksOn
  <2>3. CASE Resume
    BY <2>3, RecheckSteps DEF Begins
  <2>4. CASE DrainParked
    BY <2>4, RecheckSteps, WorkFacts DEF Begins
  <2>5. CASE WalkFlushes
    BY <1>1, <2>5 DEF WalkFlushes
  <2>6. CASE Panics
    BY <2>6, WalkSteps
  <2> QED BY <2>1, <2>2, <2>3, <2>4, <2>5, <2>6 DEF InsideItem
<1>3. memory' = memory
  <2>1. CASE FlushItem \/ WalkFlushes
    BY <2>1, CallWrites, WalkSteps
  <2>2. CASE ~(FlushItem \/ WalkFlushes)
    BY <2>2 DEF InsideItem, WalkRelease, WalkDispatch, WalkWait, WalkEnds, WalkSuspends,
                Resume, StillUnmet, NothingSuspended, DrainParked, WalkFails, Panics
  <2> QED BY <2>1, <2>2
<1>4. hist'.admitted = hist.admitted
  <2>1. CASE FlushItem \/ WalkFlushes \/ WalkRelease
    BY <2>1, CallWrites, WalkSteps DEF Writes, Past
  <2>2. CASE WalkSuspends \/ WalkFails \/ Panics
    BY <2>2, WalkSteps DEF Past, Panics
  <2>3. CASE Resume
    BY <2>3, RecheckSteps DEF Begins, Past
  <2>4. CASE DrainParked
    BY <2>4, RecheckSteps DEF Begins, Past
  <2>5. CASE WalkDispatch \/ WalkWait \/ WalkEnds \/ StillUnmet \/ NothingSuspended
    BY <2>5 DEF WalkDispatch, WalkWait, WalkEnds, StillUnmet, NothingSuspended
  <2> QED BY <2>1, <2>2, <2>3, <2>4, <2>5 DEF InsideItem
<1> QED BY <1>1, <1>2, <1>3, <1>4

(***************************************************************************)
(* A caller that neither has nor takes the lifecycle lock may move to any  *)
(* place of its call.                                                      *)
(***************************************************************************)
LEMMA OpsFacts ==
  /\ OpsAt("idle") = {"none"} /\ OpsAt("sending") = {"submit", "flip", "idle"}
  /\ OpsAt("permit") = {"flip"} /\ OpsAt("admit") = {"flip", "idle"}
  /\ OpsAt("drain") = {"idle", "shutdown"} /\ OpsAt("recv") = {"idle"}
  /\ OpsAt("inline") = {"flip", "idle", "shutdown"}
  /\ OpsAt("stop") = {"shutdown"} /\ OpsAt("close") = {"shutdown"}
BY DEF OpsAt

(***************************************************************************)
(* A call that moves without sending keeps what the calls mean.            *)
(***************************************************************************)
LEMMA QuietMove ==
  ASSUME Types, CallsMeant, NEW t \in Callers,
         call[t].at # "sending", call'[t].at # "sending",
         \A u \in Callers \ {t} : call'[u] = call[u],
         call'[t].op \in OpsAt(call'[t].at),
         t # Host => call'[t].op # "shutdown",
         t = Host => call'[t].op \in {"none", "shutdown"},
         lock' = lock, lifecycle' = lifecycle \/ lock = Nobody,
         hist'.admitted = hist.admitted
  PROVE  CallsMeant'
<1>1. lock \in Callers \cup {Nobody} /\ (lock # Nobody => lock # t)
  BY DEF Types, CallsMeant, In
<1>2. \A u \in Callers : call'[u].at = "sending" => u # t /\ SentItem(u)' = SentItem(u)
  BY DEF SentItem
<1>3. \A u \in Callers :
        /\ call'[u].op \in OpsAt(call'[u].at)
        /\ u # Host => call'[u].op # "shutdown"
        /\ call'[u].at = "sending" => lock' = u /\ call'[u].item = SentItem(u)'
  BY <1>2 DEF CallsMeant, In
<1>4. call'[Host].op \in {"none", "shutdown"}
  BY RecordFacts DEF CallsMeant
<1>5. lock' # Nobody => call'[lock'].at = "sending" /\ lifecycle' = "Open"
  BY <1>1 DEF CallsMeant, In
<1> QED BY <1>3, <1>4, <1>5 DEF CallsMeant, In

(***************************************************************************)
(* Every step keeps the protocol of the callers and of the lifecycle lock. *)
(***************************************************************************)
LEMMA StepCalls ==
  Types /\ BuffersMeant /\ CallsMeant /\ FlushesAnswered /\ [GpuNext]_gpuVars => CallsMeant'
<1> SUFFICES ASSUME Types, BuffersMeant, CallsMeant, FlushesAnswered, [GpuNext]_gpuVars
             PROVE  CallsMeant'
  OBVIOUS
<1> USE RecordFacts, OpsFacts DEF shared, waits, guest, In
<1>0. call \in [Callers -> CallRecords] /\ hist.admitted \in [Rings -> Nat]
      /\ \A t \in Threads : t # Host
  BY CallersAssumption DEF Types, Histories
<1>1. ASSUME NEW t \in Threads, NEW q \in Rings, SubmitDcb(t, q) PROVE CallsMeant'
  <2>1. Moves(t, "sending", "submit", Item("submit", q, hist.admitted[q] + 1, Nobody),
              call[t].mark)
    BY <1>1, NewCallSteps
  <2>2. hist'.admitted[q] = hist.admitted[q] + 1 /\ hist.admitted[q] + 1 \in Nat
    <3>1. Past([hist.admitted EXCEPT ![q] = hist.admitted[q] + 1], hist.started, hist.since,
               hist.left, hist.broken)
      BY <1>1, CallWrites
    <3> QED BY <1>0, <3>1 DEF Past
  <2>3. call'[t].item = SentItem(t)'
    BY <2>1, <2>2 DEF SentItem, Moves
  <2>4. lock = Nobody /\ lock' = t /\ lifecycle = "Open" /\ lifecycle' = "Open" /\ t \in Callers
    BY <1>1 DEF SubmitDcb
  <2>5. \A u \in Callers \ {t} : call'[u] = call[u] /\ call[u].at # "sending"
    BY <2>1, <2>4 DEF Moves, CallsMeant
  <2>6. call'[t].at = "sending" /\ call'[t].op = "submit"
    BY <2>1 DEF Moves
  <2>7. /\ \A u \in Callers :
             /\ call'[u].op \in OpsAt(call'[u].at)
             /\ u # Host => call'[u].op # "shutdown"
             /\ call'[u].at = "sending" => lock' = u /\ call'[u].item = SentItem(u)'
        /\ call'[Host].op \in {"none", "shutdown"}
    <3>1. \A u \in Callers \ {t} :
             /\ call'[u].op \in OpsAt(call'[u].at)
             /\ u # Host => call'[u].op # "shutdown"
             /\ call'[u].at # "sending"
      BY <2>5 DEF CallsMeant
    <3>2. call'[t].op \in OpsAt(call'[t].at) /\ call'[t].op # "shutdown"
      BY <2>6
    <3>3. call'[Host].op \in {"none", "shutdown"}
      BY <1>0, <2>5 DEF CallsMeant
    <3> QED BY <2>3, <2>4, <3>1, <3>2, <3>3
  <2> QED BY <2>4, <2>6, <2>7 DEF CallsMeant
<1>2. ASSUME NEW t \in Callers, SendWork(t) \/ SubmitInline(t) \/ FlushRefused(t)
      PROVE  CallsMeant'
  <2>1. /\ lock' = Nobody /\ lock = t /\ call[t].op \in {"submit", "flip", "idle"}
        /\ lifecycle' = lifecycle
    BY <1>2 DEF SendWork, SubmitInline, FlushRefused, CallsMeant
  <2>2. /\ call'[t].at # "sending" /\ call'[t].op \in OpsAt(call'[t].at)
        /\ call'[t].op \in {"none", call[t].op}
        /\ \A u \in Callers \ {t} : call'[u] = call[u]
    <3>1. CASE SendWork(t)
      BY <2>1, <3>1, CallSteps DEF Moves
    <3>2. CASE SubmitInline(t)
      BY <2>1, <3>2, CallSteps DEF Moves
    <3>3. CASE FlushRefused(t)
      BY <2>1, <3>3, CallSteps DEF Moves, FlushRefused
    <3> QED BY <1>2, <3>1, <3>2, <3>3
  <2>3. t # Host
    BY <2>1 DEF CallsMeant
  <2>4. \A u \in Callers : call'[u].at # "sending"
    BY <2>1, <2>2 DEF CallsMeant
  <2> QED BY <1>0, <2>1, <2>2, <2>3, <2>4 DEF CallsMeant
<1>3. ASSUME NEW t \in Callers, Acquire(t) PROVE CallsMeant'
  <2>1. call[t].at = "permit" /\ call[t].op = "flip" /\ UNCHANGED <<lock, lifecycle, hist>>
    BY <1>3 DEF Acquire, CallsMeant
  <2>2. Moves(t, "admit", call[t].op, call[t].item, call[t].mark)
    BY <1>3, CallSteps
  <2>3. t # Host
    BY <2>1 DEF CallsMeant
  <2> QED BY <2>1, <2>2, <2>3, QuietMove DEF Moves
<1>4. ASSUME NEW t \in Callers, Drained(t) PROVE CallsMeant'
  <2>1. /\ call[t].at = "drain" /\ call[t].op \in {"idle", "shutdown"}
        /\ UNCHANGED <<lock, lifecycle, hist>>
    BY <1>4 DEF Drained, CallsMeant
  <2>2. PICK p \in {"inline", "admit"} :
               /\ call[t].op = "shutdown" => p = "inline"
               /\ Moves(t, p, call[t].op, call[t].item, call[t].mark)
    BY <1>4, CallSteps
  <2>3. (t = Host <=> call[t].op = "shutdown") /\ call[t].op \in OpsAt(p)
    BY <2>1, <2>2 DEF CallsMeant
  <2> QED BY <2>1, <2>2, <2>3, QuietMove DEF Moves
<1>5. ASSUME NEW t \in Callers, AdmitFlush(t) PROVE CallsMeant'
  <2>1. /\ call[t].at = "admit" /\ call[t].op \in {"flip", "idle"} /\ lock = Nobody /\ t # Host
        /\ UNCHANGED <<lifecycle, hist>>
    BY <1>5 DEF AdmitFlush, CallsMeant
  <2>2. CASE lifecycle = "Open"
    <3>1. lock' = t /\ lifecycle' = "Open"
      BY <1>5, <2>1, <2>2 DEF AdmitFlush
    <3>2. /\ call'[t].at = "sending" /\ call'[t].op = call[t].op
          /\ \A u \in Callers \ {t} : call'[u] = call[u]
          /\ call[t].op = "flip" => call'[t].item = Item("flip", "dcb", 0, Nobody)
          /\ call[t].op # "flip" => call'[t].item = Item("flush", "dcb", 0, t)
      BY <1>5, <2>1, <2>2, CallSteps DEF Moves
    <3>3. call'[t].item = SentItem(t)'
      BY <2>1, <3>2 DEF SentItem
    <3>4. \A u \in Callers \ {t} : call[u].at # "sending"
      BY <2>1 DEF CallsMeant
    <3> QED BY <1>0, <2>1, <3>1, <3>2, <3>3, <3>4 DEF CallsMeant
  <2>3. CASE lifecycle # "Open"
    <3>1. lock' = lock
      BY <1>5, <2>3 DEF AdmitFlush
    <3>2. Moves(t, "inline", call[t].op, call[t].item, call[t].mark)
      BY <1>5, <2>3, CallSteps
    <3> QED BY <2>1, <3>1, <3>2, QuietMove DEF Moves
  <2> QED BY <2>2, <2>3
<1>6. ASSUME NEW t \in Callers, FlushInline(t) PROVE CallsMeant'
  <2>1. hist'.admitted = hist.admitted
    BY <1>6, CallWrites DEF Writes, Past
  <2>2. call[t].at = "inline" /\ UNCHANGED <<lock, lifecycle>>
    BY <1>6 DEF FlushInline
  <2>3. t = Host <=> call[t].op = "shutdown"
    BY <2>2 DEF CallsMeant
  <2>4. CASE call[t].op = "shutdown"
    <3>1. Moves(t, "stop", call[t].op, call[t].item, call[t].mark)
      BY <1>6, <2>4, CallSteps
    <3> QED BY <2>1, <2>2, <2>3, <2>4, <3>1, QuietMove DEF Moves
  <2>5. CASE call[t].op # "shutdown"
    <3>1. Moves(t, "idle", "none", NoItem, Unmarked)
      BY <1>6, <2>5, CallSteps
    <3> QED BY <2>1, <2>2, <3>1, QuietMove DEF Moves
  <2> QED BY <2>4, <2>5
<1>7. CASE Shutdown \/ SendShutdown \/ Close
  <2>1. /\ call[Host].at # "sending" /\ lock' = lock /\ hist' = hist
        /\ lifecycle' = lifecycle \/ lock = Nobody
        /\ SendShutdown => call[Host].op = "shutdown"
    BY <1>7 DEF Shutdown, SendShutdown, Close, CallsMeant
  <2>2. \/ Moves(Host, "drain", "shutdown", call[Host].item, call[Host].mark)
        \/ Moves(Host, "close", "shutdown", call[Host].item, call[Host].mark)
        \/ Moves(Host, "idle", "none", NoItem, Unmarked)
    BY <1>7, <2>1, HostSteps
  <2>3. /\ call'[Host].at # "sending" /\ call'[Host].op \in OpsAt(call'[Host].at)
        /\ call'[Host].op \in {"none", "shutdown"}
        /\ \A u \in Callers \ {Host} : call'[u] = call[u]
    BY <2>2 DEF Moves
  <2> QED BY <2>1, <2>3, QuietMove
<1>8. ASSUME NEW t \in Threads, Flip(t) \/ WaitIdle(t) PROVE CallsMeant'
  <2>1. call[t].at # "sending" /\ UNCHANGED <<lock, lifecycle, hist>>
    BY <1>8 DEF Flip, WaitIdle
  <2>2. /\ call'[t].at # "sending" /\ call'[t].op \in OpsAt(call'[t].at)
        /\ call'[t].op # "shutdown"
        /\ \A u \in Callers \ {t} : call'[u] = call[u]
    BY <1>8, NewCallSteps DEF Moves
  <2> QED BY <1>0, <2>1, <2>2, QuietMove, SMTT(40)
<1>9. ASSUME NEW t \in Threads, NEW l \in GuestLabels, Store(t, l) PROVE CallsMeant'
  <2>1. hist'.admitted = hist.admitted
    BY <1>9, CallWrites DEF Writes, Past
  <2> QED BY <1>9, <2>1 DEF Store, CallsMeant, SentItem
<1>10. CASE RecvSubmit
  <2>1. hist'.admitted = hist.admitted
    BY <1>10, RecvSteps DEF Begins, Past
  <2> QED BY <1>10, <2>1 DEF RecvSubmit, CallsMeant, SentItem
<1>11. CASE RecvFlush \/ RecvShutdown \/ UNCHANGED gpuVars
  BY <1>11 DEF RecvFlush, RecvShutdown, gpuVars, CallsMeant, SentItem
<1>12. CASE InsideItem
  BY <1>12, InsideFacts DEF CallsMeant, SentItem
<1>13. CASE FinishItem
  <2>1. CASE w.item.kind = "flush"
    <3>1. w.item.done \in Threads /\ call[w.item.done].at = "recv"
      BY <1>13, <2>1 DEF FinishItem, FlushesAnswered
    <3>2. call' = [call EXCEPT ![w.item.done] = NoCall]
      BY <1>13, <2>1 DEF FinishItem
    <3>3. /\ call'[w.item.done].at = "idle" /\ call'[w.item.done].op = "none"
          /\ \A u \in Callers \ {w.item.done} : call'[u] = call[u]
      BY <1>0, <3>1, <3>2
    <3> QED BY <1>0, <1>13, <3>1, <3>3 DEF FinishItem, CallsMeant, SentItem
  <2>2. CASE w.item.kind # "flush"
    BY <1>13, <2>2 DEF FinishItem, CallsMeant, SentItem
  <2> QED BY <2>1, <2>2
<1> QED
  BY <1>1, <1>2, <1>3, <1>4, <1>5, <1>6, <1>7, <1>8, <1>9, <1>10, <1>11, <1>12, <1>13
     DEF GpuNext, WorkerStep, HostStep, CallStep, NewCall, InsideItem

(***************************************************************************)
(* The steps of the callers leave the worker's own state alone; only a     *)
(* submission makes a new sender of a buffer.                              *)
(***************************************************************************)
OutsideStep ==
    HostStep \/ Shutdown \/ \E t \in Threads : NewCall(t) \/ CallStep(t)

RecvStep == RecvSubmit \/ RecvFlush \/ RecvShutdown \/ FinishItem

(***************************************************************************)
(* Every step is one of a caller, of the worker between items, or of the   *)
(* worker inside one.                                                      *)
(***************************************************************************)
LEMMA Steps == [GpuNext]_gpuVars => OutsideStep \/ RecvStep \/ InsideItem \/ UNCHANGED gpuVars
BY DEF GpuNext, OutsideStep, RecvStep, InsideItem, WorkerStep

Submitting(u) == call[u].at = "sending" /\ call[u].op = "submit"

(***************************************************************************)
(* A caller touches neither the waits nor the worker; only SubmitDcb makes *)
(* a submitter, and only a send or the shutdown fills the channel.         *)
(***************************************************************************)
LEMMA OutsideFacts ==
  ASSUME Types, CallsMeant, OutsideStep
  PROVE  /\ UNCHANGED <<susp, pend, produced, w>>
         /\ \/ \E t \in Threads, q \in Rings : SubmitDcb(t, q)
            \/ \A u \in Callers : Submitting(u)' => call'[u] = call[u]
         /\ \/ chan' = chan
            \/ \E t \in Callers : SendWork(t)
            \/ SendShutdown
         /\ SendShutdown => lifecycle = lifecycle'
<1> USE RecordFacts DEF shared, waits, guest
<1>1. \/ \E t \in Callers : CallStep(t)
      \/ SendShutdown \/ Close \/ Shutdown
      \/ \E t \in Threads : NewCall(t)
  BY DEF OutsideStep, HostStep
<1>2. ASSUME NEW t \in Callers, CallStep(t)
      PROVE  /\ UNCHANGED <<susp, pend, produced, w>>
             /\ \A u \in Callers : Submitting(u)' => call'[u] = call[u]
             /\ chan' = chan \/ SendWork(t)
  <2>1. UNCHANGED <<susp, pend, produced, w>> /\ (chan' = chan \/ SendWork(t))
    BY <1>2 DEF CallStep, SendWork, SubmitInline, FlushRefused, Acquire, AdmitFlush, Drained,
                FlushInline
  <2>2. /\ \A u \in Callers \ {t} : call'[u] = call[u]
        /\ Submitting(t)' => call'[t] = call[t]
    <3>1. CASE SendWork(t) \/ SubmitInline(t) \/ FlushInline(t)
      BY <3>1, CallSteps DEF Moves, Submitting
    <3>2. CASE FlushRefused(t) \/ Acquire(t) \/ Drained(t)
      BY <3>2, CallSteps DEF Moves, Submitting
    <3>3. CASE AdmitFlush(t)
      <4>1. call[t].op \in {"flip", "idle"}
        BY <3>3, OpsFacts DEF AdmitFlush, CallsMeant, In
      <4> QED BY <3>3, <4>1, CallSteps DEF Moves, Submitting
    <3> QED BY <1>2, <3>1, <3>2, <3>3 DEF CallStep
  <2> QED BY <2>1, <2>2
<1>3. ASSUME SendShutdown \/ Close \/ Shutdown
      PROVE  /\ UNCHANGED <<susp, pend, produced, w>>
             /\ \A u \in Callers : Submitting(u)' => call'[u] = call[u]
             /\ chan' = chan \/ SendShutdown
             /\ SendShutdown => lifecycle = lifecycle'
  <2>1. /\ UNCHANGED <<susp, pend, produced, w>> /\ (chan' = chan \/ SendShutdown)
        /\ SendShutdown => lifecycle = lifecycle'
    BY <1>3 DEF SendShutdown, Close, Shutdown
  <2>2. /\ \A u \in Callers \ {Host} : call'[u] = call[u]
        /\ ~Submitting(Host)'
    BY <1>3, HostSteps DEF Moves, Submitting
  <2> QED BY <2>1, <2>2
<1>4. ASSUME NEW t \in Threads, NewCall(t)
      PROVE  /\ UNCHANGED <<susp, pend, produced, w>>
             /\ \/ \E q \in Rings : SubmitDcb(t, q)
                \/ \A u \in Callers : Submitting(u)' => call'[u] = call[u]
             /\ chan' = chan
  <2>1. UNCHANGED <<susp, pend, produced, w>> /\ chan' = chan
    BY <1>4 DEF NewCall, SubmitDcb, Flip, WaitIdle, Store
  <2>2. CASE Flip(t) \/ WaitIdle(t)
    BY <2>1, <2>2, NewCallSteps DEF Moves, Submitting
  <2>3. CASE \E l \in GuestLabels : Store(t, l)
    BY <2>1, <2>3 DEF Store, Submitting
  <2> QED BY <1>4, <2>1, <2>2, <2>3 DEF NewCall
<1>5. SendShutdown => lifecycle = lifecycle'
  BY DEF SendShutdown
<1> QED BY <1>1, <1>2, <1>3, <1>4, <1>5

(***************************************************************************)
(* What is sent is what the sender was admitted for.                       *)
(***************************************************************************)
LEMMA SendFacts ==
  ASSUME Types, CallsMeant, NEW t \in Callers, SendWork(t)
  PROVE  /\ chan' = Append(chan, call[t].item) /\ Len(chan) < Depth /\ call[t].item \in Items
         /\ lock = t /\ lock' = Nobody /\ lifecycle = "Open" /\ worker = "alive" /\ t \in Threads
         /\ call[t].item = SentItem(t) /\ call[t].op \in {"submit", "flip", "idle"}
         /\ call[t].op = "submit" => call[t].item.kind = "submit" /\ Submitting(t)
         /\ call[t].op = "flip" => call[t].item.kind = "flip"
         /\ call[t].op = "idle" => call[t].item.kind = "flush" /\ call[t].item.done = t
<1> USE RecordFacts
<1>1. /\ chan' = Append(chan, call[t].item) /\ Len(chan) < Depth /\ lock' = Nobody
      /\ worker = "alive" /\ call[t].at = "sending"
  BY DEF SendWork, In
<1>2. call[t].item \in Items
  BY DEF Types, CallRecords
<1>3. /\ lock = t /\ lifecycle = "Open" /\ call[t].item = SentItem(t)
      /\ call[t].op \in {"submit", "flip", "idle"}
  BY <1>1, OpsFacts DEF CallsMeant, In
<1>4. t \in Threads
  BY <1>3 DEF CallsMeant, Callers
<1>5. call[t].item.ring \in Rings /\ hist.admitted[call[t].item.ring] \in Nat /\ "dcb" \in Rings
  BY <1>2 DEF Items, Types, Histories, Rings
<1>6. /\ call[t].op = "submit" => call[t].item.kind = "submit" /\ Submitting(t)
      /\ call[t].op = "flip" => call[t].item.kind = "flip"
      /\ call[t].op = "idle" => call[t].item.kind = "flush" /\ call[t].item.done = t
  <2>1. CASE call[t].op = "submit"
    BY <1>1, <1>3, <1>5, <2>1 DEF SentItem, Submitting
  <2>2. CASE call[t].op = "flip"
    BY <1>3, <2>2 DEF SentItem, Item
  <2>3. CASE call[t].op = "idle"
    BY <1>3, <2>3 DEF SentItem, Item
  <2> QED BY <1>3, <2>1, <2>2, <2>3
<1> QED BY <1>1, <1>2, <1>3, <1>4, <1>6

-------------------------------------------------------------------------------
(***************************************************************************)
(* Every step deals with buffers that exist.                               *)
(***************************************************************************)
LEMMA StepBuffers ==
  Types /\ BuffersMeant /\ CallsMeant /\ [GpuNext]_gpuVars => BuffersMeant'
<1> SUFFICES ASSUME Types, BuffersMeant, CallsMeant, [GpuNext]_gpuVars PROVE BuffersMeant'
  OBVIOUS
<1> USE RecordFacts DEF shared, waits, guest
<1> DEFINE Pend == \A q \in Rings : \A i \in DOMAIN pend[q] : IsBuffer(q, pend[q][i])
           Chan == \A i \in DOMAIN chan : chan[i].kind = "submit" => IsBuffer(chan[i].ring, chan[i].n)
           Send == \A u \in Callers : Submitting(u) => IsBuffer(call[u].item.ring, call[u].item.n)
           Walk == w.at = "walk" => IsBuffer(w.ring, w.n) /\ w.pos >= 1 /\ ~Suspended(w.ring)
           Susp == \A q \in Rings : Suspended(q) =>
                     /\ IsBuffer(q, susp[q].n) /\ susp[q].label \in Labels
                     /\ susp[q].pos >= 2 /\ susp[q].rounds < DeadRounds
<1>0. Pend /\ Chan /\ Send /\ Walk /\ Susp
  BY DEF BuffersMeant, Submitting, In
<1>a. Pend' /\ Chan' /\ Send' /\ Walk' /\ Susp' => BuffersMeant'
  BY DEF BuffersMeant, Submitting, In
<1>b. /\ w.ring \in Rings /\ w \in Works /\ w.pos \in Nat /\ susp \in [Rings -> Buffers]
      /\ pend \in [Rings -> Seq(Nat)] /\ DeadRounds \in Nat \ {0}
  BY LimitsAssumption DEF Types, Works
<1>1. CASE OutsideStep
  <2>1. UNCHANGED <<susp, pend, w>>
    BY <1>1, OutsideFacts
  <2>2. Pend' /\ Walk' /\ Susp'
    BY <1>0, <2>1 DEF Suspended
  <2>3. Chan'
    <3>1. CASE chan' = chan
      BY <1>0, <3>1
    <3>2. ASSUME NEW t \in Callers, SendWork(t) PROVE Chan'
      <4>1. call[t].item.kind = "submit" => IsBuffer(call[t].item.ring, call[t].item.n)
        BY <1>0, <3>2, SendFacts
      <4>2. /\ DOMAIN chan' = 1..(Len(chan) + 1) /\ chan'[Len(chan) + 1] = call[t].item
            /\ \A i \in 1..Len(chan) : chan'[i] = chan[i]
            /\ DOMAIN chan = 1..Len(chan) /\ Len(chan) \in Nat
        BY <3>2, SendFacts, ChanFacts
      <4> QED BY <1>0, <4>1, <4>2
    <3>3. CASE SendShutdown /\ chan' # chan
      <4>1. chan' = Append(chan, ShutdownItem) /\ Len(chan) < Depth
        BY <3>3 DEF SendShutdown
      <4>2. /\ DOMAIN chan' = 1..(Len(chan) + 1) /\ chan'[Len(chan) + 1].kind = "shutdown"
            /\ \A i \in 1..Len(chan) : chan'[i] = chan[i]
            /\ DOMAIN chan = 1..Len(chan) /\ Len(chan) \in Nat
        BY <4>1, ChanFacts
      <4> QED BY <1>0, <4>2
    <3> QED BY <1>1, <3>1, <3>2, <3>3, OutsideFacts
  <2>4. Send'
    <3>1. ASSUME NEW t \in Threads, NEW q \in Rings, SubmitDcb(t, q) PROVE Send'
      <4>1. Moves(t, "sending", "submit", Item("submit", q, hist.admitted[q] + 1, Nobody),
                  call[t].mark)
        BY <3>1, NewCallSteps
      <4>2. IsBuffer(q, hist.admitted[q] + 1) /\ hist.admitted[q] + 1 \in Nat
        BY <3>1 DEF SubmitDcb, IsBuffer, Types, Histories
      <4>3. call'[t].item.ring = q /\ call'[t].item.n = hist.admitted[q] + 1
        BY <4>1, <4>2 DEF Moves
      <4> QED BY <1>0, <4>1, <4>2, <4>3 DEF Moves, Submitting
    <3>2. CASE \A u \in Callers : Submitting(u)' => call'[u] = call[u]
      BY <1>0, <3>2 DEF Submitting
    <3> QED BY <1>1, <3>1, <3>2, OutsideFacts
  <2> QED BY <1>a, <2>2, <2>3, <2>4
<1>2. CASE RecvStep
  <2>1. susp' = susp
    BY <1>2 DEF RecvStep, RecvSubmit, RecvFlush, RecvShutdown, FinishItem
  <2>2. Susp'
    BY <1>0, <2>1 DEF Suspended
  <2>3. Send'
    <3>1. \A u \in Callers : call'[u] = call[u] \/ call'[u] = NoCall
      BY <1>2 DEF RecvStep, RecvSubmit, RecvFlush, RecvShutdown, FinishItem, Types
    <3> QED BY <1>0, <3>1 DEF Submitting
  <2>4. Chan'
    <3>1. CASE FinishItem
      BY <1>0, <3>1 DEF FinishItem
    <3>2. CASE ~FinishItem
      <4>1. chan # <<>> /\ chan' = Tail(chan)
        BY <1>2, <3>2 DEF RecvStep, RecvSubmit, RecvFlush, RecvShutdown
      <4>2. /\ DOMAIN chan' = 1..(Len(chan) - 1) /\ \A i \in DOMAIN chan' : chan'[i] = chan[i + 1]
            /\ DOMAIN chan = 1..Len(chan) /\ Len(chan) \in Nat
        BY <4>1, ChanFacts
      <4> QED BY <1>0, <4>2
    <3> QED BY <3>1, <3>2
  <2>5. Pend' /\ Walk'
    <3>1. CASE RecvSubmit /\ Suspended(Head(chan).ring)
      <4>1. /\ w'.at # "walk"
            /\ pend' = [pend EXCEPT ![Head(chan).ring] = Append(@, Head(chan).n)]
        BY <3>1, RecvSteps
      <4>2. /\ IsBuffer(Head(chan).ring, Head(chan).n)
            /\ Head(chan).ring \in Rings /\ Head(chan).n \in Nat
        BY <1>0, <3>1, ChanFacts DEF RecvSubmit, Items
      <4>3. ASSUME NEW q \in Rings, NEW i \in DOMAIN pend'[q] PROVE IsBuffer(q, pend'[q][i])
        <5>1. CASE q = Head(chan).ring
          BY ONLY <1>0, <1>b, <4>1, <4>2, <4>3, <5>1
        <5>2. CASE q # Head(chan).ring
          BY <1>0, <1>b, <4>1, <4>3, <5>2
        <5> QED BY <5>1, <5>2
      <4> QED BY <4>1, <4>3
    <3>2. CASE RecvSubmit /\ ~Suspended(Head(chan).ring)
      <4>1. /\ w'.pos = 1 /\ w'.ring = Head(chan).ring /\ w'.n = Head(chan).n
            /\ pend' = pend /\ susp' = susp
        BY <2>1, <3>2, RecvSteps DEF Begins
      <4>2. IsBuffer(Head(chan).ring, Head(chan).n)
        BY <1>0, <3>2, ChanFacts DEF RecvSubmit
      <4> QED BY <1>0, <3>2, <4>1, <4>2 DEF Suspended
    <3>3. CASE RecvFlush \/ FinishItem
      BY <1>0, <3>3, RecvSteps DEF RecvFlush, FinishItem
    <3>4. CASE RecvShutdown
      BY <1>0, <3>4 DEF RecvShutdown, Suspended
    <3> QED BY <1>2, <3>1, <3>2, <3>3, <3>4 DEF RecvStep
  <2> QED BY <1>a, <2>2, <2>3, <2>4, <2>5
<1>3. CASE InsideItem
  <2>1. Chan' /\ Send'
    BY <1>0, <1>3, InsideFacts DEF Submitting
  <2>2. Pend'
    <3>1. CASE DrainParked /\ ~Suspended(w.ring) /\ pend[w.ring] # <<>>
      <4>1. pend' = [pend EXCEPT ![w.ring] = Tail(@)]
        BY <3>1, RecheckSteps
      <4>2. \A i \in DOMAIN Tail(pend[w.ring]) :
               i + 1 \in DOMAIN pend[w.ring] /\ Tail(pend[w.ring])[i] = pend[w.ring][i + 1]
        BY <1>b, <3>1
      <4> QED BY <1>0, <1>b, <4>1, <4>2
    <3>2. CASE DrainParked /\ (Suspended(w.ring) \/ pend[w.ring] = <<>>)
      BY <1>0, <3>2, RecheckSteps
    <3>3. CASE ~DrainParked
      BY <1>0, <1>3, <3>3
         DEF InsideItem, FlushItem, WalkRelease, WalkDispatch, WalkWait, WalkEnds, WalkSuspends,
             Resume, StillUnmet, NothingSuspended, WalkFlushes, WalkFails, Panics
    <3> QED BY <3>1, <3>2, <3>3
  <2>3. Walk' /\ Susp'
    <3>1. CASE FlushItem
      BY <1>0, <3>1, WorkFacts DEF FlushItem, Suspended
    <3>2. CASE WalkRelease \/ WalkDispatch \/ WalkWait
      <4>1. susp' = susp /\ WalksOn
        BY <3>2, WalkSteps DEF WalkRelease, WalkDispatch, WalkWait
      <4>2. w.pos >= 1 => w'.pos >= 1
        BY <1>b, <4>1 DEF WalksOn
      <4> QED BY <1>0, <4>1, <4>2 DEF WalksOn, Suspended
    <3>3. CASE WalkFlushes
      BY <1>0, <3>3 DEF WalkFlushes, Suspended
    <3>4. CASE WalkEnds \/ WalkFails
      <4>1. susp' = susp \/ susp' = Latched(produced[w.ring])
        BY <3>4, WalkSteps DEF WalkEnds
      <4>2. w'.at # "walk"
        BY <3>4, WorkFacts DEF WalkEnds, WalkFails
      <4>3. Susp'
        BY <1>0, <4>1, ValueFacts DEF Suspended
      <4> QED BY <4>2, <4>3
    <3>5. CASE WalkSuspends
      <4>1. w'.at # "walk" /\ w.at = "walk"
        BY <3>5, WorkFacts DEF WalkSuspends, AtPacket
      <4>2. w.pos + 1 >= 2 /\ 0 < DeadRounds
        BY <1>0, <1>b, <4>1
      <4>3. Susp'
        BY <1>0, <3>5, <4>1, <4>2, WalkSteps, ValueFacts DEF Suspended
      <4> QED BY <4>1, <4>3
    <3>6. CASE Panics
      BY <1>0, <3>6, WalkSteps DEF Panics, Suspended
    <3>7. CASE Resume
      <4>1. Suspended(w.ring) /\ w'.ring = w.ring /\ w'.n = susp[w.ring].n
            /\ w'.pos = susp[w.ring].pos /\ susp'[w.ring] = NoBuffer
            /\ \A q \in Rings \ {w.ring} : susp'[q] = susp[q]
        BY <3>7, RecheckSteps DEF Resume, Begins
      <4>2. susp[w.ring].pos >= 1 /\ IsBuffer(w.ring, susp[w.ring].n)
        BY <1>0, <1>b, <4>1 DEF Buffers
      <4>3. Walk'
        BY <4>1, <4>2 DEF Suspended
      <4>4. Susp'
        BY <1>0, <4>1 DEF Suspended
      <4> QED BY <4>3, <4>4
    <3>8. CASE StillUnmet
      <4>1. w'.at # "walk"
        BY <3>8, WorkFacts DEF StillUnmet
      <4>2. Suspended(w.ring) /\ susp[w.ring].rounds + 1 < DeadRounds
        BY <3>8 DEF StillUnmet
      <4>3. Susp'
        <5>1. /\ susp'[w.ring].n = susp[w.ring].n /\ susp'[w.ring].pos = susp[w.ring].pos
              /\ susp'[w.ring].label = susp[w.ring].label
              /\ susp'[w.ring].rounds = susp[w.ring].rounds + 1
              /\ \A q \in Rings \ {w.ring} : susp'[q] = susp[q]
          BY <3>8, RecheckSteps
        <5>2. /\ IsBuffer(w.ring, susp'[w.ring].n) /\ susp'[w.ring].label \in Labels
              /\ susp'[w.ring].pos >= 2 /\ susp'[w.ring].rounds < DeadRounds
          BY <1>0, <1>b, <4>2, <5>1
        <5> QED BY <1>0, <5>1, <5>2 DEF Suspended
      <4> QED BY <4>1, <4>3
    <3>9. CASE NothingSuspended
      BY <1>0, <3>9, WorkFacts DEF NothingSuspended, Suspended
    <3>10. CASE DrainParked
      <4>1. susp' = susp
        BY <3>10 DEF DrainParked
      <4>2. CASE ~Suspended(w.ring) /\ pend[w.ring] # <<>>
        <5>1. /\ w'.ring = w.ring /\ w'.n = Head(pend[w.ring]) /\ w'.pos = 1
          BY <3>10, <4>2, RecheckSteps DEF Begins
        <5>2. Head(pend[w.ring]) = pend[w.ring][1] /\ 1 \in DOMAIN pend[w.ring]
          BY <1>b, <4>2
        <5> QED BY <1>0, <1>b, <4>1, <4>2, <5>1, <5>2 DEF Suspended
      <4>3. CASE Suspended(w.ring) \/ pend[w.ring] = <<>>
        BY <1>0, <3>10, <4>1, <4>3, RecheckSteps, WorkFacts DEF Suspended
      <4> QED BY <4>2, <4>3
    <3> QED BY <1>3, <3>1, <3>2, <3>3, <3>4, <3>5, <3>6, <3>7, <3>8, <3>9, <3>10 DEF InsideItem
  <2> QED BY <1>a, <2>1, <2>2, <2>3
<1>4. CASE UNCHANGED gpuVars
  BY <1>0, <1>a, <1>4 DEF gpuVars, Submitting, Suspended
<1> QED BY <1>1, <1>2, <1>3, <1>4, Steps

-------------------------------------------------------------------------------
(***************************************************************************)
(* Every step keeps the order of the shutdown.                             *)
(***************************************************************************)
LEMMA StepClosing ==
  /\ Types /\ BuffersMeant /\ CallsMeant /\ ClosingMeant /\ ShutdownIsLast /\ FlushesAnswered
  /\ WorkMeant /\ [GpuNext]_gpuVars
  => ClosingMeant' /\ ShutdownIsLast'
<1> SUFFICES ASSUME Types, BuffersMeant, CallsMeant, ClosingMeant, ShutdownIsLast, WorkMeant,
                    FlushesAnswered, [GpuNext]_gpuVars
             PROVE  ClosingMeant' /\ ShutdownIsLast'
  OBVIOUS
<1> USE DEF shared, waits, guest, In
<1> DEFINE Marker == \E i \in DOMAIN chan : chan[i].kind = "shutdown"
           Life == /\ lifecycle = "Closing" => call[Host].at # "idle"
                   /\ call[Host].at # "idle" => lifecycle = "Closing"
           Told == Marker \/ worker = "gone" => lifecycle = "Closed" \/ call[Host].at = "close"
           Quiet == lifecycle # "Open" /\ call[Host].at # "drain" => inFlight = 0
           Line == /\ \A i \in DOMAIN chan : chan[i].kind # "none"
                   /\ \A i \in DOMAIN chan : chan[i].kind = "shutdown" => i = Len(chan)
                   /\ worker = "gone" => chan = <<>>
<1>0. Life /\ Told /\ Quiet /\ Line
  BY DEF ClosingMeant, ShutdownIsLast
<1>a. Life' /\ Told' /\ Quiet' /\ Line' => ClosingMeant' /\ ShutdownIsLast'
  BY DEF ClosingMeant, ShutdownIsLast
<1>b. /\ \A t \in Threads : t # Host
      /\ DOMAIN chan = 1..Len(chan) /\ Len(chan) \in Nat
      /\ lifecycle \in {"Open", "Closing", "Closed"} /\ Host \in Callers /\ Threads \subseteq Callers
  BY CallersAssumption, RecordFacts, ChanFacts DEF Types
<1> HIDE DEF Life, Told, Quiet, Line
<1>1. ASSUME NEW t \in Threads, NewCall(t) PROVE ClosingMeant' /\ ShutdownIsLast'
  <2>1. UNCHANGED <<lifecycle, chan>>
    BY <1>1 DEF NewCall, SubmitDcb, Flip, WaitIdle, Store
  <2>2. call'[Host] = call[Host]
    <3>1. CASE \E q \in Rings : SubmitDcb(t, q)
      BY <1>b, <3>1, NewCallSteps DEF Moves
    <3>2. CASE Flip(t)
      BY <1>b, <3>2, NewCallSteps DEF Moves
    <3>3. CASE WaitIdle(t)
      BY <1>b, <3>3, NewCallSteps DEF Moves
    <3>4. CASE \E l \in GuestLabels : Store(t, l)
      BY <3>4 DEF Store
    <3> QED BY <1>1, <3>1, <3>2, <3>3, <3>4 DEF NewCall
  <2>3. /\ worker' = "gone" => worker = "gone"
        /\ inFlight' = inFlight \/ lifecycle = "Open"
    BY <1>1 DEF NewCall, SubmitDcb, Flip, WaitIdle, Store
  <2>10. Life'
    BY <1>0, <2>1, <2>2, <2>3, <1>b DEF Life
  <2>11. Told'
    BY <1>0, <2>1, <2>2, <2>3, <1>b DEF Told
  <2>12. Quiet'
    BY <1>0, <2>1, <2>2, <2>3, <1>b DEF Quiet
  <2>13. Line'
    BY <1>0, <2>1, <2>2, <2>3, <1>b DEF Line
  <2> QED BY <1>a, <2>10, <2>11, <2>12, <2>13
<1>2. ASSUME NEW t \in Threads, CallStep(t) PROVE ClosingMeant' /\ ShutdownIsLast'
  <2>1. UNCHANGED <<lifecycle, worker>>
    BY <1>2 DEF CallStep, SendWork, SubmitInline, FlushRefused, Acquire, AdmitFlush, Drained,
                FlushInline
  <2>2. call'[Host] = call[Host]
    BY <1>2, <1>b, CallSteps DEF CallStep, Moves
  <2>3. inFlight' = inFlight \/ lifecycle = "Open"
    <3>1. CASE SubmitInline(t)
      <4>1. lock = t /\ t # Nobody
        BY <1>b, <3>1, RecordFacts DEF SubmitInline, CallsMeant
      <4> QED BY <4>1 DEF CallsMeant
    <3>2. CASE ~SubmitInline(t)
      BY <1>2, <3>2 DEF CallStep, SendWork, FlushRefused, Acquire, AdmitFlush, Drained, FlushInline
    <3> QED BY <3>1, <3>2
  <2>4. CASE SendWork(t)
    <3>0. /\ lifecycle = "Open" /\ worker = "alive"
          /\ call[t].item.kind \in {"submit", "flip", "flush"}
      BY <1>b, <2>4, SendFacts
    <3>1. /\ lifecycle = "Open" /\ worker = "alive" /\ ~Marker
          /\ call[t].item.kind \in {"submit", "flip", "flush"}
      BY <1>0, <3>0 DEF Told, Life
    <3>2. /\ DOMAIN chan' = 1..(Len(chan) + 1) /\ chan'[Len(chan) + 1] = call[t].item
          /\ \A i \in 1..Len(chan) : chan'[i] = chan[i]
      BY <1>b, <2>4, SendFacts, ChanFacts
    <3>3. \A i \in DOMAIN chan' : chan'[i].kind \notin {"none", "shutdown"}
      BY <1>0, <1>b, <3>1, <3>2 DEF Line
    <3>10. Life'
      BY <1>0, <2>1, <2>2, <2>3, <3>1, <3>3, <1>b DEF Life
    <3>11. Told'
      BY <1>0, <2>1, <2>2, <2>3, <3>1, <3>3, <1>b DEF Told
    <3>12. Quiet'
      BY <1>0, <2>1, <2>2, <2>3, <3>1, <3>3, <1>b DEF Quiet
    <3>13. Line'
      BY <1>0, <2>1, <2>2, <2>3, <3>1, <3>3, <1>b DEF Line
    <3> QED BY <1>a, <3>10, <3>11, <3>12, <3>13
  <2>5. CASE ~SendWork(t)
    <3>1. chan' = chan
      BY <1>2, <2>5 DEF CallStep, SubmitInline, FlushRefused, Acquire, AdmitFlush, Drained,
                        FlushInline
    <3>10. Life'
      BY <1>0, <2>1, <2>2, <2>3, <3>1, <1>b DEF Life
    <3>11. Told'
      BY <1>0, <2>1, <2>2, <2>3, <3>1, <1>b DEF Told
    <3>12. Quiet'
      BY <1>0, <2>1, <2>2, <2>3, <3>1, <1>b DEF Quiet
    <3>13. Line'
      BY <1>0, <2>1, <2>2, <2>3, <3>1, <1>b DEF Line
    <3> QED BY <1>a, <3>10, <3>11, <3>12, <3>13
  <2> QED BY <2>4, <2>5
<1>3. CASE CallStep(Host)
  <2>1. Drained(Host) \/ FlushInline(Host)
    <3>1. call[Host].at \notin {"sending", "permit", "admit"}
      BY <1>b, OpsFacts DEF CallsMeant
    <3> QED BY <1>3, <3>1 DEF CallStep, SendWork, SubmitInline, FlushRefused, Acquire, AdmitFlush
  <2>2. CASE Drained(Host)
    <3>1. /\ call[Host].at = "drain" /\ inFlight = 0 /\ call[Host].op = "shutdown"
          /\ UNCHANGED <<lifecycle, worker, chan, inFlight>>
      BY <1>b, <2>2, OpsFacts DEF Drained, NothingInFlight, CallsMeant
    <3>2. call'[Host].at = "inline"
      BY <1>b, <2>2, <3>1, CallSteps DEF Moves
    <3>10. Life'
      BY <1>0, <3>1, <3>2, <1>b DEF Life
    <3>11. Told'
      BY <1>0, <3>1, <3>2, <1>b DEF Told
    <3>12. Quiet'
      BY <1>0, <3>1, <3>2, <1>b DEF Quiet
    <3>13. Line'
      BY <1>0, <3>1, <3>2, <1>b DEF Line
    <3> QED BY <1>a, <3>10, <3>11, <3>12, <3>13
  <2>3. CASE FlushInline(Host)
    <3>1. /\ call[Host].at = "inline" /\ call[Host].op = "shutdown"
          /\ UNCHANGED <<lifecycle, worker, chan, inFlight>>
      BY <1>b, <2>3, OpsFacts DEF FlushInline, CallsMeant
    <3>2. call'[Host].at = "stop"
      BY <1>b, <2>3, <3>1, CallSteps DEF Moves
    <3>10. Life'
      BY <1>0, <3>1, <3>2, <1>b DEF Life
    <3>11. Told'
      BY <1>0, <3>1, <3>2, <1>b DEF Told
    <3>12. Quiet'
      BY <1>0, <3>1, <3>2, <1>b DEF Quiet
    <3>13. Line'
      BY <1>0, <3>1, <3>2, <1>b DEF Line
    <3> QED BY <1>a, <3>10, <3>11, <3>12, <3>13
  <2> QED BY <2>1, <2>2, <2>3
<1>4. CASE Shutdown
  <2>1. call'[Host].at = "drain"
    BY <1>4, HostSteps DEF Moves
  <2>10. Life'
    BY <1>0, <1>4, <2>1, <1>b DEF Life, Shutdown
  <2>11. Told'
    BY <1>0, <1>4, <2>1, <1>b DEF Told, Shutdown
  <2>12. Quiet'
    BY <1>0, <1>4, <2>1, <1>b DEF Quiet, Shutdown
  <2>13. Line'
    BY <1>0, <1>4, <2>1, <1>b DEF Line, Shutdown
  <2> QED BY <1>a, <2>10, <2>11, <2>12, <2>13
<1>5. CASE SendShutdown
  <2>1. /\ call'[Host].at = "close" /\ call[Host].at = "stop"
        /\ UNCHANGED <<lifecycle, worker, inFlight>>
    BY <1>5, HostSteps DEF Moves, SendShutdown
  <2>2. worker # "gone" /\ ~Marker
    BY <1>0, <2>1 DEF Told, Life
  <2>3. CASE worker = "alive"
    <3>1. chan' = Append(chan, ShutdownItem) /\ Len(chan) < Depth
      BY <1>5, <2>3 DEF SendShutdown
    <3>2. /\ DOMAIN chan' = 1..(Len(chan) + 1) /\ chan'[Len(chan) + 1] = ShutdownItem
          /\ Len(chan') = Len(chan) + 1 /\ \A i \in 1..Len(chan) : chan'[i] = chan[i]
      BY <3>1, RecordFacts, ChanFacts
    <3>3. \A i \in DOMAIN chan' : /\ chan'[i].kind # "none"
                                  /\ chan'[i].kind = "shutdown" => i = Len(chan')
      BY <1>0, <1>b, <2>2, <3>2, RecordFacts DEF Line
    <3>10. Life'
      BY <1>0, <2>1, <2>2, <3>3, <1>b DEF Life
    <3>11. Told'
      BY <1>0, <2>1, <2>2, <3>3, <1>b DEF Told
    <3>12. Quiet'
      BY <1>0, <2>1, <2>2, <3>3, <1>b DEF Quiet
    <3>13. Line'
      BY <1>0, <2>1, <2>2, <3>3, <1>b DEF Line
    <3> QED BY <1>a, <3>10, <3>11, <3>12, <3>13
  <2>4. CASE worker # "alive"
    <3>1. chan' = chan
      BY <1>5, <2>4 DEF SendShutdown
    <3>10. Life'
      BY <1>0, <2>1, <2>2, <3>1, <1>b DEF Life
    <3>11. Told'
      BY <1>0, <2>1, <2>2, <3>1, <1>b DEF Told
    <3>12. Quiet'
      BY <1>0, <2>1, <2>2, <3>1, <1>b DEF Quiet
    <3>13. Line'
      BY <1>0, <2>1, <2>2, <3>1, <1>b DEF Line
    <3> QED BY <1>a, <3>10, <3>11, <3>12, <3>13
  <2> QED BY <2>3, <2>4
<1>6. CASE Close
  <2>1. /\ call'[Host].at = "idle" /\ call[Host].at = "close" /\ lifecycle' = "Closed"
        /\ UNCHANGED <<worker, inFlight, chan>>
    BY <1>6, HostSteps DEF Moves, Close
  <2>10. Life'
    BY <1>0, <2>1, <1>b DEF Life
  <2>11. Told'
    BY <1>0, <2>1, <1>b DEF Told
  <2>12. Quiet'
    BY <1>0, <2>1, <1>b DEF Quiet, Life
  <2>13. Line'
    BY <1>0, <2>1, <1>b DEF Line
  <2> QED BY <1>a, <2>10, <2>11, <2>12, <2>13
<1>7. CASE RecvStep
  <2>1. UNCHANGED lifecycle /\ call'[Host] = call[Host]
    <3>1. CASE FinishItem
      <4>1. w.item.kind = "flush" => w.item.done \in Threads
        BY <3>1 DEF FinishItem, FlushesAnswered
      <4> QED BY <1>b, <3>1, <4>1 DEF FinishItem, Types
    <3>2. CASE ~FinishItem
      BY <1>7, <3>2 DEF RecvStep, RecvSubmit, RecvFlush, RecvShutdown
    <3> QED BY <3>1, <3>2
  <2>2. CASE FinishItem
    <3>1. UNCHANGED <<worker, chan>> /\ (inFlight = 0 => inFlight' = 0)
      BY <2>2 DEF FinishItem
    <3>10. Life'
      BY <1>0, <2>1, <3>1, <1>b DEF Life
    <3>11. Told'
      BY <1>0, <2>1, <3>1, <1>b DEF Told
    <3>12. Quiet'
      BY <1>0, <2>1, <3>1, <1>b DEF Quiet
    <3>13. Line'
      BY <1>0, <2>1, <3>1, <1>b DEF Line
    <3> QED BY <1>a, <3>10, <3>11, <3>12, <3>13
  <2>3. CASE ~FinishItem
    <3>1. /\ chan # <<>> /\ chan' = Tail(chan) /\ inFlight' = inFlight /\ worker = "alive"
          /\ worker' = "gone" => chan[1].kind = "shutdown"
      BY <1>7, <2>3, ChanFacts DEF RecvStep, RecvSubmit, RecvFlush, RecvShutdown
    <3>2. /\ DOMAIN chan' = 1..(Len(chan) - 1) /\ Len(chan') = Len(chan) - 1
          /\ \A i \in DOMAIN chan' : chan'[i] = chan[i + 1] /\ i + 1 \in DOMAIN chan
          /\ 1 \in DOMAIN chan /\ chan' \in Seq(Items)
      BY <1>b, <3>1, ChanFacts
    <3>3. \A i \in DOMAIN chan' : /\ chan'[i].kind # "none"
                                  /\ chan'[i].kind = "shutdown" => i = Len(chan')
      BY <1>0, <1>b, <3>2 DEF Line
    <3>4. worker' = "gone" => chan' = <<>> /\ Marker
      <4>1. worker' = "gone" => Len(chan') = 0 /\ Marker
        BY <1>0, <1>b, <3>1, <3>2 DEF Line
      <4> QED BY <3>2, <4>1, EmptySeq
    <3>5. Marker' => Marker
      BY <3>2
    <3>10. Life'
      BY <1>0, <2>1, <3>1, <3>3, <3>4, <3>5, <1>b DEF Life
    <3>11. Told'
      BY <1>0, <2>1, <3>1, <3>3, <3>4, <3>5, <1>b DEF Told
    <3>12. Quiet'
      BY <1>0, <2>1, <3>1, <3>3, <3>4, <3>5, <1>b DEF Quiet
    <3>13. Line'
      BY <1>0, <2>1, <3>1, <3>3, <3>4, <3>5, <1>b DEF Line
    <3> QED BY <1>a, <3>10, <3>11, <3>12, <3>13
  <2> QED BY <2>2, <2>3
<1>8. CASE InsideItem
  <2>1. Life'
    BY <1>0, <1>8, InsideFacts, <1>b DEF Life
  <2>2. Told'
    BY <1>0, <1>8, InsideFacts, <1>b DEF Told
  <2>3. Quiet'
    BY <1>0, <1>8, InsideFacts, <1>b DEF Quiet
  <2>4. Line'
    BY <1>0, <1>8, InsideFacts, <1>b DEF Line
  <2> QED BY <1>a, <2>1, <2>2, <2>3, <2>4
<1>9. CASE UNCHANGED gpuVars
  <2>1. Life'
    BY <1>0, <1>9, <1>b DEF Life, gpuVars
  <2>2. Told'
    BY <1>0, <1>9, <1>b DEF Told, gpuVars
  <2>3. Quiet'
    BY <1>0, <1>9, <1>b DEF Quiet, gpuVars
  <2>4. Line'
    BY <1>0, <1>9, <1>b DEF Line, gpuVars
  <2> QED BY <1>a, <2>1, <2>2, <2>3, <2>4
<1> QED BY <1>a, <1>1, <1>2, <1>3, <1>4, <1>5, <1>6, <1>7, <1>8, <1>9, Steps
        DEF OutsideStep, HostStep

(***************************************************************************)
(* Every step keeps the items of the worker and the rendezvous of flushes. *)
(***************************************************************************)
LEMMA StepWork ==
  /\ Types /\ BuffersMeant /\ CallsMeant /\ ClosingMeant /\ WorkMeant /\ [GpuNext]_gpuVars
  => WorkMeant'
<1> SUFFICES ASSUME Types, BuffersMeant, CallsMeant, ClosingMeant, WorkMeant, [GpuNext]_gpuVars
             PROVE  WorkMeant'
  OBVIOUS
<1> USE RecordFacts DEF shared, waits, guest
<1>1. CASE OutsideStep
  <2>1. UNCHANGED <<susp, pend, w>>
    BY <1>1, OutsideFacts
  <2>2. \/ worker' = worker
        \/ worker = "none" /\ worker' \in {"alive", "failed"} /\ chan' = chan
    <3>1. \A t \in Callers : CallStep(t) => worker' = worker
      BY DEF CallStep, SendWork, SubmitInline, FlushRefused, Acquire, AdmitFlush, Drained,
             FlushInline
    <3>2. SendShutdown \/ Close \/ Shutdown => worker' = worker
      BY DEF Shutdown, SendShutdown, Close
    <3>3. \A t \in Threads : Flip(t) \/ WaitIdle(t) => worker' = worker
      BY DEF Flip, WaitIdle
    <3>4. \A t \in Threads, l \in GuestLabels : Store(t, l) => worker' = worker
      BY DEF Store
    <3>5. \A t \in Threads, q \in Rings : SubmitDcb(t, q) =>
            \/ worker' = worker
            \/ worker = "none" /\ worker' \in {"alive", "failed"} /\ chan' = chan
      BY DEF SubmitDcb
    <3> QED BY <1>1, <3>1, <3>2, <3>3, <3>4, <3>5 DEF OutsideStep, HostStep, NewCall
  <2>3. worker \in {"none", "failed"} => chan' = chan
    <3>1. \A t \in Callers : SendWork(t) => worker = "alive"
      BY DEF SendWork
    <3>2. SendShutdown /\ worker # "alive" => chan' = chan
      BY DEF SendShutdown
    <3> QED BY <1>1, <3>1, <3>2, OutsideFacts
  <2> QED BY <2>1, <2>2, <2>3 DEF WorkMeant, Suspended
<1>2. CASE RecvStep
  <2>1. CASE FinishItem
    <3>1. w'.at = "recv" /\ UNCHANGED <<worker, chan, susp, pend>>
      BY <2>1, RecvSteps DEF FinishItem
    <3> QED BY <3>1 DEF WorkMeant, Suspended
  <2>2. CASE ~FinishItem
    <3>1. worker = "alive" /\ worker' \in {"alive", "gone"} /\ w.at = "recv"
      BY <1>2, <2>2 DEF RecvStep, RecvSubmit, RecvFlush, RecvShutdown
    <3>2. w'.at # "recv" => worker' = "alive" /\ w'.item.kind \in {"submit", "flip", "flush"}
      BY <1>2, <2>2, <3>1, RecvSteps DEF RecvStep, RecvSubmit, RecvFlush, RecvShutdown, Begins
    <3> QED BY <3>1, <3>2 DEF WorkMeant
  <2> QED BY <2>1, <2>2
<1>3. CASE InsideItem
  <2>1. worker' = worker /\ w.at # "recv" /\ w'.item = w.item
    BY <1>3, InsideFacts
  <2>2. worker = "alive"
    BY <2>1 DEF WorkMeant
  <2> QED BY <2>1, <2>2 DEF WorkMeant
<1>4. CASE UNCHANGED gpuVars
  BY <1>4 DEF gpuVars, WorkMeant, Suspended
<1> QED BY <1>1, <1>2, <1>3, <1>4, Steps

(***************************************************************************)
(* Only the worker moves a caller that waits for its flush.                *)
(***************************************************************************)
LEMMA ReceiversStay ==
  ASSUME Types, CallsMeant, OutsideStep, NEW u \in Callers, call[u].at = "recv"
  PROVE  call'[u] = call[u]
<1> USE RecordFacts
<1>1. ASSUME NEW t \in Callers, CallStep(t) PROVE call'[u] = call[u]
  <2>1. t # u
    BY <1>1 DEF CallStep, SendWork, SubmitInline, FlushRefused, Acquire, AdmitFlush, Drained,
                FlushInline, In
  <2>2. \A v \in Callers \ {t} : call'[v] = call[v]
    <3>1. CASE SendWork(t) \/ SubmitInline(t) \/ FlushInline(t)
      BY <3>1, CallSteps DEF Moves
    <3>2. CASE FlushRefused(t) \/ Acquire(t) \/ Drained(t)
      BY <3>2, CallSteps DEF Moves
    <3>3. CASE AdmitFlush(t)
      BY <3>3, CallSteps DEF Moves
    <3> QED BY <1>1, <3>1, <3>2, <3>3 DEF CallStep
  <2> QED BY <2>1, <2>2
<1>2. ASSUME SendShutdown \/ Close \/ Shutdown PROVE call'[u] = call[u]
  <2>1. Host # u
    BY <1>2 DEF SendShutdown, Close, Shutdown, In
  <2>2. \A v \in Callers \ {Host} : call'[v] = call[v]
    BY <1>2, HostSteps DEF Moves
  <2> QED BY <2>1, <2>2
<1>3. ASSUME NEW t \in Threads, NewCall(t) PROVE call'[u] = call[u]
  <2>1. t # u
    BY <1>3 DEF NewCall, SubmitDcb, Flip, WaitIdle, Store, In
  <2>2. CASE \E q \in Rings : SubmitDcb(t, q)
    BY <2>1, <2>2, NewCallSteps DEF Moves
  <2>3. CASE Flip(t)
    BY <2>1, <2>3, NewCallSteps DEF Moves
  <2>4. CASE WaitIdle(t)
    BY <2>1, <2>4, NewCallSteps DEF Moves
  <2>5. CASE \E l \in GuestLabels : Store(t, l)
    BY <2>5 DEF Store
  <2> QED BY <1>3, <2>2, <2>3, <2>4, <2>5 DEF NewCall
<1> QED BY <1>1, <1>2, <1>3 DEF OutsideStep, HostStep

(***************************************************************************)
(* Every step keeps the rendezvous of the flushes: each is answered once,  *)
(* to a caller that waits for it.                                          *)
(***************************************************************************)
LEMMA StepFlushes ==
  /\ Types /\ BuffersMeant /\ CallsMeant /\ FlushesAnswered /\ [GpuNext]_gpuVars
  => FlushesAnswered'
<1> SUFFICES ASSUME Types, BuffersMeant, CallsMeant, FlushesAnswered, [GpuNext]_gpuVars
             PROVE  FlushesAnswered'
  OBVIOUS
<1> USE DEF shared, waits, guest, In
<1> DEFINE Queue == \A i \in DOMAIN chan : chan[i].kind = "flush" =>
                      chan[i].done \in Threads /\ call[chan[i].done].at = "recv"
           Once == \A i, j \in DOMAIN chan :
                     chan[i].kind = "flush" /\ chan[j].kind = "flush" /\ chan[j].done = chan[i].done
                     => i = j
           Held == w.at # "recv" /\ w.item.kind = "flush" =>
                     w.item.done \in Threads /\ call[w.item.done].at = "recv"
           Apart == w.at # "recv" /\ w.item.kind = "flush" =>
                      \A i \in DOMAIN chan : chan[i].kind = "flush" => w.item.done # chan[i].done
<1>0. Queue /\ Once /\ Held /\ Apart
  BY DEF FlushesAnswered
<1>a. Queue' /\ Once' /\ Held' /\ Apart' => FlushesAnswered'
  BY DEF FlushesAnswered
<1>b. /\ DOMAIN chan = 1..Len(chan) /\ Len(chan) \in Nat
      /\ Host \in Callers /\ Threads \subseteq Callers
  BY RecordFacts, ChanFacts
<1> HIDE DEF Queue, Once, Held, Apart
<1>1. CASE OutsideStep
  <2>1. w' = w /\ \A u \in Callers : call[u].at = "recv" => call'[u] = call[u]
    BY <1>1, OutsideFacts, ReceiversStay
  <2>2. Held'
    BY <1>0, <1>b, <2>1 DEF Held
  <2>3. CASE chan' = chan
    <3>1. Queue'
      BY <1>0, <1>b, <2>1, <2>3 DEF Queue
    <3>2. Once' /\ Apart'
      BY <1>0, <2>1, <2>3 DEF Once, Apart
    <3> QED BY <1>a, <2>2, <3>1, <3>2
  <2>4. ASSUME NEW t \in Callers, SendWork(t) PROVE FlushesAnswered'
    <3>1. /\ DOMAIN chan' = 1..(Len(chan) + 1) /\ chan'[Len(chan) + 1] = call[t].item
          /\ \A i \in 1..Len(chan) : chan'[i] = chan[i]
      BY <2>4, SendFacts, ChanFacts
    <3>2. /\ call[t].item.kind = "flush" =>
               /\ call[t].op = "idle" /\ call[t].item.done = t /\ t \in Threads
               /\ call'[t].at = "recv"
          /\ call[t].at # "recv"
      <4>1. call[t].at = "sending"
        BY <2>4 DEF SendWork
      <4>2. call[t].item.kind = "flush" =>
              call[t].op = "idle" /\ call[t].item.done = t /\ t \in Threads
        BY <2>4, SendFacts
      <4>3. call[t].op = "idle" => call'[t].at = "recv"
        BY <2>4, CallSteps DEF Moves
      <4> QED BY <4>1, <4>2, <4>3
    <3>3. \A i \in 1..Len(chan) : chan[i].kind = "flush" => chan[i].done # t
      BY <1>0, <1>b, <3>2 DEF Queue
    <3>4. Queue'
      BY <1>0, <1>b, <2>1, <3>1, <3>2 DEF Queue
    <3>5. Once'
      <4>1. ASSUME NEW i \in DOMAIN chan', NEW j \in DOMAIN chan',
                   chan'[i].kind = "flush", chan'[j].kind = "flush", chan'[j].done = chan'[i].done
            PROVE  i = j
        <5>1. CASE i \in 1..Len(chan) /\ j \in 1..Len(chan)
          BY <1>0, <1>b, <3>1, <4>1, <5>1 DEF Once
        <5>2. CASE i = Len(chan) + 1 \/ j = Len(chan) + 1
          BY <1>b, <3>1, <3>2, <3>3, <4>1, <5>2
        <5> QED BY <1>b, <3>1, <5>1, <5>2
      <4> QED BY <4>1 DEF Once
    <3>6. Apart'
      BY <1>0, <1>b, <2>1, <3>1, <3>2, <3>3 DEF Apart, Held
    <3> QED BY <1>a, <2>2, <3>4, <3>5, <3>6
  <2>5. CASE SendShutdown /\ chan' # chan
    <3>1. chan' = Append(chan, ShutdownItem) /\ Len(chan) < Depth
      BY <2>5 DEF SendShutdown
    <3>2. /\ DOMAIN chan' = 1..(Len(chan) + 1) /\ chan'[Len(chan) + 1].kind = "shutdown"
          /\ \A i \in 1..Len(chan) : chan'[i] = chan[i]
      BY <3>1, RecordFacts, ChanFacts
    <3>3. \A i \in DOMAIN chan' : chan'[i].kind = "flush" => i \in DOMAIN chan /\ chan'[i] = chan[i]
      BY <1>b, <3>2
    <3>4. Queue'
      BY <1>0, <1>b, <2>1, <3>3 DEF Queue
    <3>5. Once'
      BY <1>0, <3>3 DEF Once
    <3>6. Apart'
      BY <1>0, <2>1, <3>3 DEF Apart
    <3> QED BY <1>a, <2>2, <3>4, <3>5, <3>6
  <2> QED BY <1>1, <2>3, <2>4, <2>5, OutsideFacts
<1>2. CASE RecvStep
  <2>1. CASE FinishItem
    <3>1. chan' = chan /\ w'.at = "recv" /\ w.at # "recv"
      BY <2>1, RecvSteps DEF FinishItem
    <3>2. Held' /\ Apart'
      BY <3>1 DEF Held, Apart
    <3>3. Once'
      BY <1>0, <3>1 DEF Once
    <3>4. Queue'
      <4>1. \A u \in Callers : call'[u] = call[u] \/ (w.item.kind = "flush" /\ u = w.item.done)
        BY <2>1 DEF FinishItem, Types
      <4> QED BY <1>0, <1>b, <3>1, <4>1 DEF Queue, Apart
    <3> QED BY <1>a, <3>2, <3>3, <3>4
  <2>2. CASE ~FinishItem
    <3>1. chan # <<>> /\ chan' = Tail(chan) /\ call' = call
      BY <1>2, <2>2 DEF RecvStep, RecvSubmit, RecvFlush, RecvShutdown
    <3>2. /\ DOMAIN chan' = 1..(Len(chan) - 1)
          /\ \A i \in DOMAIN chan' : chan'[i] = chan[i + 1] /\ i + 1 \in DOMAIN chan /\ i + 1 # 1
          /\ 1 \in DOMAIN chan /\ Head(chan) = chan[1]
      BY <1>b, <3>1, ChanFacts
    <3>3. w'.at # "recv" => w'.item = chan[1]
      <4>1. w.at = "recv"
        BY <1>2, <2>2 DEF RecvStep, RecvSubmit, RecvFlush, RecvShutdown
      <4>2. CASE RecvSubmit
        BY <3>2, <4>2, RecvSteps DEF Begins
      <4>3. CASE RecvFlush
        BY <3>2, <4>3, RecvSteps
      <4>4. CASE RecvShutdown
        BY <4>1, <4>4 DEF RecvShutdown
      <4> QED BY <1>2, <2>2, <4>2, <4>3, <4>4 DEF RecvStep
    <3>4. Queue'
      BY <1>0, <3>1, <3>2 DEF Queue
    <3>5. Once'
      <4>1. \A i, j \in DOMAIN chan' : i + 1 = j + 1 => i = j
        BY <1>b, <3>2
      <4> QED BY <1>0, <3>2, <4>1 DEF Once
    <3>6. Held'
      BY <1>0, <3>1, <3>2, <3>3 DEF Held, Queue
    <3>7. Apart'
      BY <1>0, <3>2, <3>3 DEF Apart, Once
    <3> QED BY <1>a, <3>4, <3>5, <3>6, <3>7
  <2> QED BY <2>1, <2>2
<1>3. CASE InsideItem
  <2>1. chan' = chan /\ call' = call /\ w'.item = w.item /\ w.at # "recv"
    BY <1>3, InsideFacts
  <2>2. Queue' /\ Once'
    BY <1>0, <2>1 DEF Queue, Once
  <2>3. Held' /\ Apart'
    BY <1>0, <2>1 DEF Held, Apart
  <2> QED BY <1>a, <2>2, <2>3
<1>4. CASE UNCHANGED gpuVars
  BY <1>4 DEF gpuVars, FlushesAnswered
<1> QED BY <1>1, <1>2, <1>3, <1>4, Steps

-------------------------------------------------------------------------------
(***************************************************************************)
(* A caller's move changes a count of the callers by one or not at all.    *)
(***************************************************************************)
LEMMA CountMoves ==
  ASSUME NEW op, NEW places, NEW t \in Callers, \A u \in Callers \ {t} : call'[u] = call[u]
  PROVE  LET was == call[t].op = op /\ call[t].at \in places
             is == call'[t].op = op /\ call'[t].at \in places
         IN  /\ was /\ is => CallersAt(op, places)' = CallersAt(op, places)
             /\ ~was /\ ~is => CallersAt(op, places)' = CallersAt(op, places)
             /\ ~was /\ is => CallersAt(op, places)' = CallersAt(op, places) + 1
             /\ was /\ ~is => CallersAt(op, places)' = CallersAt(op, places) - 1
<1> DEFINE was == call[t].op = op /\ call[t].at \in places
           is == call'[t].op = op /\ call'[t].at \in places
           S == CallersIn(op, places)
           T == {u \in Callers : call'[u].op = op /\ call'[u].at \in places}
<1>1. IsFiniteSet(S) /\ CallersAt(op, places) = Cardinality(S)
  BY CountFacts
<1>2. CallersAt(op, places)' = Cardinality(T)
  BY DEF CallersAt, Number
<1>3. \A u \in Callers \ {t} : u \in T <=> u \in S
  BY DEF CallersIn
<1>4. (t \in S <=> was) /\ (t \in T <=> is) /\ S \subseteq Callers /\ T \subseteq Callers
  BY DEF CallersIn
<1> HIDE DEF S, T, was, is
<1>5. CASE (was /\ is) \/ (~was /\ ~is)
  <2>1. S = T
    BY <1>3, <1>4, <1>5
  <2> QED BY <1>1, <1>2, <1>5, <2>1 DEF was, is
<1>6. CASE ~was /\ is
  <2>1. T = S \cup {t}
    BY <1>3, <1>4, <1>6
  <2>2. Cardinality(S \cup {t}) = Cardinality(S) + 1
    BY <1>1, <1>4, <1>6, FS_AddElement
  <2> QED BY <1>1, <1>2, <1>6, <2>1, <2>2 DEF was, is
<1>7. CASE was /\ ~is
  <2>1. T = S \ {t}
    BY <1>3, <1>4, <1>7
  <2>2. Cardinality(S \ {t}) = Cardinality(S) - 1
    BY <1>1, <1>4, <1>7, FS_RemoveElement
  <2> QED BY <1>1, <1>2, <1>7, <2>1, <2>2 DEF was, is
<1> QED BY <1>5, <1>6, <1>7 DEF was, is

(***************************************************************************)
(* What a send adds to the items of a kind.                                *)
(***************************************************************************)
LEMMA CountSent ==
  ASSUME Types, NEW x \in Items, Len(chan) < Depth, chan' = Append(chan, x), NEW kind
  PROVE  /\ x.kind = kind => Queued(kind)' = Queued(kind) + 1
         /\ x.kind # kind => Queued(kind)' = Queued(kind)
<1> DEFINE S == QueuedItems(kind)
           T == {i \in DOMAIN chan' : chan'[i].kind = kind}
<1>1. IsFiniteSet(S) /\ Queued(kind) = Cardinality(S)
  BY QueuedFacts
<1>2. Queued(kind)' = Cardinality(T)
  BY DEF Queued, Number
<1>3. /\ DOMAIN chan' = 1..(Len(chan) + 1) /\ chan'[Len(chan) + 1] = x
      /\ \A i \in 1..Len(chan) : chan'[i] = chan[i]
      /\ DOMAIN chan = 1..Len(chan) /\ Len(chan) \in Nat
  BY ChanFacts
<1>4. Len(chan) + 1 \notin S
  BY <1>3 DEF QueuedItems
<1>5. CASE x.kind = kind
  <2>1. T = S \cup {Len(chan) + 1}
    BY <1>3, <1>5 DEF QueuedItems
  <2>2. Cardinality(S \cup {Len(chan) + 1}) = Cardinality(S) + 1
    BY <1>1, <1>4, FS_AddElement
  <2> QED BY <1>1, <1>2, <1>5, <2>1, <2>2
<1>6. CASE x.kind # kind
  <2>1. T = S
    BY <1>3, <1>6 DEF QueuedItems
  <2> QED BY <1>1, <1>2, <1>6, <2>1
<1> QED BY <1>5, <1>6

(***************************************************************************)
(* What the worker takes from the items of a kind: the others keep their   *)
(* order, each one place further on.                                       *)
(***************************************************************************)
LEMMA CountTaken ==
  ASSUME Types, chan # <<>>, chan' = Tail(chan), NEW kind
  PROVE  /\ Head(chan).kind = kind => Queued(kind)' = Queued(kind) - 1
         /\ Head(chan).kind # kind => Queued(kind)' = Queued(kind)
<1> DEFINE S == QueuedItems(kind)
           T == {i \in DOMAIN chan' : chan'[i].kind = kind}
           f == [i \in T |-> i + 1]
<1>1. IsFiniteSet(S) /\ Queued(kind) = Cardinality(S)
  BY QueuedFacts
<1>2. Queued(kind)' = Cardinality(T)
  BY DEF Queued, Number
<1>3. /\ DOMAIN chan' = 1..(Len(chan) - 1) /\ \A i \in DOMAIN chan' : chan'[i] = chan[i + 1]
      /\ DOMAIN chan = 1..Len(chan) /\ Len(chan) \in Nat /\ Head(chan) = chan[1]
      /\ 1 \in DOMAIN chan
  BY ChanFacts
<1>4. \A i \in T : i \in Nat /\ i + 1 \in S \ {1}
  BY <1>3 DEF QueuedItems
<1>5. \A j \in S \ {1} : j - 1 \in T /\ (j - 1) + 1 = j
  BY <1>3 DEF QueuedItems
<1>6. ExistsBijection(T, S \ {1})
  <2>1. f \in [T -> S \ {1}]
    BY <1>4
  <2>2. \A a, b \in T : f[a] = f[b] => a = b
    BY <1>4
  <2>3. \A j \in S \ {1} : \E i \in T : f[i] = j
    BY <1>5
  <2> HIDE DEF f, S, T
  <2>4. f \in Bijection(T, S \ {1})
    BY <2>1, <2>2, <2>3, Fun_IsBij
  <2> QED BY <2>4, Fun_ExistsBij
<1>7. Cardinality(T) = Cardinality(S \ {1})
  <2>1. IsFiniteSet(S \ {1})
    BY <1>1, FS_RemoveElement
  <2>2. ExistsBijection(S \ {1}, T)
    BY <1>6, Fun_ExistsBijSymmetric
  <2> QED BY <2>1, <2>2, FS_Bijection
<1>8. 1 \in S <=> Head(chan).kind = kind
  BY <1>3 DEF QueuedItems
<1> HIDE DEF S, T, f
<1>9. Cardinality(S \ {1}) = IF 1 \in S THEN Cardinality(S) - 1 ELSE Cardinality(S)
  BY <1>1, FS_RemoveElement
<1> QED BY <1>1, <1>2, <1>7, <1>8, <1>9

(***************************************************************************)
(* Every step keeps the counters exact.                                    *)
(***************************************************************************)
LEMMA StepCounts ==
  /\ Types /\ BuffersMeant /\ CallsMeant /\ FlushesAnswered /\ CountsExact /\ [GpuNext]_gpuVars
  => CountsExact'
<1> SUFFICES ASSUME Types, BuffersMeant, CallsMeant, FlushesAnswered, CountsExact,
                    [GpuNext]_gpuVars
             PROVE  CountsExact'
  OBVIOUS
<1> USE DEF shared, waits, guest, In
<1> DEFINE subs == CallersAt("submit", {"sending"})
           flips == CallersAt("flip", {"admit", "sending"})
           qsubs == Queued("submit")
           qflips == Queued("flip")
           wsubs == AtWorker("submit")
           wflips == AtWorker("flip")
<1>0. /\ inFlight = subs + qsubs + wsubs /\ FramesInFlight = permits + flips + qflips + wflips
      /\ subs \in Nat /\ qsubs \in Nat /\ wsubs \in {0, 1} /\ inFlight \in Nat
      /\ flips \in Nat /\ qflips \in Nat /\ wflips \in {0, 1} /\ permits \in Nat
      /\ FramesInFlight \in Nat
  <2>1. inFlight \in Nat /\ permits \in Nat /\ FramesInFlight \in Nat
    BY LimitsAssumption DEF Types
  <2>2. subs \in Nat /\ qsubs \in Nat /\ flips \in Nat /\ qflips \in Nat
    BY CountFacts, QueuedFacts
  <2>3. wsubs \in {0, 1} /\ wflips \in {0, 1}
    BY DEF AtWorker
  <2> QED BY <2>1, <2>2, <2>3 DEF CountsExact
<1>a. /\ inFlight' = subs' + qsubs' + wsubs'
      /\ FramesInFlight = permits' + flips' + qflips' + wflips'
      => CountsExact'
  BY DEF CountsExact
<1>b. ASSUME NEW t \in Callers, \A u \in Callers \ {t} : call'[u] = call[u]
      PROVE  LET was == call[t].op = "submit" /\ call[t].at = "sending"
                 is == call'[t].op = "submit" /\ call'[t].at = "sending"
             IN  /\ was /\ is => subs' = subs
                 /\ ~was /\ ~is => subs' = subs
                 /\ ~was /\ is => subs' = subs + 1
                 /\ was /\ ~is => subs' = subs - 1
  BY <1>b, CountMoves
<1>c. ASSUME NEW t \in Callers, \A u \in Callers \ {t} : call'[u] = call[u]
      PROVE  LET was == call[t].op = "flip" /\ call[t].at \in {"admit", "sending"}
                 is == call'[t].op = "flip" /\ call'[t].at \in {"admit", "sending"}
             IN  /\ was /\ is => flips' = flips
                 /\ ~was /\ ~is => flips' = flips
                 /\ ~was /\ is => flips' = flips + 1
                 /\ was /\ ~is => flips' = flips - 1
  BY <1>c, CountMoves
<1>d. /\ chan' = chan => qsubs' = qsubs /\ qflips' = qflips
      /\ w' = w => wsubs' = wsubs /\ wflips' = wflips
      /\ call' = call => subs' = subs /\ flips' = flips
  BY DEF Queued, AtWorker, CallersAt
<1>e. \A t \in Callers : call[t].op = "flip" /\ call[t].at \in {"admit", "sending"} =>
        flips >= 1 /\ Released = permits + 1
  <2>1. ASSUME NEW t \in Callers, call[t].op = "flip", call[t].at \in {"admit", "sending"}
        PROVE  flips >= 1
    BY <2>1, CallerCounted
  <2>2. flips >= 1 => permits < FramesInFlight
    BY <1>0
  <2> QED BY <2>1, <2>2 DEF Released
<1> HIDE DEF subs, flips, qsubs, qflips, wsubs, wflips
<1>1. ASSUME NEW t \in Threads, NewCall(t) PROVE CountsExact'
  <2>1. t \in Callers /\ UNCHANGED <<chan, permits, w>>
    BY <1>1, RecordFacts DEF NewCall, SubmitDcb, Flip, WaitIdle, Store
  <2>2. CASE \E q \in Rings : SubmitDcb(t, q)
    <3>1. /\ call[t].at = "idle" /\ inFlight' = inFlight + 1
          /\ call'[t].at = "sending" /\ call'[t].op = "submit"
          /\ \A u \in Callers \ {t} : call'[u] = call[u]
      <4>1. PICK q \in Rings : SubmitDcb(t, q)
        BY <2>2
      <4>2. call[t].at = "idle" /\ inFlight' = inFlight + 1
        BY <4>1 DEF SubmitDcb
      <4>3. Moves(t, "sending", "submit", Item("submit", q, hist.admitted[q] + 1, Nobody),
                  call[t].mark)
        BY <4>1, NewCallSteps
      <4> QED BY <4>2, <4>3 DEF Moves
    <3>2. subs' = subs + 1
      BY <1>b, <2>1, <3>1
    <3>3. flips' = flips
      BY <1>c, <2>1, <3>1
    <3> QED BY <1>0, <1>a, <1>d, <2>1, <3>1, <3>2, <3>3
  <2>3. CASE Flip(t) \/ WaitIdle(t)
    <3>1. /\ call[t].at = "idle" /\ inFlight' = inFlight
          /\ call'[t].at \in {"inline", "permit", "drain"}
          /\ \A u \in Callers \ {t} : call'[u] = call[u]
      <4>1. call[t].at = "idle" /\ inFlight' = inFlight
        BY <2>3 DEF Flip, WaitIdle
      <4>2. /\ call'[t].at \in {"inline", "permit", "drain"}
            /\ \A u \in Callers \ {t} : call'[u] = call[u]
        BY <2>3, NewCallSteps DEF Moves
      <4> QED BY <4>1, <4>2
    <3>2. subs' = subs
      BY <1>b, <2>1, <3>1
    <3>3. flips' = flips
      BY <1>c, <2>1, <3>1
    <3> QED BY <1>0, <1>a, <1>d, <2>1, <3>1, <3>2, <3>3
  <2>4. CASE \E l \in GuestLabels : Store(t, l)
    <3>1. call' = call /\ inFlight' = inFlight
      BY <2>4 DEF Store
    <3> QED BY <1>0, <1>a, <1>d, <2>1, <3>1
  <2> QED BY <1>1, <2>2, <2>3, <2>4 DEF NewCall
<1>2. ASSUME NEW t \in Callers, CallStep(t) PROVE CountsExact'
  <2>1. w' = w
    BY <1>2 DEF CallStep, SendWork, SubmitInline, FlushRefused, Acquire, AdmitFlush, Drained,
                FlushInline
  <2>2. CASE SendWork(t)
    <3>1. /\ call[t].at = "sending" /\ UNCHANGED <<inFlight, permits>>
          /\ call'[t].at # "sending" /\ call'[t].at # "admit"
          /\ \A u \in Callers \ {t} : call'[u] = call[u]
      BY <2>2, CallSteps DEF Moves, SendWork
    <3>2. /\ chan' = Append(chan, call[t].item) /\ Len(chan) < Depth /\ call[t].item \in Items
          /\ call[t].op \in {"submit", "flip", "idle"}
          /\ call[t].op = "submit" => call[t].item.kind = "submit"
          /\ call[t].op = "flip" => call[t].item.kind = "flip"
          /\ call[t].op = "idle" => call[t].item.kind = "flush"
      BY <2>2, SendFacts
    <3>3. /\ call[t].item.kind = "submit" => qsubs' = qsubs + 1
          /\ call[t].item.kind # "submit" => qsubs' = qsubs
          /\ call[t].item.kind = "flip" => qflips' = qflips + 1
          /\ call[t].item.kind # "flip" => qflips' = qflips
      BY <3>2, CountSent DEF qsubs, qflips
    <3>4. /\ call[t].op = "submit" => subs' = subs - 1
          /\ call[t].op # "submit" => subs' = subs
      BY <1>b, <3>1
    <3>5. /\ call[t].op = "flip" => flips' = flips - 1
          /\ call[t].op # "flip" => flips' = flips
      BY <1>c, <3>1
    <3>6. wsubs' = wsubs /\ wflips' = wflips /\ inFlight' = inFlight /\ permits' = permits
      BY <1>d, <2>1, <3>1
    <3>7. \/ subs' = subs - 1 /\ qsubs' = qsubs + 1 /\ flips' = flips /\ qflips' = qflips
          \/ subs' = subs /\ qsubs' = qsubs /\ flips' = flips - 1 /\ qflips' = qflips + 1
          \/ subs' = subs /\ qsubs' = qsubs /\ flips' = flips /\ qflips' = qflips
      BY <3>2, <3>3, <3>4, <3>5
    <3>8. inFlight' = subs' + qsubs' + wsubs'
      BY ONLY <1>0, <3>6, <3>7
    <3>9. FramesInFlight = permits' + flips' + qflips' + wflips'
      BY ONLY <1>0, <3>6, <3>7
    <3> QED BY <1>a, <3>8, <3>9
  <2>3. CASE SubmitInline(t)
    <3>1. /\ call[t].at = "sending" /\ call[t].op = "submit" /\ inFlight' = inFlight - 1
          /\ UNCHANGED <<chan, permits>> /\ call'[t].at = "idle"
          /\ \A u \in Callers \ {t} : call'[u] = call[u]
      BY <2>3, CallSteps DEF Moves, SubmitInline
    <3>2. subs' = subs - 1
      BY <1>b, <3>1
    <3>3. flips' = flips
      BY <1>c, <3>1
    <3> QED BY <1>0, <1>a, <1>d, <2>1, <3>1, <3>2, <3>3
  <2>4. CASE FlushRefused(t)
    <3>1. /\ call[t].at = "sending" /\ call[t].op \in {"flip", "idle"} /\ call'[t].at = "inline"
          /\ UNCHANGED <<chan, inFlight>>
          /\ \A u \in Callers \ {t} : call'[u] = call[u]
          /\ permits' = IF call[t].op = "flip" THEN Released ELSE permits
      BY <2>4, CallSteps DEF Moves, FlushRefused
    <3>2. subs' = subs
      BY <1>b, <3>1
    <3>3. /\ call[t].op = "flip" => flips' = flips - 1
          /\ call[t].op # "flip" => flips' = flips
      BY <1>c, <3>1
    <3> QED BY <1>0, <1>a, <1>d, <1>e, <2>1, <3>1, <3>2, <3>3
  <2>5. CASE Acquire(t)
    <3>1. /\ call[t].at = "permit" /\ call'[t].at = "admit" /\ call'[t].op = call[t].op
          /\ UNCHANGED <<chan, inFlight>> /\ permits > 0 /\ permits' = permits - 1
          /\ \A u \in Callers \ {t} : call'[u] = call[u]
      BY <2>5, CallSteps DEF Moves, Acquire
    <3>2. call[t].op = "flip"
      BY <3>1, OpsFacts DEF CallsMeant
    <3>3. subs' = subs
      BY <1>b, <3>1
    <3>4. flips' = flips + 1
      BY <1>c, <3>1, <3>2
    <3> QED BY <1>0, <1>a, <1>d, <2>1, <3>1, <3>3, <3>4
  <2>6. CASE AdmitFlush(t)
    <3>1. /\ call[t].at = "admit" /\ call'[t].op = call[t].op
          /\ UNCHANGED <<chan, inFlight>>
          /\ \A u \in Callers \ {t} : call'[u] = call[u]
          /\ lifecycle = "Open" => call'[t].at = "sending" /\ permits' = permits
          /\ lifecycle # "Open" =>
               /\ call'[t].at = "inline"
               /\ permits' = IF call[t].op = "flip" THEN Released ELSE permits
      BY <2>6, CallSteps DEF Moves, AdmitFlush
    <3>2. call[t].op \in {"flip", "idle"}
      BY <3>1, OpsFacts DEF CallsMeant
    <3>3. subs' = subs
      BY <1>b, <3>1, <3>2
    <3>4. /\ call[t].op = "flip" /\ lifecycle # "Open" => flips' = flips - 1
          /\ call[t].op # "flip" \/ lifecycle = "Open" => flips' = flips
      BY <1>c, <3>1
    <3> QED BY <1>0, <1>a, <1>d, <1>e, <2>1, <3>1, <3>3, <3>4
  <2>7. CASE Drained(t) \/ FlushInline(t)
    <3>1. /\ call[t].at \in {"drain", "inline"} /\ UNCHANGED <<chan, inFlight, permits>>
          /\ call'[t].at # "sending" /\ \A u \in Callers \ {t} : call'[u] = call[u]
          /\ call'[t].at = "admit" => call'[t].op = call[t].op /\ call[t].at = "drain"
      BY <2>7, CallSteps DEF Moves, Drained, FlushInline
    <3>2. call[t].at = "drain" => call[t].op # "flip"
      BY OpsFacts DEF CallsMeant
    <3>3. subs' = subs
      BY <1>b, <3>1
    <3>4. flips' = flips
      BY <1>c, <3>1, <3>2
    <3> QED BY <1>0, <1>a, <1>d, <2>1, <3>1, <3>3, <3>4
  <2> QED BY <1>2, <2>2, <2>3, <2>4, <2>5, <2>6, <2>7 DEF CallStep
<1>3. CASE Shutdown \/ SendShutdown \/ Close
  <2>1. /\ Host \in Callers /\ call[Host].at \in {"idle", "stop", "close"}
        /\ UNCHANGED <<inFlight, permits, w>>
    BY <1>3, RecordFacts DEF Shutdown, SendShutdown, Close
  <2>2. /\ call'[Host].at \in {"drain", "close", "idle"}
        /\ \A u \in Callers \ {Host} : call'[u] = call[u]
    BY <1>3, HostSteps DEF Moves
  <2>3. subs' = subs
    BY <1>b, <2>1, <2>2
  <2>4. flips' = flips
    BY <1>c, <2>1, <2>2
  <2>5. qsubs' = qsubs /\ qflips' = qflips
    <3>1. CASE chan' = chan
      BY <1>d, <3>1
    <3>2. CASE chan' # chan
      <4>1. chan' = Append(chan, ShutdownItem) /\ Len(chan) < Depth
        BY <1>3, <3>2 DEF Shutdown, SendShutdown, Close
      <4>2. ShutdownItem \in Items /\ ShutdownItem.kind = "shutdown"
        BY RecordFacts
      <4> QED BY <4>1, <4>2, CountSent DEF qsubs, qflips
    <3> QED BY <3>1, <3>2
  <2> QED BY <1>0, <1>a, <1>d, <2>1, <2>3, <2>4, <2>5
<1>4. CASE RecvSubmit \/ RecvFlush \/ RecvShutdown
  <2>1. /\ chan # <<>> /\ chan' = Tail(chan) /\ UNCHANGED <<inFlight, permits, call>>
        /\ w.at = "recv"
    BY <1>4 DEF RecvSubmit, RecvFlush, RecvShutdown
  <2>2. /\ Head(chan).kind = "submit" => qsubs' = qsubs - 1
        /\ Head(chan).kind # "submit" => qsubs' = qsubs
        /\ Head(chan).kind = "flip" => qflips' = qflips - 1
        /\ Head(chan).kind # "flip" => qflips' = qflips
    BY <2>1, CountTaken DEF qsubs, qflips
  <2>3. wsubs = 0 /\ wflips = 0
    BY <2>1 DEF wsubs, wflips, AtWorker
  <2>4. CASE RecvSubmit \/ RecvFlush
    <3>1. w'.at # "recv" /\ w'.item = Head(chan)
      BY <2>4, RecvSteps DEF Begins
    <3>2. Head(chan).kind = "submit" => wsubs' = 1 /\ wflips' = 0
      BY <3>1 DEF wsubs, wflips, AtWorker
    <3>3. Head(chan).kind = "flip" => wsubs' = 0 /\ wflips' = 1
      BY <3>1 DEF wsubs, wflips, AtWorker
    <3>4. Head(chan).kind = "flush" => wsubs' = 0 /\ wflips' = 0
      BY <3>1 DEF wsubs, wflips, AtWorker
    <3>5. Head(chan).kind \in {"submit", "flip", "flush"}
      BY <2>4 DEF RecvSubmit, RecvFlush
    <3>6. inFlight' = subs' + qsubs' + wsubs'
      BY <1>0, <1>d, <2>1, <2>2, <2>3, <3>2, <3>3, <3>4, <3>5
    <3>7. FramesInFlight = permits' + flips' + qflips' + wflips'
      BY <1>0, <1>d, <2>1, <2>2, <2>3, <3>2, <3>3, <3>4, <3>5
    <3> QED BY <1>a, <3>6, <3>7
  <2>5. CASE RecvShutdown
    <3>1. w' = w /\ Head(chan).kind = "shutdown"
      BY <2>5 DEF RecvShutdown
    <3> QED BY <1>0, <1>a, <1>d, <2>1, <2>2, <3>1
  <2> QED BY <1>4, <2>4, <2>5
<1>5. CASE FinishItem
  <2>1. /\ chan' = chan /\ w.at # "recv" /\ w'.at = "recv"
        /\ inFlight' = (IF w.item.kind = "submit" /\ inFlight > 0 THEN inFlight - 1 ELSE inFlight)
        /\ permits' = (IF w.item.kind = "flip" THEN Released ELSE permits)
    BY <1>5, RecvSteps DEF FinishItem, PermitReturned
  <2>2. subs' = subs /\ flips' = flips
    <3>1. CASE w.item.kind # "flush"
      BY <1>5, <1>d, <3>1 DEF FinishItem
    <3>2. CASE w.item.kind = "flush"
      <4>1. w.item.done \in Callers /\ call[w.item.done].at = "recv"
        BY <2>1, <3>2, RecordFacts DEF FlushesAnswered
      <4>2. /\ call'[w.item.done].at = "idle"
            /\ \A u \in Callers \ {w.item.done} : call'[u] = call[u]
        BY <1>5, <3>2, <4>1, RecordFacts DEF FinishItem, Types
      <4>3. subs' = subs
        BY <1>b, <4>1, <4>2
      <4>4. flips' = flips
        BY <1>c, <4>1, <4>2
      <4> QED BY <4>3, <4>4
    <3> QED BY <3>1, <3>2
  <2>3. /\ wsubs' = 0 /\ wflips' = 0
        /\ wsubs = (IF w.item.kind = "submit" THEN 1 ELSE 0)
        /\ wflips = (IF w.item.kind = "flip" THEN 1 ELSE 0)
    BY <2>1 DEF wsubs, wflips, AtWorker
  <2>4. wflips = 1 => Released = permits + 1
    <3>1. wflips = 1 => permits < FramesInFlight
      BY <1>0
    <3> QED BY <3>1 DEF Released
  <2>5. inFlight' = subs' + qsubs' + wsubs'
    BY <1>0, <1>d, <2>1, <2>2, <2>3
  <2>6. FramesInFlight = permits' + flips' + qflips' + wflips'
    BY <1>0, <1>d, <2>1, <2>2, <2>3, <2>4
  <2> QED BY <1>a, <2>5, <2>6
<1>6. CASE InsideItem
  <2>1. /\ UNCHANGED <<chan, inFlight, permits, call>>
        /\ w.at # "recv" /\ w'.at # "recv" /\ w'.item = w.item
    BY <1>6, InsideFacts
  <2>2. wsubs' = wsubs /\ wflips' = wflips
    BY <2>1 DEF wsubs, wflips, AtWorker
  <2> QED BY <1>0, <1>a, <1>d, <2>1, <2>2
<1>7. CASE UNCHANGED gpuVars
  BY <1>0, <1>a, <1>d, <1>7 DEF gpuVars
<1>8. Threads \subseteq Callers /\ Host \in Callers
  BY RecordFacts
<1> QED BY <1>1, <1>2, <1>3, <1>4, <1>5, <1>6, <1>7, <1>8, Steps
        DEF OutsideStep, HostStep, RecvStep

-------------------------------------------------------------------------------
(***************************************************************************)
(* What the callers write to the labels and to the history.                *)
(***************************************************************************)
LEMMA OutsideHist ==
  ASSUME Types, CallsMeant, OutsideStep
  PROVE  /\ hist'.broken = hist.broken /\ hist'.left = hist.left
         /\ \/ /\ label' = label
               /\ Past(hist'.admitted, hist.started, hist.since, hist.left, hist.broken)
            \/ (\E ls \in SUBSET Labels : Writes(ls, "held"))
            \/ \E t \in Callers : SubmitInline(t) /\ hist'.since = hist.since
         /\ \/ hist'.admitted = hist.admitted
            \/ \E t \in Threads, q \in Rings : SubmitDcb(t, q)
         /\ \/ hist'.started = hist.started
            \/ \E t \in Callers : SubmitInline(t)
<1> USE RecordFacts DEF shared, waits, guest
<1> DEFINE Same == /\ label' = label
                   /\ Past(hist'.admitted, hist.started, hist.since, hist.left, hist.broken)
           Wrote == \E ls \in SUBSET Labels : Writes(ls, "held")
<1>a. hist' = hist /\ label' = label => Same
  BY DEF Past, Types
<1>b. Same \/ Wrote => /\ hist'.broken = hist.broken /\ hist'.left = hist.left
                       /\ hist'.started = hist.started
  BY DEF Writes, Past
<1>c. Wrote => hist'.admitted = hist.admitted
  BY DEF Writes, Past
<1> HIDE DEF Same, Wrote
<1>1. ASSUME NEW t \in Callers, CallStep(t)
      PROVE  \/ Same /\ hist'.admitted = hist.admitted
             \/ Wrote
             \/ /\ SubmitInline(t) /\ hist'.since = hist.since /\ hist'.broken = hist.broken
                /\ hist'.left = hist.left /\ hist'.admitted = hist.admitted
  <2>1. CASE SubmitInline(t)
    BY <2>1, CallWrites DEF Past
  <2>2. CASE FlushInline(t)
    BY <2>2, CallWrites DEF Wrote
  <2>3. CASE ~SubmitInline(t) /\ ~FlushInline(t)
    <3>1. hist' = hist /\ label' = label
      BY <1>1, <2>3 DEF CallStep, SendWork, FlushRefused, Acquire, AdmitFlush, Drained
    <3> QED BY <1>a, <3>1
  <2> QED BY <2>1, <2>2, <2>3
<1>2. ASSUME SendShutdown \/ Close \/ Shutdown PROVE Same /\ hist'.admitted = hist.admitted
  <2>1. hist' = hist /\ label' = label
    BY <1>2 DEF SendShutdown, Close, Shutdown
  <2> QED BY <1>a, <2>1
<1>3. ASSUME NEW t \in Threads, NewCall(t)
      PROVE  \/ Same /\ (hist'.admitted = hist.admitted \/ \E q \in Rings : SubmitDcb(t, q))
             \/ Wrote
  <2>1. CASE \E q \in Rings : SubmitDcb(t, q)
    <3>1. PICK q \in Rings : SubmitDcb(t, q)
      BY <2>1
    <3>2. Past([hist.admitted EXCEPT ![q] = hist.admitted[q] + 1], hist.started, hist.since,
               hist.left, hist.broken)
      BY <3>1, CallWrites
    <3>3. label' = label
      BY <3>1 DEF SubmitDcb
    <3> QED BY <2>1, <3>2, <3>3 DEF Past, Same
  <2>2. CASE Flip(t) \/ WaitIdle(t)
    <3>1. hist' = hist /\ label' = label
      BY <2>2 DEF Flip, WaitIdle
    <3> QED BY <1>a, <3>1
  <2>3. CASE \E l \in GuestLabels : Store(t, l)
    <3>1. PICK l \in GuestLabels : Store(t, l)
      BY <2>3
    <3>2. l \in Labels
      BY MakesAssumption
    <3>3. {l} \in SUBSET Labels /\ {} \in SUBSET Labels
      BY <3>2
    <3>4. Writes({l}, "held") \/ Writes({}, "held")
      BY <3>1, CallWrites
    <3> QED BY <3>3, <3>4 DEF Wrote
  <2> QED BY <1>3, <2>1, <2>2, <2>3 DEF NewCall
<1>4. \/ Same /\ (hist'.admitted = hist.admitted
                    \/ \E t \in Threads, q \in Rings : SubmitDcb(t, q))
      \/ Wrote
      \/ \E t \in Callers : /\ SubmitInline(t) /\ hist'.since = hist.since
                            /\ hist'.broken = hist.broken
                            /\ hist'.left = hist.left /\ hist'.admitted = hist.admitted
  BY <1>1, <1>2, <1>3 DEF OutsideStep, HostStep
<1>5. hist'.broken = hist.broken /\ hist'.left = hist.left
  BY <1>4, <1>b
<1>6. hist'.admitted = hist.admitted \/ \E t \in Threads, q \in Rings : SubmitDcb(t, q)
  BY <1>4, <1>c
<1>7. hist'.started = hist.started \/ \E t \in Callers : SubmitInline(t)
  BY <1>4, <1>b
<1> QED BY <1>4, <1>5, <1>6, <1>7 DEF Same, Wrote

(***************************************************************************)
(* What the worker's steps do to the waits: a walk begins or ends, or its  *)
(* ring is left for the next.                                              *)
(***************************************************************************)
LEMMA WaitFacts ==
  ASSUME Types, BuffersMeant
  PROVE  /\ \A ls : susp' = Latched(ls) => \A q \in Rings : Suspended(q)' <=> Suspended(q)
         /\ WalkSuspends => /\ susp'[w.ring] # NoBuffer
                            /\ \A q \in Rings \ {w.ring} : Suspended(q)' <=> Suspended(q)
         /\ Resume => /\ susp'[w.ring] = NoBuffer
                      /\ \A q \in Rings \ {w.ring} : Suspended(q)' <=> Suspended(q)
         /\ StillUnmet => \A q \in Rings : Suspended(q)' <=> Suspended(q)
<1>0. w.ring \in Rings /\ NoBuffer.rounds = 0 /\ NoBuffer.pos = 0 /\ susp \in [Rings -> Buffers]
  BY DEF Types, Works, NoBuffer
<1>1. \A ls : susp' = Latched(ls) => \A q \in Rings : Suspended(q)' <=> Suspended(q)
  BY ValueFacts DEF Suspended
<1>2. ASSUME WalkSuspends
      PROVE  /\ susp'[w.ring] # NoBuffer
             /\ \A q \in Rings \ {w.ring} : Suspended(q)' <=> Suspended(q)
  <2>1. /\ susp'[w.ring].pos = w.pos + 1
        /\ \A q \in Rings \ {w.ring} : susp'[q] = Latched(produced[w.ring])[q]
    BY <1>2, WalkSteps
  <2>2. w.pos + 1 # 0
    BY DEF Types, Works
  <2>3. susp'[w.ring] # NoBuffer
    BY <1>0, <2>1, <2>2 DEF Suspended
  <2> QED BY <2>1, <2>3, ValueFacts DEF Suspended
<1>3. ASSUME Resume
      PROVE  /\ susp'[w.ring] = NoBuffer
             /\ \A q \in Rings \ {w.ring} : Suspended(q)' <=> Suspended(q)
  BY <1>3, RecheckSteps DEF Suspended
<1>4. ASSUME StillUnmet PROVE \A q \in Rings : Suspended(q)' <=> Suspended(q)
  <2>1. /\ susp'[w.ring].rounds = susp[w.ring].rounds + 1 /\ Suspended(w.ring)
        /\ \A q \in Rings \ {w.ring} : susp'[q] = susp[q]
    BY <1>4, RecheckSteps DEF StillUnmet
  <2>2. susp[w.ring].rounds + 1 # 0
    BY <1>0 DEF Buffers
  <2>3. susp'[w.ring] # NoBuffer
    BY <1>0, <2>1, <2>2 DEF Suspended
  <2> QED BY <2>1, <2>3 DEF Suspended
<1> QED BY <1>1, <1>2, <1>3, <1>4

(***************************************************************************)
(* Every step leaves parked buffers behind a suspended one, or in front of *)
(* the worker.                                                             *)
(***************************************************************************)
LEMMA StepParked ==
  Types /\ BuffersMeant /\ CallsMeant /\ ParkedMeant /\ [GpuNext]_gpuVars => ParkedMeant'
<1> SUFFICES ASSUME Types, BuffersMeant, CallsMeant, ParkedMeant, [GpuNext]_gpuVars,
                    NEW q \in Rings, q \notin hist'.broken, pend'[q] # <<>>
             PROVE  \/ Suspended(q)'
                    \/ w'.ring = q /\ (w'.at = "drain" \/ (w'.at = "walk" /\ w'.why # "submit"))
  BY DEF ParkedMeant
<1> USE DEF shared, waits, guest
<1>0. q \notin hist.broken /\ pend[q] # <<>> =>
        Suspended(q) \/ (w.ring = q /\ (w.at = "drain" \/ (w.at = "walk" /\ w.why # "submit")))
  BY DEF ParkedMeant
<1>a. w.ring \in Rings /\ pend \in [Rings -> Seq(Nat)]
  BY DEF Types, Works
<1>1. CASE OutsideStep
  <2>1. UNCHANGED <<susp, pend, w>> /\ hist'.broken = hist.broken
    BY <1>1, OutsideFacts, OutsideHist
  <2> QED BY <1>0, <2>1 DEF Suspended
<1>2. CASE RecvStep
  <2>1. susp' = susp /\ w.at \in {"recv", "done"}
    BY <1>2 DEF RecvStep, RecvSubmit, RecvFlush, RecvShutdown, FinishItem
  <2>2. CASE RecvSubmit /\ Suspended(Head(chan).ring)
    <3>1. /\ pend' = [pend EXCEPT ![Head(chan).ring] = Append(@, Head(chan).n)] /\ hist' = hist
      BY <2>2, RecvSteps
    <3>2. q # Head(chan).ring => pend'[q] = pend[q]
      BY <1>a, <3>1
    <3> QED BY <1>0, <2>1, <2>2, <3>1, <3>2 DEF Suspended
  <2>3. CASE RecvSubmit /\ ~Suspended(Head(chan).ring)
    <3>1. pend' = pend /\ hist'.broken = hist.broken
      BY <2>3, RecvSteps DEF Begins, Past
    <3> QED BY <1>0, <2>1, <3>1 DEF Suspended
  <2>4. CASE RecvFlush \/ RecvShutdown \/ FinishItem
    <3>1. pend' = pend /\ hist' = hist
      BY <2>4 DEF RecvFlush, RecvShutdown, FinishItem
    <3> QED BY <1>0, <2>1, <3>1 DEF Suspended
  <2> QED BY <1>2, <2>2, <2>3, <2>4 DEF RecvStep
<1>3. CASE InsideItem
  <2>1. CASE FlushItem
    <3>1. w.at = "flush" /\ UNCHANGED <<susp, pend>> /\ hist'.broken = hist.broken
      BY <2>1, CallWrites DEF FlushItem, Writes, Past
    <3> QED BY <1>0, <3>1 DEF Suspended
  <2>2. CASE WalkRelease \/ WalkDispatch \/ WalkWait
    <3>1. /\ UNCHANGED <<susp, pend>> /\ w'.at = w.at /\ w'.ring = w.ring /\ w'.why = w.why
      BY <2>2, WalkSteps DEF WalkRelease, WalkDispatch, WalkWait, WalksOn
    <3>2. hist'.broken = hist.broken
      BY <2>2, WalkSteps DEF WalkDispatch, WalkWait, Writes, Past
    <3> QED BY <1>0, <3>1, <3>2 DEF Suspended
  <2>3. CASE WalkFlushes
    <3>1. UNCHANGED <<susp, pend, w>> /\ hist'.broken = hist.broken
      BY <2>3, WalkSteps DEF WalkFlushes, Writes, Past
    <3> QED BY <1>0, <3>1 DEF Suspended
  <2>4. CASE WalkEnds \/ WalkSuspends \/ WalkFails
    <3>1. w.at = "walk" /\ pend' = pend /\ w' = AfterWalk
      BY <2>4 DEF WalkEnds, WalkSuspends, WalkFails, AtPacket
    <3>2. hist'.broken = hist.broken
      BY <2>4, WalkSteps DEF WalkEnds, Past
    <3>3. \A r \in Rings : Suspended(r) => Suspended(r)'
      <4>1. susp' = susp \/ susp' = Latched(produced[w.ring]) \/ WalkSuspends
        BY <2>4, WalkSteps DEF WalkEnds
      <4> QED BY <1>a, <4>1, WaitFacts DEF Suspended
    <3>4. w.why # "submit" => w'.at = "drain" /\ w'.ring = w.ring
      BY <3>1, WorkFacts
    <3> QED BY <1>0, <3>1, <3>2, <3>3, <3>4
  <2>5. CASE Panics
    <3>1. UNCHANGED <<susp, pend>> /\ w.at \in {"walk", "flush"}
      BY <2>5 DEF Panics
    <3>2. w.at = "walk" => \/ hist'.broken = hist.broken /\ pend[w.ring] = <<>>
                           \/ hist'.broken = hist.broken \cup {w.ring}
      BY <2>5, WalkSteps DEF Past
    <3>3. w.at = "flush" => hist'.broken = hist.broken
      BY <2>5, WalkSteps DEF Past
    <3> QED BY <1>0, <3>1, <3>2, <3>3 DEF Suspended
  <2>6. CASE Resume
    <3>1. /\ w.at = "recheck" /\ pend' = pend /\ hist'.broken = hist.broken
          /\ w'.ring = w.ring /\ w'.at \in {"walk", "drain"} /\ w'.why = "resume"
      BY <2>6, RecheckSteps DEF Resume, Begins, Past
    <3>2. q # w.ring => (Suspended(q)' <=> Suspended(q))
      BY <2>6, WaitFacts
    <3> QED BY <1>0, <3>1, <3>2
  <2>7. CASE StillUnmet \/ NothingSuspended
    <3>1. w.at = "recheck" /\ pend' = pend /\ hist' = hist
      BY <2>7 DEF StillUnmet, NothingSuspended
    <3>2. Suspended(q)' <=> Suspended(q)
      BY <2>7, WaitFacts DEF NothingSuspended, Suspended
    <3> QED BY <1>0, <3>1, <3>2
  <2>8. CASE DrainParked
    <3>1. susp' = susp /\ w.at = "drain"
      BY <2>8 DEF DrainParked
    <3>2. CASE ~Suspended(w.ring) /\ pend[w.ring] # <<>>
      <4>1. /\ pend' = [pend EXCEPT ![w.ring] = Tail(@)] /\ hist'.broken = hist.broken
            /\ w'.ring = w.ring /\ w'.at \in {"walk", "drain"} /\ w'.why = "drain"
        BY <2>8, <3>2, RecheckSteps DEF Begins, Past
      <4>2. q # w.ring => pend'[q] = pend[q]
        BY <1>a, <4>1
      <4> QED BY <1>0, <3>1, <4>1, <4>2 DEF Suspended
    <3>3. CASE Suspended(w.ring) \/ pend[w.ring] = <<>>
      <4>1. pend' = pend /\ hist' = hist
        BY <2>8, <3>3, RecheckSteps
      <4> QED BY <1>0, <3>1, <3>3, <4>1 DEF Suspended
    <3> QED BY <3>2, <3>3
  <2> QED BY <1>3, <2>1, <2>2, <2>3, <2>4, <2>5, <2>6, <2>7, <2>8 DEF InsideItem
<1>4. CASE UNCHANGED gpuVars
  BY <1>0, <1>4 DEF gpuVars, Suspended
<1> QED BY <1>1, <1>2, <1>3, <1>4, Steps

-------------------------------------------------------------------------------
(***************************************************************************)
(* How the buffers flow: a buffer is sent or run by its sender, taken from *)
(* the channel to be parked or begun, or begun after it was parked.        *)
(***************************************************************************)
SentSame == \A q \in Rings : Sent(q)' = Sent(q)
SendingCounted == \A q \in Rings : Sending(q) => hist.admitted[q] >= 1
SentBy(r, n) ==
    /\ n = Sent(r) + 1 /\ Sent(r)' = n
    /\ \A q \in Rings \ {r} : Sent(q)' = Sent(q)

StartsOn(r, n) == hist'.started = [hist.started EXCEPT ![r] = Append(@, n)]
StartsNone == hist'.started = hist.started
ParksOn(r, n) == pend' = [pend EXCEPT ![r] = Append(@, n)]
Takes(r, n) ==
    /\ chan # <<>> /\ Head(chan).kind = "submit" /\ Head(chan).ring = r /\ Head(chan).n = n
    /\ chan' = Tail(chan)
    /\ w.at = "recv" /\ w'.at # "recv" /\ w'.item = Head(chan)

Flows(r, n) ==
    \/ /\ SentBy(r, n) /\ Len(chan) < Depth /\ chan' = Append(chan, Item("submit", r, n, Nobody))
       /\ pend' = pend /\ StartsNone
    \/ /\ SentBy(r, n) /\ worker = "failed" /\ chan' = chan /\ pend' = pend /\ StartsOn(r, n)
    \/ SentSame /\ Takes(r, n) /\ Suspended(r) /\ ParksOn(r, n) /\ StartsNone
    \/ SentSame /\ Takes(r, n) /\ ~Suspended(r) /\ pend' = pend /\ StartsOn(r, n)
    \/ /\ SentSame /\ chan' = chan /\ pend[r] # <<>> /\ n = Head(pend[r])
       /\ pend' = [pend EXCEPT ![r] = Tail(@)] /\ StartsOn(r, n)

Rests ==
    /\ SentSame /\ pend' = pend /\ StartsNone
    /\ \/ chan' = chan
       \/ \E x \in Items : /\ x.kind # "submit" /\ Len(chan) < Depth
                           /\ chan' = Append(chan, x)
       \/ chan # <<>> /\ Head(chan).kind # "submit" /\ chan' = Tail(chan)

(***************************************************************************)
(* A buffer that is being sent stays so as long as the lock is kept.       *)
(***************************************************************************)
LEMMA SentKept ==
  ASSUME hist'.admitted = hist.admitted, lock' = lock, lock # Nobody => call'[lock] = call[lock]
  PROVE  SentSame /\ (SendingCounted => SendingCounted')
<1>1. \A q \in Rings : Sending(q)' <=> Sending(q)
  BY DEF Sending
<1> QED BY <1>1 DEF SentSame, Sent, SendingCounted

(***************************************************************************)
(* With no submission being sent before or after, nothing is sent.         *)
(***************************************************************************)
LEMMA NoneSent ==
  ASSUME hist'.admitted = hist.admitted,
         lock # Nobody => call[lock].op # "submit", lock' # Nobody => call'[lock'].op # "submit"
  PROVE  SentSame /\ SendingCounted'
<1>1. \A q \in Rings : ~Sending(q)' /\ ~Sending(q)
  BY DEF Sending
<1> QED BY <1>1 DEF SentSame, Sent, SendingCounted

(***************************************************************************)
(* A submission that gives up the lock has been sent.                      *)
(***************************************************************************)
LEMMA SubmissionSent ==
  ASSUME Types, SendingCounted, hist'.admitted = hist.admitted,
         NEW t \in Callers, lock = t, lock' = Nobody, call[t].op = "submit", NEW r \in Rings,
         call[t].item = Item("submit", r, hist.admitted[r], Nobody)
  PROVE  SentBy(r, hist.admitted[r]) /\ SendingCounted'
<1>0. hist.admitted[r] \in Nat /\ call[t].item.ring = r /\ lock # Nobody
  BY RecordFacts DEF Types, Histories, Item
<1>1. \A q \in Rings : ~Sending(q)'
  BY DEF Sending
<1>2. Sending(r) /\ \A q \in Rings \ {r} : ~Sending(q)
  BY <1>0 DEF Sending
<1>3. hist.admitted[r] >= 1
  BY <1>2 DEF SendingCounted
<1>4. Sent(r) = hist.admitted[r] - 1 /\ \A q \in Rings \ {r} : Sent(q) = hist.admitted[q]
  BY <1>2 DEF Sent
<1>5. \A q \in Rings : Sent(q)' = hist.admitted[q]
  BY <1>1 DEF Sent
<1>6. SentBy(r, hist.admitted[r])
  BY <1>0, <1>3, <1>4, <1>5 DEF SentBy
<1> QED BY <1>1, <1>6 DEF SendingCounted

(***************************************************************************)
(* Every step lets at most one buffer flow.                                *)
(***************************************************************************)
LEMMA FlowFacts ==
  ASSUME Types, BuffersMeant, CallsMeant, FlushesAnswered, SendingCounted, [GpuNext]_gpuVars
  PROVE  /\ SendingCounted' /\ hist.broken \subseteq hist'.broken
         /\ Rests \/ \E r \in Rings, n \in Nat : Flows(r, n)
<1> USE DEF shared, waits, guest
<1> DEFINE Goal == /\ SendingCounted' /\ hist.broken \subseteq hist'.broken
                   /\ Rests \/ \E r \in Rings, n \in Nat : Flows(r, n)
<1>0. /\ hist.admitted \in [Rings -> Nat] /\ Host \in Callers /\ Threads \subseteq Callers
      /\ Nobody \notin Callers /\ lock \in Callers \cup {Nobody}
      /\ lock # Nobody => call[lock].at = "sending"
      /\ \A t \in Callers : call[t].at = "sending" => lock = t
  BY RecordFacts DEF Types, Histories, CallsMeant, In
<1>1. CASE OutsideStep
  <2>0. pend' = pend /\ hist'.broken = hist.broken
    BY <1>1, OutsideFacts, OutsideHist
  <2>1. ASSUME NEW t \in Threads, NEW q \in Rings, SubmitDcb(t, q) PROVE Goal
    <3>1. Moves(t, "sending", "submit", Item("submit", q, hist.admitted[q] + 1, Nobody),
                call[t].mark)
      BY <2>1, NewCallSteps
    <3>2. /\ hist'.admitted = [hist.admitted EXCEPT ![q] = hist.admitted[q] + 1] /\ StartsNone
      BY <2>1, CallWrites DEF Past, StartsNone
    <3>3. lock = Nobody /\ lock' = t /\ chan' = chan
      BY <2>1 DEF SubmitDcb
    <3>4. call'[t].op = "submit" /\ call'[t].item.ring = q
      <4>1. Item("submit", q, hist.admitted[q] + 1, Nobody).ring = q
        BY DEF Item
      <4> QED BY <3>1, <4>1 DEF Moves
    <3>5. Sending(q)' /\ \A r \in Rings \ {q} : ~Sending(r)'
      BY <1>0, <3>3, <3>4 DEF Sending
    <3>6. \A r \in Rings : ~Sending(r)
      BY <3>3 DEF Sending
    <3>7. hist'.admitted[q] = hist.admitted[q] + 1 /\ hist.admitted[q] \in Nat
          /\ \A r \in Rings \ {q} : hist'.admitted[r] = hist.admitted[r]
      BY <1>0, <3>2
    <3>8. SentSame
      <4>1. \A r \in Rings : Sent(r) = hist.admitted[r]
        BY <3>6 DEF Sent
      <4>2. \A r \in Rings \ {q} : Sent(r)' = hist'.admitted[r]
        BY <3>5 DEF Sent
      <4>3. Sent(q)' = hist'.admitted[q] - 1
        BY <3>5 DEF Sent
      <4> QED BY <3>7, <4>1, <4>2, <4>3 DEF SentSame
    <3>9. SendingCounted'
      BY <3>5, <3>7 DEF SendingCounted
    <3> QED BY <2>0, <3>2, <3>3, <3>8, <3>9 DEF Rests
  <2>2. ASSUME NEW t \in Callers, SendWork(t) PROVE Goal
    <3>1. /\ chan' = Append(chan, call[t].item) /\ Len(chan) < Depth /\ call[t].item \in Items
          /\ lock = t /\ lock' = Nobody /\ call[t].item = SentItem(t)
          /\ call[t].op \in {"submit", "flip", "idle"}
          /\ call[t].op = "flip" => call[t].item.kind = "flip"
          /\ call[t].op = "idle" => call[t].item.kind = "flush"
      BY <2>2, SendFacts
    <3>2. hist' = hist
      BY <2>2 DEF SendWork
    <3>3. CASE call[t].op = "submit"
      <4>1. PICK r \in Rings : r = call[t].item.ring
        BY <3>1 DEF Items
      <4>2. call[t].item = Item("submit", r, hist.admitted[r], Nobody)
        BY <3>1, <3>3, <4>1 DEF SentItem
      <4>3. SentBy(r, hist.admitted[r]) /\ SendingCounted'
        BY <3>1, <3>2, <3>3, <4>2, SubmissionSent
      <4>4. Flows(r, hist.admitted[r])
        BY <2>0, <3>1, <3>2, <4>2, <4>3 DEF Flows, StartsNone
      <4>5. hist.admitted[r] \in Nat
        BY <1>0
      <4> QED BY <2>0, <4>3, <4>4, <4>5
    <3>4. CASE call[t].op # "submit"
      <4>1. SentSame /\ SendingCounted'
        BY <3>1, <3>2, <3>4, NoneSent
      <4>2. call[t].item.kind # "submit"
        BY <3>1, <3>4
      <4>3. Rests
        BY <2>0, <3>1, <3>2, <4>1, <4>2 DEF Rests, StartsNone
      <4> QED BY <2>0, <4>1, <4>3
    <3> QED BY <3>3, <3>4
  <2>3. ASSUME NEW t \in Callers, SubmitInline(t) PROVE Goal
    <3>1. /\ call[t].at = "sending" /\ call[t].op = "submit" /\ worker = "failed"
          /\ lock' = Nobody /\ chan' = chan
      BY <2>3 DEF SubmitInline, In
    <3>2. lock = t /\ call[t].item = SentItem(t) /\ call[t].item \in Items
      BY <3>1 DEF CallsMeant, In, Types, CallRecords
    <3>3. /\ hist'.started = [hist.started EXCEPT ![call[t].item.ring] = Append(@, call[t].item.n)]
          /\ hist'.admitted = hist.admitted
      BY <2>3, CallWrites DEF Past
    <3>4. PICK r \in Rings : r = call[t].item.ring
      BY <3>2 DEF Items
    <3>5. call[t].item = Item("submit", r, hist.admitted[r], Nobody)
      BY <3>1, <3>2, <3>4 DEF SentItem
    <3>6. SentBy(r, hist.admitted[r]) /\ SendingCounted'
      BY <3>1, <3>2, <3>3, <3>5, SubmissionSent
    <3>7. call[t].item.n = hist.admitted[r] /\ hist.admitted[r] \in Nat
      BY <1>0, <3>5 DEF Item
    <3>8. Flows(r, hist.admitted[r])
      BY <2>0, <3>1, <3>3, <3>4, <3>6, <3>7 DEF Flows, StartsOn
    <3> QED BY <2>0, <3>6, <3>7, <3>8
  <2>4. ASSUME NEW t \in Callers, FlushRefused(t) \/ AdmitFlush(t) PROVE Goal
    <3>1. chan' = chan /\ hist' = hist
      BY <2>4 DEF FlushRefused, AdmitFlush
    <3>2. /\ lock # Nobody => call[lock].op # "submit"
          /\ lock' # Nobody => call'[lock'].op # "submit"
      <4>1. CASE FlushRefused(t)
        BY <1>0, <4>1 DEF FlushRefused, In
      <4>2. CASE AdmitFlush(t)
        <5>1. call[t].op \in {"flip", "idle"} /\ lock = Nobody /\ lock' \in {t, Nobody}
          BY <4>2, OpsFacts DEF AdmitFlush, CallsMeant, In
        <5>2. call'[t].op = call[t].op
          BY <4>2, CallSteps DEF Moves
        <5> QED BY <5>1, <5>2
      <4> QED BY <2>4, <4>1, <4>2
    <3>3. SentSame /\ SendingCounted'
      BY <3>1, <3>2, NoneSent
    <3> QED BY <2>0, <3>1, <3>3 DEF Rests, StartsNone
  <2>5. ASSUME NEW t \in Callers, call[t].at # "sending", \A u \in Callers \ {t} : call'[u] = call[u],
               lock' = lock, hist'.admitted = hist.admitted, StartsNone,
               \/ chan' = chan
               \/ Len(chan) < Depth /\ chan' = Append(chan, ShutdownItem)
        PROVE  Goal
    <3>1. lock # Nobody => call'[lock] = call[lock]
      BY <1>0, <2>5
    <3>2. SentSame /\ SendingCounted'
      BY <2>5, <3>1, SentKept
    <3>3. ShutdownItem \in Items /\ ShutdownItem.kind # "submit"
      BY RecordFacts
    <3>4. Rests
      BY <2>0, <2>5, <3>2, <3>3 DEF Rests
    <3> QED BY <2>0, <3>2, <3>4
  <2> HIDE DEF Goal
  <2>6. ASSUME NEW t \in Callers, Acquire(t) \/ Drained(t) PROVE Goal
    <3>1. call[t].at # "sending" /\ lock' = lock /\ hist' = hist /\ chan' = chan
      BY <2>6 DEF Acquire, Drained, In
    <3>2. \A u \in Callers \ {t} : call'[u] = call[u]
      BY <2>6, CallSteps DEF Moves
    <3> QED BY <2>5, <3>1, <3>2 DEF StartsNone
  <2>7. ASSUME NEW t \in Callers, FlushInline(t) PROVE Goal
    <3>1. call[t].at # "sending" /\ lock' = lock /\ chan' = chan
      BY <2>7 DEF FlushInline, In
    <3>2. \A u \in Callers \ {t} : call'[u] = call[u]
      BY <2>7, CallSteps DEF Moves
    <3>3. hist'.admitted = hist.admitted /\ StartsNone
      BY <2>7, CallWrites DEF Writes, Past, StartsNone
    <3> QED BY <2>5, <3>1, <3>2, <3>3
  <2>8. ASSUME NEW t \in Threads, Flip(t) \/ WaitIdle(t) PROVE Goal
    <3>1. call[t].at # "sending" /\ lock' = lock /\ hist' = hist /\ chan' = chan
      BY <2>8 DEF Flip, WaitIdle, In
    <3>2. \A u \in Callers \ {t} : call'[u] = call[u]
      BY <2>8, NewCallSteps DEF Moves
    <3> QED BY <1>0, <2>5, <3>1, <3>2 DEF StartsNone
  <2>9. ASSUME NEW t \in Threads, NEW l \in GuestLabels, Store(t, l) PROVE Goal
    <3>1. call[t].at # "sending" /\ lock' = lock /\ chan' = chan /\ call' = call
      BY <2>9 DEF Store, In
    <3>2. hist'.admitted = hist.admitted /\ StartsNone
      BY <2>9, CallWrites DEF Writes, Past, StartsNone
    <3> QED BY <1>0, <2>5, <3>1, <3>2
  <2>10. ASSUME Shutdown \/ SendShutdown \/ Close PROVE Goal
    <3>1. /\ call[Host].at # "sending" /\ lock' = lock /\ hist' = hist
          /\ \/ chan' = chan
             \/ Len(chan) < Depth /\ chan' = Append(chan, ShutdownItem)
      BY <2>10 DEF Shutdown, SendShutdown, Close, In
    <3>2. \A u \in Callers \ {Host} : call'[u] = call[u]
      BY <2>10, HostSteps DEF Moves
    <3> QED BY <1>0, <2>5, <3>1, <3>2 DEF StartsNone
  <2>11. Goal
    BY <1>0, <1>1, <2>1, <2>2, <2>3, <2>4, <2>6, <2>7, <2>8, <2>9, <2>10
       DEF OutsideStep, HostStep, CallStep, NewCall
  <2> QED BY <2>11 DEF Goal
<1> HIDE DEF Goal
<1>2. CASE RecvStep
  <2>1. SentSame /\ SendingCounted' /\ hist'.broken = hist.broken
    <3>1. hist'.admitted = hist.admitted /\ hist'.broken = hist.broken
      <4>1. CASE RecvSubmit
        BY <4>1, RecvSteps DEF Begins, Past
      <4>2. CASE ~RecvSubmit
        BY <1>2, <4>2 DEF RecvStep, RecvFlush, RecvShutdown, FinishItem
      <4> QED BY <4>1, <4>2
    <3>2. lock' = lock
      BY <1>2 DEF RecvStep, RecvSubmit, RecvFlush, RecvShutdown, FinishItem
    <3>3. lock # Nobody => call'[lock] = call[lock]
      <4>1. CASE FinishItem
        <5>1. w.item.kind = "flush" => call[w.item.done].at = "recv"
          BY <4>1 DEF FinishItem, FlushesAnswered, In
        <5> QED BY <1>0, <4>1, <5>1 DEF FinishItem, Types
      <4>2. CASE ~FinishItem
        BY <1>2, <4>2 DEF RecvStep, RecvSubmit, RecvFlush, RecvShutdown
      <4> QED BY <4>1, <4>2
    <3> QED BY <3>1, <3>2, <3>3, SentKept
  <2>2. CASE RecvSubmit
    <3>1. /\ chan # <<>> /\ Head(chan).kind = "submit" /\ chan' = Tail(chan) /\ w.at = "recv"
      BY <2>2 DEF RecvSubmit
    <3>2. PICK r \in Rings, n \in Nat : r = Head(chan).ring /\ n = Head(chan).n
      BY <3>1, ChanFacts DEF Items
    <3>3. CASE Suspended(Head(chan).ring)
      <4>1. /\ w'.at # "recv" /\ w'.item = Head(chan) /\ hist' = hist
            /\ pend' = [pend EXCEPT ![Head(chan).ring] = Append(@, Head(chan).n)]
        BY <2>2, <3>3, RecvSteps
      <4>2. Takes(r, n) /\ ParksOn(r, n) /\ Suspended(r) /\ StartsNone
        BY <3>1, <3>2, <3>3, <4>1 DEF Takes, ParksOn, StartsNone
      <4>3. Flows(r, n)
        BY <2>1, <4>2 DEF Flows
      <4> QED BY <2>1, <4>3
    <3>4. CASE ~Suspended(Head(chan).ring)
      <4>1. /\ w'.at # "recv" /\ w'.item = Head(chan) /\ pend' = pend
            /\ hist'.started = [hist.started EXCEPT ![Head(chan).ring] = Append(@, Head(chan).n)]
        BY <2>2, <3>4, RecvSteps DEF Begins, Past
      <4>2. Takes(r, n) /\ pend' = pend /\ ~Suspended(r) /\ StartsOn(r, n)
        BY <3>1, <3>2, <3>4, <4>1 DEF Takes, StartsOn
      <4>3. Flows(r, n)
        BY <2>1, <4>2 DEF Flows
      <4> QED BY <2>1, <4>3
    <3> QED BY <3>3, <3>4
  <2>3. CASE RecvFlush \/ RecvShutdown \/ FinishItem
    <3>1. /\ pend' = pend /\ hist' = hist
          /\ \/ chan' = chan
             \/ chan # <<>> /\ Head(chan).kind # "submit" /\ chan' = Tail(chan)
      BY <2>3 DEF RecvFlush, RecvShutdown, FinishItem
    <3>2. Rests
      BY <2>1, <3>1 DEF Rests, StartsNone
    <3> QED BY <2>1, <3>2
  <2> QED BY <1>2, <2>2, <2>3 DEF RecvStep
<1>3. CASE InsideItem
  <2>1. SentSame /\ SendingCounted' /\ chan' = chan
    BY <1>3, InsideFacts, SentKept
  <2>2. CASE Resume
    <3>1. /\ hist'.broken = hist.broken /\ pend' = pend
          /\ susp[w.ring].pos # 1 => hist'.started = hist.started
      BY <2>2, RecheckSteps DEF Resume, Begins, Past
    <3>2. susp[w.ring].pos >= 2 /\ susp[w.ring].pos \in Nat
      BY <2>2 DEF BuffersMeant, Types, Works, Buffers, Resume
    <3>3. Rests
      BY <2>1, <3>1, <3>2 DEF Rests, StartsNone
    <3> QED BY <2>1, <3>1, <3>3
  <2>3. CASE DrainParked
    <3>1. CASE ~Suspended(w.ring) /\ pend[w.ring] # <<>>
      <4>1. PICK r \in Rings : r = w.ring
        BY DEF Types, Works
      <4>2. pend[r] \in Seq(Nat) /\ pend[r] # <<>>
        BY <3>1, <4>1 DEF Types
      <4>3. PICK n \in Nat : n = Head(pend[r])
        BY <4>2
      <4>4. /\ hist'.broken = hist.broken /\ pend' = [pend EXCEPT ![r] = Tail(@)]
            /\ hist'.started = [hist.started EXCEPT ![r] = Append(@, n)]
        BY <2>3, <3>1, <4>1, <4>3, RecheckSteps DEF Begins, Past
      <4>5. Flows(r, n)
        BY <2>1, <4>2, <4>3, <4>4 DEF Flows, StartsOn
      <4> QED BY <2>1, <4>4, <4>5
    <3>2. CASE Suspended(w.ring) \/ pend[w.ring] = <<>>
      <4>1. pend' = pend /\ hist' = hist
        BY <2>3, <3>2, RecheckSteps
      <4> QED BY <2>1, <4>1 DEF Rests, StartsNone
    <3> QED BY <3>1, <3>2
  <2>4. CASE ~Resume /\ ~DrainParked
    <3>1. pend' = pend
      BY <1>3, <2>4
         DEF InsideItem, FlushItem, WalkRelease, WalkDispatch, WalkWait, WalkEnds, WalkSuspends,
             StillUnmet, NothingSuspended, WalkFlushes, WalkFails, Panics
    <3>2. StartsNone /\ hist.broken \subseteq hist'.broken
      <4>1. CASE FlushItem \/ WalkRelease \/ WalkFlushes
        BY <4>1, CallWrites, WalkSteps DEF Writes, Past, StartsNone
      <4>2. CASE WalkSuspends \/ WalkFails
        BY <4>2, WalkSteps DEF Past, StartsNone
      <4>3. CASE Panics
        BY <4>3, WalkSteps DEF Panics, Past, StartsNone
      <4>4. CASE WalkDispatch \/ WalkWait \/ WalkEnds \/ StillUnmet \/ NothingSuspended
        BY <4>4 DEF WalkDispatch, WalkWait, WalkEnds, StillUnmet, NothingSuspended, StartsNone
      <4> QED BY <1>3, <2>4, <4>1, <4>2, <4>3, <4>4 DEF InsideItem
    <3> QED BY <2>1, <3>1, <3>2 DEF Rests
  <2> QED BY <2>2, <2>3, <2>4
<1>4. CASE UNCHANGED gpuVars
  <2>1. /\ hist' = hist /\ pend' = pend /\ chan' = chan /\ lock' = lock /\ call' = call
    BY <1>4 DEF gpuVars
  <2>2. SentSame /\ SendingCounted'
    BY <2>1, SentKept
  <2> QED BY <2>1, <2>2 DEF Rests, StartsNone
<1> QED BY <1>1, <1>2, <1>3, <1>4, Steps

(***************************************************************************)
(* What a sequence holds after it grew at its end or lost its head.        *)
(***************************************************************************)
LEMMA RangeFacts ==
  ASSUME NEW s \in Seq(Nat), NEW n \in Nat
  PROVE  /\ Range(Append(s, n)) = Range(s) \cup {n}
         /\ s # <<>> => Range(s) = {Head(s)} \cup Range(Tail(s))
<1>1. /\ DOMAIN s = 1..Len(s) /\ Len(s) \in Nat /\ DOMAIN Append(s, n) = 1..(Len(s) + 1)
      /\ Append(s, n)[Len(s) + 1] = n /\ \A i \in 1..Len(s) : Append(s, n)[i] = s[i]
  OBVIOUS
<1>2. Range(Append(s, n)) = Range(s) \cup {n}
  BY <1>1 DEF Range
<1>3. ASSUME s # <<>> PROVE Range(s) = {Head(s)} \cup Range(Tail(s))
  <2>1. /\ DOMAIN Tail(s) = 1..(Len(s) - 1) /\ Head(s) = s[1] /\ 1 \in DOMAIN s
        /\ \A i \in 1..(Len(s) - 1) : Tail(s)[i] = s[i + 1]
    BY <1>3
  <2>2. \A i \in 1..Len(s) : i = 1 \/ (i - 1 \in 1..(Len(s) - 1) /\ s[i] = Tail(s)[i - 1])
    BY <1>1, <2>1
  <2>3. \A k \in Nat : \A i \in 1..(k - 1) : i + 1 \in 1..k
    OBVIOUS
  <2>4. \A i \in DOMAIN s : s[i] \in {Head(s)} \cup Range(Tail(s))
    BY <1>1, <2>1, <2>2 DEF Range
  <2>5. Head(s) \in Range(s)
    BY <2>1 DEF Range
  <2>6. \A i \in DOMAIN Tail(s) : Tail(s)[i] \in Range(s)
    <3>1. \A i \in DOMAIN Tail(s) : i + 1 \in DOMAIN s
      BY <1>1, <2>1, <2>3
    <3> QED BY <2>1, <3>1 DEF Range
  <2> QED BY <2>4, <2>5, <2>6 DEF Range
<1> QED BY <1>2, <1>3

(***************************************************************************)
(* Where the submissions of a ring stand in the channel after a send and   *)
(* after the worker took an item.                                          *)
(***************************************************************************)
LEMMA PlaceFacts ==
  ASSUME Types, NEW q \in Rings
  PROVE  /\ chan' = chan => InChan(q)' = InChan(q)
         /\ \A x \in Items : Len(chan) < Depth /\ chan' = Append(chan, x) =>
              /\ x.kind = "submit" /\ x.ring = q => InChan(q)' = InChan(q) \cup {Len(chan) + 1}
              /\ ~(x.kind = "submit" /\ x.ring = q) => InChan(q)' = InChan(q)
              /\ chan'[Len(chan) + 1] = x
              /\ \A i \in InChan(q) : chan'[i] = chan[i] /\ i \in 1..Len(chan)
              /\ Len(chan) \in Nat
         /\ chan # <<>> /\ chan' = Tail(chan) =>
              /\ \A i \in InChan(q)' : i \in Nat /\ i + 1 \in InChan(q) /\ chan'[i] = chan[i + 1]
              /\ \A i \in InChan(q) : i = 1 \/ (i - 1 \in InChan(q)' /\ chan'[i - 1] = chan[i])
              /\ 1 \in InChan(q) <=> Head(chan).kind = "submit" /\ Head(chan).ring = q
              /\ Head(chan) = chan[1] /\ InChan(q) \subseteq Nat \ {0}
<1>1. chan' = chan => InChan(q)' = InChan(q)
  BY DEF InChan
<1>2. ASSUME NEW x \in Items, Len(chan) < Depth, chan' = Append(chan, x)
      PROVE  /\ x.kind = "submit" /\ x.ring = q => InChan(q)' = InChan(q) \cup {Len(chan) + 1}
             /\ ~(x.kind = "submit" /\ x.ring = q) => InChan(q)' = InChan(q)
             /\ chan'[Len(chan) + 1] = x
             /\ \A i \in InChan(q) : chan'[i] = chan[i] /\ i \in 1..Len(chan)
             /\ Len(chan) \in Nat
  <2>1. /\ DOMAIN chan' = 1..(Len(chan) + 1) /\ chan'[Len(chan) + 1] = x
        /\ \A i \in 1..Len(chan) : chan'[i] = chan[i]
        /\ DOMAIN chan = 1..Len(chan) /\ Len(chan) \in Nat
    BY <1>2, ChanFacts
  <2>2. \A i \in DOMAIN chan' : i \in DOMAIN chan \/ i = Len(chan) + 1
    BY <2>1
  <2>3. Len(chan) + 1 \in DOMAIN chan' /\ DOMAIN chan \subseteq DOMAIN chan'
    BY <2>1
  <2>4. x.kind = "submit" /\ x.ring = q => InChan(q)' = InChan(q) \cup {Len(chan) + 1}
    BY <2>1, <2>2, <2>3 DEF InChan
  <2>5. ~(x.kind = "submit" /\ x.ring = q) => InChan(q)' = InChan(q)
    BY <2>1, <2>2, <2>3 DEF InChan
  <2> QED BY <2>1, <2>4, <2>5 DEF InChan
<1>3. ASSUME chan # <<>>, chan' = Tail(chan)
      PROVE  /\ \A i \in InChan(q)' : i \in Nat /\ i + 1 \in InChan(q) /\ chan'[i] = chan[i + 1]
             /\ \A i \in InChan(q) : i = 1 \/ (i - 1 \in InChan(q)' /\ chan'[i - 1] = chan[i])
             /\ 1 \in InChan(q) <=> Head(chan).kind = "submit" /\ Head(chan).ring = q
             /\ Head(chan) = chan[1] /\ InChan(q) \subseteq Nat \ {0}
  <2>1. /\ DOMAIN chan' = 1..(Len(chan) - 1) /\ \A i \in DOMAIN chan' : chan'[i] = chan[i + 1]
        /\ DOMAIN chan = 1..Len(chan) /\ Len(chan) \in Nat /\ Head(chan) = chan[1]
        /\ 1 \in DOMAIN chan
    BY <1>3, ChanFacts
  <2>2. \A i \in DOMAIN chan' : i \in Nat /\ i + 1 \in DOMAIN chan
    BY <2>1
  <2>3. \A i \in DOMAIN chan : i = 1 \/ (i - 1 \in DOMAIN chan' /\ chan'[i - 1] = chan[i])
    BY <2>1
  <2>4. \A i \in InChan(q)' : i \in Nat /\ i + 1 \in InChan(q) /\ chan'[i] = chan[i + 1]
    BY <2>1, <2>2 DEF InChan
  <2>5. \A i \in InChan(q) : i = 1 \/ (i - 1 \in InChan(q)' /\ chan'[i - 1] = chan[i])
    BY <2>3 DEF InChan
  <2>6. 1 \in InChan(q) <=> Head(chan).kind = "submit" /\ Head(chan).ring = q
    BY <2>1 DEF InChan
  <2>7. InChan(q) \subseteq Nat \ {0}
    BY <2>1 DEF InChan
  <2> QED BY <2>1, <2>4, <2>5, <2>6, <2>7
<1> QED BY <1>1, <1>2, <1>3

(***************************************************************************)
(* The numbers of a ring that are begun, parked or in the channel.         *)
(***************************************************************************)
Begun(q) == Range(hist.started[q])
Parked(q) == Range(pend[q])

(***************************************************************************)
(* How the numbers begun, parked and in the channel change when a buffer   *)
(* flows.                                                                  *)
(***************************************************************************)
LEMMA NumberFlow ==
  ASSUME Types, Types'
  PROVE  /\ Rests => \A q \in Rings : /\ Begun(q)' = Begun(q) /\ Parked(q)' = Parked(q)
                                      /\ NumbersInChan(q)' = NumbersInChan(q)
         /\ \A r \in Rings, n \in Nat : Flows(r, n) =>
              /\ \A q \in Rings \ {r} : /\ Begun(q)' = Begun(q) /\ Parked(q)' = Parked(q)
                                        /\ NumbersInChan(q)' = NumbersInChan(q)
              /\ Begun(r) \subseteq Begun(r)'
              /\ \/ /\ SentBy(r, n)
                    /\ NumbersInChan(r)' = NumbersInChan(r) \cup {n} /\ Parked(r)' = Parked(r)
                 \/ /\ SentBy(r, n)
                    /\ NumbersInChan(r)' = NumbersInChan(r) /\ Parked(r)' = Parked(r)
                    /\ Begun(r)' = Begun(r) \cup {n}
                 \/ /\ SentSame /\ NumbersInChan(r) = NumbersInChan(r)' \cup {n}
                    /\ Parked(r)' = Parked(r) \cup {n}
                 \/ /\ SentSame /\ NumbersInChan(r) = NumbersInChan(r)' \cup {n}
                    /\ Parked(r)' = Parked(r) /\ Begun(r)' = Begun(r) \cup {n}
                 \/ /\ SentSame /\ NumbersInChan(r)' = NumbersInChan(r)
                    /\ Parked(r) = Parked(r)' \cup {n} /\ Begun(r)' = Begun(r) \cup {n}
<1>0. hist.started \in [Rings -> Seq(Nat)] /\ pend \in [Rings -> Seq(Nat)]
  BY DEF Types, Histories
<1>a. \A q \in Rings : chan' = chan => NumbersInChan(q)' = NumbersInChan(q)
  BY DEF NumbersInChan, InChan
<1>b. ASSUME NEW q \in Rings, NEW x \in Items, Len(chan) < Depth, chan' = Append(chan, x)
      PROVE  /\ ~(x.kind = "submit" /\ x.ring = q) => NumbersInChan(q)' = NumbersInChan(q)
             /\ x.kind = "submit" /\ x.ring = q => NumbersInChan(q)' = NumbersInChan(q) \cup {x.n}
  <2>1. \A i \in InChan(q) : chan'[i] = chan[i]
    BY <1>b, PlaceFacts
  <2>2. CASE ~(x.kind = "submit" /\ x.ring = q)
    <3>1. InChan(q)' = InChan(q)
      BY <1>b, <2>2, PlaceFacts
    <3> QED BY <2>1, <2>2, <3>1 DEF NumbersInChan
  <2>3. CASE x.kind = "submit" /\ x.ring = q
    <3>1. InChan(q)' = InChan(q) \cup {Len(chan) + 1} /\ chan'[Len(chan) + 1] = x
      BY <1>b, <2>3, PlaceFacts
    <3> QED BY <2>1, <2>3, <3>1 DEF NumbersInChan
  <2> QED BY <2>2, <2>3
<1>c. ASSUME NEW q \in Rings, chan # <<>>, chan' = Tail(chan)
      PROVE  /\ ~(Head(chan).kind = "submit" /\ Head(chan).ring = q) =>
                  NumbersInChan(q)' = NumbersInChan(q)
             /\ Head(chan).kind = "submit" /\ Head(chan).ring = q =>
                  NumbersInChan(q) = NumbersInChan(q)' \cup {Head(chan).n}
  <2>1. /\ \A i \in InChan(q)' : i \in Nat /\ i + 1 \in InChan(q) /\ chan'[i] = chan[i + 1]
        /\ \A i \in InChan(q) : i = 1 \/ (i - 1 \in InChan(q)' /\ chan'[i - 1] = chan[i])
        /\ 1 \in InChan(q) <=> Head(chan).kind = "submit" /\ Head(chan).ring = q
        /\ Head(chan) = chan[1] /\ InChan(q) \subseteq Nat \ {0}
    BY <1>c, PlaceFacts
  <2>2. NumbersInChan(q)' \subseteq NumbersInChan(q)
    BY <2>1 DEF NumbersInChan
  <2>3. \A m \in NumbersInChan(q) :
          m \in NumbersInChan(q)' \/ (1 \in InChan(q) /\ m = Head(chan).n)
    BY <2>1 DEF NumbersInChan
  <2>4. 1 \in InChan(q) => Head(chan).n \in NumbersInChan(q)
    BY <2>1 DEF NumbersInChan
  <2> QED BY <2>1, <2>2, <2>3, <2>4
<1>d. ASSUME NEW r \in Rings, NEW n \in Nat, StartsOn(r, n)
      PROVE  Begun(r)' = Begun(r) \cup {n} /\ \A q \in Rings \ {r} : Begun(q)' = Begun(q)
  <2>1. /\ hist'.started[r] = Append(hist.started[r], n)
        /\ \A q \in Rings \ {r} : hist'.started[q] = hist.started[q]
    BY <1>0, <1>d DEF StartsOn
  <2>2. hist.started[r] \in Seq(Nat)
    BY <1>0
  <2>3. Range(Append(hist.started[r], n)) = Range(hist.started[r]) \cup {n}
    BY <2>2, RangeFacts
  <2> QED BY <2>1, <2>3 DEF Begun
<1>e. /\ StartsNone => \A q \in Rings : Begun(q)' = Begun(q)
      /\ pend' = pend => \A q \in Rings : Parked(q)' = Parked(q)
  BY DEF StartsNone, Begun, Parked
<1>1. ASSUME Rests, NEW q \in Rings
      PROVE  /\ Begun(q)' = Begun(q) /\ Parked(q)' = Parked(q)
             /\ NumbersInChan(q)' = NumbersInChan(q)
  BY <1>1, <1>a, <1>b, <1>c, <1>e DEF Rests
<1>2. ASSUME NEW r \in Rings, NEW n \in Nat, Flows(r, n)
      PROVE  /\ \A q \in Rings \ {r} : /\ Begun(q)' = Begun(q) /\ Parked(q)' = Parked(q)
                                       /\ NumbersInChan(q)' = NumbersInChan(q)
             /\ Begun(r) \subseteq Begun(r)'
             /\ \/ /\ SentBy(r, n)
                   /\ NumbersInChan(r)' = NumbersInChan(r) \cup {n} /\ Parked(r)' = Parked(r)
                \/ /\ SentBy(r, n)
                   /\ NumbersInChan(r)' = NumbersInChan(r) /\ Parked(r)' = Parked(r)
                   /\ Begun(r)' = Begun(r) \cup {n}
                \/ /\ SentSame /\ NumbersInChan(r) = NumbersInChan(r)' \cup {n}
                   /\ Parked(r)' = Parked(r) \cup {n}
                \/ /\ SentSame /\ NumbersInChan(r) = NumbersInChan(r)' \cup {n}
                   /\ Parked(r)' = Parked(r) /\ Begun(r)' = Begun(r) \cup {n}
                \/ /\ SentSame /\ NumbersInChan(r)' = NumbersInChan(r)
                   /\ Parked(r) = Parked(r)' \cup {n} /\ Begun(r)' = Begun(r) \cup {n}
  <2>1. CASE /\ SentBy(r, n) /\ Len(chan) < Depth
             /\ chan' = Append(chan, Item("submit", r, n, Nobody)) /\ pend' = pend /\ StartsNone
    <3>1. /\ Item("submit", r, n, Nobody) \in Items
          /\ Item("submit", r, n, Nobody).kind = "submit"
          /\ Item("submit", r, n, Nobody).ring = r /\ Item("submit", r, n, Nobody).n = n
      BY RecordFacts
    <3>2. /\ NumbersInChan(r)' = NumbersInChan(r) \cup {n}
          /\ \A q \in Rings \ {r} : NumbersInChan(q)' = NumbersInChan(q)
      BY <1>b, <2>1, <3>1
    <3> QED BY <1>e, <2>1, <3>2
  <2>2. CASE SentBy(r, n) /\ chan' = chan /\ pend' = pend /\ StartsOn(r, n)
    BY <1>a, <1>d, <1>e, <2>2
  <2>3. CASE SentSame /\ Takes(r, n) /\ ParksOn(r, n) /\ StartsNone
    <3>1. /\ NumbersInChan(r) = NumbersInChan(r)' \cup {n}
          /\ \A q \in Rings \ {r} : NumbersInChan(q)' = NumbersInChan(q)
      BY <1>c, <2>3 DEF Takes
    <3>2. /\ pend'[r] = Append(pend[r], n) /\ pend[r] \in Seq(Nat)
          /\ \A q \in Rings \ {r} : pend'[q] = pend[q]
      BY <1>0, <2>3 DEF ParksOn
    <3>3. Range(Append(pend[r], n)) = Range(pend[r]) \cup {n}
      BY <3>2, RangeFacts
    <3>4. Parked(r)' = Parked(r) \cup {n} /\ \A q \in Rings \ {r} : Parked(q)' = Parked(q)
      BY <3>2, <3>3 DEF Parked
    <3> QED BY <1>e, <2>3, <3>1, <3>4
  <2>4. CASE SentSame /\ Takes(r, n) /\ pend' = pend /\ StartsOn(r, n)
    <3>1. /\ NumbersInChan(r) = NumbersInChan(r)' \cup {n}
          /\ \A q \in Rings \ {r} : NumbersInChan(q)' = NumbersInChan(q)
      BY <1>c, <2>4 DEF Takes
    <3> QED BY <1>d, <1>e, <2>4, <3>1
  <2>5. CASE /\ SentSame /\ chan' = chan /\ pend[r] # <<>> /\ n = Head(pend[r])
             /\ pend' = [pend EXCEPT ![r] = Tail(@)] /\ StartsOn(r, n)
    <3>1. /\ pend'[r] = Tail(pend[r]) /\ pend[r] \in Seq(Nat)
          /\ \A q \in Rings \ {r} : pend'[q] = pend[q]
      BY <1>0, <2>5
    <3>2. Range(pend[r]) = {n} \cup Range(Tail(pend[r]))
      BY <2>5, <3>1, RangeFacts
    <3>3. Parked(r) = Parked(r)' \cup {n} /\ \A q \in Rings \ {r} : Parked(q)' = Parked(q)
      BY <3>1, <3>2 DEF Parked
    <3> QED BY <1>a, <1>d, <2>5, <3>3
  <2> QED BY <1>2, <2>1, <2>2, <2>3, <2>4, <2>5 DEF Flows
<1> QED BY <1>1, <1>2

(***************************************************************************)
(* Every step keeps every buffer.                                          *)
(***************************************************************************)
LEMMA StepKept ==
  /\ Types /\ BuffersMeant /\ CallsMeant /\ FlushesAnswered /\ AllKept /\ Types'
  /\ [GpuNext]_gpuVars
  => AllKept'
<1> SUFFICES ASSUME Types, BuffersMeant, CallsMeant, FlushesAnswered, AllKept, Types',
                    [GpuNext]_gpuVars
             PROVE  AllKept'
  OBVIOUS
<1>1. SendingCounted
  BY DEF AllKept, SendingCounted
<1>2. \A q \in Rings : Sent(q) \in Nat
  BY <1>1 DEF Sent, SendingCounted, Types, Histories
<1>3. SendingCounted' /\ (Rests \/ \E r \in Rings, n \in Nat : Flows(r, n))
  BY <1>1, FlowFacts
<1> DEFINE Kept(q) == Begun(q) \cup Parked(q) \cup NumbersInChan(q)
<1>4. \A q \in Rings : \A n \in 1..Sent(q) : n \in Kept(q)
  BY DEF AllKept, Begun, Parked
<1>5. ASSUME NEW q \in Rings, \A n \in 1..Sent(q)' : n \in Kept(q)'
      PROVE  \A n \in 1..Sent(q)' :
               n \in Range(hist'.started[q]) \cup Range(pend'[q]) \cup NumbersInChan(q)'
  BY <1>5 DEF Begun, Parked
<1>6. ASSUME NEW q \in Rings, NEW n \in 1..Sent(q)' PROVE n \in Kept(q)'
  <2>1. CASE Rests
    <3>1. Kept(q)' = Kept(q)
      BY <2>1, NumberFlow
    <3>2. Sent(q)' = Sent(q)
      BY <2>1 DEF Rests, SentSame
    <3> QED BY <1>4, <1>6, <3>1, <3>2
  <2>2. ASSUME NEW r \in Rings, NEW m \in Nat, Flows(r, m) PROVE n \in Kept(q)'
    <3>1. Kept(q) \subseteq Kept(q)'
      BY <2>2, NumberFlow
    <3>2. \/ Sent(q)' = Sent(q)
          \/ q = r /\ Sent(q)' = m /\ m = Sent(q) + 1 /\ m \in Kept(r)'
      BY <2>2, NumberFlow DEF SentBy, SentSame
    <3>3. n \in 1..Sent(q) \/ (q = r /\ n = m /\ m \in Kept(r)')
      BY <1>2, <1>6, <3>2
    <3> QED BY <1>4, <3>1, <3>3
  <2> QED BY <1>3, <2>1, <2>2
<1> HIDE DEF Kept
<1> QED BY <1>3, <1>5, <1>6 DEF AllKept, SendingCounted

(***************************************************************************)
(* A ring in order: its buffers were begun one after the other, and those  *)
(* parked come next.                                                       *)
(***************************************************************************)
Orderly(s, p, m) ==
    /\ \A i \in DOMAIN s : s[i] = i
    /\ \A i \in DOMAIN p : p[i] = Len(s) + i
    /\ Len(s) + Len(p) <= m

Total(s, p) == Len(s) + Len(p)

(***************************************************************************)
(* The order is kept when a ring's next buffer is parked or begun, and     *)
(* when the first of those parked is begun.                                *)
(***************************************************************************)
LEMMA OrderFacts ==
  ASSUME NEW s \in Seq(Nat), NEW p \in Seq(Nat), NEW m \in Nat, Orderly(s, p, m), NEW n \in Nat
  PROVE  /\ n = Total(s, p) + 1 /\ n <= m =>
              Orderly(s, Append(p, n), m) /\ Total(s, Append(p, n)) = n
         /\ p = <<>> /\ n = Total(s, p) + 1 =>
              Orderly(Append(s, n), p, n) /\ Total(Append(s, n), p) = n
         /\ p # <<>> /\ n = Head(p) =>
              Orderly(Append(s, n), Tail(p), m) /\ Total(Append(s, n), Tail(p)) = Total(s, p)
<1>0. /\ Len(s) \in Nat /\ Len(p) \in Nat /\ DOMAIN s = 1..Len(s) /\ DOMAIN p = 1..Len(p)
      /\ \A x \in Nat : /\ Len(Append(s, x)) = Len(s) + 1 /\ Len(Append(p, x)) = Len(p) + 1
                        /\ DOMAIN Append(s, x) = 1..(Len(s) + 1)
                        /\ DOMAIN Append(p, x) = 1..(Len(p) + 1)
                        /\ Append(s, x)[Len(s) + 1] = x /\ Append(p, x)[Len(p) + 1] = x
                        /\ \A i \in 1..Len(s) : Append(s, x)[i] = s[i]
                        /\ \A i \in 1..Len(p) : Append(p, x)[i] = p[i]
  OBVIOUS
<1>1. ASSUME n = Len(s) + Len(p) + 1, n <= m
      PROVE  Orderly(s, Append(p, n), m) /\ Len(s) + Len(Append(p, n)) = n
  <2>1. \A i \in DOMAIN Append(p, n) : Append(p, n)[i] = Len(s) + i
    BY <1>0, <1>1 DEF Orderly
  <2> QED BY <1>0, <1>1, <2>1 DEF Orderly
<1>2. ASSUME p = <<>>, n = Len(s) + 1
      PROVE  Orderly(Append(s, n), p, n) /\ Len(Append(s, n)) + Len(p) = n
  <2>1. \A i \in DOMAIN Append(s, n) : Append(s, n)[i] = i
    BY <1>0, <1>2 DEF Orderly
  <2>2. Len(p) = 0 /\ DOMAIN p = {}
    BY <1>2
  <2> QED BY <1>0, <1>2, <2>1, <2>2 DEF Orderly
<1>3. ASSUME p # <<>>, n = Head(p)
      PROVE  /\ Orderly(Append(s, n), Tail(p), m)
             /\ Len(Append(s, n)) + Len(Tail(p)) = Len(s) + Len(p)
  <2>1. /\ Len(Tail(p)) = Len(p) - 1 /\ DOMAIN Tail(p) = 1..(Len(p) - 1) /\ Head(p) = p[1]
        /\ 1 \in DOMAIN p /\ \A i \in 1..(Len(p) - 1) : Tail(p)[i] = p[i + 1]
    BY <1>3
  <2>2. n = Len(s) + 1
    BY <1>3, <2>1 DEF Orderly
  <2>3. \A i \in DOMAIN Append(s, n) : Append(s, n)[i] = i
    BY <1>0, <2>2 DEF Orderly
  <2>4. \A i \in 1..(Len(p) - 1) : i + 1 \in 1..Len(p) /\ Len(s) + (i + 1) = Len(s) + 1 + i
    BY <1>0
  <2>5. n \in Nat /\ Len(Append(s, n)) = Len(s) + 1 /\ Len(p) >= 1
    BY <1>0, <2>1
  <2>6. \A i \in DOMAIN Tail(p) : Tail(p)[i] = Len(Append(s, n)) + i
    <3> SUFFICES ASSUME NEW i \in 1..(Len(p) - 1) PROVE Tail(p)[i] = Len(Append(s, n)) + i
      BY <2>1
    <3>1. Tail(p)[i] = p[i + 1] /\ i + 1 \in DOMAIN p
      BY <1>0, <2>1, <2>4
    <3>2. p[i + 1] = Len(s) + (i + 1)
      BY <3>1 DEF Orderly
    <3>3. Len(s) + (i + 1) = Len(s) + 1 + i
      BY <2>4
    <3> QED BY <2>5, <3>1, <3>2, <3>3
  <2>7. Len(Append(s, n)) + Len(Tail(p)) = Len(s) + Len(p)
    <3> DEFINE a == Len(s)
               b == Len(p)
               c == Len(Append(s, n))
               d == Len(Tail(p))
    <3>1. a \in Nat /\ b \in Nat /\ c = a + 1 /\ d = b - 1
      BY <1>0, <2>1, <2>5
    <3> HIDE DEF a, b, c, d
    <3>2. c + d = a + b
      BY ONLY <3>1
    <3> QED BY <3>2 DEF a, b, c, d
  <2> QED BY <2>3, <2>6, <2>7 DEF Orderly
<1>4. p = <<>> => Len(p) = 0
  OBVIOUS
<1>5. p = <<>> /\ n = Len(s) + Len(p) + 1 => n = Len(s) + 1
  BY <1>0, <1>4
<1> QED BY <1>1, <1>2, <1>3, <1>5 DEF Total

(***************************************************************************)
(* The order of one ring, and how many of its buffers have left the        *)
(* channel.                                                                *)
(***************************************************************************)
Reached(q) == Total(hist.started[q], pend[q])
ChanOrder(q) ==
    /\ \A i, j \in InChan(q) : i < j => chan[i].n < chan[j].n
    /\ \A i \in InChan(q) : chan[i].n <= Sent(q)
RunOrder(q) ==
    /\ Orderly(hist.started[q], pend[q], Sent(q))
    /\ \A i \in InChan(q) : chan[i].n > Reached(q)

RingsOrdered ==
    /\ \A q \in Rings : ChanOrder(q)
    /\ \A q \in Rings \ hist.broken : RunOrder(q)

(***************************************************************************)
(* The order of the rings is the order of each.                            *)
(***************************************************************************)
LEMMA RingsOrder == InOrder <=> RingsOrdered
BY DEF InOrder, RingsOrdered, ChanOrder, RunOrder, Orderly, Reached, Total

(***************************************************************************)
(* The arithmetic of the numbers of buffers.                               *)
(***************************************************************************)
LEMMA NumberFacts ==
  ASSUME NEW a \in Nat, NEW b \in Nat, NEW c \in Nat
  PROVE  /\ a + b \in Nat /\ a + 1 \in Nat
         /\ a < b => a + 1 \in 1..b /\ ~(b <= a)
         /\ a <= b => a < b + 1 /\ a <= b + 1 /\ ~(b < a) /\ (~(a < b) => a = b)
         /\ b > a /\ b <= c => a < c
         /\ b > a /\ a + 1 >= b => b = a + 1
         /\ a > b \/ a = b => a >= b
         /\ a \in 1..b => a <= b
OBVIOUS

RingTyped(q) ==
    /\ hist.started[q] \in Seq(Nat) /\ pend[q] \in Seq(Nat)
    /\ Len(hist.started[q]) \in Nat /\ Len(pend[q]) \in Nat
    /\ Reached(q) \in Nat /\ Sent(q) \in Nat
    /\ \A i \in InChan(q) : i \in Nat \ {0} /\ chan[i].n \in Nat

(***************************************************************************)
(* What the sizes and numbers of a ring are.                               *)
(***************************************************************************)
LEMMA RingTypes == Types /\ SendingCounted => \A q \in Rings : RingTyped(q)
<1> SUFFICES ASSUME Types, SendingCounted, NEW q \in Rings
             PROVE  RingTyped(q)
  OBVIOUS
<1>1. hist.started[q] \in Seq(Nat) /\ pend[q] \in Seq(Nat) /\ hist.admitted[q] \in Nat
  BY DEF Types, Histories
<1>2. Len(hist.started[q]) \in Nat /\ Len(pend[q]) \in Nat
  BY <1>1
<1>3. Sent(q) \in Nat
  BY <1>1 DEF Sent, SendingCounted
<1>4. \A i \in InChan(q) : i \in Nat \ {0} /\ chan[i] \in Items
  BY ChanFacts DEF InChan
<1>5. \A x \in Items : x.n \in Nat
  BY DEF Items
<1>6. Reached(q) \in Nat
  BY <1>2, NumberFacts DEF Reached, Total
<1>7. \A i \in InChan(q) : i \in Nat \ {0} /\ chan[i].n \in Nat
  BY <1>4, <1>5
<1> QED BY <1>1, <1>2, <1>3, <1>6, <1>7 DEF RingTyped

(***************************************************************************)
(* What is in the channel of a ring was there before, k places further on. *)
(***************************************************************************)
Shifts(q, k) == \A i \in InChan(q)' : i \in Nat /\ i + k \in InChan(q) /\ chan'[i] = chan[i + k]

(***************************************************************************)
(* The channel keeps its order when it only loses its head.                *)
(***************************************************************************)
LEMMA ShiftOrder ==
  ASSUME Types, SendingCounted, NEW q \in Rings, NEW k \in {0, 1}, Shifts(q, k), ChanOrder(q),
         Sent(q)' = Sent(q)
  PROVE  ChanOrder(q)'
<1>1. ASSUME NEW i \in InChan(q)', NEW j \in InChan(q)', i < j
      PROVE  chan'[i].n < chan'[j].n
  <2>1. /\ i \in Nat /\ i + k \in InChan(q) /\ chan'[i] = chan[i + k]
        /\ j \in Nat /\ j + k \in InChan(q) /\ chan'[j] = chan[j + k]
    BY DEF Shifts
  <2>2. i + k < j + k
    BY <1>1, <2>1
  <2> QED BY <2>1, <2>2 DEF ChanOrder
<1>2. \A i \in InChan(q)' : chan'[i].n <= Sent(q)'
  BY DEF Shifts, ChanOrder
<1> QED BY <1>1, <1>2 DEF ChanOrder

(***************************************************************************)
(* A ring whose buffers all stay where they are, or next to it.            *)
(***************************************************************************)
LEMMA RestingRing ==
  ASSUME Types, SendingCounted, NEW q \in Rings, NEW k \in {0, 1}, Shifts(q, k), ChanOrder(q),
         q \notin hist.broken => RunOrder(q),
         Sent(q)' = Sent(q), pend'[q] = pend[q], hist'.started[q] = hist.started[q],
         hist.broken \subseteq hist'.broken
  PROVE  ChanOrder(q)' /\ (q \notin hist'.broken => RunOrder(q)')
<1>1. ChanOrder(q)'
  BY ShiftOrder
<1>2. ASSUME q \notin hist'.broken PROVE RunOrder(q)'
  <2>1. RunOrder(q)
    BY <1>2
  <2>2. Orderly(hist'.started[q], pend'[q], Sent(q)') /\ Reached(q)' = Reached(q)
    BY <2>1 DEF RunOrder, Reached
  <2>3. \A i \in InChan(q)' : chan'[i].n > Reached(q)
    BY <2>1 DEF RunOrder, Shifts
  <2> QED BY <2>2, <2>3 DEF RunOrder
<1> QED BY <1>1, <1>2

(***************************************************************************)
(* The next buffer of a ring, if it was sent, is in the channel.           *)
(***************************************************************************)
LEMMA NextInChan ==
  ASSUME Types, SendingCounted, AllKept, NEW q \in Rings, RunOrder(q), Reached(q) < Sent(q)
  PROVE  Reached(q) + 1 \in NumbersInChan(q)
<1> DEFINE s == hist.started[q]
           p == pend[q]
<1>1. /\ s \in Seq(Nat) /\ p \in Seq(Nat) /\ Len(s) \in Nat /\ Len(p) \in Nat
      /\ Reached(q) \in Nat /\ Sent(q) \in Nat /\ Reached(q) = Len(s) + Len(p)
  BY RingTypes DEF Reached, RingTyped, Total
<1>2. Orderly(s, p, Sent(q))
  BY DEF RunOrder
<1>3. Reached(q) + 1 \in Range(s) \cup Range(p) \cup NumbersInChan(q)
  <2>1. Reached(q) + 1 \in 1..Sent(q)
    BY <1>1, NumberFacts
  <2>2. \A n \in 1..Sent(q) : n \in Range(s) \cup Range(p) \cup NumbersInChan(q)
    BY DEF AllKept
  <2> QED BY <2>1, <2>2
<1> HIDE DEF s, p
<1>4. Reached(q) + 1 \notin Range(s)
  <2>1. \A i \in DOMAIN s : i \in Nat /\ i <= Len(s)
    BY <1>1
  <2>2. \A i \in DOMAIN s : s[i] # Reached(q) + 1
    BY <1>1, <1>2, <2>1 DEF Orderly
  <2> QED BY <2>2 DEF Range
<1>5. Reached(q) + 1 \notin Range(p)
  <2>1. \A i \in DOMAIN p : i \in Nat /\ i <= Len(p)
    BY <1>1
  <2>2. \A i \in DOMAIN p : p[i] # Reached(q) + 1
    BY <1>1, <1>2, <2>1 DEF Orderly
  <2> QED BY <2>2 DEF Range
<1> QED BY <1>3, <1>4, <1>5

(***************************************************************************)
(* Every step keeps the order of every ring.                               *)
(***************************************************************************)
LEMMA StepOrder ==
  /\ Types /\ BuffersMeant /\ CallsMeant /\ WorkMeant /\ FlushesAnswered /\ ParkedMeant
  /\ AllKept /\ InOrder /\ Types' /\ [GpuNext]_gpuVars
  => InOrder'
<1> SUFFICES ASSUME Types, BuffersMeant, CallsMeant, WorkMeant, FlushesAnswered, ParkedMeant,
                    AllKept, InOrder, Types', [GpuNext]_gpuVars
             PROVE  InOrder'
  OBVIOUS
<1> DEFINE Good(q) == ChanOrder(q)' /\ (q \notin hist'.broken => RunOrder(q)')
<1>a. (\A q \in Rings : Good(q)) => InOrder'
  <2>1. RingsOrdered' => InOrder'
    BY RingsOrder, PTL
  <2> QED BY <2>1 DEF RingsOrdered
<1>0. SendingCounted
  BY DEF AllKept, SendingCounted
<1>1. /\ SendingCounted' /\ hist.broken \subseteq hist'.broken
      /\ Rests \/ \E r \in Rings, n \in Nat : Flows(r, n)
  BY <1>0, FlowFacts
<1>2. \A q \in Rings : ChanOrder(q) /\ (q \notin hist.broken => RunOrder(q))
  BY RingsOrder DEF RingsOrdered
<1>3. \A q \in Rings : chan' = chan => Shifts(q, 0)
  <2>1. \A q \in Rings : \A i \in InChan(q) : i \in Nat /\ i + 0 = i
    BY <1>0, RingTypes DEF RingTyped
  <2>2. \A q \in Rings : chan' = chan => InChan(q)' = InChan(q)
    BY PlaceFacts
  <2> QED BY <2>1, <2>2 DEF Shifts
<1>4. ASSUME NEW q \in Rings, NEW x \in Items, Len(chan) < Depth, chan' = Append(chan, x),
             ~(x.kind = "submit" /\ x.ring = q)
      PROVE  Shifts(q, 0)
  <2>1. \A i \in InChan(q) : i \in Nat /\ i + 0 = i
    BY <1>0, RingTypes DEF RingTyped
  <2>2. InChan(q)' = InChan(q) /\ \A i \in InChan(q) : chan'[i] = chan[i]
    BY <1>4, PlaceFacts
  <2> QED BY <2>1, <2>2 DEF Shifts
<1>5. \A q \in Rings : chan # <<>> /\ chan' = Tail(chan) => Shifts(q, 1)
  BY PlaceFacts DEF Shifts
<1>6. CASE Rests
  <2>1. \A q \in Rings : Shifts(q, 0) \/ Shifts(q, 1)
    BY <1>3, <1>4, <1>5, <1>6 DEF Rests
  <2>2. \A q \in Rings : Sent(q)' = Sent(q) /\ pend'[q] = pend[q]
                         /\ hist'.started[q] = hist.started[q]
    BY <1>6 DEF Rests, SentSame, StartsNone
  <2>3. ASSUME NEW q \in Rings PROVE Good(q)
    BY <1>0, <1>1, <1>2, <2>1, <2>2, RestingRing
  <2> QED BY <1>a, <2>3
<1>7. ASSUME NEW r \in Rings, NEW n \in Nat, Flows(r, n) PROVE InOrder'
  <2>0. /\ hist.started \in [Rings -> Seq(Nat)] /\ pend \in [Rings -> Seq(Nat)]
        /\ Item("submit", r, n, Nobody) \in Items
        /\ Item("submit", r, n, Nobody).kind = "submit"
        /\ Item("submit", r, n, Nobody).ring = r /\ Item("submit", r, n, Nobody).n = n
    BY RecordFacts, SMTT(40) DEF Types, Histories
  <2> DEFINE s == hist.started[r]
             p == pend[r]
             Others == \A q \in Rings \ {r} : Good(q)
  <2>b. Others /\ Good(r) => InOrder'
    BY <1>a
  <2>1. /\ s \in Seq(Nat) /\ p \in Seq(Nat) /\ Len(s) \in Nat /\ Len(p) \in Nat
        /\ Reached(r) \in Nat /\ Sent(r) \in Nat /\ Reached(r) = Total(s, p)
        /\ \A i \in InChan(r) : i \in Nat \ {0} /\ chan[i].n \in Nat
    BY <1>0, RingTypes DEF Reached, RingTyped
  <2>2. ASSUME \A q \in Rings \ {r} : /\ Shifts(q, 0) \/ Shifts(q, 1)
                                      /\ Sent(q)' = Sent(q) /\ pend'[q] = pend[q]
                                      /\ hist'.started[q] = hist.started[q]
        PROVE  Others
    <3>1. ASSUME NEW q \in Rings \ {r} PROVE Good(q)
      BY <1>0, <1>1, <1>2, <2>2, RestingRing
    <3> QED BY <3>1
  <2>3. StartsOn(r, n) => /\ hist'.started[r] = Append(s, n)
                          /\ \A q \in Rings \ {r} : hist'.started[q] = hist.started[q]
    BY <2>0 DEF StartsOn
  <2>4. StartsNone => \A q \in Rings : hist'.started[q] = hist.started[q]
    BY DEF StartsNone
  <2>5. r \notin hist'.broken => r \notin hist.broken /\ RunOrder(r) /\ Orderly(s, p, Sent(r))
    BY <1>1, <1>2 DEF RunOrder
  <2> HIDE DEF Others, Good, s, p
  <2>6. CASE /\ SentBy(r, n) /\ Len(chan) < Depth
             /\ chan' = Append(chan, Item("submit", r, n, Nobody)) /\ pend' = pend /\ StartsNone
    <3>1. Others
      BY <1>4, <2>0, <2>2, <2>4, <2>6 DEF SentBy
    <3>2. /\ n = Sent(r) + 1 /\ Sent(r)' = n /\ pend'[r] = p /\ hist'.started[r] = s
      BY <2>4, <2>6 DEF SentBy, s, p
    <3>3. /\ InChan(r)' = InChan(r) \cup {Len(chan) + 1}
          /\ chan'[Len(chan) + 1].n = n /\ Len(chan) \in Nat
          /\ \A i \in InChan(r) : chan'[i] = chan[i] /\ i \in 1..Len(chan)
      BY <2>0, <2>6, PlaceFacts
    <3>4. \A i \in InChan(r) : chan'[i].n < n /\ i < Len(chan) + 1
      <4>1. \A i \in InChan(r) : chan[i].n <= Sent(r) /\ i <= Len(chan)
        BY <1>2, <3>3 DEF ChanOrder
      <4>2. \A i \in InChan(r) : chan[i].n < Sent(r) + 1 /\ i < Len(chan) + 1
        BY <2>1, <3>3, <4>1, NumberFacts
      <4> QED BY <3>2, <3>3, <4>2
    <3>5. \A i, j \in InChan(r)' : i < j => chan'[i].n < chan'[j].n
      <4> SUFFICES ASSUME NEW i \in InChan(r)', NEW j \in InChan(r)', i < j
                   PROVE  chan'[i].n < chan'[j].n
        OBVIOUS
      <4>1. CASE i \in InChan(r) /\ j \in InChan(r)
        BY <1>2, <3>3, <4>1 DEF ChanOrder
      <4>2. CASE i \in InChan(r) /\ j = Len(chan) + 1
        BY <3>3, <3>4, <4>2
      <4>3. CASE i = Len(chan) + 1
        BY <3>3, <3>4, <4>3
      <4> QED BY <3>3, <4>1, <4>2, <4>3
    <3>6. \A i \in InChan(r)' : chan'[i].n <= Sent(r)'
      <4>1. \A i \in InChan(r) : chan'[i].n <= n
        BY <2>1, <3>3, <3>4
      <4> QED BY <3>2, <3>3, <4>1
    <3>7. ASSUME r \notin hist'.broken PROVE RunOrder(r)'
      <4>1. Reached(r)' = Reached(r) /\ Reached(r) <= Sent(r)
        BY <2>1, <2>5, <3>2, <3>7 DEF Reached, Orderly, Total, s, p
      <4>2. Orderly(hist'.started[r], pend'[r], Sent(r)')
        <5>1. Orderly(s, p, n)
          <6>1. Orderly(s, p, Sent(r)) /\ Len(s) + Len(p) <= Sent(r)
            BY <2>5, <3>7 DEF Orderly
          <6>2. Len(s) + Len(p) <= Sent(r) + 1
            BY <2>1, <6>1, NumberFacts DEF Total
          <6> QED BY <3>2, <6>1, <6>2 DEF Orderly
        <5> QED BY <3>2, <5>1
      <4>3. \A i \in InChan(r)' : chan'[i].n > Reached(r)'
        <5>1. \A i \in InChan(r) : chan'[i].n > Reached(r)
          BY <2>5, <3>3, <3>7 DEF RunOrder
        <5>2. n > Reached(r)
          BY <2>1, <3>2, <4>1, NumberFacts
        <5> QED BY <3>3, <4>1, <5>1, <5>2
      <4> QED BY <4>2, <4>3 DEF RunOrder
    <3>8. ChanOrder(r)'
      BY <3>5, <3>6 DEF ChanOrder
    <3> QED BY <2>b, <3>1, <3>7, <3>8 DEF Good
  <2>7. CASE SentBy(r, n) /\ worker = "failed" /\ chan' = chan /\ pend' = pend /\ StartsOn(r, n)
    <3>1. Others
      BY <1>3, <2>2, <2>3, <2>7 DEF SentBy
    <3>2. chan = <<>> /\ p = <<>> /\ InChan(r) = {} /\ InChan(r)' = {}
      BY <2>7 DEF WorkMeant, InChan, p
    <3>3. ChanOrder(r)'
      BY <3>2 DEF ChanOrder
    <3>4. ASSUME r \notin hist'.broken PROVE RunOrder(r)'
      <4>1. Reached(r) <= Sent(r)
        BY <2>1, <2>5, <3>4 DEF Orderly, Total
      <4>2. ~(Reached(r) < Sent(r))
        BY <1>0, <2>5, <3>2, <3>4, NextInChan DEF NumbersInChan
      <4>3. n = Total(s, p) + 1 /\ Sent(r)' = n
        <5>1. Reached(r) = Sent(r)
          BY <2>1, <4>1, <4>2, NumberFacts
        <5> QED BY <2>1, <2>7, <5>1 DEF SentBy
      <4>4. Orderly(Append(s, n), p, n)
        <5>1. s \in Seq(Nat) /\ p \in Seq(Nat) /\ Sent(r) \in Nat /\ Orderly(s, p, Sent(r))
          BY <2>1, <2>5, <3>4
        <5> QED BY <3>2, <4>3, <5>1, OrderFacts
      <4>5. hist'.started[r] = Append(s, n) /\ pend'[r] = p
        BY <2>3, <2>7 DEF p
      <4> QED BY <3>2, <4>3, <4>4, <4>5 DEF RunOrder
    <3> QED BY <2>b, <3>1, <3>3, <3>4 DEF Good
  <2>8. ASSUME SentSame, Takes(r, n)
        PROVE  /\ ChanOrder(r)'
               /\ \A q \in Rings : Sent(q)' = Sent(q) /\ Shifts(q, 1)
               /\ n <= Sent(r)
               /\ \A i \in InChan(r)' : chan'[i].n > n
               /\ r \notin hist'.broken => n = Total(s, p) + 1
    <3>1. \A q \in Rings : Sent(q)' = Sent(q) /\ Shifts(q, 1)
      BY <1>5, <2>8 DEF SentSame, Takes
    <3>2. ChanOrder(r)'
      BY <1>0, <1>2, <3>1, ShiftOrder
    <3>3. /\ 1 \in InChan(r) /\ chan[1].n = n
          /\ \A i \in InChan(r)' : i \in Nat /\ i + 1 \in InChan(r) /\ chan'[i] = chan[i + 1]
      BY <2>8, PlaceFacts DEF Takes
    <3>4. n <= Sent(r)
      BY <1>2, <3>3 DEF ChanOrder
    <3>5. \A i \in InChan(r) : i = 1 \/ chan[i].n > n
      BY <1>2, <2>1, <3>3, SMTT(40) DEF ChanOrder
    <3>6. \A i \in InChan(r)' : chan'[i].n > n
      <4>1. \A i \in InChan(r)' : i \in Nat \ {0}
        <5>1. (\A q \in Rings : RingTyped(q))'
          BY <1>1, RingTypes, PTL
        <5> QED BY <5>1 DEF RingTyped
      <4> QED BY <3>3, <3>5, <4>1
    <3>7. ASSUME r \notin hist'.broken PROVE n = Total(s, p) + 1
      <4>1. n > Reached(r)
        BY <2>5, <3>3, <3>7 DEF RunOrder
      <4>2. Reached(r) + 1 \in NumbersInChan(r)
        <5>1. Reached(r) < Sent(r)
          BY <2>1, <3>4, <4>1, NumberFacts
        <5> QED BY <1>0, <2>5, <3>7, <5>1, NextInChan
      <4>3. PICK i \in InChan(r) : chan[i].n = Reached(r) + 1
        BY <4>2 DEF NumbersInChan
      <4>4. Reached(r) + 1 >= n
        <5>1. Reached(r) + 1 > n \/ Reached(r) + 1 = n
          BY <3>3, <3>5, <4>3
        <5> QED BY <2>1, <5>1, NumberFacts
      <4>5. n = Reached(r) + 1
        BY <2>1, <4>1, <4>4, NumberFacts
      <4> QED BY <2>1, <4>5
    <3> QED BY <3>1, <3>2, <3>4, <3>6, <3>7
  <2>9. CASE SentSame /\ Takes(r, n) /\ Suspended(r) /\ ParksOn(r, n) /\ StartsNone
    <3>1. /\ pend'[r] = Append(p, n) /\ hist'.started[r] = s
          /\ \A q \in Rings \ {r} : pend'[q] = pend[q]
      BY <2>0, <2>4, <2>9 DEF ParksOn, s, p
    <3>2. Others
      BY <2>2, <2>4, <2>8, <2>9, <3>1
    <3>3. ASSUME r \notin hist'.broken PROVE RunOrder(r)'
      <4>1. n = Total(s, p) + 1 /\ n <= Sent(r) /\ Sent(r)' = Sent(r)
        BY <2>8, <2>9, <3>3
      <4>2. Orderly(s, Append(p, n), Sent(r)) /\ Total(s, Append(p, n)) = n
        <5>1. s \in Seq(Nat) /\ p \in Seq(Nat) /\ Sent(r) \in Nat /\ Orderly(s, p, Sent(r))
          BY <2>1, <2>5, <3>3
        <5> QED BY <4>1, <5>1, OrderFacts
      <4>3. Orderly(hist'.started[r], pend'[r], Sent(r)') /\ Reached(r)' = n
        BY <3>1, <4>1, <4>2 DEF Reached
      <4> QED BY <2>8, <2>9, <4>3 DEF RunOrder
    <3> QED BY <2>b, <2>8, <2>9, <3>2, <3>3 DEF Good
  <2>10. CASE SentSame /\ Takes(r, n) /\ ~Suspended(r) /\ pend' = pend /\ StartsOn(r, n)
    <3>1. Others
      BY <2>2, <2>3, <2>8, <2>10
    <3>2. ASSUME r \notin hist'.broken PROVE RunOrder(r)'
      <4>1. n = Total(s, p) + 1 /\ n <= Sent(r) /\ Sent(r)' = Sent(r)
        BY <2>8, <2>10, <3>2
      <4>2. p = <<>>
        BY <2>5, <2>10, <3>2 DEF ParkedMeant, Takes, p
      <4>4. Orderly(Append(s, n), p, n) /\ Total(Append(s, n), p) = n
        <5>1. /\ s \in Seq(Nat) /\ p \in Seq(Nat) /\ Sent(r) \in Nat /\ Orderly(s, p, Sent(r))
              /\ n \in Nat
          BY <2>1, <2>5, <3>2
        <5>2. p = <<>> /\ n = Total(s, p) + 1 =>
                Orderly(Append(s, n), p, n) /\ Total(Append(s, n), p) = n
          BY ONLY <5>1, OrderFacts, ZenonT(30)
        <5> QED BY <4>1, <4>2, <5>2, Zenon
      <4>5. Orderly(Append(s, n), p, Sent(r))
        BY <2>1, <4>1, <4>4 DEF Orderly
      <4>6. Orderly(hist'.started[r], pend'[r], Sent(r)') /\ Reached(r)' = n
        BY <2>3, <2>10, <4>1, <4>4, <4>5 DEF Reached, p
      <4> QED BY <2>8, <2>10, <4>6 DEF RunOrder
    <3> QED BY <2>b, <2>8, <2>10, <3>1, <3>2 DEF Good
  <2>11. CASE /\ SentSame /\ chan' = chan /\ pend[r] # <<>> /\ n = Head(pend[r])
              /\ pend' = [pend EXCEPT ![r] = Tail(@)] /\ StartsOn(r, n)
    <3>1. /\ pend'[r] = Tail(p) /\ hist'.started[r] = Append(s, n)
          /\ \A q \in Rings \ {r} : pend'[q] = pend[q]
      BY <2>0, <2>3, <2>11 DEF p
    <3>2. \A q \in Rings : Sent(q)' = Sent(q) /\ Shifts(q, 0)
      BY <1>3, <2>11 DEF SentSame
    <3>3. Others
      BY <2>2, <2>3, <2>11, <3>1, <3>2
    <3>4. ChanOrder(r)'
      BY <1>0, <1>2, <3>2, ShiftOrder
    <3>5. ASSUME r \notin hist'.broken PROVE RunOrder(r)'
      <4>1. Orderly(Append(s, n), Tail(p), Sent(r))
            /\ Total(Append(s, n), Tail(p)) = Total(s, p)
        <5>1. /\ s \in Seq(Nat) /\ p \in Seq(Nat) /\ Sent(r) \in Nat /\ Orderly(s, p, Sent(r))
              /\ p # <<>> /\ n = Head(p)
          BY <2>1, <2>5, <2>11, <3>5 DEF p
        <5> QED BY <5>1, OrderFacts
      <4>2. Orderly(hist'.started[r], pend'[r], Sent(r)') /\ Reached(r)' = Reached(r)
        BY <2>1, <3>1, <3>2, <4>1 DEF Reached
      <4>3. \A i \in InChan(r)' : chan'[i].n > Reached(r)
        BY <2>5, <2>11, <3>5, PlaceFacts DEF RunOrder
      <4> QED BY <4>2, <4>3 DEF RunOrder
    <3> QED BY <2>b, <3>3, <3>4, <3>5 DEF Good
  <2> QED BY <1>7, <2>6, <2>7, <2>9, <2>10, <2>11 DEF Flows
<1> QED BY <1>1, <1>6, <1>7

-------------------------------------------------------------------------------
(***************************************************************************)
(* LatchesMeant, ring by ring.                                             *)
(***************************************************************************)
Drawn == \A r \in Rings : \A l \in produced[r] \ hist.left : w.at = "walk" /\ r = w.ring
Owed(q) == w.at = "walk" /\ susp[q].label \in produced[w.ring]
Excused(q) == hist.since[q] = "released" \/ susp[q].label \in hist.left
WaitMeant(q) ==
    /\ hist.since[q] = "released" /\ susp[q].label \notin hist.left => susp[q].latched \/ Owed(q)
    /\ susp[q].latched => Excused(q)
    /\ Owed(q) => Excused(q)
    /\ label[susp[q].label] => hist.since[q] # "never"
LatchesKept == Drawn /\ \A q \in Rings : Suspended(q) => WaitMeant(q)

(***************************************************************************)
(* LatchesMeant is Drawn, and WaitMeant of every suspended buffer.         *)
(***************************************************************************)
LEMMA LatchesSplit == LatchesMeant <=> LatchesKept
BY DEF LatchesMeant, LatchesKept, Drawn, WaitMeant, Owed, Excused

(***************************************************************************)
(* Outside a walk, whatever the worker turns to.                           *)
(***************************************************************************)
LEMMA QuietLatches ==
  ASSUME Types, LatchesKept, w.at # "walk", produced' = produced, hist'.left = hist.left,
         label' = label, w'.ring \in Rings,
         \A q \in Rings : Suspended(q)' =>
           /\ Suspended(q) /\ susp'[q].label = susp[q].label
           /\ susp'[q].latched <=> susp[q].latched
           /\ hist'.since[q] = hist.since[q]
  PROVE  LatchesKept'
<1>1. \A r \in Rings : produced[r] \subseteq hist.left
  BY DEF LatchesKept, Drawn
<1>2. Drawn'
  BY <1>1 DEF Drawn
<1>3. ASSUME NEW q \in Rings, Suspended(q)' PROVE WaitMeant(q)'
  <2>1. /\ Suspended(q) /\ WaitMeant(q) /\ susp'[q].label = susp[q].label
        /\ susp'[q].latched <=> susp[q].latched
        /\ hist'.since[q] = hist.since[q]
    BY <1>3 DEF LatchesKept
  <2>2. Owed(q)' => susp[q].label \in hist.left
    BY <1>1, <2>1 DEF Owed
  <2>3. ~Owed(q)
    BY DEF Owed
  <2> QED BY <2>1, <2>2, <2>3 DEF WaitMeant, Excused
<1> QED BY <1>2, <1>3 DEF LatchesKept

(***************************************************************************)
(* A write that is no release, with the worker in its walk or outside.     *)
(***************************************************************************)
LEMMA HeldLatches ==
  ASSUME Types, BuffersMeant, LatchesKept, NEW ls \in SUBSET Labels, Writes(ls, "held"),
         susp' = susp, produced' = produced,
         w'.at = "walk" <=> w.at = "walk", w.at = "walk" => w'.ring = w.ring
  PROVE  LatchesKept'
<1>1. /\ hist'.left = hist.left /\ hist'.since = Since(ls, "held")
      /\ \A l \in Labels : label'[l] => label[l] \/ l \in ls
  BY DEF Writes, Past
<1>2. Drawn'
  BY <1>1 DEF Drawn, LatchesKept
<1>3. ASSUME NEW q \in Rings, Suspended(q)' PROVE WaitMeant(q)'
  <2>1. Suspended(q) /\ WaitMeant(q) /\ susp[q].label \in Labels
    BY <1>3 DEF LatchesKept, Suspended, BuffersMeant
  <2>2. hist'.since[q] = IF Suspended(q) /\ susp[q].label \in ls /\ hist.since[q] # "released"
                         THEN "held" ELSE hist.since[q]
    BY <1>1 DEF Since
  <2>3. Owed(q)' <=> Owed(q)
    BY DEF Owed
  <2>4. hist'.since[q] = "released" <=> hist.since[q] = "released"
    BY <2>2
  <2>5. Excused(q)' <=> Excused(q)
    BY <1>1, <2>4 DEF Excused
  <2>6. label'[susp[q].label] => hist'.since[q] # "never"
    BY <1>1, <2>1, <2>2 DEF WaitMeant
  <2> QED BY <1>1, <2>1, <2>3, <2>4, <2>5, <2>6 DEF WaitMeant
<1> QED BY <1>2, <1>3 DEF LatchesKept

(***************************************************************************)
(* Nothing written at all.                                                 *)
(***************************************************************************)
LEMMA SameLatches ==
  ASSUME Types, LatchesKept, susp' = susp, produced' = produced, label' = label,
         hist'.left = hist.left, hist'.since = hist.since,
         w'.at = "walk" <=> w.at = "walk", w.at = "walk" => w'.ring = w.ring
  PROVE  LatchesKept'
<1>1. Drawn'
  BY DEF Drawn, LatchesKept
<1>2. ASSUME NEW q \in Rings, Suspended(q)' PROVE WaitMeant(q)'
  <2>1. Suspended(q) /\ WaitMeant(q)
    BY <1>2 DEF LatchesKept, Suspended
  <2>2. (Owed(q)' <=> Owed(q)) /\ (Excused(q)' <=> Excused(q))
    BY DEF Owed, Excused
  <2> QED BY <2>1, <2>2 DEF WaitMeant
<1> QED BY <1>1, <1>2 DEF LatchesKept

(***************************************************************************)
(* The end of a walk: what it wrote is latched, and a buffer it suspends   *)
(* waits for a label that is not satisfied.                                *)
(***************************************************************************)
LEMMA EndLatches ==
  ASSUME Types, LatchesKept, w.at = "walk", w'.at # "walk", label' = label,
         produced' = [produced EXCEPT ![w.ring] = {}], hist'.left = hist.left,
         \A q \in Rings : Suspended(q)' =>
           \/ /\ Suspended(q) /\ susp'[q] = Latched(produced[w.ring])[q]
              /\ hist'.since[q] = hist.since[q]
           \/ ~susp'[q].latched /\ hist'.since[q] = "never" /\ ~label[susp'[q].label]
  PROVE  LatchesKept'
<1>0. w.ring \in Rings /\ produced \in [Rings -> SUBSET Labels]
  BY DEF Types, Works
<1>1. Drawn'
  <2>1. \A r \in Rings : produced'[r] = IF r = w.ring THEN {} ELSE produced[r]
    BY <1>0
  <2> QED BY <2>1 DEF Drawn, LatchesKept
<1>2. \A q \in Rings : ~Owed(q)'
  BY DEF Owed
<1>3. ASSUME NEW q \in Rings, Suspended(q)' PROVE WaitMeant(q)'
  <2>1. CASE /\ Suspended(q) /\ susp'[q] = Latched(produced[w.ring])[q]
             /\ hist'.since[q] = hist.since[q]
    <3>1. /\ susp'[q].label = susp[q].label
          /\ susp'[q].latched <=> susp[q].latched \/ susp[q].label \in produced[w.ring]
      BY <2>1, ValueFacts
    <3>2. WaitMeant(q)
      BY <2>1 DEF LatchesKept
    <3>3. Owed(q) <=> susp[q].label \in produced[w.ring]
      BY DEF Owed
    <3>4. Excused(q)' <=> Excused(q)
      BY <2>1, <3>1 DEF Excused
    <3> QED BY <1>2, <2>1, <3>1, <3>2, <3>3, <3>4 DEF WaitMeant
  <2>2. CASE ~susp'[q].latched /\ hist'.since[q] = "never" /\ ~label[susp'[q].label]
    BY <1>2, <2>2 DEF WaitMeant
  <2> QED BY <1>3, <2>1, <2>2
<1> QED BY <1>1, <1>3 DEF LatchesKept

(***************************************************************************)
(* A walk that leaves its labels undrained.                                *)
(***************************************************************************)
LEMMA LeftLatches ==
  ASSUME Types, LatchesKept, w.at = "walk", w'.at # "walk", label' = label, susp' = susp,
         produced' = produced, hist'.since = hist.since,
         hist'.left = hist.left \cup produced[w.ring]
  PROVE  LatchesKept'
<1>1. Drawn'
  BY DEF Drawn, LatchesKept
<1>2. \A q \in Rings : ~Owed(q)'
  BY DEF Owed
<1>3. ASSUME NEW q \in Rings, Suspended(q)' PROVE WaitMeant(q)'
  <2>1. Suspended(q) /\ WaitMeant(q)
    BY <1>3 DEF LatchesKept, Suspended
  <2>2. Owed(q) => susp[q].label \in hist'.left
    BY DEF Owed
  <2>3. Excused(q) => Excused(q)'
    BY DEF Excused
  <2> QED BY <1>2, <2>1, <2>2, <2>3 DEF WaitMeant
<1> QED BY <1>1, <1>3 DEF LatchesKept

(***************************************************************************)
(* A release of the command processor.                                     *)
(***************************************************************************)
LEMMA ReleaseLatches ==
  ASSUME Types, BuffersMeant, LatchesKept, NEW p \in Labels, Writes({p}, "released"),
         w.at = "walk", w'.at = "walk", w'.ring = w.ring, susp' = susp,
         produced' = [produced EXCEPT ![w.ring] = @ \cup {p}]
  PROVE  LatchesKept'
<1>0. w.ring \in Rings /\ produced \in [Rings -> SUBSET Labels]
  BY DEF Types, Works
<1>1. /\ hist'.left = hist.left /\ hist'.since = Since({p}, "released")
      /\ \A l \in Labels : label'[l] => label[l] \/ l = p
  BY DEF Writes, Past
<1>2. \A r \in Rings : produced'[r] = IF r = w.ring THEN produced[r] \cup {p} ELSE produced[r]
  BY <1>0
<1>3. Drawn'
  BY <1>1, <1>2 DEF Drawn, LatchesKept
<1>4. ASSUME NEW q \in Rings, Suspended(q)' PROVE WaitMeant(q)'
  <2>1. Suspended(q) /\ WaitMeant(q) /\ susp[q].label \in Labels
    BY <1>4 DEF LatchesKept, Suspended, BuffersMeant
  <2>2. hist'.since[q] = IF susp[q].label = p THEN "released" ELSE hist.since[q]
    BY <1>1, <2>1 DEF Since
  <2>3. Owed(q)' <=> Owed(q) \/ susp[q].label = p
    BY <1>0, <1>2 DEF Owed
  <2>4. Excused(q)' <=> Excused(q) \/ susp[q].label = p
    BY <1>1, <2>2 DEF Excused
  <2>5. label'[susp[q].label] => hist'.since[q] # "never"
    BY <1>1, <2>1, <2>2 DEF WaitMeant
  <2> QED BY <1>1, <2>1, <2>2, <2>3, <2>4, <2>5 DEF WaitMeant
<1> QED BY <1>3, <1>4 DEF LatchesKept

(***************************************************************************)
(* Every step keeps the latches.                                           *)
(***************************************************************************)
LEMMA StepLatches ==
  Types /\ BuffersMeant /\ CallsMeant /\ WorkMeant /\ LatchesMeant /\ [GpuNext]_gpuVars
  => LatchesMeant'
<1> SUFFICES ASSUME Types, BuffersMeant, CallsMeant, WorkMeant, LatchesKept, [GpuNext]_gpuVars
             PROVE  LatchesKept'
  BY LatchesSplit, PTL
<1> USE DEF shared, waits, guest
<1>a. w.ring \in Rings
  BY DEF Types, Works
<1>b. \A x \in Works : x.ring \in Rings
  BY DEF Works
<1>1. CASE OutsideStep
  <2>1. UNCHANGED <<susp, produced, w>> /\ hist'.left = hist.left
    BY <1>1, OutsideFacts, OutsideHist
  <2>2. CASE /\ label' = label
             /\ Past(hist'.admitted, hist.started, hist.since, hist.left, hist.broken)
    <3>1. hist'.since = hist.since
      BY <2>2 DEF Past
    <3> QED BY <2>1, <2>2, <3>1, SameLatches
  <2>3. ASSUME NEW ls \in SUBSET Labels, Writes(ls, "held") PROVE LatchesKept'
    BY <2>1, <2>3, HeldLatches
  <2>4. ASSUME NEW t \in Callers, SubmitInline(t) PROVE LatchesKept'
    <3>1. \A q \in Rings : ~Suspended(q)'
      BY <2>1, <2>4 DEF SubmitInline, WorkMeant, Suspended
    <3>2. Drawn'
      BY <2>1 DEF Drawn, LatchesKept
    <3> QED BY <3>1, <3>2 DEF LatchesKept
  <2> QED BY <1>1, <2>2, <2>3, <2>4, OutsideHist
<1>2. CASE RecvStep
  <2>0. /\ susp' = susp /\ produced' = produced /\ label' = label /\ w.at \in {"recv", "done"}
    BY <1>2 DEF RecvStep, RecvSubmit, RecvFlush, RecvShutdown, FinishItem
  <2>1. CASE RecvSubmit /\ ~Suspended(Head(chan).ring)
    <3>1. PICK r \in Rings : r = Head(chan).ring
      <4>1. chan # <<>>
        BY <2>1 DEF RecvSubmit
      <4>2. Head(chan) \in Items
        BY <4>1, ChanFacts
      <4> QED BY <4>2 DEF Items
    <3>2. /\ w' \in Works /\ hist'.left = hist.left
          /\ hist'.since = [hist.since EXCEPT ![r] = "never"]
      BY <2>1, <3>1, RecvSteps DEF Begins, Past
    <3>3. \A q \in Rings : q # r => hist'.since[q] = hist.since[q]
      BY <3>2 DEF Types, Histories
    <3>4. \A q \in Rings : Suspended(q)' => Suspended(q) /\ q # r
      BY <2>0, <2>1, <3>1 DEF Suspended
    <3>5. w'.ring \in Rings /\ w.at # "walk"
      BY <1>b, <2>0, <3>2
    <3> QED BY <2>0, <3>2, <3>3, <3>4, <3>5, QuietLatches
  <2>2. CASE ~(RecvSubmit /\ ~Suspended(Head(chan).ring))
    <3>1. hist' = hist /\ (w' \in Works \/ w' = w)
      BY <1>2, <2>2, RecvSteps DEF RecvStep, RecvFlush, RecvShutdown, FinishItem
    <3>2. w'.ring \in Rings /\ w.at # "walk"
      BY <1>a, <1>b, <2>0, <3>1
    <3>3. \A q \in Rings : Suspended(q)' => Suspended(q)
      BY <2>0 DEF Suspended
    <3> QED BY <2>0, <3>1, <3>2, <3>3, QuietLatches
  <2> QED BY <2>1, <2>2
<1>3. CASE InsideItem
  <2>1. CASE FlushItem
    <3>1. PICK ls \in SUBSET Labels : Writes(ls, "held")
      BY <2>1, CallWrites
    <3>2. w.at = "flush" /\ UNCHANGED <<susp, produced>> /\ w' = BeginRecheck
      BY <2>1 DEF FlushItem
    <3>3. w'.at # "walk"
      BY <3>2, WorkFacts
    <3> QED BY <3>1, <3>2, <3>3, HeldLatches
  <2>2. CASE WalkRelease
    <3>1. /\ UNCHANGED susp /\ w.at = "walk" /\ w'.at = w.at /\ w'.ring = w.ring
          /\ produced' = [produced EXCEPT ![w.ring] = @ \cup {Packet.label}]
      BY <2>2, WalkSteps DEF WalkRelease, WalksOn, AtPacket
    <3>2. Packet.label \in Labels /\ Writes({Packet.label}, "released")
      BY <2>2, WalkSteps
    <3>3. PICK p \in Labels : p = Packet.label
      BY <3>2
    <3> QED BY <3>1, <3>2, <3>3, ReleaseLatches
  <2>3. CASE WalkDispatch \/ WalkWait
    <3>1. /\ UNCHANGED <<susp, produced, label, hist>> /\ w'.at = w.at /\ w'.ring = w.ring
      BY <2>3, WalkSteps DEF WalkDispatch, WalkWait, WalksOn
    <3> QED BY <3>1, SameLatches
  <2>4. CASE WalkFlushes
    <3>1. UNCHANGED <<susp, produced, w>> /\ Writes(deferred, "held") /\ deferred \in SUBSET Labels
      BY <2>4, WalkSteps DEF WalkFlushes, Types
    <3> QED BY <3>1, HeldLatches
  <2>5. CASE WalkEnds \/ WalkSuspends \/ WalkFails
    <3>1. w.at = "walk" /\ label' = label /\ w' = AfterWalk
      BY <2>5 DEF WalkEnds, WalkSuspends, WalkFails, AtPacket
    <3>2. w'.at # "walk"
      BY <3>1, WorkFacts
    <3>3. ASSUME susp' = Latched(produced[w.ring]),
                 produced' = [produced EXCEPT ![w.ring] = {}],
                 hist'.left = hist.left, hist'.since = hist.since
          PROVE  LatchesKept'
      <4>1. \A q \in Rings : Suspended(q)' => Suspended(q)
        BY <3>3, WaitFacts
      <4> QED BY <3>1, <3>2, <3>3, <4>1, EndLatches
    <3>4. CASE WalkEnds
      BY <3>3, <3>4 DEF WalkEnds, TakeProduced
    <3>5. CASE WalkFails
      <4>1. CASE /\ susp' = Latched(produced[w.ring])
                 /\ produced' = [produced EXCEPT ![w.ring] = {}]
                 /\ Past(hist.admitted, hist.started, hist.since, hist.left, hist.broken)
        BY <3>3, <4>1 DEF Past
      <4>2. CASE /\ susp' = susp /\ produced' = produced
                 /\ Past(hist.admitted, hist.started, hist.since,
                         hist.left \cup produced[w.ring], hist.broken)
        BY <3>1, <3>2, <4>2, LeftLatches DEF Past
      <4> QED BY <3>5, <4>1, <4>2, WalkSteps
    <3>6. CASE WalkSuspends
      <4>1. /\ hist'.since = [hist.since EXCEPT ![w.ring] = "never"] /\ hist'.left = hist.left
            /\ susp'[w.ring].label = Packet.label /\ ~susp'[w.ring].latched
            /\ \A q \in Rings \ {w.ring} : susp'[q] = Latched(produced[w.ring])[q]
        BY <3>6, WalkSteps DEF Past
      <4>2. produced' = [produced EXCEPT ![w.ring] = {}] /\ ~label[Packet.label]
        BY <3>6 DEF WalkSuspends, TakeProduced
      <4>3. \A q \in Rings \ {w.ring} : Suspended(q)' => Suspended(q)
        BY <3>6, WaitFacts
      <4>4. /\ hist'.since[w.ring] = "never"
            /\ \A q \in Rings \ {w.ring} : hist'.since[q] = hist.since[q]
        BY <1>a, <4>1 DEF Types, Histories
      <4>5. ASSUME NEW q \in Rings, Suspended(q)'
            PROVE  \/ /\ Suspended(q) /\ susp'[q] = Latched(produced[w.ring])[q]
                      /\ hist'.since[q] = hist.since[q]
                   \/ ~susp'[q].latched /\ hist'.since[q] = "never" /\ ~label[susp'[q].label]
        <5>1. CASE q = w.ring
          BY <4>1, <4>2, <4>4, <5>1
        <5>2. CASE q # w.ring
          BY <4>1, <4>3, <4>4, <4>5, <5>2
        <5> QED BY <5>1, <5>2
      <4> QED BY <3>1, <3>2, <4>1, <4>2, <4>5, EndLatches
    <3> QED BY <2>5, <3>4, <3>5, <3>6
  <2>6. CASE Panics
    <3>1. UNCHANGED <<susp, produced, label>> /\ w.at \in {"walk", "flush"} /\ w'.at # "walk"
      BY <2>6, WalkSteps DEF Panics
    <3>2. CASE w.at = "walk"
      BY <2>6, <3>1, <3>2, WalkSteps, LeftLatches DEF Past
    <3>3. CASE w.at = "flush"
      BY <2>6, <3>1, <3>3, WalkSteps, SameLatches DEF Past
    <3> QED BY <3>1, <3>2, <3>3
  <2>7. CASE Resume
    <3>1. /\ w.at = "recheck" /\ UNCHANGED <<produced, label>> /\ hist'.left = hist.left
          /\ w'.ring = w.ring /\ hist'.since = [hist.since EXCEPT ![w.ring] = "never"]
          /\ susp'[w.ring] = NoBuffer /\ \A q \in Rings \ {w.ring} : susp'[q] = susp[q]
      BY <2>7, RecheckSteps DEF Resume, Begins, Past
    <3>2. \A q \in Rings \ {w.ring} : hist'.since[q] = hist.since[q]
      BY <1>a, <3>1 DEF Types, Histories
    <3>3. \A q \in Rings : Suspended(q)' => q # w.ring /\ Suspended(q) /\ susp'[q] = susp[q]
      BY <3>1 DEF Suspended
    <3> QED BY <1>a, <3>1, <3>2, <3>3, QuietLatches
  <2>8. CASE StillUnmet
    <3>1. /\ w.at = "recheck" /\ UNCHANGED <<produced, label, hist>> /\ w' = NextRing
          /\ Suspended(w.ring)
      BY <2>8 DEF StillUnmet
    <3>2. /\ susp'[w.ring].label = susp[w.ring].label
          /\ susp'[w.ring].latched <=> susp[w.ring].latched
          /\ \A q \in Rings \ {w.ring} : susp'[q] = susp[q]
      BY <2>8, RecheckSteps
    <3>3. \A q \in Rings : Suspended(q)' => /\ Suspended(q) /\ susp'[q].label = susp[q].label
                                            /\ susp'[q].latched <=> susp[q].latched
      BY <3>1, <3>2 DEF Suspended
    <3>4. w'.ring \in Rings
      BY <1>b, <3>1, WorkFacts
    <3> QED BY <3>1, <3>3, <3>4, QuietLatches
  <2>9. CASE NothingSuspended \/ DrainParked
    <3>1. w.at \in {"recheck", "drain"} /\ UNCHANGED <<susp, produced, label>>
      BY <2>9 DEF NothingSuspended, DrainParked
    <3>2. \A q \in Rings : Suspended(q)' => Suspended(q)
      BY <3>1 DEF Suspended
    <3>3. CASE w' = NextRing /\ hist' = hist
      BY <1>b, <3>1, <3>2, <3>3, WorkFacts, QuietLatches
    <3>4. CASE DrainParked /\ ~Suspended(w.ring) /\ pend[w.ring] # <<>>
      <4>1. /\ hist'.left = hist.left /\ w'.ring = w.ring
            /\ hist'.since = [hist.since EXCEPT ![w.ring] = "never"]
        BY <3>4, RecheckSteps DEF Begins, Past
      <4>2. \A q \in Rings : Suspended(q)' => hist'.since[q] = hist.since[q]
        BY <3>2, <3>4, <4>1 DEF Types, Histories
      <4> QED BY <1>a, <3>1, <3>2, <4>1, <4>2, QuietLatches
    <3> QED BY <2>9, <3>3, <3>4, RecheckSteps DEF NothingSuspended
  <2> QED BY <1>3, <2>1, <2>2, <2>3, <2>4, <2>5, <2>6, <2>7, <2>8, <2>9 DEF InsideItem
<1>4. CASE UNCHANGED gpuVars
  BY <1>4, SameLatches DEF gpuVars
<1> QED BY <1>1, <1>2, <1>3, <1>4, Steps

-------------------------------------------------------------------------------
(***************************************************************************)
(* The worker walks a buffer it has resumed or taken from those parked.    *)
(***************************************************************************)
Mid == w.at = "walk" /\ w.why # "submit"

(***************************************************************************)
(* The guest memory goes and does not come back.                           *)
(***************************************************************************)
LEMMA MemoryGoes == [GpuNext]_gpuVars => (memory' => memory)
<1> USE DEF shared, waits, guest
<1> SUFFICES ASSUME [GpuNext]_gpuVars PROVE memory' => memory
  OBVIOUS
<1>1. ASSUME NEW t, CallStep(t) PROVE memory' => memory
  BY <1>1 DEF CallStep, SendWork, SubmitInline, FlushRefused, Acquire, AdmitFlush, Drained,
              FlushInline, FlushAndPresent, Land
<1>2. ASSUME NEW t, NewCall(t) PROVE memory' => memory
  BY <1>2 DEF NewCall, SubmitDcb, Flip, WaitIdle, Store
<1>3. ASSUME SendShutdown \/ Close \/ Shutdown PROVE memory' => memory
  BY <1>3 DEF SendShutdown, Close, Shutdown
<1>4. ASSUME WalkFlushes \/ WalkFails \/ Panics PROVE memory' => memory
  BY <1>4 DEF WalkFlushes, WalkFails, Panics, Land
<1>5. ASSUME WorkerStep PROVE memory' => memory
  BY <1>5 DEF WorkerStep, RecvSubmit, RecvFlush, RecvShutdown, FlushItem, FinishItem, WalkRelease,
              WalkDispatch, WalkWait, WalkEnds, WalkSuspends, Resume, StillUnmet,
              NothingSuspended, DrainParked, FlushAndPresent, Land
<1>6. ASSUME UNCHANGED gpuVars PROVE memory' => memory
  BY <1>6 DEF gpuVars
<1> QED BY <1>1, <1>2, <1>3, <1>4, <1>5, <1>6 DEF GpuNext, HostStep

(***************************************************************************)
(* Every step keeps what the passes mean: a resumed buffer is followed by  *)
(* another pass or by the limit.                                           *)
(***************************************************************************)
LEMMA StepPasses ==
  Types /\ BuffersMeant /\ CallsMeant /\ PassesMeant /\ [GpuNext]_gpuVars => PassesMeant'
<1> SUFFICES ASSUME Types, BuffersMeant, CallsMeant, PassesMeant, [GpuNext]_gpuVars, memory'
             PROVE  PassesMeant'
  BY DEF PassesMeant
<1> USE DEF shared, waits, guest
<1>0. memory
  BY MemoryGoes
<1>1. /\ w.at = "drain" \/ Mid => w.moved
      /\ w.at = "recheck" /\ w.ring = "acb" /\ ~w.moved => Waiting("dcb")
      /\ w.at \in {"recv", "done"} /\ ~w.cut => \A q \in Rings : Waiting(q)
  BY <1>0 DEF PassesMeant, Mid
<1> DEFINE P1 == w'.at = "drain" \/ (w'.at = "walk" /\ w'.why # "submit") => w'.moved
           P2 == w'.at = "recheck" /\ w'.ring = "acb" /\ ~w'.moved => Waiting("dcb")'
           P3 == w'.at \in {"recv", "done"} /\ ~w'.cut => \A q \in Rings : Waiting(q)'
<1>2. P1 /\ P2 /\ P3 => PassesMeant'
  BY DEF PassesMeant
<1>3. ASSUME w' = w, susp' = susp PROVE PassesMeant'
  BY <1>1, <1>3 DEF PassesMeant, Waiting, Suspended, Mid
<1>a. w.ring \in Rings /\ \A q \in Rings : q = "dcb" \/ q = "acb"
  BY DEF Types, Works, Rings
<1>4. ASSUME w' = BeginRecheck PROVE PassesMeant'
  <2>1. w'.at = "recheck" /\ w'.ring = "dcb"
    BY <1>0, <1>4, WorkFacts
  <2> QED BY <1>2, <2>1
<1>5. ASSUME w' = NextRing, NEW r \in Rings, r = w.ring,
             w.moved \/ (/\ w.at = "recheck" /\ Waiting(r)'
                         /\ \A q \in Rings \ {r} : susp'[q] = susp[q])
      PROVE  PassesMeant'
  <2>1. \/ /\ w.ring = "dcb" /\ w'.at = "recheck" /\ w'.ring = "acb" /\ (w.moved => w'.moved)
        \/ w.ring = "acb" /\ w'.at = "recheck" /\ w'.ring = "dcb"
        \/ w.ring = "acb" /\ w'.at = "done" /\ (w.moved => w'.cut)
    BY <1>5, WorkFacts
  <2>2. P1
    BY <2>1
  <2>3. P2
    <3>1. w.ring = "dcb" /\ ~w.moved => Waiting("dcb")'
      <4> SUFFICES ASSUME w.ring = "dcb", ~w.moved PROVE Waiting("dcb")'
        OBVIOUS
      <4>1. r = "dcb" /\ Waiting(r)'
        BY <1>5
      <4> QED BY <4>1
    <3> QED BY <2>1, <3>1
  <2>4. P3
    <3> SUFFICES ASSUME w'.at = "done", ~w'.cut, NEW q \in Rings PROVE Waiting(q)'
      BY <2>1
    <3>1. w.ring = "acb" /\ ~w.moved /\ w.at = "recheck"
      BY <1>5, <2>1
    <3>2. q = "acb" \/ (q = "dcb" /\ susp'[q] = susp[q] /\ Waiting(q))
      BY <1>1, <1>5, <1>a, <3>1
    <3>3. CASE q = "acb"
      <4>1. q = r /\ Waiting(r)'
        BY <1>5, <3>1, <3>3
      <4> QED BY <4>1
    <3>4. CASE q = "dcb" /\ susp'[q] = susp[q] /\ Waiting(q)
      BY <3>4 DEF Waiting, Suspended
    <3> QED BY <3>2, <3>3, <3>4
  <2> QED BY <1>2, <2>2, <2>3, <2>4
<1>6. CASE OutsideStep
  BY <1>3, <1>6, OutsideFacts
<1>7. CASE RecvStep
  <2>1. CASE RecvSubmit /\ Suspended(Head(chan).ring)
    <3>1. w'.at = "recheck" /\ w'.ring = "dcb"
      BY <1>0, <2>1, RecvSteps
    <3> QED BY <1>2, <3>1
  <2>2. CASE RecvSubmit /\ ~Suspended(Head(chan).ring)
    <3>1. w'.at = "walk" /\ w'.why = "submit"
      BY <1>0, <2>2, RecvSteps DEF Begins
    <3> QED BY <1>2, <3>1
  <2>3. CASE RecvFlush
    <3>1. w'.at = "flush"
      BY <2>3, RecvSteps
    <3> QED BY <1>2, <3>1
  <2>4. CASE RecvShutdown
    BY <1>3, <2>4 DEF RecvShutdown
  <2>5. CASE FinishItem
    <3>1. w'.at = "recv" /\ (w.cut => w'.cut) /\ susp' = susp /\ w.at = "done"
      BY <2>5, RecvSteps DEF FinishItem
    <3>2. P3
      BY <1>1, <3>1 DEF Waiting, Suspended
    <3> QED BY <1>2, <3>1, <3>2
  <2> QED BY <1>7, <2>1, <2>2, <2>3, <2>4, <2>5 DEF RecvStep
<1>8. CASE InsideItem
  <2>1. CASE FlushItem
    BY <1>4, <2>1 DEF FlushItem
  <2>2. CASE WalkRelease \/ WalkDispatch \/ WalkWait
    <3>1. w.at = "walk"
      BY <2>2 DEF WalkRelease, WalkDispatch, WalkWait, AtPacket
    <3>2. w'.at = "walk" /\ w'.why = w.why /\ (w.moved => w'.moved)
      BY <2>2, <3>1, WalkSteps DEF WalksOn
    <3> QED BY <1>1, <1>2, <3>1, <3>2 DEF Mid
  <2>3. CASE WalkFlushes
    BY <1>3, <2>3 DEF WalkFlushes
  <2>4. CASE WalkEnds \/ WalkSuspends \/ WalkFails
    <3>1. w.at = "walk" /\ w' = AfterWalk
      BY <2>4 DEF WalkEnds, WalkSuspends, WalkFails, AtPacket
    <3>2. CASE w.why = "submit"
      BY <1>4, <3>1, <3>2, WorkFacts
    <3>3. CASE w.why # "submit"
      <4>1. w'.at = "drain" /\ w'.moved
        BY <1>1, <3>1, <3>3, WorkFacts DEF Mid
      <4> QED BY <1>2, <4>1
    <3> QED BY <3>2, <3>3
  <2>5. CASE Panics
    <3>1. w'.at = "done" /\ w'.cut
      BY <2>5, WalkSteps
    <3> QED BY <1>2, <3>1
  <2>6. CASE Resume
    <3>1. w'.at = "walk" /\ w'.moved
      BY <1>0, <2>6, RecheckSteps DEF Begins
    <3> QED BY <1>2, <3>1
  <2>7. CASE StillUnmet
    <3>1. w' = NextRing /\ w.at = "recheck" /\ ~susp[w.ring].latched
      BY <2>7 DEF StillUnmet, Satisfied
    <3>2. ~susp'[w.ring].latched /\ \A q \in Rings \ {w.ring} : susp'[q] = susp[q]
      BY <2>7, <3>1, RecheckSteps
    <3>3. PICK r \in Rings : r = w.ring /\ Waiting(r)'
      BY <1>a, <3>2 DEF Waiting
    <3> QED BY ONLY <1>5, <3>1, <3>2, <3>3
  <2>8. CASE NothingSuspended
    <3>1. w' = NextRing /\ w.at = "recheck" /\ ~Suspended(w.ring) /\ susp' = susp
      BY <2>8 DEF NothingSuspended
    <3>2. PICK r \in Rings : r = w.ring /\ Waiting(r)'
      BY <1>a, <3>1 DEF Waiting, Suspended
    <3> QED BY <1>5, <3>1, <3>2
  <2>9. CASE DrainParked
    <3>1. w.at = "drain" /\ w.moved
      BY <1>1, <2>9 DEF DrainParked
    <3>2. CASE ~Suspended(w.ring) /\ pend[w.ring] # <<>>
      <4>1. w'.at = "walk" /\ w'.moved
        BY <1>0, <2>9, <3>1, <3>2, RecheckSteps DEF Begins
      <4> QED BY <1>2, <4>1
    <3>3. CASE Suspended(w.ring) \/ pend[w.ring] = <<>>
      BY <1>5, <1>a, <2>9, <3>1, <3>3, RecheckSteps
    <3> QED BY <3>2, <3>3
  <2> QED BY <1>8, <2>1, <2>2, <2>3, <2>4, <2>5, <2>6, <2>7, <2>8, <2>9 DEF InsideItem
<1>9. CASE UNCHANGED gpuVars
  BY <1>3, <1>9 DEF gpuVars
<1> QED BY <1>6, <1>7, <1>8, <1>9, Steps

-------------------------------------------------------------------------------
(***************************************************************************)
(* The item the worker has is the one it had or the first of the channel.  *)
(***************************************************************************)
LEMMA ItemFlow ==
  ASSUME Types, BuffersMeant, CallsMeant, [GpuNext]_gpuVars, w'.at # "recv"
  PROVE  \/ w.at # "recv" /\ w'.item = w.item
         \/ chan # <<>> /\ w'.item = Head(chan)
<1> USE DEF shared, waits, guest
<1>1. CASE OutsideStep
  BY <1>1, OutsideFacts
<1>2. CASE RecvSubmit
  <2>1. chan # <<>>
    BY <1>2 DEF RecvSubmit
  <2> QED BY <1>2, <2>1, RecvSteps DEF Begins
<1>3. CASE RecvFlush
  <2>1. chan # <<>>
    BY <1>3 DEF RecvFlush
  <2> QED BY <1>3, <2>1, RecvSteps
<1>4. CASE RecvShutdown
  BY <1>4 DEF RecvShutdown
<1>5. CASE FinishItem
  BY <1>5, RecvSteps
<1>6. CASE InsideItem
  BY <1>6, InsideFacts
<1>7. CASE UNCHANGED gpuVars
  BY <1>7 DEF gpuVars
<1> QED BY <1>1, <1>2, <1>3, <1>4, <1>5, <1>6, <1>7, Steps DEF RecvStep

(***************************************************************************)
(* A submission is over when it was begun or parked and its item is gone.  *)
(***************************************************************************)
Done(q, n) ==
    /\ n \in Begun(q) \cup Parked(q)
    /\ n \notin NumbersInChan(q)
    /\ w.at # "recv" => w.item # Item("submit", q, n, Nobody)

(***************************************************************************)
(* Over, in terms of the sets of numbers.                                  *)
(***************************************************************************)
LEMMA OverDone == \A q, n : Over(q, n) <=> Done(q, n)
BY DEF Over, Done, Begun, Parked, NumbersInChan

(***************************************************************************)
(* RingTypes after the step.                                               *)
(***************************************************************************)
LEMMA RingTypesNext == (Types /\ SendingCounted)' => (\A q \in Rings : RingTyped(q))'
BY RingTypes, PTL

(***************************************************************************)
(* A submission that is over stays so: its number is not sent again.       *)
(***************************************************************************)
LEMMA DoneKept ==
  ASSUME Types, BuffersMeant, CallsMeant, FlushesAnswered, SendingCounted, Types',
         [GpuNext]_gpuVars, NEW q \in Rings
  PROVE  /\ Sent(q)' \in Nat /\ Sent(q) <= Sent(q)'
         /\ \A n \in 1..Sent(q) : Done(q, n) => Done(q, n)'
<1>0. Sent(q) \in Nat
  BY RingTypes DEF RingTyped
<1>1. /\ SendingCounted'
      /\ Rests \/ \E r \in Rings, m \in Nat : Flows(r, m)
  BY FlowFacts
<1>2. Sent(q)' \in Nat
  <2>1. (\A r \in Rings : RingTyped(r))'
    BY <1>1, RingTypesNext
  <2> QED BY <2>1 DEF RingTyped
<1>3. \/ SentSame
      \/ \E r \in Rings, m \in Nat : SentBy(r, m)
  BY <1>1 DEF Rests, Flows
<1>4. Sent(q) <= Sent(q)'
  <2>1. Sent(q)' = Sent(q) \/ Sent(q)' = Sent(q) + 1
    BY <1>3 DEF SentSame, SentBy
  <2> QED BY <1>0, <2>1
<1>5. ASSUME NEW n \in 1..Sent(q), Done(q, n) PROVE Done(q, n)'
  <2>1. n \in (Begun(q) \cup Parked(q))' /\ n \notin NumbersInChan(q)'
    <3>1. CASE Rests
      BY <1>5, <3>1, NumberFlow DEF Done
    <3>2. ASSUME NEW r \in Rings, NEW m \in Nat, Flows(r, m)
          PROVE  n \in (Begun(q) \cup Parked(q))' /\ n \notin NumbersInChan(q)'
      <4>1. Begun(q) \cup Parked(q) \subseteq Begun(q)' \cup Parked(q)'
        BY <3>2, NumberFlow
      <4>2. \/ NumbersInChan(q)' \subseteq NumbersInChan(q)
            \/ q = r /\ m = Sent(q) + 1 /\ NumbersInChan(q)' = NumbersInChan(q) \cup {m}
        BY <3>2, NumberFlow DEF SentBy
      <4>3. n # Sent(q) + 1
        BY <1>0
      <4> QED BY <1>5, <4>1, <4>2, <4>3 DEF Done
    <3> QED BY <1>1, <3>1, <3>2
  <2>2. ASSUME w'.at # "recv" PROVE w'.item # Item("submit", q, n, Nobody)
    <3>1. CASE w.at # "recv" /\ w'.item = w.item
      BY <1>5, <3>1 DEF Done
    <3>2. CASE chan # <<>> /\ w'.item = Head(chan)
      <4> SUFFICES ASSUME Head(chan) = Item("submit", q, n, Nobody) PROVE FALSE
        BY <3>2
      <4>1. Head(chan).kind = "submit" /\ Head(chan).ring = q /\ Head(chan).n = n
        BY DEF Item
      <4>2. 1 \in DOMAIN chan /\ chan[1] = Head(chan)
        BY <3>2, ChanFacts
      <4>3. n \in NumbersInChan(q)
        BY <4>1, <4>2 DEF NumbersInChan, InChan
      <4> QED BY <1>5, <4>3 DEF Done
    <3> QED BY <2>2, <3>1, <3>2, ItemFlow
  <2> QED BY <2>1, <2>2 DEF Done
<1> QED BY <1>2, <1>4, <1>5

(***************************************************************************)
(* When nothing is in flight, every submission admitted is over.           *)
(***************************************************************************)
LEMMA IdleDone ==
  ASSUME Types, CallsMeant, CountsExact, AllKept, inFlight = 0, NEW q \in Rings
  PROVE  Sent(q) = hist.admitted[q] /\ \A n \in 1..Sent(q) : Done(q, n)
<1>0. /\ CallersAt("submit", {"sending"}) \in Nat /\ Queued("submit") \in Nat
      /\ AtWorker("submit") \in {0, 1}
  BY CountFacts, QueuedFacts DEF AtWorker
<1>1. /\ CallersAt("submit", {"sending"}) = 0 /\ Queued("submit") = 0
      /\ AtWorker("submit") = 0
  BY <1>0 DEF CountsExact
<1>2. w.at # "recv" => w.item.kind # "submit"
  BY <1>1 DEF AtWorker
<1>3. InChan(q) = {}
  <2>1. ASSUME NEW i \in DOMAIN chan, chan[i].kind = "submit" PROVE FALSE
    BY <1>1, <2>1, ItemCounted
  <2> QED BY <2>1 DEF InChan
<1>4. ~Sending(q)
  <2> SUFFICES ASSUME Sending(q) PROVE FALSE
    OBVIOUS
  <2>1. lock \in Callers /\ call[lock].op = "submit" /\ call[lock].at \in {"sending"}
    BY DEF Sending, CallsMeant, Types, In
  <2> QED BY <1>1, <2>1, CallerCounted
<1>5. Sent(q) = hist.admitted[q]
  BY <1>4 DEF Sent
<1>6. ASSUME NEW n \in 1..Sent(q) PROVE Done(q, n)
  <2>1. NumbersInChan(q) = {}
    BY <1>3 DEF NumbersInChan
  <2>2. n \in Begun(q) \cup Parked(q)
    BY <2>1 DEF AllKept, Begun, Parked
  <2>3. Item("submit", q, n, Nobody).kind = "submit"
    BY DEF Item
  <2> QED BY <1>2, <2>1, <2>2, <2>3 DEF Done
<1> QED BY <1>5, <1>6

(***************************************************************************)
(* How a thread comes to be in wait_idle, and how it leaves.               *)
(***************************************************************************)
LEMMA IdleCalls ==
  ASSUME Types, BuffersMeant, CallsMeant, FlushesAnswered, [GpuNext]_gpuVars, NEW t \in Threads
  PROVE  /\ call'[t].op = "idle" =>
              \/ /\ call[t].op = "idle" /\ call'[t].mark = call[t].mark
                 /\ call'[t].at = "drain" \/ call[t].at # "drain" \/ inFlight = 0
              \/ call'[t].at = "drain" /\ call'[t].mark = hist.admitted
         /\ call[t].op = "idle" /\ call'[t].at = "idle" => call[t].at # "drain"
<1> USE DEF shared, waits, guest
<1> DEFINE Goal ==
      /\ call'[t].op = "idle" =>
           \/ /\ call[t].op = "idle" /\ call'[t].mark = call[t].mark
              /\ call'[t].at = "drain" \/ call[t].at # "drain" \/ inFlight = 0
           \/ call'[t].at = "drain" /\ call'[t].mark = hist.admitted
      /\ call[t].op = "idle" /\ call'[t].at = "idle" => call[t].at # "drain"
<1>0. t \in Callers /\ t # Host /\ call[t].op \in OpsAt(call[t].at) /\ OpsAt("idle") = {"none"}
  BY CallersAssumption, OpsFacts DEF CallsMeant, Callers
<1>1. ASSUME call'[t] = call[t] PROVE Goal
  BY <1>0, <1>1
<1>2. ASSUME NEW u \in Callers, NEW p, NEW o, NEW i, NEW m, Moves(u, p, o, i, m), u # t PROVE Goal
  BY <1>0, <1>1, <1>2 DEF Moves
<1> SUFFICES Goal
  OBVIOUS
<1> HIDE DEF Goal
<1>3. ASSUME NEW u \in Callers, CallStep(u) PROVE Goal
  <2>1. CASE u # t
    <3>1. call'[t] = call[t]
      <4>1. \E p, o, i, m : Moves(u, p, o, i, m)
        BY <1>3, CallSteps DEF CallStep
      <4> QED BY <1>0, <2>1, <4>1 DEF Moves
    <3> QED BY <1>1, <3>1
  <2>2. CASE u = t
    <3>1. CASE SendWork(t)
      <4>1. call[t].at = "sending"
        BY <3>1 DEF SendWork, In
      <4> QED BY <3>1, <4>1, <1>0, CallSteps DEF Moves, Goal
    <3>2. CASE SubmitInline(t)
      <4>1. call[t].at = "sending"
        BY <3>2 DEF SubmitInline, In
      <4> QED BY <3>2, <4>1, <1>0, CallSteps DEF Moves, Goal
    <3>3. CASE FlushRefused(t)
      <4>1. call[t].at = "sending"
        BY <3>3 DEF FlushRefused, In
      <4> QED BY <3>3, <4>1, <1>0, CallSteps DEF Moves, Goal
    <3>4. CASE Acquire(t)
      <4>1. call[t].at = "permit"
        BY <3>4 DEF Acquire, In
      <4> QED BY <3>4, <4>1, <1>0, CallSteps DEF Moves, Goal
    <3>5. CASE AdmitFlush(t)
      <4>1. call[t].at = "admit"
        BY <3>5 DEF AdmitFlush, In
      <4> QED BY <3>5, <4>1, <1>0, CallSteps DEF Moves, Goal
    <3>6. CASE Drained(t)
      <4>1. inFlight = 0
        BY <3>6 DEF Drained, NothingInFlight
      <4>2. PICK p \in {"inline", "admit"} :
              Moves(t, p, call[t].op, call[t].item, call[t].mark)
        BY <3>6, <1>0, CallSteps
      <4> QED BY <4>1, <4>2 DEF Moves, Goal
    <3>7. CASE FlushInline(t)
      <4>1. call[t].at = "inline"
        BY <3>7 DEF FlushInline, In
      <4> QED BY <3>7, <4>1, <1>0, CallSteps DEF Moves, Goal
    <3> QED BY <1>3, <2>2, <3>1, <3>2, <3>3, <3>4, <3>5, <3>6, <3>7 DEF CallStep
  <2> QED BY <2>1, <2>2
<1>4. CASE SendShutdown \/ Close \/ Shutdown
  <2>1. call'[t] = call[t]
    <3>1. Host \in Callers
      BY RecordFacts
    <3> QED BY <1>0, <1>4, <3>1, HostSteps DEF Moves
  <2> QED BY <1>1, <2>1
<1>5. ASSUME NEW u \in Threads, NewCall(u) PROVE Goal
  <2>1. CASE \E l \in GuestLabels : Store(u, l)
    <3>1. call' = call
      BY <2>1 DEF Store
    <3> QED BY <1>1, <3>1
  <2>2. ASSUME NEW q \in Rings, SubmitDcb(u, q) PROVE Goal
    <3>1. Moves(u, "sending", "submit", Item("submit", q, hist.admitted[q] + 1, Nobody),
                call[u].mark)
      BY <2>2, NewCallSteps
    <3>2. u # t => call'[t] = call[t]
      BY <1>0, <3>1 DEF Moves
    <3>3. u = t => call'[t].op = "submit" /\ call'[t].at = "sending"
      BY <3>1 DEF Moves
    <3> QED BY <1>1, <3>2, <3>3 DEF Goal
  <2>3. CASE Flip(u)
    <3>1. PICK p \in {"inline", "permit"} : Moves(u, p, "flip", call[u].item, call[u].mark)
      BY <2>3, NewCallSteps
    <3>2. u # t => call'[t] = call[t]
      BY <1>0, <3>1 DEF Moves
    <3>3. u = t => call'[t].op = "flip" /\ call'[t].at # "idle"
      BY <3>1 DEF Moves
    <3> QED BY <1>1, <3>2, <3>3 DEF Goal
  <2>4. CASE WaitIdle(u)
    <3>1. Moves(u, "drain", "idle", call[u].item, hist.admitted)
      BY <2>4, NewCallSteps
    <3>2. u # t => call'[t] = call[t]
      BY <1>0, <3>1 DEF Moves
    <3>3. u = t => call'[t].at = "drain" /\ call'[t].mark = hist.admitted
      BY <3>1 DEF Moves
    <3> QED BY <1>1, <3>2, <3>3 DEF Goal
  <2> QED BY <1>5, <2>1, <2>2, <2>3, <2>4 DEF NewCall
<1>6. CASE OutsideStep
  <2>1. Threads \subseteq Callers /\ Host \in Callers
    BY RecordFacts
  <2> QED BY <1>3, <1>4, <1>5, <1>6, <2>1 DEF OutsideStep, HostStep
<1>7. CASE RecvStep
  <2>1. CASE RecvSubmit \/ RecvFlush \/ RecvShutdown
    <3>1. call' = call
      BY <2>1 DEF RecvSubmit, RecvFlush, RecvShutdown
    <3> QED BY <1>1, <3>1
  <2>2. CASE FinishItem
    <3>1. w.at = "done" /\ call' = IF w.item.kind = "flush" THEN [call EXCEPT ![w.item.done] = NoCall]
                                   ELSE call
      BY <2>2 DEF FinishItem
    <3>2. w.item.kind = "flush" => call[w.item.done].at = "recv"
      BY <3>1 DEF FlushesAnswered, In
    <3>3. \/ call'[t] = call[t]
          \/ call'[t] = NoCall /\ call[t].at = "recv"
      BY <1>0, <3>1, <3>2 DEF Types
    <3>4. NoCall.op = "none"
      BY RecordFacts
    <3> QED BY <1>1, <3>3, <3>4 DEF Goal
  <2> QED BY <1>7, <2>1, <2>2 DEF RecvStep
<1>8. CASE InsideItem
  BY <1>1, <1>8, InsideFacts
<1>9. CASE UNCHANGED gpuVars
  BY <1>1, <1>9 DEF gpuVars
<1> QED BY <1>6, <1>7, <1>8, <1>9, Steps

(***************************************************************************)
(* Every step keeps what a wait_idle has waited for.                       *)
(***************************************************************************)
LEMMA StepIdles ==
  /\ Types /\ BuffersMeant /\ CallsMeant /\ FlushesAnswered /\ CountsExact /\ AllKept
  /\ IdlesMeant /\ Types' /\ [GpuNext]_gpuVars
  => IdlesMeant'
<1> SUFFICES ASSUME Types, BuffersMeant, CallsMeant, FlushesAnswered, CountsExact, AllKept,
                    IdlesMeant, Types', [GpuNext]_gpuVars
             PROVE  IdlesMeant'
  OBVIOUS
<1>0. SendingCounted
  BY DEF AllKept, SendingCounted
<1> DEFINE Rest(t, q) == /\ call'[t].mark[q] <= hist'.admitted[q]
                         /\ call'[t].at # "drain" =>
                              /\ call'[t].mark[q] <= Sent(q)'
                              /\ \A n \in 1..call'[t].mark[q] : Done(q, n)'
<1>1. (\A t \in Threads, q \in Rings : call'[t].op = "idle" => Rest(t, q)) => IdlesMeant'
  <2>1. \A q, n : Over(q, n)' <=> Done(q, n)'
    BY DEF Over, Done, Begun, Parked, NumbersInChan
  <2> QED BY <2>1 DEF IdlesMeant, In
<1>2. \A t \in Threads, q \in Rings : call[t].op = "idle" =>
        /\ call[t].mark[q] <= hist.admitted[q]
        /\ call[t].at # "drain" => /\ call[t].mark[q] <= Sent(q)
                                   /\ \A n \in 1..call[t].mark[q] : Done(q, n)
  BY OverDone DEF IdlesMeant, In
<1>3. \A q \in Rings : hist.admitted[q] \in Nat /\ hist'.admitted[q] \in Nat
                       /\ hist.admitted[q] <= hist'.admitted[q]
  <2>0. hist.admitted \in [Rings -> Nat] /\ hist'.admitted \in [Rings -> Nat]
    BY DEF Types, Histories
  <2>1. \/ hist'.admitted = hist.admitted
        \/ \E t \in Threads, q \in Rings : SubmitDcb(t, q)
    <3>1. CASE OutsideStep
      BY <3>1, OutsideHist
    <3>2. CASE RecvStep
      <4>1. CASE RecvSubmit
        BY <4>1, RecvSteps DEF Begins, Past
      <4>2. CASE RecvFlush \/ RecvShutdown \/ FinishItem
        BY <4>2 DEF RecvFlush, RecvShutdown, FinishItem
      <4> QED BY <3>2, <4>1, <4>2 DEF RecvStep
    <3>3. CASE InsideItem
      BY <3>3, InsideFacts
    <3>4. CASE UNCHANGED gpuVars
      BY <3>4 DEF gpuVars
    <3> QED BY <3>1, <3>2, <3>3, <3>4, Steps
  <2>2. ASSUME NEW t \in Threads, NEW q \in Rings, SubmitDcb(t, q)
        PROVE  \A r \in Rings : hist.admitted[r] <= hist'.admitted[r]
    <3>1. hist'.admitted = [hist.admitted EXCEPT ![q] = hist.admitted[q] + 1]
      BY <2>2, CallWrites DEF Past
    <3> QED BY <2>0, <3>1
  <2>3. hist'.admitted = hist.admitted => \A r \in Rings : hist.admitted[r] <= hist'.admitted[r]
    BY <2>0
  <2> QED BY <2>0, <2>1, <2>2, <2>3
<1>4. \A t \in Threads, q \in Rings : call[t].mark[q] \in Nat
  <2>1. \A x \in CallRecords : \A q \in Rings : x.mark[q] \in Nat
    BY DEF CallRecords
  <2> QED BY <2>1, RecordFacts DEF Types
<1>5. ASSUME NEW t \in Threads, NEW q \in Rings, call'[t].op = "idle" PROVE Rest(t, q)
  <2>0. /\ Sent(q) \in Nat /\ Sent(q)' \in Nat /\ Sent(q) <= Sent(q)'
        /\ \A n \in 1..Sent(q) : Done(q, n) => Done(q, n)'
    BY <1>0, DoneKept, RingTypes DEF RingTyped
  <2>1. ASSUME call[t].op = "idle", call'[t].mark = call[t].mark,
               call'[t].at = "drain" \/ call[t].at # "drain" \/ inFlight = 0
        PROVE  Rest(t, q)
    <3> DEFINE m == call[t].mark[q]
    <3>1. m \in Nat /\ m <= hist.admitted[q] /\ call'[t].mark[q] = m
      BY <1>2, <1>4, <2>1
    <3>2. call'[t].at # "drain" => m <= Sent(q) /\ \A n \in 1..m : Done(q, n)
      <4>1. CASE call[t].at # "drain"
        BY <1>2, <2>1, <4>1
      <4>2. CASE inFlight = 0
        <5>1. Sent(q) = hist.admitted[q] /\ \A n \in 1..Sent(q) : Done(q, n)
          BY <4>2, IdleDone
        <5>2. \A n \in 1..m : n \in 1..Sent(q)
          BY <2>0, <3>1, <5>1
        <5> QED BY <3>1, <5>1, <5>2
      <4> QED BY <2>1, <4>1, <4>2
    <3> HIDE DEF m
    <3>3. m <= hist'.admitted[q]
      BY <1>3, <3>1
    <3>4. ASSUME m <= Sent(q) PROVE m <= Sent(q)' /\ \A n \in 1..m : n \in 1..Sent(q)
      BY <2>0, <3>1, <3>4
    <3> QED BY <2>0, <3>1, <3>2, <3>3, <3>4
  <2>2. ASSUME call'[t].at = "drain", call'[t].mark = hist.admitted PROVE Rest(t, q)
    BY <1>3, <2>2
  <2> QED BY <1>5, <2>1, <2>2, IdleCalls
<1> QED BY <1>1, <1>5

-------------------------------------------------------------------------------
(***************************************************************************)
(* The invariant holds at the start.                                       *)
(***************************************************************************)
LEMMA InitGpuIInv == GpuInit => GpuIInv
<1> SUFFICES ASSUME GpuInit PROVE GpuIInv
  OBVIOUS
<1>0. /\ NoCall.at = "idle" /\ NoCall.op = "none" /\ NoCall \in CallRecords /\ NoWork.at = "recv"
      /\ NoBuffer \in Buffers /\ NoWork \in Works /\ Nobody \notin Callers /\ ~NoWork.cut
      /\ Host \in Callers /\ Threads \subseteq Callers
  BY RecordFacts
<1>1. /\ \A t \in Callers : call[t] = NoCall
      /\ chan = <<>> /\ DOMAIN chan = {} /\ lock = Nobody /\ w = NoWork /\ worker = "none"
      /\ \A q \in Rings : /\ ~Suspended(q) /\ susp[q] = NoBuffer /\ pend[q] = <<>>
                          /\ produced[q] = {} /\ InChan(q) = {}
  BY DEF GpuInit, Suspended, InChan
<1>2. /\ \A q \in Rings : /\ hist.admitted[q] = 0 /\ hist.started[q] = <<>>
      /\ hist.left = {} /\ hist.broken = {}
  BY DEF GpuInit, Unmarked
<1>3. Types
  <2>1. chan \in Seq(Items) /\ Len(chan) <= Depth
    BY LimitsAssumption DEF GpuInit
  <2>2. hist \in Histories
    <3>1. /\ [q \in Rings |-> 0] \in [Rings -> Nat]
          /\ [q \in Rings |-> <<>>] \in [Rings -> Seq(Nat)]
          /\ [q \in Rings |-> "never"] \in [Rings -> {"never", "held", "released"}]
      OBVIOUS
    <3> QED BY <3>1 DEF GpuInit, Histories, Unmarked
  <2>3. pend \in [Rings -> Seq(Nat)] /\ susp \in [Rings -> Buffers]
    BY <1>0 DEF GpuInit
  <2>4. permits \in 0..FramesInFlight
    BY LimitsAssumption DEF GpuInit
  <2>5. call \in [Callers -> CallRecords] /\ w \in Works
    BY <1>0 DEF GpuInit
  <2>6. produced \in [Rings -> SUBSET Labels] /\ label \in [Labels -> BOOLEAN]
    BY DEF GpuInit
  <2> QED BY <2>1, <2>2, <2>3, <2>4, <2>5, <2>6 DEF Types, GpuInit
<1>4. BuffersMeant
  <2>1. \A q \in Rings : DOMAIN pend[q] = {}
    BY <1>1
  <2> QED BY <1>0, <1>1, <2>1 DEF BuffersMeant, In
<1>5. CallsMeant
  BY <1>0, <1>1, OpsFacts DEF CallsMeant, In
<1>6. ClosingMeant /\ ShutdownIsLast
  BY <1>0, <1>1 DEF ClosingMeant, ShutdownIsLast, In, GpuInit
<1>7. WorkMeant /\ FlushesAnswered /\ ParkedMeant
  BY <1>0, <1>1 DEF WorkMeant, FlushesAnswered, ParkedMeant
<1>8. CountsExact
  <2>1. \A op \in {"submit", "flip"} : \A places : CallersIn(op, places) = {}
    BY <1>0, <1>1 DEF CallersIn
  <2>2. \A kind : QueuedItems(kind) = {}
    BY <1>1 DEF QueuedItems
  <2>3. \A op \in {"submit", "flip"} : \A places : CallersAt(op, places) = 0
    BY <2>1, CountFacts, FS_EmptySet
  <2>4. \A kind : Queued(kind) = 0
    BY <1>3, <2>2, QueuedFacts, FS_EmptySet
  <2>5. \A kind : AtWorker(kind) = 0
    BY <1>0, <1>1 DEF AtWorker
  <2>6. inFlight = 0 /\ permits = FramesInFlight /\ FramesInFlight \in Nat
    BY LimitsAssumption DEF GpuInit
  <2> QED BY <2>3, <2>4, <2>5, <2>6 DEF CountsExact
<1>9. \A q \in Rings : ~Sending(q) /\ Sent(q) = 0
  BY <1>1, <1>2 DEF Sending, Sent
<1>10. AllKept /\ InOrder
  <2>1. \A q \in Rings : /\ DOMAIN pend[q] = {} /\ DOMAIN hist.started[q] = {}
                         /\ Len(pend[q]) = 0 /\ Len(hist.started[q]) = 0
    BY <1>1, <1>2
  <2>2. \A q \in Rings : 1..Sent(q) = {}
    BY <1>9
  <2>3. AllKept
    BY <1>9, <2>2 DEF AllKept
  <2>4. InOrder
    <3>1. Orderly(<<>>, <<>>, 0)
      BY DEF Orderly
    <3>2. \A q \in Rings : ChanOrder(q)
      BY <1>1 DEF ChanOrder
    <3>3. \A q \in Rings : RunOrder(q)
      BY <1>1, <1>2, <1>9, <3>1 DEF RunOrder
    <3> QED BY <3>2, <3>3, RingsOrder DEF RingsOrdered
  <2> QED BY <2>3, <2>4
<1>11. LatchesMeant /\ PassesMeant /\ IdlesMeant
  BY <1>0, <1>1 DEF LatchesMeant, PassesMeant, Waiting, IdlesMeant
<1> QED BY <1>3, <1>4, <1>5, <1>6, <1>7, <1>8, <1>10, <1>11 DEF GpuIInv

(***************************************************************************)
(* Every step keeps the invariant.                                         *)
(***************************************************************************)
LEMMA StepGpuIInv == GpuIInv /\ [GpuNext]_gpuVars => GpuIInv'
<1> SUFFICES ASSUME GpuIInv, [GpuNext]_gpuVars PROVE GpuIInv'
  OBVIOUS
<1>0. /\ Types /\ BuffersMeant /\ CallsMeant /\ ClosingMeant /\ WorkMeant /\ FlushesAnswered
      /\ CountsExact /\ ParkedMeant /\ AllKept /\ InOrder /\ LatchesMeant /\ PassesMeant
      /\ IdlesMeant /\ ShutdownIsLast
  BY DEF GpuIInv
<1>1. Types'
  BY <1>0, StepTypes
<1>2. BuffersMeant' /\ CallsMeant'
  BY <1>0, StepBuffers, StepCalls
<1>3. ClosingMeant' /\ ShutdownIsLast' /\ WorkMeant'
  BY <1>0, StepClosing, StepWork
<1>4. FlushesAnswered' /\ CountsExact'
  BY <1>0, StepFlushes, StepCounts
<1>5. ParkedMeant' /\ AllKept'
  BY <1>0, <1>1, StepParked, StepKept
<1>6. InOrder'
  BY <1>0, <1>1, StepOrder
<1>7. LatchesMeant' /\ PassesMeant'
  BY <1>0, StepLatches, StepPasses
<1>8. IdlesMeant'
  BY <1>0, <1>1, StepIdles
<1> QED BY <1>1, <1>2, <1>3, <1>4, <1>5, <1>6, <1>7, <1>8 DEF GpuIInv

(***************************************************************************)
(* The inductive invariant of the queue holds for every set of threads,    *)
(* every command buffers, every depth and every limit.                     *)
(***************************************************************************)
THEOREM GpuInvariance == GpuSpec => []GpuIInv
<1>1. GpuInit => GpuIInv
  BY InitGpuIInv
<1>2. GpuIInv /\ [GpuNext]_gpuVars => GpuIInv'
  BY StepGpuIInv
<1> QED BY <1>1, <1>2, PTL DEF GpuSpec

(***************************************************************************)
(* The counters of the queue are exact through blocked sends, panics and   *)
(* the shutdown, the Shutdown marker is last, no release of a command      *)
(* processor is lost on a wait, and no buffer is parked with nothing to    *)
(* wait for.                                                               *)
(***************************************************************************)
THEOREM GpuInvariant == GpuSpec => []GpuInv
<1>1. GpuIInv => GpuInv
  <2> SUFFICES ASSUME GpuIInv PROVE GpuInv
    OBVIOUS
  <2>0. /\ Types /\ BuffersMeant /\ CallsMeant /\ CountsExact /\ ShutdownIsLast /\ ParkedMeant
        /\ LatchesMeant /\ PassesMeant
    BY DEF GpuIInv
  <2>1. GpuTypeOK
    <3>1. lock \in Threads \cup {Nobody}
      BY <2>0, OpsFacts DEF CallsMeant, Types, Callers, In
    <3>2. {memory} \cup {label[l] : l \in Labels} \subseteq BOOLEAN
      BY <2>0 DEF Types
    <3>3. w.at \in {"recv", "flush", "walk", "recheck", "drain", "done"}
      BY <2>0 DEF Types, Works
    <3>4. \A q \in Rings : Suspended(q) => susp[q].label \in Labels /\ susp[q].rounds < DeadRounds
      BY <2>0 DEF BuffersMeant
    <3> QED BY <2>0, <3>1, <3>2, <3>3, <3>4 DEF GpuTypeOK, Types
  <2>2. NoLostRelease
    BY <2>0 DEF NoLostRelease, LatchesMeant, PassesMeant, Waiting
  <2>3. ParkedBehindWait
    BY <2>0 DEF ParkedBehindWait, ParkedMeant
  <2> QED BY <2>0, <2>1, <2>2, <2>3 DEF GpuInv
<1> QED BY <1>1, GpuInvariance, PTL

(***************************************************************************)
(* Every ring runs its buffers in the order of their submission, with none *)
(* skipped and none ahead of a suspended one, through suspension, parking, *)
(* resumption and the failure of walks.                                    *)
(***************************************************************************)
THEOREM RingsInOrder == GpuSpec => []RingOrder
<1>1. GpuIInv => RingOrder
  BY DEF GpuIInv, BuffersMeant, InOrder, RingOrder
<1> QED BY <1>1, GpuInvariance, PTL

(***************************************************************************)
(* A suspended buffer is resumed only when its label was satisfied since   *)
(* it was suspended, or its wait was given up as dead.                     *)
(***************************************************************************)
THEOREM ResumesGenuine == GpuSpec => ResumedGenuinely
<1> DEFINE Genuine == \A q \in Rings : Suspended(q) /\ susp'[q] = NoBuffer =>
                        \/ hist.since[q] # "never"
                        \/ susp[q].rounds + 1 >= DeadRounds
                        \/ susp[q].label \in hist.left
<1>1. GpuIInv /\ [GpuNext]_gpuVars => [Genuine]_gpuVars
  <2> SUFFICES ASSUME GpuIInv, [GpuNext]_gpuVars, NEW q \in Rings, Suspended(q),
                      susp'[q] = NoBuffer
               PROVE  \/ hist.since[q] # "never"
                      \/ susp[q].rounds + 1 >= DeadRounds
                      \/ susp[q].label \in hist.left
    OBVIOUS
  <2> USE DEF shared, waits, guest
  <2>0. Types /\ BuffersMeant /\ CallsMeant /\ LatchesMeant
    BY DEF GpuIInv
  <2>a. ~Suspended(q)' /\ susp' # susp
    BY DEF Suspended
  <2>1. CASE OutsideStep
    BY <2>0, <2>1, <2>a, OutsideFacts
  <2>2. CASE RecvStep
    BY <2>2, <2>a DEF RecvStep, RecvSubmit, RecvFlush, RecvShutdown, FinishItem
  <2>3. CASE InsideItem /\ ~Resume
    <3>1. \/ susp' = susp \/ WalkSuspends \/ StillUnmet
          \/ \E ls : susp' = Latched(ls)
      BY <2>3 DEF InsideItem, FlushItem, WalkRelease, WalkDispatch, WalkWait, WalkEnds,
                  NothingSuspended, DrainParked, WalkFlushes, WalkFails, Panics
    <3> QED BY <2>0, <2>a, <3>1, WaitFacts DEF Suspended
  <2>4. CASE Resume
    <3>1. q = w.ring
      BY <2>0, <2>4, <2>a, WaitFacts
    <3>2. Satisfied(q) \/ susp[q].rounds + 1 >= DeadRounds
      BY <2>4, <3>1 DEF Resume
    <3> QED BY <2>0, <3>2 DEF Satisfied, LatchesMeant
  <2>5. CASE UNCHANGED gpuVars
    BY <2>5, <2>a DEF gpuVars
  <2> QED BY <2>1, <2>2, <2>3, <2>4, <2>5, Steps
<1> QED BY <1>1, GpuInvariance, PTL DEF GpuSpec, ResumedGenuinely

(***************************************************************************)
(* wait_idle returns only when every submission accepted before it is      *)
(* over: begun, or parked in its ring behind an unmet wait.                *)
(***************************************************************************)
THEOREM IdleMeansIdle == GpuSpec => IdleIsIdle
<1> DEFINE Idle == \A t \in Threads : call[t].op = "idle" /\ In(t, "idle")' =>
                     \A q \in Rings : \A n \in 1..call[t].mark[q] :
                       /\ n \in Range(hist.started[q]) \cup Range(pend[q])
                       /\ w.at # "recv" => w.item # Item("submit", q, n, Nobody)
<1>1. GpuIInv /\ [GpuNext]_gpuVars => [Idle]_gpuVars
  <2> SUFFICES ASSUME GpuIInv, [GpuNext]_gpuVars, NEW t \in Threads, call[t].op = "idle",
                      In(t, "idle")', NEW q \in Rings, NEW n \in 1..call[t].mark[q]
               PROVE  /\ n \in Range(hist.started[q]) \cup Range(pend[q])
                      /\ w.at # "recv" => w.item # Item("submit", q, n, Nobody)
    OBVIOUS
  <2>0. Types /\ BuffersMeant /\ CallsMeant /\ FlushesAnswered /\ IdlesMeant
    BY DEF GpuIInv
  <2>1. call[t].at # "drain"
    BY <2>0, IdleCalls DEF In
  <2>2. Over(q, n)
    BY <2>0, <2>1 DEF IdlesMeant, In
  <2> QED BY <2>2 DEF Over
<1> QED BY <1>1, GpuInvariance, PTL DEF GpuSpec, IdleIsIdle
===============================================================================
