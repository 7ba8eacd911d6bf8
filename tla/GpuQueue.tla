------------------------------- MODULE GpuQueue -------------------------------
(***************************************************************************)
(* The GPU submission queue of one process: AgcGpuSession in               *)
(* crates/raeen-gpu/src/agc_exec.rs.                                       *)
(*                                                                         *)
(* Guest threads submit command buffers for two rings, flip, and wait for  *)
(* the GPU to be idle; the runtime shuts the session down.  One worker     *)
(* thread takes their work from a bounded channel.  A buffer that meets an *)
(* unmet label wait is suspended and later buffers of its ring are parked  *)
(* behind it; after each piece of work the worker checks the waits again.  *)
(*                                                                         *)
(* A command buffer is a sequence of the packets the queue's control       *)
(* depends on: wait for a label, write one (release), or a dispatch whose  *)
(* write to a label lands at the next flush.  A label either satisfies its *)
(* wait or does not.                                                       *)
(***************************************************************************)
EXTENDS Naturals, Sequences, FiniteSets, SequencesExt

CONSTANTS Threads,     \* guest threads
          Host,        \* the runtime thread that shuts the session down
          Nobody,      \* no thread
          Makes,       \* bound: the calls each guest thread makes
          Labels,      \* completion labels in guest memory
          GuestLabels, \* bound: those that guest threads write themselves
          Programs,    \* the buffers of each ring, in the order of submission
          Depth,       \* SUBMIT_QUEUE_DEPTH
          FramesInFlight, \* FLIP_FRAMES_IN_FLIGHT
          MaxPasses,   \* MAX_RESUME_PASSES
          DeadRounds,  \* DEAD_WAIT_FORCE_RESUME_ROUNDS
          MaxFlips,    \* bound: flips in a behaviour
          MaxIdles,    \* bound: wait_idle calls
          MaxStores,   \* bound: stores of guest threads to labels
          MaxFaults    \* bound: walks and flushes that fail or panic

Rings == {"dcb", "acb"}
Calls == {"submit", "flip", "idle", "store"}
Packets == [op : {"wait", "release", "dispatch"}, label : Labels]

ASSUME CallersAssumption == Host \notin Threads /\ Nobody \notin Threads \cup {Host}
ASSUME ThreadsFinite == IsFiniteSet(Threads)
ASSUME MakesAssumption == Makes \in [Threads -> SUBSET Calls] /\ GuestLabels \subseteq Labels
ASSUME ProgramsAssumption == Programs \in [Rings -> Seq(Seq(Packets))]
ASSUME LimitsAssumption ==
    /\ {Depth, FramesInFlight, MaxPasses, DeadRounds} \subseteq Nat \ {0}
    /\ {MaxFlips, MaxIdles, MaxStores, MaxFaults} \subseteq Nat

Callers == Threads \cup {Host}

VARIABLES lifecycle,  \* GpuLifecycle
          lock,       \* holder of the lifecycle mutex
          worker,     \* none, alive, failed (never started) or gone
          chan,       \* the channel submit_queue
          inFlight,   \* in_flight
          permits,    \* flip_permits.available
          memory,     \* guest_memory is still there
          susp,       \* QueueWaitState::suspended of each ring
          pend,       \* QueueWaitState::pending
          produced,   \* labels written by a ring's command processor, not yet drained
          deferred,   \* writes of dispatches that land at the next flush
          label,      \* guest memory: does the label satisfy its wait?
          w,          \* what the worker is doing
          call,       \* the call each thread is in
          used,       \* counts for the bounds
          hist        \* history, for the properties

shared == <<lifecycle, lock, worker, chan, inFlight, permits>>
waits == <<susp, pend, produced>>
guest == <<memory, deferred, label>>
gpuVars == <<shared, waits, guest, w, call, used, hist>>

-------------------------------------------------------------------------------
Item(kind, ring, n, done) == [kind |-> kind, ring |-> ring, n |-> n, done |-> done]
NoItem == Item("none", "dcb", 0, Nobody)
ShutdownItem == Item("shutdown", "dcb", 0, Nobody)

Unmarked == [q \in Rings |-> 0]
NoCall == [at |-> "idle", op |-> "none", item |-> NoItem, mark |-> Unmarked]
NoBuffer == [n |-> 0, pos |-> 0, label |-> "none", rounds |-> 0, latched |-> FALSE]
NoWork == [at |-> "recv", item |-> NoItem, ring |-> "dcb", n |-> 0, pos |-> 0,
           why |-> "none", pass |-> 0, moved |-> FALSE, cut |-> FALSE]

(***************************************************************************)
(* History: hist.admitted and hist.started are the buffers of each ring    *)
(* accepted and begun, hist.since what happened to a suspended buffer's    *)
(* label since it was suspended, hist.left the labels a failed walk left   *)
(* undrained, hist.broken the rings on which a walk panicked with buffers  *)
(* parked.  call.mark is what was accepted when a wait_idle began.         *)
(***************************************************************************)
GpuInit ==
    /\ lifecycle = "Open"
    /\ lock = Nobody
    /\ worker = "none"
    /\ chan = <<>>
    /\ inFlight = 0
    /\ permits = FramesInFlight
    /\ memory = TRUE
    /\ susp = [q \in Rings |-> NoBuffer]
    /\ pend = [q \in Rings |-> <<>>]
    /\ produced = [q \in Rings |-> {}]
    /\ deferred = {}
    /\ label = [l \in Labels |-> FALSE]
    /\ w = NoWork
    /\ call = [t \in Callers |-> NoCall]
    /\ used = [flips |-> 0, idles |-> 0, stores |-> 0, faults |-> 0]
    /\ hist = [admitted |-> Unmarked,
               started |-> [q \in Rings |-> <<>>],
               since |-> [q \in Rings |-> "never"],
               left |-> {},
               broken |-> {}]

In(t, p) == call[t].at = p
Goto(t, p) == call' = [call EXCEPT ![t].at = p]
Return(t) == call' = [call EXCEPT ![t] = NoCall]
Suspended(q) == susp[q] # NoBuffer
Count(kind) == used' = [used EXCEPT ![kind] = @ + 1]

(***************************************************************************)
(* FlipSemaphore::release, which never exceeds the cap.                    *)
(***************************************************************************)
Released == IF permits < FramesInFlight THEN permits + 1 ELSE permits

(***************************************************************************)
(* What a write to the labels of ls makes of hist.since; by is "released"  *)
(* for a packet of a command processor and "held" for any other write.     *)
(***************************************************************************)
Since(ls, by) ==
    [q \in Rings |-> IF Suspended(q) /\ susp[q].label \in ls /\ hist.since[q] # "released"
                     THEN by ELSE hist.since[q]]

-------------------------------------------------------------------------------
(***************************************************************************)
(* submit_dcb_async_owned up to its send: admission, the first submission  *)
(* starts the worker (which may fail), and the lifecycle lock is kept.     *)
(* After the session is closing a submission is ignored.                   *)
(***************************************************************************)
SubmitDcb(t, q) ==
    LET n == hist.admitted[q] + 1 IN
    /\ In(t, "idle") /\ lock = Nobody /\ lifecycle = "Open"
    /\ n \in DOMAIN Programs[q]
    /\ lock' = t
    /\ worker' \in IF worker = "none" THEN {"alive", "failed"} ELSE {worker}
    /\ inFlight' = inFlight + 1
    /\ call' = [call EXCEPT ![t].at = "sending", ![t].op = "submit",
                            ![t].item = Item("submit", q, n, Nobody)]
    /\ hist' = [hist EXCEPT !.admitted[q] = n]
    /\ UNCHANGED <<lifecycle, chan, permits, waits, guest, w, used>>

(***************************************************************************)
(* The send itself, blocked while the channel is full, and the drop of the *)
(* lifecycle lock.  The requester of a flush then waits for its end.       *)
(***************************************************************************)
SendWork(t) ==
    /\ In(t, "sending") /\ worker = "alive" /\ Len(chan) < Depth
    /\ chan' = Append(chan, call[t].item)
    /\ lock' = Nobody
    /\ IF call[t].op = "idle" THEN Goto(t, "recv") ELSE Return(t)
    /\ UNCHANGED <<lifecycle, worker, inFlight, permits, waits, guest, w, used, hist>>

(***************************************************************************)
(* The send fails when the worker never started: a submission runs inline  *)
(* past every wait (execute_dcb_cp), still under the lifecycle lock; a     *)
(* flush runs inline after the lock, and a flip's permit, are given back.  *)
(***************************************************************************)
Written(q, n, op) == {Programs[q][n][i].label : i \in {j \in DOMAIN Programs[q][n] :
                                                         Programs[q][n][j].op = op}}

SubmitInline(t) ==
    LET q == call[t].item.ring
        n == call[t].item.n
        ls == Written(q, n, "release") \cup Written(q, n, "dispatch")
    IN
    /\ In(t, "sending") /\ worker = "failed" /\ call[t].op = "submit"
    /\ label' = [l \in Labels |-> label[l] \/ l \in ls]
    /\ inFlight' = inFlight - 1
    /\ lock' = Nobody
    /\ hist' = [hist EXCEPT !.started[q] = Append(@, n)]
    /\ Return(t)
    /\ UNCHANGED <<lifecycle, worker, chan, permits, waits, memory, deferred, w, used>>

FlushRefused(t) ==
    /\ In(t, "sending") /\ worker = "failed" /\ call[t].op \in {"flip", "idle"}
    /\ lock' = Nobody
    /\ permits' = IF call[t].op = "flip" THEN Released ELSE permits
    /\ Goto(t, "inline")
    /\ UNCHANGED <<lifecycle, worker, chan, inFlight, waits, guest, w, used, hist>>

-------------------------------------------------------------------------------
(***************************************************************************)
(* present_scanout and submit_flip_flush: a permit first, with no lock     *)
(* held, then admission.                                                   *)
(***************************************************************************)
Flip(t) ==
    /\ In(t, "idle") /\ used.flips < MaxFlips
    /\ Count("flips")
    /\ call' = [call EXCEPT ![t].at = IF worker = "none" THEN "inline" ELSE "permit",
                            ![t].op = "flip"]
    /\ UNCHANGED <<shared, waits, guest, w, hist>>

Acquire(t) ==
    /\ In(t, "permit") /\ permits > 0
    /\ permits' = permits - 1
    /\ Goto(t, "admit")
    /\ UNCHANGED <<lifecycle, lock, worker, chan, inFlight, waits, guest, w, used, hist>>

(***************************************************************************)
(* submit_flip_flush and consume_flush under the lifecycle lock: while the *)
(* session is open the flush goes through the channel, afterwards it runs  *)
(* inline and a flip's permit is dropped before it does.                   *)
(***************************************************************************)
AdmitFlush(t) ==
    /\ In(t, "admit") /\ lock = Nobody
    /\ IF lifecycle = "Open"
       THEN /\ lock' = t
            /\ call' = [call EXCEPT ![t].at = "sending",
                          ![t].item = IF call[t].op = "flip"
                                      THEN Item("flip", "dcb", 0, Nobody)
                                      ELSE Item("flush", "dcb", 0, t)]
            /\ UNCHANGED permits
       ELSE /\ permits' = IF call[t].op = "flip" THEN Released ELSE permits
            /\ Goto(t, "inline")
            /\ UNCHANGED lock
    /\ UNCHANGED <<lifecycle, worker, chan, inFlight, waits, guest, w, used, hist>>

(***************************************************************************)
(* wait_idle: wait until nothing is in flight, then consume_flush; that of *)
(* shutdown finds the session closing and flushes inline.                  *)
(***************************************************************************)
WaitIdle(t) ==
    /\ In(t, "idle") /\ used.idles < MaxIdles
    /\ Count("idles")
    /\ call' = [call EXCEPT ![t].at = "drain", ![t].op = "idle", ![t].mark = hist.admitted]
    /\ UNCHANGED <<shared, waits, guest, w, hist>>

(***************************************************************************)
(* Faulty variant: idle is an empty channel, whatever the worker does.     *)
(***************************************************************************)
NothingQueued == chan = <<>>

NothingInFlight == inFlight = 0

Drained(t) ==
    /\ In(t, "drain") /\ NothingInFlight
    /\ Goto(t, IF worker = "none" \/ call[t].op = "shutdown" THEN "inline" ELSE "admit")
    /\ UNCHANGED <<shared, waits, guest, w, used, hist>>

(***************************************************************************)
(* flush_and_present: the writes of dispatches reach guest memory, if the  *)
(* session still has it.                                                   *)
(***************************************************************************)
Land(ls) ==
    /\ label' = [l \in Labels |-> label[l] \/ l \in ls]
    /\ deferred' = {}
    /\ hist' = [hist EXCEPT !.since = Since(ls, "held")]
    /\ UNCHANGED memory

FlushAndPresent == Land(IF memory THEN deferred ELSE {})

FlushInline(t) ==
    /\ In(t, "inline")
    /\ FlushAndPresent
    /\ IF call[t].op = "shutdown" THEN Goto(t, "stop") ELSE Return(t)
    /\ UNCHANGED <<shared, waits, w, used>>

-------------------------------------------------------------------------------
(***************************************************************************)
(* GpuProcessSession::shutdown: close admission, wait_idle (whose flush is *)
(* inline, the session being closed), the Shutdown marker, then the guest  *)
(* memory and the last state.  A second caller returns at once.            *)
(***************************************************************************)
Shutdown ==
    /\ In(Host, "idle") /\ lock = Nobody /\ lifecycle = "Open"
    /\ lifecycle' = "Closing"
    /\ call' = [call EXCEPT ![Host].at = "drain", ![Host].op = "shutdown"]
    /\ UNCHANGED <<lock, worker, chan, inFlight, permits, waits, guest, w, used, hist>>

SendShutdown ==
    /\ In(Host, "stop")
    /\ IF worker = "alive"
       THEN Len(chan) < Depth /\ chan' = Append(chan, ShutdownItem)
       ELSE UNCHANGED chan
    /\ Goto(Host, "close")
    /\ UNCHANGED <<lifecycle, lock, worker, inFlight, permits, waits, guest, w, used, hist>>

Close ==
    /\ In(Host, "close") /\ lock = Nobody
    /\ memory' = FALSE
    /\ lifecycle' = "Closed"
    /\ Return(Host)
    /\ UNCHANGED <<lock, worker, chan, inFlight, permits, waits, deferred, label, w, used, hist>>

(***************************************************************************)
(* A guest thread writes a label itself: it arms it for the next frame, or *)
(* satisfies the wait from the CPU.                                        *)
(***************************************************************************)
Store(t, l) ==
    /\ In(t, "idle") /\ used.stores < MaxStores
    /\ Count("stores")
    /\ label' = [label EXCEPT ![l] = ~@]
    /\ hist' = [hist EXCEPT !.since = IF label[l] THEN @ ELSE Since({l}, "held")]
    /\ UNCHANGED <<shared, waits, memory, deferred, w, call>>

-------------------------------------------------------------------------------
(***************************************************************************)
(* Where the worker goes: to the other ring or the next pass of            *)
(* recheck_suspended_waits, or to the end of the item, which cut says may  *)
(* have left a wait to resume: the passes ran out, or it panicked.  The    *)
(* re-check does nothing once the guest memory is gone.                    *)
(***************************************************************************)
BeginRecheck ==
    IF memory THEN [NoWork EXCEPT !.at = "recheck", !.item = w.item, !.pass = 1]
              ELSE [NoWork EXCEPT !.at = "done", !.item = w.item]

NextRing ==
    LET next == [NoWork EXCEPT !.at = "recheck", !.item = w.item] IN
    CASE w.ring = "dcb" -> [next EXCEPT !.ring = "acb", !.pass = w.pass, !.moved = w.moved]
      [] w.ring = "acb" /\ w.moved /\ w.pass < MaxPasses -> [next EXCEPT !.pass = w.pass + 1]
      [] OTHER -> [next EXCEPT !.at = "done", !.cut = w.moved]

AfterWalk == IF w.why = "submit" THEN BeginRecheck ELSE [w EXCEPT !.at = "drain"]

(***************************************************************************)
(* execute_dcb_cp_routed: a walk of buffer n of ring q from pos begins; it *)
(* needs the guest memory, and is over at once when that is gone.          *)
(***************************************************************************)
EnterWalk(work, q, n, pos, why) ==
    /\ w' = [work EXCEPT !.at = IF memory THEN "walk" ELSE "drain", !.ring = q, !.n = n,
                         !.pos = pos, !.why = why, !.moved = @ \/ why = "resume"]
    /\ hist' = [hist EXCEPT !.started[q] = IF pos = 1 THEN Append(@, n) ELSE @,
                            !.since[q] = "never"]

(***************************************************************************)
(* Faulty variant: only a ring that has buffers parked parks another.      *)
(***************************************************************************)
ParksBehindParked(q) == pend[q] # <<>>

(***************************************************************************)
(* The worker loop takes an item; worker_submit parks a buffer behind a    *)
(* suspended one of its ring.                                              *)
(***************************************************************************)
MustPark(q) == Suspended(q)

RecvSubmit ==
    LET i == Head(chan) IN
    /\ worker = "alive" /\ w.at = "recv" /\ chan # <<>> /\ i.kind = "submit"
    /\ chan' = Tail(chan)
    /\ IF MustPark(i.ring)
       THEN /\ pend' = [pend EXCEPT ![i.ring] = Append(@, i.n)]
            /\ w' = [BeginRecheck EXCEPT !.item = i]
            /\ UNCHANGED hist
       ELSE /\ EnterWalk([NoWork EXCEPT !.item = i], i.ring, i.n, 1, "submit")
            /\ UNCHANGED pend
    /\ UNCHANGED <<lifecycle, lock, worker, inFlight, permits, susp, produced, guest, call,
                   used>>

RecvFlush ==
    /\ worker = "alive" /\ w.at = "recv" /\ chan # <<>> /\ Head(chan).kind \in {"flip", "flush"}
    /\ chan' = Tail(chan)
    /\ w' = [NoWork EXCEPT !.at = "flush", !.item = Head(chan)]
    /\ UNCHANGED <<lifecycle, lock, worker, inFlight, permits, waits, guest, call, used, hist>>

RecvShutdown ==
    /\ worker = "alive" /\ w.at = "recv" /\ chan # <<>> /\ Head(chan).kind = "shutdown"
    /\ worker' = "gone"
    /\ chan' = Tail(chan)
    /\ UNCHANGED <<lifecycle, lock, inFlight, permits, waits, guest, w, call, used, hist>>

FlushItem ==
    /\ w.at = "flush"
    /\ FlushAndPresent
    /\ w' = BeginRecheck
    /\ UNCHANGED <<shared, waits, call, used>>

-------------------------------------------------------------------------------
Packet == Programs[w.ring][w.n][w.pos]
AtPacket(op) ==
    /\ w.at = "walk"
    /\ w.pos \in DOMAIN Programs[w.ring][w.n]
    /\ Packet.op = op

(***************************************************************************)
(* run_resumable: WRITE_DATA and RELEASE_MEM write the label and record    *)
(* it, a dispatch leaves its write for the flush, a met wait is passed.    *)
(***************************************************************************)
WalkRelease ==
    /\ AtPacket("release")
    /\ label' = [label EXCEPT ![Packet.label] = TRUE]
    /\ produced' = [produced EXCEPT ![w.ring] = @ \cup {Packet.label}]
    /\ hist' = [hist EXCEPT !.since = Since({Packet.label}, "released")]
    /\ w' = [w EXCEPT !.pos = @ + 1]
    /\ UNCHANGED <<shared, susp, pend, memory, deferred, call, used>>

WalkDispatch ==
    /\ AtPacket("dispatch")
    /\ deferred' = deferred \cup {Packet.label}
    /\ w' = [w EXCEPT !.pos = @ + 1]
    /\ UNCHANGED <<shared, waits, memory, label, call, used, hist>>

(***************************************************************************)
(* A dispatch that cannot be deferred first flushes the ones that were.    *)
(***************************************************************************)
WalkFlushes ==
    /\ w.at = "walk" /\ deferred # {}
    /\ Land(deferred)
    /\ UNCHANGED <<shared, waits, w, call, used>>

WalkWait ==
    /\ AtPacket("wait") /\ label[Packet.label]
    /\ w' = [w EXCEPT !.pos = @ + 1]
    /\ UNCHANGED <<shared, waits, guest, call, used, hist>>

(***************************************************************************)
(* Faulty variant: what a walk wrote is not matched with the waits.        *)
(***************************************************************************)
LatchIgnored(ls) == susp

(***************************************************************************)
(* take_produced_labels and latch_produced_waits at the end of a walk: the *)
(* suspended buffers whose label the walk wrote are satisfied, whatever    *)
(* the label says when they are looked at.                                 *)
(***************************************************************************)
Latched(ls) ==
    [q \in Rings |-> IF Suspended(q) /\ susp[q].label \in ls
                     THEN [susp[q] EXCEPT !.latched = TRUE] ELSE susp[q]]

TakeProduced == produced' = [produced EXCEPT ![w.ring] = {}]

WalkEnds ==
    /\ w.at = "walk" /\ w.pos > Len(Programs[w.ring][w.n])
    /\ susp' = Latched(produced[w.ring])
    /\ TakeProduced
    /\ w' = AfterWalk
    /\ UNCHANGED <<shared, pend, guest, call, used, hist>>

(***************************************************************************)
(* An unmet wait ends the walk; run_worker_buffer suspends the buffer.     *)
(***************************************************************************)
WalkSuspends ==
    /\ AtPacket("wait") /\ ~label[Packet.label]
    /\ susp' = [Latched(produced[w.ring]) EXCEPT ![w.ring] =
                  [NoBuffer EXCEPT !.n = w.n, !.pos = w.pos + 1, !.label = Packet.label]]
    /\ TakeProduced
    /\ hist' = [hist EXCEPT !.since[w.ring] = "never"]
    /\ w' = AfterWalk
    /\ UNCHANGED <<shared, pend, guest, call, used>>

(***************************************************************************)
(* A structural fault of the stream ends the walk and the buffer is        *)
(* dropped.  The path without draws leaves before it drains the produced   *)
(* labels, the path with draws after.                                      *)
(***************************************************************************)
WalkFails ==
    /\ w.at = "walk" /\ used.faults < MaxFaults
    /\ Count("faults")
    /\ \/ /\ susp' = Latched(produced[w.ring])
          /\ TakeProduced
          /\ UNCHANGED hist
       \/ /\ hist' = [hist EXCEPT !.left = @ \cup produced[w.ring]]
          /\ UNCHANGED <<susp, produced>>
    /\ w' = AfterWalk
    /\ UNCHANGED <<shared, pend, guest, call>>

(***************************************************************************)
(* A panic in a walk or a flush is caught by the worker loop: the item     *)
(* ends there, without the re-check or the rest of it.                     *)
(***************************************************************************)
Panics ==
    /\ w.at \in {"walk", "flush"} /\ used.faults < MaxFaults
    /\ Count("faults")
    /\ w' = [NoWork EXCEPT !.at = "done", !.item = w.item, !.cut = TRUE]
    /\ hist' = IF w.at = "flush" THEN hist
               ELSE [hist EXCEPT !.left = @ \cup produced[w.ring],
                                 !.broken = IF pend[w.ring] = <<>> THEN @ ELSE @ \cup {w.ring}]
    /\ UNCHANGED <<shared, waits, guest, call>>

-------------------------------------------------------------------------------
(***************************************************************************)
(* Faulty variant: a write to any label satisfies the wait.                *)
(***************************************************************************)
SatisfiedByAny(q) == susp[q].latched \/ \E l \in Labels : label[l]

(***************************************************************************)
(* recheck_suspended_waits for one ring.  A latched or satisfied wait is   *)
(* resumed, and so is one found unmet DeadRounds times.                    *)
(***************************************************************************)
Satisfied(q) == susp[q].latched \/ label[susp[q].label]

Resume ==
    /\ w.at = "recheck" /\ Suspended(w.ring)
    /\ Satisfied(w.ring) \/ susp[w.ring].rounds + 1 >= DeadRounds
    /\ susp' = [susp EXCEPT ![w.ring] = NoBuffer]
    /\ EnterWalk(w, w.ring, susp[w.ring].n, susp[w.ring].pos, "resume")
    /\ UNCHANGED <<shared, pend, produced, guest, call, used>>

StillUnmet ==
    /\ w.at = "recheck" /\ Suspended(w.ring)
    /\ ~Satisfied(w.ring) /\ susp[w.ring].rounds + 1 < DeadRounds
    /\ susp' = [susp EXCEPT ![w.ring].rounds = @ + 1]
    /\ w' = NextRing
    /\ UNCHANGED <<shared, pend, produced, guest, call, used, hist>>

NothingSuspended ==
    /\ w.at = "recheck" /\ ~Suspended(w.ring)
    /\ w' = NextRing
    /\ UNCHANGED <<shared, waits, guest, call, used, hist>>

(***************************************************************************)
(* After a resume, the parked buffers run in order until the ring suspends *)
(* again or none is left.                                                  *)
(***************************************************************************)
DrainParked ==
    /\ w.at = "drain"
    /\ IF Suspended(w.ring) \/ pend[w.ring] = <<>>
       THEN w' = NextRing /\ UNCHANGED <<pend, hist>>
       ELSE /\ pend' = [pend EXCEPT ![w.ring] = Tail(@)]
            /\ EnterWalk(w, w.ring, Head(pend[w.ring]), 1, "drain")
    /\ UNCHANGED <<shared, susp, produced, guest, call, used>>

(***************************************************************************)
(* Faulty variant: a flush that panics keeps its permit.                   *)
(***************************************************************************)
PermitLostInPanic == IF w.item.kind = "flip" /\ ~w.cut THEN Released ELSE permits

(***************************************************************************)
(* The end of an item: finish_one for a submission, the permit of a flip,  *)
(* the rendezvous of a flush.                                              *)
(***************************************************************************)
PermitReturned == IF w.item.kind = "flip" THEN Released ELSE permits

FinishItem ==
    LET i == w.item IN
    /\ w.at = "done"
    /\ inFlight' = IF i.kind = "submit" /\ inFlight > 0 THEN inFlight - 1 ELSE inFlight
    /\ permits' = PermitReturned
    /\ call' = IF i.kind = "flush" THEN [call EXCEPT ![i.done] = NoCall] ELSE call
    /\ w' = [NoWork EXCEPT !.cut = w.cut]
    /\ UNCHANGED <<lifecycle, lock, worker, chan, waits, guest, used, hist>>

-------------------------------------------------------------------------------
WorkerStep ==
    \/ RecvSubmit \/ RecvFlush \/ RecvShutdown \/ FlushItem \/ FinishItem
    \/ WalkRelease \/ WalkDispatch \/ WalkWait \/ WalkEnds \/ WalkSuspends
    \/ Resume \/ StillUnmet \/ NothingSuspended \/ DrainParked

CallStep(t) ==
    \/ SendWork(t) \/ SubmitInline(t) \/ FlushRefused(t) \/ Acquire(t)
    \/ AdmitFlush(t) \/ Drained(t) \/ FlushInline(t)

HostStep == CallStep(Host) \/ SendShutdown \/ Close

NewCall(t) ==
    \/ "submit" \in Makes[t] /\ \E q \in Rings : SubmitDcb(t, q)
    \/ "flip" \in Makes[t] /\ Flip(t)
    \/ "idle" \in Makes[t] /\ WaitIdle(t)
    \/ "store" \in Makes[t] /\ \E l \in GuestLabels : Store(t, l)

GpuNext ==
    \/ WorkerStep \/ WalkFlushes \/ WalkFails \/ Panics
    \/ HostStep \/ Shutdown
    \/ \E t \in Threads : NewCall(t) \/ CallStep(t)

GpuSpec == GpuInit /\ [][GpuNext]_gpuVars

(***************************************************************************)
(* The worker thread and the threads inside a call keep running; nobody    *)
(* has to make a call, and no store to a label is owed.                    *)
(***************************************************************************)
GpuFairSpec ==
    /\ GpuSpec
    /\ WF_gpuVars(WorkerStep)
    /\ WF_gpuVars(HostStep)
    /\ \A t \in Threads : WF_gpuVars(CallStep(t))

-------------------------------------------------------------------------------
Number(S) == Cardinality(S)
Queued(kind) == Number({i \in DOMAIN chan : chan[i].kind = kind})
AtWorker(kind) == IF w.at # "recv" /\ w.item.kind = kind THEN 1 ELSE 0
CallersAt(op, places) == Number({t \in Callers : call[t].op = op /\ call[t].at \in places})

GpuTypeOK ==
    /\ lifecycle \in {"Open", "Closing", "Closed"}
    /\ lock \in Threads \cup {Nobody}
    /\ worker \in {"none", "alive", "failed", "gone"}
    /\ Len(chan) <= Depth
    /\ permits \in 0..FramesInFlight
    /\ {memory} \cup {label[l] : l \in Labels} \subseteq BOOLEAN
    /\ pend \in [Rings -> Seq(Nat)]
    /\ produced \in [Rings -> SUBSET Labels]
    /\ deferred \subseteq Labels
    /\ \A q \in Rings : Suspended(q) => susp[q].label \in Labels /\ susp[q].rounds < DeadRounds
    /\ w.at \in {"recv", "flush", "walk", "recheck", "drain", "done"}

(***************************************************************************)
(* The counters tell the truth through blocked sends, failed sends, caught *)
(* panics and the shutdown: in_flight counts the submissions between       *)
(* admission and the end of their item, and every permit is free, with a   *)
(* caller, in the channel or at the worker.                                *)
(***************************************************************************)
CountsExact ==
    /\ inFlight = CallersAt("submit", {"sending"}) + Queued("submit") + AtWorker("submit")
    /\ FramesInFlight = permits + CallersAt("flip", {"admit", "sending"})
                               + Queued("flip") + AtWorker("flip")

(***************************************************************************)
(* No sender races an item behind the Shutdown marker, and once shutdown   *)
(* has sent it no submission is in the channel or at the worker.           *)
(***************************************************************************)
ShutdownIsLast ==
    /\ \A i \in DOMAIN chan : chan[i].kind = "shutdown" => i = Len(chan)
    /\ worker = "gone" => chan = <<>>
    /\ (lifecycle = "Closed" \/ call[Host].at \in {"stop", "close"}) => inFlight = 0

(***************************************************************************)
(* Between two items of work, no buffer is suspended whose label a command *)
(* processor has written since, although the guest may have reset the      *)
(* label at once; a walk or an item cut short by a fault, or by the limit  *)
(* on the passes of a re-check, excepted.                                  *)
(***************************************************************************)
NoLostRelease ==
    w.at = "recv" /\ ~w.cut /\ memory =>
      \A q \in Rings : Suspended(q) /\ susp[q].label \notin hist.left => hist.since[q] # "released"

(***************************************************************************)
(* Between two items, buffers are parked only behind a suspended one, so   *)
(* that some later resume will run them; a ring on which a walk panicked   *)
(* in front of parked buffers excepted.                                    *)
(***************************************************************************)
ParkedBehindWait ==
    w.at = "recv" => \A q \in Rings \ hist.broken : pend[q] # <<>> => Suspended(q)

(***************************************************************************)
(* The bookkeeping of the queue and the worker's waits, together.          *)
(***************************************************************************)
GpuInv ==
    /\ GpuTypeOK
    /\ CountsExact
    /\ ShutdownIsLast
    /\ NoLostRelease
    /\ ParkedBehindWait

(***************************************************************************)
(* Each ring runs its buffers one after the other, in the order of their   *)
(* submission, and loses none, through suspension, parking, resumption and *)
(* the failure of single walks: nothing runs ahead of a suspended buffer.  *)
(* The order ends when a walk panics in front of parked buffers.           *)
(***************************************************************************)
RingOrder ==
    /\ w.at = "walk" => ~Suspended(w.ring)
    /\ \A q \in Rings \ hist.broken : \A i \in DOMAIN hist.started[q] : hist.started[q][i] = i

(***************************************************************************)
(* A buffer is resumed only if its label was satisfied at some moment      *)
(* since it was suspended, or its wait was given up as dead; a label left  *)
(* in the command processor by a failed walk excepted.                     *)
(***************************************************************************)
ResumedGenuinely ==
    [][\A q \in Rings : Suspended(q) /\ susp'[q] = NoBuffer =>
         \/ hist.since[q] # "never"
         \/ susp[q].rounds + 1 >= DeadRounds
         \/ susp[q].label \in hist.left]_gpuVars

(***************************************************************************)
(* wait_idle returns only when every submission accepted before the call   *)
(* has left the channel and its item is over: it has run, or is parked in  *)
(* its ring behind an unmet wait.                                          *)
(***************************************************************************)
IdleIsIdle ==
    [][\A t \in Threads : call[t].op = "idle" /\ In(t, "idle")' =>
         \A q \in Rings : \A n \in 1..call[t].mark[q] :
           /\ n \in Range(hist.started[q]) \cup Range(pend[q])
           /\ w.at # "recv" => w.item # Item("submit", q, n, Nobody)]_gpuVars

(***************************************************************************)
(* Every submit, flip, wait_idle and shutdown returns, though submitters   *)
(* block on a full channel with the lifecycle lock held and flips block on *)
(* their permits: the worker needs neither.  The calls of a behaviour are  *)
(* finitely many, so all return if and only if always some later state has *)
(* no thread inside a call.                                                *)
(***************************************************************************)
GpuCallsReturn == []<>(\A t \in Callers : In(t, "idle"))

=============================================================================
