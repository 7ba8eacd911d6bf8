------------------------------- MODULE AioProofs -------------------------------
(***************************************************************************)
(* Proofs about Aio.                                                       *)
(***************************************************************************)
EXTENDS Aio, FiniteSetTheorems, TLAPS

Unfinished(d) == {i \in Indexes : slot[d][i] \in {"queued", "running"}}

(***************************************************************************)
(* The accounts of the engine: an id not handed out yet has no submission, *)
(* only a live one has requests, their number is right and says when the   *)
(* submission is final.                                                    *)
(***************************************************************************)
AccountsKept ==
    /\ \A d \in Ids : d > made => phase[d] = "none"
    /\ \A d \in Ids : phase[d] # "live" => \A i \in Indexes : slot[d][i] = "none"
    /\ \A d \in Ids : phase[d] = "live" =>
         /\ pending[d] = Cardinality(Unfinished(d))
         /\ (state[d] \in Terminal) <=> (pending[d] = 0)

(***************************************************************************)
(* A worker performs a request that is running, or whose submission was    *)
(* deleted under it, and performs it alone.                                *)
(***************************************************************************)
JobsKept ==
    /\ \A w \in Workers : job[w] # NoJob =>
         /\ phase[job[w][1]] # "none"
         /\ phase[job[w][1]] = "live" => slot[job[w][1]][job[w][2]] = "running"
    /\ \A v, w \in Workers : v # w /\ job[v] # NoJob => job[v] # job[w]

(***************************************************************************)
(* An outcome is in the submission, in the hands of one thread, or in      *)
(* guest memory: holding is exclusive, and what is drained is not lost.    *)
(***************************************************************************)
Holds(t, d, i) == call[t].id = d /\ \E o \in Outcomes : <<i, o>> \in call[t].took

HandPlaces == {"deliver", "lateDeliver", "remove", "delDeliver"}

HandsKept ==
    /\ \A t \in Threads : call[t].at \notin HandPlaces => call[t].took = {}
    /\ \A t, u \in Threads, d \in Ids, i \in Indexes :
         Holds(t, d, i) /\ Holds(u, d, i) => t = u
    /\ \A t \in Threads, d \in Ids, i \in Indexes :
         Holds(t, d, i) => /\ phase[d] # "none"
                           /\ result[d][i] = "submitted"
                           /\ slot[d][i] \in {"none", "drained"}
    /\ \A d \in Ids, i \in Indexes :
         /\ slot[d][i] \notin {"none", "drained"} => result[d][i] = "submitted"
         /\ slot[d][i] = "drained" =>
              result[d][i] \in Outcomes \/ \E t \in Threads : Holds(t, d, i)

(***************************************************************************)
(* What a call in progress may rely on.  A state it has taken as final     *)
(* stays final while the submission lives, and once it has drained, no     *)
(* outcome of that submission is left behind.                              *)
(***************************************************************************)
CallKept(t) ==
    LET d == call[t].id IN
    /\ call[t].at # "idle" => d \in Ids
    /\ In(t, "parked") => phase[d] = "live" /\ state[d] \notin Terminal
    /\ call[t].at \in {"expired", "drain", "deliver"} => phase[d] # "none"
    /\ call[t].at \in {"drain", "deliver"} /\ call[t].state \in Terminal /\ phase[d] = "live"
         => state[d] \in Terminal
    /\ In(t, "deliver") /\ call[t].state \in Terminal /\ phase[d] = "live"
         => \A i \in Indexes : slot[d][i] \in {"none", "drained"}

CallsKept == \A t \in Threads : CallKept(t)

AioIInv == AioTypeOK /\ AccountsKept /\ JobsKept /\ HandsKept /\ CallsKept

-------------------------------------------------------------------------------
(***************************************************************************)
(* What a step may do to the calls it is not a step of: wake them.         *)
(***************************************************************************)
Carried(u) ==
    /\ call'[u].id = call[u].id
    /\ call'[u].state = call[u].state
    /\ call'[u].took = call[u].took
    /\ call'[u].at = call[u].at \/ (call[u].at = "parked" /\ call'[u].at = "look")

(***************************************************************************)
(* The call of t goes on at place a, for id d, with state s and outcomes k *)
(* in hand.                                                                *)
(***************************************************************************)
Moves(t, a, d, s, k) ==
    /\ call' \in [Threads -> CallRecord]
    /\ \A u \in Threads : u # t => Carried(u)
    /\ call'[t].at = a
    /\ call'[t].id = d
    /\ call'[t].state = s
    /\ call'[t].took = k

(***************************************************************************)
(* What the type invariant says of a call.                                 *)
(***************************************************************************)
LEMMA CallFields ==
    ASSUME AioTypeOK, NEW t \in Threads
    PROVE  /\ call[t] \in CallRecord
           /\ call[t].at \in Places
           /\ call[t].id \in 0..MaxSubmits
           /\ call[t].limit \in {"none", "future", "passed"}
           /\ call[t].state \in States
           /\ call[t].took \in SUBSET (Indexes \X Outcomes)
BY DEF AioTypeOK, CallRecord

(***************************************************************************)
(* Nobody is in a call.                                                    *)
(***************************************************************************)
LEMMA NoCallRecord ==
    /\ NoCall \in CallRecord
    /\ NoCall.at = "idle"
    /\ NoCall.id = 0
    /\ NoCall.state = "NONE"
    /\ NoCall.took = {}
BY MaxSubmitsAssumption DEF NoCall, CallRecord, Places, States

(***************************************************************************)
(* notify_all carries every call on and leaves nobody asleep.              *)
(***************************************************************************)
LEMMA NotifiedCalls ==
    ASSUME AioTypeOK
    PROVE  /\ Notified \in [Threads -> CallRecord]
           /\ \A u \in Threads :
                /\ Notified[u].id = call[u].id
                /\ Notified[u].state = call[u].state
                /\ Notified[u].took = call[u].took
                /\ Notified[u].at # "parked"
                /\ \/ Notified[u].at = call[u].at
                   \/ call[u].at = "parked" /\ Notified[u].at = "look"
<1> SUFFICES ASSUME NEW u \in Threads
             PROVE  /\ Notified[u] \in CallRecord
                    /\ Notified[u].id = call[u].id
                    /\ Notified[u].state = call[u].state
                    /\ Notified[u].took = call[u].took
                    /\ Notified[u].at # "parked"
                    /\ \/ Notified[u].at = call[u].at
                       \/ call[u].at = "parked" /\ Notified[u].at = "look"
  BY DEF Notified
<1>1. CASE In(u, "parked")
  <2>1. Notified[u] = [call[u] EXCEPT !.at = "look"]
    BY <1>1 DEF Notified
  <2> QED BY <1>1, <2>1, CallFields DEF CallRecord, Places, In
<1>2. CASE ~In(u, "parked")
  <2>1. Notified[u] = call[u]
    BY <1>2 DEF Notified
  <2> QED BY <1>2, <2>1, CallFields DEF In
<1> QED BY <1>1, <1>2

(***************************************************************************)
(* A thread goes to another place of its call.                             *)
(***************************************************************************)
LEMMA GotoMoves ==
    ASSUME AioTypeOK, NEW t \in Threads, NEW a \in Places, Goto(t, a)
    PROVE  Moves(t, a, call[t].id, call[t].state, call[t].took)
BY CallFields DEF AioTypeOK, CallRecord, Goto, Moves, Carried

(***************************************************************************)
(* A call returns.                                                         *)
(***************************************************************************)
LEMMA ReturnMoves ==
    ASSUME AioTypeOK, NEW t \in Threads, Return(t)
    PROVE  Moves(t, "idle", 0, "NONE", {})
BY NoCallRecord DEF AioTypeOK, Return, Moves, Carried

(***************************************************************************)
(* A wait ends with a state.                                               *)
(***************************************************************************)
LEMMA WaitOverMoves ==
    ASSUME AioTypeOK, NEW t \in Threads, NEW s \in States, WaitOver(t, s)
    PROVE  Moves(t, "drain", call[t].id, s, call[t].took)
<1>1. \A u \in Threads : u # t => call'[u] = call[u]
  BY DEF AioTypeOK, WaitOver
<1>2. /\ call'[t] \in CallRecord
      /\ call'[t].at = "drain"
      /\ call'[t].id = call[t].id
      /\ call'[t].state = s
      /\ call'[t].took = call[t].took
  BY CallFields, ZenonT(40) DEF AioTypeOK, CallRecord, Places, WaitOver
<1>3. call' \in [Threads -> CallRecord]
  BY <1>1, <1>2 DEF AioTypeOK, WaitOver
<1> QED BY <1>1, <1>2, <1>3 DEF Moves, Carried

(***************************************************************************)
(* A wait times out.                                                       *)
(***************************************************************************)
LEMMA TimedOutMoves ==
    ASSUME AioTypeOK, NEW t \in Threads, TimedOut(t)
    PROVE  Moves(t, "lateDrain", call[t].id, call[t].state, call[t].took)
BY CallFields, ZenonT(40) DEF AioTypeOK, CallRecord, Places, TimedOut, Moves, Carried

(***************************************************************************)
(* A call starts, or goes on while the others are woken.                   *)
(***************************************************************************)
LEMMA StartMoves ==
    ASSUME AioTypeOK, NEW t \in Threads, NEW r \in CallRecord,
           \/ call' = [call EXCEPT ![t] = r]
           \/ call' = [Notified EXCEPT ![t] = r]
    PROVE  Moves(t, r.at, r.id, r.state, r.took)
<1>1. CASE call' = [call EXCEPT ![t] = r]
  BY <1>1 DEF AioTypeOK, Moves, Carried
<1>2. CASE call' = [Notified EXCEPT ![t] = r]
  BY <1>2, NotifiedCalls DEF Moves, Carried
<1> QED BY <1>1, <1>2

(***************************************************************************)
(* Every call is carried on.                                               *)
(***************************************************************************)
LEMMA AllCarried ==
    ASSUME AioTypeOK, call' = call \/ call' = Notified
    PROVE  /\ call' \in [Threads -> CallRecord]
           /\ \A u \in Threads : Carried(u)
BY NotifiedCalls DEF AioTypeOK, Carried

(***************************************************************************)
(* The requests without an outcome are finitely many.                      *)
(***************************************************************************)
LEMMA UnfinishedFinite ==
    ASSUME NEW d \in Ids
    PROVE  /\ IsFiniteSet(Indexes)
           /\ IsFiniteSet(Unfinished(d))
           /\ Cardinality(Unfinished(d)) \in Nat
           /\ (Cardinality(Unfinished(d)) = 0) <=> (Unfinished(d) = {})
<1>1. IsFiniteSet(Indexes)
  BY FS_Interval, MaxBatchAssumption DEF Indexes
<1>2. IsFiniteSet(Unfinished(d))
  BY <1>1, FS_Subset, Unfinished(d) \subseteq Indexes DEF Unfinished
<1> QED BY <1>1, <1>2, FS_CardinalityType, FS_EmptySet

(***************************************************************************)
(* A submission is final when each of its requests has an outcome.         *)
(***************************************************************************)
LEMMA FinalMeansFinished ==
    ASSUME AioTypeOK, AccountsKept, NEW d \in Ids, phase[d] = "live"
    PROVE  /\ (state[d] \in Terminal) <=> (Unfinished(d) = {})
           /\ state[d] \in Terminal =>
                \A i \in Indexes : slot[d][i] \notin {"queued", "running"}
<1>1. (state[d] \in Terminal) <=> (Unfinished(d) = {})
  BY UnfinishedFinite DEF AccountsKept
<1> QED BY <1>1 DEF Unfinished

-------------------------------------------------------------------------------
(***************************************************************************)
(* A step that leaves engine, workers and guest memory alone, of a thread  *)
(* with nothing in its hands before and after.                             *)
(***************************************************************************)
LEMMA CallOnlyKept ==
    ASSUME AioIInv, NEW t \in Threads, NEW a, NEW d, NEW s, Moves(t, a, d, s, {}),
           call[t].at \notin HandPlaces, a \notin HandPlaces,
           UNCHANGED <<engine, job, result, terminating>>,
           a # "idle" => d \in Ids,
           a = "parked" => phase[d] = "live" /\ state[d] \notin Terminal,
           a \in {"expired", "drain"} => phase[d] # "none",
           a = "drain" /\ s \in Terminal /\ phase[d] = "live" => state[d] \in Terminal
    PROVE  AioIInv'
<1> USE DEF AioIInv
<1>0. UNCHANGED <<made, phase, state, slot, pending, cancelled, queue, job, result, terminating>>
  BY DEF engine
<1>1. AioTypeOK'
  BY <1>0 DEF AioTypeOK, Moves
<1>2. AccountsKept'
  BY <1>0 DEF AccountsKept, Unfinished
<1>3. JobsKept'
  BY <1>0 DEF JobsKept
<1>4. \A u \in Threads, e \in Ids, i \in Indexes : Holds(u, e, i)' <=> Holds(u, e, i)
  BY ZenonT(40) DEF HandsKept, Holds, Moves, Carried
<1>5. \A u \in Threads : call'[u].at \notin HandPlaces => call'[u].took = {}
  BY DEF HandsKept, Moves, Carried, HandPlaces
<1>6. HandsKept'
  BY <1>0, <1>4, <1>5 DEF HandsKept
<1>7. CallsKept'
  BY <1>0 DEF CallsKept, CallKept, Moves, Carried, In, HandPlaces
<1> QED BY <1>1, <1>2, <1>3, <1>6, <1>7

(***************************************************************************)
(* Calls that are carried on keep what they have in their hands.           *)
(***************************************************************************)
LEMMA CarriedHands ==
    ASSUME HandsKept, \A u \in Threads : Carried(u)
    PROVE  /\ \A u \in Threads, e \in Ids, i \in Indexes : Holds(u, e, i)' <=> Holds(u, e, i)
           /\ \A u \in Threads : call'[u].at \notin HandPlaces => call'[u].took = {}
BY ZenonT(40) DEF HandsKept, Holds, Carried, HandPlaces

(***************************************************************************)
(* A step that only carries the calls on.                                  *)
(***************************************************************************)
LEMMA CarriedKept ==
    ASSUME AioIInv, call' \in [Threads -> CallRecord], \A u \in Threads : Carried(u),
           UNCHANGED <<engine, job, result>>, terminating' \in BOOLEAN
    PROVE  AioIInv'
<1> USE DEF AioIInv
<1>0. UNCHANGED <<made, phase, state, slot, pending, cancelled, queue, job, result>>
  BY DEF engine
<1>1. AioTypeOK'
  BY <1>0 DEF AioTypeOK
<1>2. AccountsKept'
  BY <1>0 DEF AccountsKept, Unfinished
<1>3. JobsKept'
  BY <1>0 DEF JobsKept
<1>4. HandsKept'
  BY <1>0, CarriedHands DEF HandsKept
<1>5. CallsKept'
  BY <1>0 DEF CallsKept, CallKept, Carried, In
<1> QED BY <1>1, <1>2, <1>3, <1>4, <1>5

(***************************************************************************)
(* The initial state satisfies the invariant.                              *)
(***************************************************************************)
LEMMA InitAioIInv == AioInit => AioIInv
<1> SUFFICES ASSUME AioInit PROVE AioIInv
  OBVIOUS
<1>1. AioTypeOK
  <2>1. 0 \in 0..MaxSubmits /\ 0 \in 0..MaxBatch
    BY MaxSubmitsAssumption, MaxBatchAssumption
  <2>2. /\ made \in 0..MaxSubmits
        /\ phase \in [Ids -> {"none", "live", "retired", "evicted"}]
        /\ state \in [Ids -> States]
        /\ slot \in [Ids -> [Indexes -> SlotStates]]
        /\ pending \in [Ids -> 0..MaxBatch]
        /\ cancelled \in [Ids -> BOOLEAN]
    BY <2>1 DEF AioInit, States, SlotStates
  <2>3. /\ job \in [Workers -> (Ids \X Indexes) \cup {NoJob}]
        /\ result \in [Ids -> [Indexes -> {"none", "submitted"} \cup Outcomes]]
        /\ terminating \in BOOLEAN
    BY DEF AioInit
  <2>4. queue \in Seq(Ids \X Indexes)
    BY DEF AioInit
  <2>5. call \in [Threads -> CallRecord]
    BY NoCallRecord DEF AioInit
  <2> QED BY <2>2, <2>3, <2>4, <2>5 DEF AioTypeOK
<1>2. AccountsKept
  BY DEF AioInit, AccountsKept
<1>3. JobsKept
  BY DEF AioInit, JobsKept
<1>4. HandsKept
  BY NoCallRecord DEF AioInit, HandsKept, Holds
<1>5. CallsKept
  BY NoCallRecord DEF AioInit, CallsKept, CallKept, In
<1> QED BY <1>1, <1>2, <1>3, <1>4, <1>5 DEF AioIInv

(***************************************************************************)
(* A call that starts with a poll or a wait.                               *)
(***************************************************************************)
LEMMA StartsKept ==
    ASSUME AioIInv, NEW t \in Threads, NEW d \in Ids, NEW l \in {"none", "future"},
           PollCall(t, d) \/ WaitCall(t, d, l)
    PROVE  AioIInv'
<1>0. AioTypeOK /\ HandsKept /\ state[d] \in States
  BY DEF AioIInv, AioTypeOK
<1>1. call[t].at \notin HandPlaces
  BY DEF PollCall, WaitCall, In, HandPlaces
<1>2. CASE PollCall(t, d)
  <2> DEFINE Begun == [at : {"drain"}, id : {d}, limit : {"none"}, state : {state[d]},
                       took : {{}}]
  <2>0. [NoCall EXCEPT !.at = "drain", !.id = d, !.state = state[d]] \in Begun
    BY DEF NoCall
  <2>1. PICK r \in Begun : call' = [call EXCEPT ![t] = r]
    BY <1>2, <2>0 DEF PollCall
  <2>2. r \in CallRecord
    BY <1>0, MaxSubmitsAssumption DEF CallRecord, Places, Ids
  <2>3. Moves(t, "drain", d, state[d], {})
    BY <1>0, <2>1, <2>2, StartMoves
  <2>4. phase[d] # "none" /\ UNCHANGED <<engine, job, result, terminating>>
    BY <1>2 DEF PollCall, Known
  <2> QED BY <1>1, <2>3, <2>4, CallOnlyKept DEF HandPlaces
<1>3. CASE WaitCall(t, d, l)
  <2> DEFINE Begun == [at : {"slice"}, id : {d}, limit : {l}, state : {"NONE"}, took : {{}}]
  <2>0. [NoCall EXCEPT !.at = "slice", !.id = d, !.limit = l] \in Begun
    BY DEF NoCall
  <2>1. PICK r \in Begun : call' = [call EXCEPT ![t] = r]
    BY <1>3, <2>0 DEF WaitCall
  <2>2. r \in CallRecord
    BY MaxSubmitsAssumption DEF CallRecord, Places, Ids, States
  <2>3. Moves(t, "slice", d, "NONE", {})
    BY <1>0, <2>1, <2>2, StartMoves
  <2>4. UNCHANGED <<engine, job, result, terminating>>
    BY <1>3 DEF WaitCall
  <2> QED BY <1>1, <2>3, <2>4, CallOnlyKept DEF HandPlaces
<1> QED BY <1>2, <1>3

(***************************************************************************)
(* The engine's wait.                                                      *)
(***************************************************************************)
LEMMA LookKept ==
    ASSUME AioIInv, NEW t \in Threads, call[t].at \in {"slice", "look"}, Look(t),
           UNCHANGED <<engine, job, result, terminating>>
    PROVE  AioIInv'
<1>0. AioTypeOK /\ call[t].id \in Ids /\ call[t].took = {} /\ call[t].at \notin HandPlaces
  BY DEF AioIInv, CallsKept, CallKept, HandsKept, HandPlaces
<1>1. CASE Return(t)
  BY <1>0, <1>1, ReturnMoves, CallOnlyKept DEF HandPlaces
<1>2. CASE /\ WaitOver(t, state[call[t].id])
           /\ Known(call[t].id)
  <2>1. Moves(t, "drain", call[t].id, state[call[t].id], {})
    BY <1>0, <1>2, WaitOverMoves DEF AioTypeOK
  <2> QED BY <1>0, <1>2, <2>1, CallOnlyKept DEF HandPlaces, Known
<1>3. CASE /\ Goto(t, "parked")
           /\ phase[call[t].id] = "live" /\ state[call[t].id] \notin Terminal
  <2>1. Moves(t, "parked", call[t].id, call[t].state, {})
    BY <1>0, <1>3, GotoMoves DEF Places
  <2> QED BY <1>0, <1>3, <2>1, CallOnlyKept DEF HandPlaces
<1> QED BY <1>1, <1>2, <1>3 DEF Look, Known

(***************************************************************************)
(* The steps of a wait.                                                    *)
(***************************************************************************)
LEMMA WaitStepKept ==
    ASSUME AioIInv, NEW t \in Threads, WaitStep(t)
    PROVE  AioIInv'
<1>0. /\ call[t].at \in InWait /\ UNCHANGED <<engine, job, result, terminating>>
  BY DEF WaitStep, SliceStarts, WokenLooks, SliceExpires, ExpiredLooks, In, InWait
<1>1. AioTypeOK /\ call[t].id \in Ids /\ call[t].took = {} /\ call[t].at \notin HandPlaces
  BY <1>0 DEF AioIInv, CallsKept, CallKept, HandsKept, HandPlaces, InWait
<1>2. CASE TimedOut(t)
  <2>1. Moves(t, "lateDrain", call[t].id, call[t].state, {})
    BY <1>1, <1>2, TimedOutMoves
  <2> QED BY <1>0, <1>1, <2>1, CallOnlyKept DEF HandPlaces
<1>3. CASE Look(t) /\ call[t].at \in {"slice", "look"}
  BY <1>0, <1>3, LookKept
<1>4. CASE SliceExpires(t)
  <2>1. Moves(t, "expired", call[t].id, call[t].state, {})
    BY <1>1, <1>4, GotoMoves DEF SliceExpires, Places
  <2>2. phase[call[t].id] # "none"
    BY <1>4 DEF AioIInv, CallsKept, CallKept, SliceExpires
  <2> QED BY <1>0, <1>1, <2>1, <2>2, CallOnlyKept DEF HandPlaces
<1>5. CASE ExpiredLooks(t) /\ ~TimedOut(t)
  <2>0. phase[call[t].id] # "none" /\ state[call[t].id] \in States
    BY <1>1, <1>5 DEF AioIInv, CallsKept, CallKept, ExpiredLooks, In, AioTypeOK
  <2>1. CASE Goto(t, "slice")
    <3>1. Moves(t, "slice", call[t].id, call[t].state, {})
      BY <1>1, <2>1, GotoMoves DEF Places
    <3> QED BY <1>0, <1>1, <3>1, CallOnlyKept DEF HandPlaces
  <2>2. CASE phase[call[t].id] = "live" /\ WaitOver(t, state[call[t].id])
    <3>1. Moves(t, "drain", call[t].id, state[call[t].id], {})
      BY <1>1, <2>0, <2>2, WaitOverMoves
    <3> QED BY <1>0, <1>1, <2>0, <3>1, CallOnlyKept DEF HandPlaces
  <2>3. CASE phase[call[t].id] # "live" /\ WaitOver(t, "ABORTED")
    <3>1. Moves(t, "drain", call[t].id, "ABORTED", {})
      BY <1>1, <2>3, WaitOverMoves DEF States, Terminal
    <3> QED BY <1>0, <1>1, <2>0, <2>3, <3>1, CallOnlyKept DEF HandPlaces
  <2> QED BY <1>5, <2>1, <2>2, <2>3 DEF ExpiredLooks
<1> QED BY <1>2, <1>3, <1>4, <1>5 DEF WaitStep, SliceStarts, WokenLooks, In

(***************************************************************************)
(* A deadline passes, or the process begins to terminate.                  *)
(***************************************************************************)
LEMMA PassingKept ==
    ASSUME AioIInv, (\E t \in Threads : LimitPasses(t)) \/ BeginTermination
    PROVE  AioIInv'
<1>0. AioTypeOK
  BY DEF AioIInv
<1>1. ASSUME NEW t \in Threads, LimitPasses(t) PROVE AioIInv'
  <2>1. Moves(t, call[t].at, call[t].id, call[t].state, call[t].took)
    BY <1>0, <1>1, CallFields DEF AioTypeOK, CallRecord, LimitPasses, Moves, Carried
  <2>2. call' \in [Threads -> CallRecord] /\ \A u \in Threads : Carried(u)
    BY <2>1 DEF Moves, Carried
  <2>3. UNCHANGED <<engine, job, result>> /\ terminating' \in BOOLEAN
    BY <1>0, <1>1 DEF LimitPasses, AioTypeOK
  <2> QED BY <2>2, <2>3, CarriedKept
<1>2. CASE BeginTermination
  <2>1. call' = call /\ UNCHANGED <<engine, job, result>> /\ terminating' \in BOOLEAN
    BY <1>2 DEF BeginTermination
  <2> QED BY <1>0, <2>1, AllCarried, CarriedKept
<1> QED BY <1>1, <1>2

(***************************************************************************)
(* Who moves, at most its own hands change.                                *)
(***************************************************************************)
LEMMA MovedHands ==
    ASSUME HandsKept, NEW t \in Threads, NEW a, NEW d, NEW s, NEW k, Moves(t, a, d, s, k)
    PROVE  /\ \A u \in Threads, e \in Ids, i \in Indexes :
                u # t => (Holds(u, e, i)' <=> Holds(u, e, i))
           /\ \A e \in Ids, i \in Indexes :
                Holds(t, e, i)' <=> e = d /\ \E o \in Outcomes : <<i, o>> \in k
           /\ (a \notin HandPlaces => k = {}) =>
                \A u \in Threads : call'[u].at \notin HandPlaces => call'[u].took = {}
BY ZenonT(40) DEF HandsKept, Holds, Moves, Carried, HandPlaces

(***************************************************************************)
(* A delivery.  What the thread holds nobody else holds, and it goes to    *)
(* guest memory.                                                           *)
(***************************************************************************)
LEMMA DeliverKept ==
    ASSUME AioIInv, NEW t \in Threads, Deliver(t)
    PROVE  AioIInv'
<1> USE DEF AioIInv
<1> DEFINE d == call[t].id
<1>0. /\ d \in Ids /\ call[t].took \in SUBSET (Indexes \X Outcomes)
      /\ Moves(t, "idle", 0, "NONE", {})
      /\ UNCHANGED <<made, phase, state, slot, pending, cancelled, queue, job, terminating>>
  BY CallFields, ReturnMoves DEF Deliver, CallsKept, CallKept, engine
<1>1. /\ result' \in [Ids -> [Indexes -> {"none", "submitted"} \cup Outcomes]]
      /\ \A e \in Ids, i \in Indexes :
           /\ Holds(t, e, i) => result'[e][i] \in Outcomes
           /\ ~Holds(t, e, i) => result'[e][i] = result[e][i]
  BY <1>0 DEF Deliver, Holds, AioTypeOK
<1>2. AioTypeOK'
  BY <1>0, <1>1 DEF AioTypeOK, Moves
<1>3. AccountsKept'
  BY <1>0 DEF AccountsKept, Unfinished
<1>4. JobsKept'
  BY <1>0 DEF JobsKept
<1>5. /\ \A e \in Ids, i \in Indexes : ~Holds(t, e, i)'
      /\ \A u \in Threads, e \in Ids, i \in Indexes :
           u # t => (Holds(u, e, i)' <=> Holds(u, e, i))
      /\ \A u \in Threads : call'[u].at \notin HandPlaces => call'[u].took = {}
  <2>1. \A e \in Ids, i \in Indexes : ~Holds(t, e, i)'
    BY <1>0 DEF Moves, Holds
  <2>2. /\ \A u \in Threads, e \in Ids, i \in Indexes :
             u # t => (Holds(u, e, i)' <=> Holds(u, e, i))
        /\ \A u \in Threads : call'[u].at \notin HandPlaces => call'[u].took = {}
    BY <1>0, MovedHands
  <2> QED BY <2>1, <2>2
<1>6. HandsKept'
  <2>1. \A u, v \in Threads, e \in Ids, i \in Indexes :
          Holds(u, e, i)' /\ Holds(v, e, i)' => u = v
    BY <1>5 DEF HandsKept
  <2>2. ASSUME NEW u \in Threads, NEW e \in Ids, NEW i \in Indexes, Holds(u, e, i)'
        PROVE  /\ phase'[e] # "none"
               /\ result'[e][i] = "submitted"
               /\ slot'[e][i] \in {"none", "drained"}
    <3>1. u # t /\ Holds(u, e, i) /\ ~Holds(t, e, i)
      BY <1>5, <2>2 DEF HandsKept
    <3> QED BY <1>0, <1>1, <3>1 DEF HandsKept
  <2>3. ASSUME NEW e \in Ids, NEW i \in Indexes
        PROVE  /\ slot'[e][i] \notin {"none", "drained"} => result'[e][i] = "submitted"
               /\ slot'[e][i] = "drained" =>
                    result'[e][i] \in Outcomes \/ \E u \in Threads : Holds(u, e, i)'
    <3>1. CASE Holds(t, e, i)
      BY <1>0, <1>1, <3>1 DEF HandsKept
    <3>2. CASE ~Holds(t, e, i)
      BY <1>0, <1>1, <1>5, <3>2 DEF HandsKept
    <3> QED BY <3>1, <3>2
  <2> QED BY <1>5, <2>1, <2>2, <2>3 DEF HandsKept
<1>7. CallsKept'
  BY <1>0 DEF CallsKept, CallKept, Moves, Carried, In
<1> QED BY <1>2, <1>3, <1>4, <1>6, <1>7

(***************************************************************************)
(* A drain.  The outcomes it takes were in nobody's hands, and a thread    *)
(* that has read a final state leaves none behind.                         *)
(***************************************************************************)
LEMMA DrainKept ==
    ASSUME AioIInv, NEW t \in Threads, Drain(t)
    PROVE  AioIInv'
<1> USE DEF AioIInv
<1> DEFINE d == call[t].id
           ready == {i \in Indexes : phase[d] = "live" /\ slot[d][i] \in Outcomes}
           k == {<<i, slot[d][i]>> : i \in ready}
           a == AfterDrain[call[t].at]
<1>0. /\ d \in Ids
      /\ UNCHANGED <<made, phase, state, pending, cancelled, queue, job, result, terminating>>
      /\ call[t].at \in {"drain", "lateDrain", "delDrain"}
  BY DEF Drain, CallsKept, CallKept
<1>1. /\ a \in HandPlaces /\ a \in Places
      /\ a = "deliver" <=> call[t].at = "drain"
  BY <1>0 DEF AfterDrain, HandPlaces, Places
<1>2. k \in SUBSET (Indexes \X Outcomes)
  OBVIOUS
<1>3. Moves(t, a, d, call[t].state, k)
  <2>1. call' = [call EXCEPT ![t].took = k, ![t].at = a]
    BY <1>0, CallFields DEF Drain, AioTypeOK, CallRecord
  <2> QED BY <1>1, <1>2, <2>1, CallFields, ZenonT(40) DEF AioTypeOK, CallRecord, Moves, Carried
<1>4. /\ slot' \in [Ids -> [Indexes -> SlotStates]]
      /\ \A e \in Ids, i \in Indexes :
           slot'[e][i] = IF e = d /\ i \in ready THEN "drained" ELSE slot[e][i]
  BY <1>0 DEF Drain, AioTypeOK, SlotStates
<1>5. AioTypeOK'
  BY <1>0, <1>3, <1>4 DEF AioTypeOK, Moves
<1>6. AccountsKept'
  <2>1. \A e \in Ids : Unfinished(e)' = Unfinished(e)
    BY <1>4 DEF Unfinished, Outcomes
  <2>2. \A e \in Ids : phase'[e] # "live" => \A i \in Indexes : slot'[e][i] = "none"
    BY <1>0, <1>4 DEF AccountsKept
  <2> QED BY <1>0, <2>1, <2>2 DEF AccountsKept
<1>7. JobsKept'
  <2>1. ASSUME NEW w \in Workers, job[w] # NoJob, phase[job[w][1]] = "live"
        PROVE  slot'[job[w][1]][job[w][2]] = "running"
    <3>1. job[w][1] \in Ids /\ job[w][2] \in Indexes /\ slot[job[w][1]][job[w][2]] = "running"
      BY <2>1 DEF JobsKept, AioTypeOK
    <3> QED BY <1>4, <3>1 DEF Outcomes
  <2> QED BY <1>0, <2>1 DEF JobsKept
<1>8. /\ \A i \in Indexes : (\E o \in Outcomes : <<i, o>> \in k) <=> i \in ready
      /\ \A e \in Ids, i \in Indexes : Holds(t, e, i)' <=> e = d /\ i \in ready
      /\ \A u \in Threads, e \in Ids, i \in Indexes :
           u # t => (Holds(u, e, i)' <=> Holds(u, e, i))
      /\ \A u \in Threads : call'[u].at \notin HandPlaces => call'[u].took = {}
  <2>1. \A i \in Indexes : (\E o \in Outcomes : <<i, o>> \in k) <=> i \in ready
    OBVIOUS
  <2>2. a \notin HandPlaces => k = {}
    BY <1>1
  <2> HIDE DEF a, k
  <2> QED BY <1>3, <2>1, <2>2, MovedHands
<1>9. \A i \in ready : slot[d][i] \in Outcomes /\ phase[d] = "live" /\ i \in Indexes
  OBVIOUS
<1> HIDE DEF ready, k
<1>10. \A u \in Threads, i \in ready : ~Holds(u, d, i)
  BY <1>0, <1>9 DEF HandsKept, Outcomes
<1>11. ASSUME NEW u \in Threads, NEW e \in Ids, NEW i \in Indexes, Holds(u, e, i)
       PROVE  u # t /\ Holds(u, e, i)'
  <2>1. call[t].took = {}
    BY <1>0 DEF HandsKept, HandPlaces
  <2> QED BY <1>8, <1>11, <2>1 DEF Holds
<1>12. HandsKept'
  <2>1. ASSUME NEW u \in Threads, NEW v \in Threads, NEW e \in Ids, NEW i \in Indexes,
               Holds(u, e, i)', Holds(v, e, i)'
        PROVE  u = v
    BY <1>8, <1>10, <2>1 DEF HandsKept
  <2>2. ASSUME NEW u \in Threads, NEW e \in Ids, NEW i \in Indexes, Holds(u, e, i)'
        PROVE  /\ phase'[e] # "none"
               /\ result'[e][i] = "submitted"
               /\ slot'[e][i] \in {"none", "drained"}
    <3>1. CASE u = t
      <4>1. e = d /\ i \in ready
        BY <1>8, <2>2, <3>1
      <4> QED BY <1>0, <1>4, <1>9, <4>1 DEF HandsKept, Outcomes
    <3>2. CASE u # t
      <4>1. Holds(u, e, i)
        BY <1>8, <2>2, <3>2
      <4> QED BY <1>0, <1>4, <4>1 DEF HandsKept
    <3> QED BY <3>1, <3>2
  <2>3. ASSUME NEW e \in Ids, NEW i \in Indexes
        PROVE  /\ slot'[e][i] \notin {"none", "drained"} => result'[e][i] = "submitted"
               /\ slot'[e][i] = "drained" =>
                    result'[e][i] \in Outcomes \/ \E u \in Threads : Holds(u, e, i)'
    <3>1. CASE e = d /\ i \in ready
      BY <1>4, <1>8, <3>1
    <3>2. CASE ~(e = d /\ i \in ready)
      BY <1>0, <1>4, <1>11, <3>2 DEF HandsKept
    <3> QED BY <3>1, <3>2
  <2> QED BY <1>8, <2>1, <2>2, <2>3 DEF HandsKept
<1>13. CallsKept'
  <2>1. ASSUME NEW u \in Threads, u # t PROVE CallKept(u)'
    <3>1. ASSUME NEW i \in Indexes,
                 In(u, "deliver")', call'[u].state \in Terminal, phase'[call'[u].id] = "live"
          PROVE  slot'[call'[u].id][i] \in {"none", "drained"}
      <4>1. call'[u].id = call[u].id /\ In(u, "deliver") /\ call[u].state \in Terminal
        BY <1>3, <2>1, <3>1 DEF Moves, Carried, In
      <4>2. call[u].id \in Ids /\ slot[call[u].id][i] \in {"none", "drained"}
        BY <1>0, <3>1, <4>1 DEF CallsKept, CallKept, In
      <4> QED BY <1>4, <4>1, <4>2
    <3> QED BY <1>0, <1>3, <2>1, <3>1 DEF CallsKept, CallKept, Moves, Carried, In
  <2>2. CallKept(t)'
    <3>1. call'[t].id = d /\ call'[t].at = a /\ call'[t].state = call[t].state
      BY <1>3 DEF Moves
    <3>2. /\ a = "deliver" => phase[d] # "none"
          /\ a = "deliver" /\ call[t].state \in Terminal /\ phase[d] = "live"
               => state[d] \in Terminal
      BY <1>0, <1>1 DEF CallsKept, CallKept
    <3>3. ASSUME NEW i \in Indexes, a = "deliver", call[t].state \in Terminal, phase[d] = "live"
          PROVE  slot'[d][i] \in {"none", "drained"}
      <4>1. slot[d][i] \notin {"queued", "running"} /\ slot[d][i] \in SlotStates
        BY <1>0, <3>2, <3>3, FinalMeansFinished DEF AioTypeOK
      <4>2. slot[d][i] \in Outcomes => i \in ready
        BY <3>3 DEF ready
      <4> QED BY <1>0, <1>4, <4>1, <4>2 DEF SlotStates
    <3>4. a \notin {"idle", "parked", "expired", "drain"}
      BY <1>1 DEF HandPlaces
    <3> HIDE DEF a, d
    <3> QED BY <1>0, <3>1, <3>2, <3>3, <3>4 DEF CallKept, In
  <2> QED BY <2>1, <2>2 DEF CallsKept
<1> QED BY <1>5, <1>6, <1>7, <1>12, <1>13

(***************************************************************************)
(* The rest of a delete.  The requests go with the submission, the late    *)
(* workers find it gone, and nobody goes on sleeping for it.               *)
(***************************************************************************)
LEMMA RemoveKept ==
    ASSUME AioIInv, NEW t \in Threads, Remove(t)
    PROVE  AioIInv'
<1> USE DEF AioIInv
<1> DEFINE d == call[t].id
<1>0. d \in Ids /\ UNCHANGED <<made, queue, job, result, terminating>> /\ In(t, "remove")
  BY DEF Remove, CallsKept, CallKept, In
<1>1. CASE phase[d] # "live"
  <2>0. /\ Moves(t, "idle", 0, "NONE", {})
        /\ UNCHANGED <<phase, state, slot, pending, cancelled>>
    BY <1>1, ReturnMoves DEF Remove
  <2>1. AioTypeOK'
    BY <1>0, <2>0 DEF AioTypeOK, Moves
  <2>2. AccountsKept'
    BY <1>0, <2>0 DEF AccountsKept, Unfinished
  <2>3. JobsKept'
    BY <1>0, <2>0 DEF JobsKept
  <2>4. /\ \A e \in Ids, i \in Indexes : ~Holds(t, e, i)'
        /\ \A u \in Threads, e \in Ids, i \in Indexes :
             u # t => (Holds(u, e, i)' <=> Holds(u, e, i))
        /\ \A u \in Threads : call'[u].at \notin HandPlaces => call'[u].took = {}
    <3>1. \A e \in Ids, i \in Indexes : ~Holds(t, e, i)'
      BY <2>0 DEF Moves, Holds
    <3> QED BY <2>0, <3>1, MovedHands
  <2>5. ASSUME NEW e \in Ids, NEW i \in Indexes, slot[e][i] = "drained" PROVE ~Holds(t, e, i)
    BY <1>1, <2>5 DEF AccountsKept, Holds
  <2>6. HandsKept'
    BY <1>0, <2>0, <2>4, <2>5 DEF HandsKept
  <2>7. CallsKept'
    BY <1>0, <2>0 DEF CallsKept, CallKept, Moves, Carried, In
  <2> QED BY <2>1, <2>2, <2>3, <2>6, <2>7
<1>2. CASE phase[d] = "live"
  <2>0. /\ phase' = [phase EXCEPT ![d] = "retired"]
        /\ state' = [state EXCEPT ![d] = IF pending[d] > 0 THEN "ABORTED" ELSE @]
        /\ slot' = [slot EXCEPT ![d] = [i \in Indexes |-> "none"]]
        /\ pending' = [pending EXCEPT ![d] = 0]
        /\ cancelled' = [cancelled EXCEPT ![d] = FALSE]
        /\ call' = [Notified EXCEPT ![t].at = "delDeliver"]
    BY <1>2 DEF Remove
  <2>1. /\ Moves(t, "delDeliver", d, call[t].state, call[t].took)
        /\ \A u \in Threads : ~In(u, "parked")'
    BY <2>0, NotifiedCalls DEF CallRecord, Places, Moves, Carried, In
  <2>2. AioTypeOK'
    <3>1. /\ phase' \in [Ids -> {"none", "live", "retired", "evicted"}]
          /\ state' \in [Ids -> States]
          /\ slot' \in [Ids -> [Indexes -> SlotStates]]
          /\ pending' \in [Ids -> 0..MaxBatch]
          /\ cancelled' \in [Ids -> BOOLEAN]
      BY <1>0, <2>0, MaxBatchAssumption DEF AioTypeOK, States, Terminal, SlotStates
    <3> QED BY <1>0, <2>1, <3>1 DEF AioTypeOK, Moves
  <2>3. /\ phase'[d] = "retired"
        /\ \A i \in Indexes : slot'[d][i] = "none"
        /\ \A e \in Ids : e # d => /\ phase'[e] = phase[e]
                                   /\ state'[e] = state[e]
                                   /\ slot'[e] = slot[e]
                                   /\ pending'[e] = pending[e]
    BY <1>0, <2>0 DEF AioTypeOK
  <2>4. AccountsKept'
    <3>1. \A e \in Ids : e # d => Unfinished(e)' = Unfinished(e)
      BY <2>3 DEF Unfinished
    <3>2. ~(d > made)
      BY <1>0, <1>2 DEF AccountsKept
    <3> HIDE DEF d
    <3>3. \A e \in Ids : e > made' => phase'[e] = "none"
      BY <1>0, <2>3, <3>2 DEF AccountsKept
    <3>4. \A e \in Ids : phase'[e] # "live" => \A i \in Indexes : slot'[e][i] = "none"
      BY <2>3 DEF AccountsKept
    <3> QED BY <2>3, <3>1, <3>3, <3>4 DEF AccountsKept
  <2>5. JobsKept'
    <3>1. \A w \in Workers : job[w] # NoJob => job[w][1] \in Ids
      BY DEF AioTypeOK
    <3> QED BY <1>0, <2>3, <3>1 DEF JobsKept
  <2>6. /\ \A u \in Threads, e \in Ids, i \in Indexes : Holds(u, e, i)' <=> Holds(u, e, i)
        /\ \A u \in Threads : call'[u].at \notin HandPlaces => call'[u].took = {}
    <3>1. /\ call'[t].took = call[t].took /\ call'[t].id = call[t].id
          /\ call'[t].at \in HandPlaces
      BY <2>1 DEF Moves, HandPlaces
    <3>2. ASSUME NEW u \in Threads
          PROVE  /\ call'[u].took = call[u].took /\ call'[u].id = call[u].id
                 /\ call'[u].at \notin HandPlaces => call'[u].took = {}
      BY <2>1, <3>1 DEF HandsKept, Moves, Carried, HandPlaces
    <3> QED BY <3>2 DEF Holds
  <2>7. HandsKept'
    BY <1>0, <2>3, <2>6 DEF HandsKept
  <2>8. CallsKept'
    BY <1>0, <2>1, <2>3 DEF CallsKept, CallKept, Moves, Carried, In
  <2> QED BY <2>2, <2>4, <2>5, <2>7, <2>8
<1> QED BY <1>1, <1>2

(***************************************************************************)
(* A retired id is forgotten.                                              *)
(***************************************************************************)
LEMMA EvictKept ==
    ASSUME AioIInv, NEW d \in Ids, Evict(d)
    PROVE  AioIInv'
<1> USE DEF AioIInv
<1>0. /\ UNCHANGED <<made, slot, pending, cancelled, queue, job, result, call, terminating>>
      /\ phase[d] = "retired"
      /\ phase' = [phase EXCEPT ![d] = "evicted"]
      /\ state' = [state EXCEPT ![d] = "NONE"]
  BY DEF Evict
<1>1. AioTypeOK'
  BY <1>0 DEF AioTypeOK, States
<1>2. /\ phase'[d] = "evicted"
      /\ \A e \in Ids : e # d => phase'[e] = phase[e] /\ state'[e] = state[e]
  BY <1>0 DEF AioTypeOK
<1>3. AccountsKept'
  <2>1. \A e \in Ids : Unfinished(e)' = Unfinished(e)
    BY <1>0 DEF Unfinished
  <2>2. d <= made
    BY <1>0 DEF AccountsKept, AioTypeOK, Ids
  <2> QED BY <1>0, <1>2, <2>1, <2>2 DEF AccountsKept, AioTypeOK, Ids
<1>4. JobsKept'
  <2>1. \A w \in Workers : job[w] # NoJob => job[w][1] \in Ids
    BY DEF AioTypeOK
  <2> QED BY <1>0, <1>2, <2>1 DEF JobsKept
<1>5. HandsKept'
  BY <1>0, <1>2, SMTT(40) DEF HandsKept, Holds
<1>6. CallsKept'
  BY <1>0, <1>2 DEF CallsKept, CallKept, In
<1> QED BY <1>1, <1>3, <1>4, <1>5, <1>6

(***************************************************************************)
(* A submission.  Nobody knows the new id yet.                             *)
(***************************************************************************)
LEMMA SubmitKept ==
    ASSUME AioIInv, NEW t \in Threads, NEW n \in Indexes, Submit(t, n)
    PROVE  AioIInv'
<1> USE DEF AioIInv
<1>0. PICK d \in Ids :
      /\ d = made + 1
      /\ UNCHANGED <<cancelled, job, call, terminating>>
      /\ made' = d
      /\ phase' = [phase EXCEPT ![d] = "live"]
      /\ state' = [state EXCEPT ![d] = "SUBMITTED"]
      /\ slot' = [slot EXCEPT ![d] = [i \in Indexes |-> IF i <= n THEN "queued" ELSE "none"]]
      /\ pending' = [pending EXCEPT ![d] = n]
      /\ queue' = queue \o [i \in 1..n |-> <<d, i>>]
      /\ result' = [result EXCEPT ![d] =
                      [i \in Indexes |-> IF i <= n THEN "submitted" ELSE "none"]]
  <2>1. made + 1 \in Ids
    BY MaxSubmitsAssumption DEF Submit, AioTypeOK, Ids
  <2> QED BY <2>1 DEF Submit
<1>1. d > made /\ n \in 1..MaxBatch /\ made \in Nat
  BY <1>0, MaxSubmitsAssumption DEF AioTypeOK, Indexes
<1>2. phase[d] = "none"
  BY <1>1 DEF AccountsKept
<1>3. AioTypeOK'
  <2>1. /\ phase' \in [Ids -> {"none", "live", "retired", "evicted"}]
        /\ state' \in [Ids -> States]
        /\ slot' \in [Ids -> [Indexes -> SlotStates]]
        /\ pending' \in [Ids -> 0..MaxBatch]
        /\ result' \in [Ids -> [Indexes -> {"none", "submitted"} \cup Outcomes]]
    BY <1>0, <1>1 DEF AioTypeOK, States, SlotStates
  <2>2. made' \in 0..MaxSubmits
    BY <1>0, <1>1, MaxSubmitsAssumption DEF Ids
  <2>3. queue' \in Seq(Ids \X Indexes)
    <3>1. [i \in 1..n |-> <<d, i>>] \in Seq(Ids \X Indexes)
      BY <1>1, MaxBatchAssumption DEF Indexes
    <3>2. queue \in Seq(Ids \X Indexes)
      BY DEF AioTypeOK
    <3> QED BY <1>0, <3>1, <3>2
  <2> QED BY <1>0, <2>1, <2>2, <2>3 DEF AioTypeOK
<1>4. /\ phase'[d] = "live" /\ state'[d] = "SUBMITTED" /\ pending'[d] = n
      /\ \A i \in Indexes : slot'[d][i] = (IF i <= n THEN "queued" ELSE "none")
      /\ \A i \in Indexes : result'[d][i] = (IF i <= n THEN "submitted" ELSE "none")
      /\ \A e \in Ids : e # d => /\ phase'[e] = phase[e]
                                 /\ state'[e] = state[e]
                                 /\ slot'[e] = slot[e]
                                 /\ pending'[e] = pending[e]
                                 /\ result'[e] = result[e]
  BY <1>0, <1>1 DEF AioTypeOK
<1>5. AccountsKept'
  <2>1. \A e \in Ids : e # d => Unfinished(e)' = Unfinished(e)
    BY <1>4 DEF Unfinished
  <2>2. Unfinished(d)' = 1..n
    BY <1>0, <1>1, <1>4, MaxBatchAssumption DEF Unfinished, Indexes
  <2>3. Cardinality(1..n) = n
    BY <1>1, FS_Interval
  <2>4. n # 0 /\ state'[d] \notin Terminal
    BY <1>1, <1>4 DEF Terminal
  <2>5. \A e \in Ids : e > made' => phase'[e] = "none"
    BY <1>0, <1>1, <1>4 DEF AccountsKept, Ids
  <2>6. \A e \in Ids : phase'[e] # "live" => \A i \in Indexes : slot'[e][i] = "none"
    BY <1>4 DEF AccountsKept
  <2>7. ASSUME NEW e \in Ids, phase'[e] = "live"
        PROVE  /\ pending'[e] = Cardinality(Unfinished(e)')
               /\ (state'[e] \in Terminal) <=> (pending'[e] = 0)
    <3>1. CASE e = d
      BY <1>4, <2>2, <2>3, <2>4, <3>1
    <3>2. CASE e # d
      BY <1>4, <2>1, <2>7, <3>2 DEF AccountsKept
    <3> QED BY <3>1, <3>2
  <2> QED BY <2>5, <2>6, <2>7 DEF AccountsKept
<1>6. JobsKept'
  <2>1. \A w \in Workers : job[w] # NoJob => job[w][1] \in Ids /\ job[w][1] # d
    BY <1>2 DEF AioTypeOK, JobsKept
  <2> QED BY <1>0, <1>4, <2>1 DEF JobsKept
<1>7. HandsKept'
  <2>1. \A u \in Threads, i \in Indexes : ~Holds(u, d, i)
    BY <1>1, <1>2 DEF HandsKept
  <2>2. \A u \in Threads, e \in Ids, i \in Indexes : Holds(u, e, i)' <=> Holds(u, e, i)
    BY <1>0 DEF Holds
  <2> QED BY <1>0, <1>4, <2>1, <2>2 DEF HandsKept
<1>8. CallsKept'
  <2> QED BY <1>0, <1>2, <1>4 DEF CallsKept, CallKept, In
<1> QED BY <1>3, <1>5, <1>6, <1>7, <1>8

(***************************************************************************)
(* A worker takes a request, which no other performs: it was queued.       *)
(***************************************************************************)
LEMMA PopKept ==
    ASSUME AioIInv, NEW w \in Workers, WorkerPops(w)
    PROVE  AioIInv'
<1> USE DEF AioIInv
<1>0. /\ queue # <<>> /\ queue \in Seq(Ids \X Indexes)
      /\ queue' = Tail(queue)
      /\ UNCHANGED <<made, phase, pending, cancelled, result, call, terminating>>
  BY DEF WorkerPops, AioTypeOK
<1>1. PICK d \in Ids, i \in Indexes : d = Head(queue)[1] /\ i = Head(queue)[2]
  BY <1>0
<1>2. queue' \in Seq(Ids \X Indexes)
  BY <1>0
<1>3. CASE ~(phase[d] = "live" /\ slot[d][i] = "queued")
  <2>0. UNCHANGED <<job, slot, state>>
    BY <1>1, <1>3 DEF WorkerPops
  <2>1. AioTypeOK'
    BY <1>0, <1>2, <2>0 DEF AioTypeOK
  <2>2. AccountsKept'
    BY <1>0, <2>0 DEF AccountsKept, Unfinished
  <2>3. JobsKept'
    BY <1>0, <2>0 DEF JobsKept
  <2>4. HandsKept'
    BY <1>0, <2>0 DEF HandsKept, Holds
  <2>5. CallsKept'
    BY <1>0, <2>0 DEF CallsKept, CallKept, In
  <2> QED BY <2>1, <2>2, <2>3, <2>4, <2>5
<1>4. CASE phase[d] = "live" /\ slot[d][i] = "queued"
  <2>0. /\ job' = [job EXCEPT ![w] = <<d, i>>]
        /\ slot' = [slot EXCEPT ![d][i] = "running"]
        /\ state' = [state EXCEPT ![d] = "PROCESSING"]
    BY <1>1, <1>4 DEF WorkerPops
  <2>1. AioTypeOK'
    <3>1. job' \in [Workers -> (Ids \X Indexes) \cup {NoJob}]
      BY <2>0 DEF AioTypeOK
    <3>2. state' \in [Ids -> States] /\ slot' \in [Ids -> [Indexes -> SlotStates]]
      BY <2>0 DEF AioTypeOK, States, SlotStates
    <3> QED BY <1>0, <1>2, <3>1, <3>2 DEF AioTypeOK
  <2>2. /\ state'[d] = "PROCESSING"
        /\ \A e \in Ids : e # d => state'[e] = state[e]
        /\ \A e \in Ids, j \in Indexes :
             slot'[e][j] = IF e = d /\ j = i THEN "running" ELSE slot[e][j]
    BY <2>0 DEF AioTypeOK
  <2>3. state[d] \notin Terminal /\ state'[d] \notin Terminal
    BY <1>4, <2>2, FinalMeansFinished DEF Terminal
  <2>4. AccountsKept'
    <3>1. \A e \in Ids : Unfinished(e)' = Unfinished(e)
      BY <1>4, <2>2 DEF Unfinished
    <3>2. \A e \in Ids : (state'[e] \in Terminal) <=> (state[e] \in Terminal)
      BY <2>2, <2>3
    <3>3. \A e \in Ids : phase'[e] # "live" => \A j \in Indexes : slot'[e][j] = "none"
      BY <1>0, <1>4, <2>2 DEF AccountsKept
    <3> QED BY <1>0, <3>1, <3>2, <3>3 DEF AccountsKept
  <2>5. JobsKept'
    <3>1. \A v \in Workers : job[v] # NoJob => job[v][1] \in Ids /\ job[v][2] \in Indexes
      BY DEF AioTypeOK
    <3>2. \A v \in Workers : job[v] # <<d, i>>
      BY <1>4, <3>1 DEF JobsKept, NoJob, Ids
    <3>3. job'[w] = <<d, i>> /\ \A v \in Workers : v # w => job'[v] = job[v]
      BY <2>0 DEF AioTypeOK
    <3>4. ASSUME NEW v \in Workers, job'[v] # NoJob
          PROVE  /\ phase'[job'[v][1]] # "none"
                 /\ phase'[job'[v][1]] = "live" => slot'[job'[v][1]][job'[v][2]] = "running"
      <4>1. CASE v = w
        BY <1>0, <1>4, <2>2, <3>3, <4>1
      <4>2. CASE v # w
        BY <1>0, <2>2, <3>1, <3>3, <3>4, <4>2 DEF JobsKept
      <4> QED BY <4>1, <4>2
    <3>5. \A u, v \in Workers : u # v /\ job'[u] # NoJob => job'[u] # job'[v]
      BY <3>2, <3>3 DEF JobsKept
    <3> QED BY <3>4, <3>5 DEF JobsKept
  <2>6. HandsKept'
    <3>1. \A u \in Threads, e \in Ids, j \in Indexes : Holds(u, e, j)' <=> Holds(u, e, j)
      BY <1>0 DEF Holds
    <3>2. \A e \in Ids, j \in Indexes :
            \/ slot'[e][j] = slot[e][j]
            \/ slot[e][j] = "queued" /\ slot'[e][j] = "running"
      BY <1>4, <2>2
    <3> QED BY <1>0, <3>1, <3>2 DEF HandsKept
  <2>7. CallsKept'
    BY <1>0, <1>4, <2>2, <2>3 DEF CallsKept, CallKept, In
  <2> QED BY <2>1, <2>4, <2>5, <2>6, <2>7
<1> QED BY <1>3, <1>4

(***************************************************************************)
(* A worker reports.  The last report makes the submission final and wakes *)
(* everybody.                                                              *)
(***************************************************************************)
LEMMA FinishKept ==
    ASSUME AioIInv, NEW w \in Workers, NEW outcome \in Outcomes, WorkerFinishes(w, outcome)
    PROVE  AioIInv'
<1> USE DEF AioIInv
<1>0. /\ job[w] # NoJob /\ job' = [job EXCEPT ![w] = NoJob]
      /\ UNCHANGED <<made, phase, cancelled, queue, result, terminating>>
  BY DEF WorkerFinishes
<1>1. PICK d \in Ids, i \in Indexes : job[w] = <<d, i>> /\ d = job[w][1] /\ i = job[w][2]
  BY <1>0 DEF AioTypeOK
<1>2. /\ job' \in [Workers -> (Ids \X Indexes) \cup {NoJob}]
      /\ job'[w] = NoJob /\ \A v \in Workers : v # w => job'[v] = job[v]
  BY <1>0 DEF AioTypeOK
<1>3. CASE phase[d] # "live"
  <2>0. UNCHANGED <<slot, pending, state, call>>
    BY <1>1, <1>3 DEF WorkerFinishes
  <2>1. AioTypeOK'
    BY <1>0, <1>2, <2>0 DEF AioTypeOK
  <2>2. AccountsKept'
    BY <1>0, <2>0 DEF AccountsKept, Unfinished
  <2>3. JobsKept'
    BY <1>0, <1>2, <2>0 DEF JobsKept
  <2>4. HandsKept'
    BY <1>0, <2>0, SMTT(40) DEF HandsKept, Holds
  <2>5. CallsKept'
    BY <1>0, <2>0 DEF CallsKept, CallKept, In
  <2> QED BY <2>1, <2>2, <2>3, <2>4, <2>5
<1>4. CASE phase[d] = "live"
  <2>0. /\ slot' = [slot EXCEPT ![d][i] = outcome]
        /\ pending' = [pending EXCEPT ![d] = @ - 1]
        /\ \/ /\ pending[d] = 1
              /\ state' = [state EXCEPT ![d] = IF cancelled[d] THEN "ABORTED" ELSE "COMPLETED"]
              /\ call' = Notified
           \/ pending[d] # 1 /\ state' = state /\ call' = call
    BY <1>1, <1>4 DEF WorkerFinishes
  <2>1. slot[d][i] = "running"
    BY <1>0, <1>1, <1>4 DEF JobsKept
  <2>2. /\ slot' \in [Ids -> [Indexes -> SlotStates]]
        /\ \A e \in Ids, j \in Indexes :
             slot'[e][j] = IF e = d /\ j = i THEN outcome ELSE slot[e][j]
    BY <2>0 DEF AioTypeOK, SlotStates
  <2>3. outcome \notin {"none", "queued", "running", "drained"}
    BY DEF Outcomes
  <2>4. /\ \A e \in Ids : e # d => Unfinished(e)' = Unfinished(e)
        /\ Unfinished(d)' = Unfinished(d) \ {i}
        /\ i \in Unfinished(d)
    BY <2>1, <2>2, <2>3 DEF Unfinished
  <2>5. /\ Cardinality(Unfinished(d)') = Cardinality(Unfinished(d)) - 1
        /\ pending[d] = Cardinality(Unfinished(d))
        /\ pending[d] \in 1..MaxBatch
        /\ state[d] \notin Terminal
    <3>1. Cardinality(Unfinished(d) \ {i}) = Cardinality(Unfinished(d)) - 1
      BY <2>4, UnfinishedFinite, FS_RemoveElement
    <3>2. Cardinality(Unfinished(d)) # 0
      BY <2>4, UnfinishedFinite
    <3>3. pending[d] \in 0..MaxBatch /\ pending[d] = Cardinality(Unfinished(d))
      BY <1>4 DEF AccountsKept, AioTypeOK
    <3>4. state[d] \notin Terminal
      BY <1>4, <2>4, FinalMeansFinished
    <3> QED BY <2>4, <3>1, <3>2, <3>3, <3>4, MaxBatchAssumption
  <2>6. /\ pending' \in [Ids -> 0..MaxBatch]
        /\ pending'[d] = pending[d] - 1
        /\ \A e \in Ids : e # d => pending'[e] = pending[e]
    BY <2>0, <2>5, MaxBatchAssumption DEF AioTypeOK
  <2>7. /\ state' \in [Ids -> States]
        /\ \A e \in Ids : e # d => state'[e] = state[e]
        /\ (state'[d] \in Terminal) <=> (pending[d] = 1)
    BY <2>0, <2>5 DEF AioTypeOK, States, Terminal
  <2>8. /\ call' \in [Threads -> CallRecord]
        /\ \A u \in Threads : Carried(u)
        /\ pending[d] = 1 => \A u \in Threads : call'[u].at # "parked"
    BY <2>0, AllCarried, NotifiedCalls
  <2>9. AioTypeOK'
    BY <1>0, <1>2, <2>2, <2>6, <2>7, <2>8 DEF AioTypeOK
  <2>10. AccountsKept'
    <3>1. \A e \in Ids : phase'[e] # "live" => \A j \in Indexes : slot'[e][j] = "none"
      BY <1>0, <1>4, <2>2 DEF AccountsKept
    <3>2. ASSUME NEW e \in Ids, phase'[e] = "live"
          PROVE  /\ pending'[e] = Cardinality(Unfinished(e)')
                 /\ (state'[e] \in Terminal) <=> (pending'[e] = 0)
      <4>1. CASE e = d
        <5>1. (pending[d] = 1) <=> (pending'[d] = 0)
          BY <2>5, <2>6
        <5> QED BY <2>5, <2>6, <2>7, <4>1, <5>1
      <4>2. CASE e # d
        BY <1>0, <2>4, <2>6, <2>7, <3>2, <4>2 DEF AccountsKept
      <4> QED BY <4>1, <4>2
    <3> QED BY <1>0, <3>1, <3>2 DEF AccountsKept
  <2>11. JobsKept'
    <3>1. \A v \in Workers : job[v] # NoJob => job[v][1] \in Ids /\ job[v][2] \in Indexes
      BY DEF AioTypeOK
    <3>2. ASSUME NEW v \in Workers, job'[v] # NoJob
          PROVE  /\ phase'[job'[v][1]] # "none"
                 /\ phase'[job'[v][1]] = "live" => slot'[job'[v][1]][job'[v][2]] = "running"
      <4>1. v # w /\ job'[v] = job[v]
        BY <1>2, <3>2
      <4>2. job[v] # job[w] /\ job[v] \in Ids \X Indexes
        BY <3>2, <4>1 DEF JobsKept, AioTypeOK
      <4>3. ~(job[v][1] = d /\ job[v][2] = i)
        BY <1>1, <4>2
      <4> QED BY <1>0, <2>2, <3>1, <3>2, <4>1, <4>3 DEF JobsKept
    <3>3. \A u, v \in Workers : u # v /\ job'[u] # NoJob => job'[u] # job'[v]
      BY <1>2 DEF JobsKept
    <3> QED BY <3>2, <3>3 DEF JobsKept
  <2>12. HandsKept'
    <3>1. result[d][i] = "submitted" /\ \A u \in Threads : ~Holds(u, d, i)
      BY <2>1 DEF HandsKept
    <3> QED BY <1>0, <2>2, <2>3, <2>8, <3>1, CarriedHands DEF HandsKept
  <2>13. CallsKept'
    <3> SUFFICES ASSUME NEW u \in Threads PROVE CallKept(u)'
      BY DEF CallsKept
    <3>1. CallKept(u) /\ Carried(u) /\ (pending[d] = 1 => call'[u].at # "parked")
      BY <2>8 DEF CallsKept
    <3>2. CASE call[u].id = d
      BY <1>0, <2>5, <2>7, <3>1, <3>2 DEF CallKept, Carried, In
    <3>3. CASE call[u].id # d
      BY <1>0, <2>2, <2>7, <3>1, <3>3 DEF CallKept, Carried, In
    <3> QED BY <3>2, <3>3
  <2> QED BY <2>9, <2>10, <2>11, <2>12, <2>13
<1> QED BY <1>3, <1>4

(***************************************************************************)
(* What a cancel does: the requests that no worker has started get an      *)
(* outcome, and the submission is final if none of its requests runs.      *)
(***************************************************************************)
LEMMA CancelledKept ==
    ASSUME AioIInv, NEW t \in Threads, NEW d \in Ids, NEW r \in CallRecord,
           In(t, "idle"), Known(d), Cancelled(t, d, r),
           UNCHANGED <<made, phase, queue, job, result, terminating>>,
           r.id = d, r.took = {}, r.at \in {"drain", "delDrain"},
           r.at = "drain" => r.state = StateAfterCancel(d)
    PROVE  AioIInv'
<1> USE DEF AioIInv
<1>0. phase[d] # "none" /\ call[t].at \notin HandPlaces /\ call[t].took = {}
  BY DEF Known, In, HandPlaces, HandsKept
<1>1. CASE phase[d] # "live" \/ state[d] \in Terminal
  <2>1. call' = [call EXCEPT ![t] = r] /\ UNCHANGED <<slot, pending, cancelled, state>>
    BY <1>1 DEF Cancelled
  <2>2. Moves(t, r.at, d, r.state, {})
    BY <2>1, StartMoves
  <2>3. r.at = "drain" => r.state = state[d]
    BY <1>1 DEF StateAfterCancel
  <2>4. UNCHANGED <<engine, job, result, terminating>>
    BY <2>1 DEF engine
  <2> QED BY <1>0, <2>2, <2>3, <2>4, CallOnlyKept DEF HandPlaces
<1>2. CASE phase[d] = "live" /\ state[d] \notin Terminal
  <2> DEFINE queued == {i \in Indexes : slot[d][i] = "queued"}
             left == pending[d] - Cardinality(queued)
  <2>0. /\ slot' = [slot EXCEPT ![d] =
                      [i \in Indexes |-> IF i \in queued THEN "aborted" ELSE slot[d][i]]]
        /\ pending' = [pending EXCEPT ![d] = left]
        /\ cancelled' = [cancelled EXCEPT ![d] = @ \/ queued # {}]
        /\ state' = [state EXCEPT ![d] = IF left = 0 THEN "ABORTED" ELSE @]
        /\ call' = [(IF left = 0 THEN Notified ELSE call) EXCEPT ![t] = r]
    BY <1>2 DEF Cancelled
  <2>1. /\ slot' \in [Ids -> [Indexes -> SlotStates]]
        /\ \A e \in Ids, i \in Indexes :
             slot'[e][i] = IF e = d /\ slot[d][i] = "queued" THEN "aborted" ELSE slot[e][i]
    BY <2>0 DEF AioTypeOK, SlotStates, Outcomes
  <2>2. /\ \A e \in Ids : e # d => Unfinished(e)' = Unfinished(e)
        /\ Unfinished(d)' = Unfinished(d) \ queued
        /\ Unfinished(d)' = {i \in Indexes : slot[d][i] = "running"}
        /\ Unfinished(d) \cap queued = queued
    BY <2>1 DEF Unfinished
  <2>3. /\ left = Cardinality(Unfinished(d)')
        /\ left \in 0..MaxBatch
        /\ (left = 0) <=> \A i \in Indexes : slot[d][i] # "running"
    <3>1. IsFiniteSet(queued)
      BY UnfinishedFinite, FS_Subset, queued \subseteq Indexes
    <3>2. /\ IsFiniteSet(Unfinished(d) \ queued)
          /\ Cardinality(Unfinished(d) \ queued)
               = Cardinality(Unfinished(d)) - Cardinality(queued)
      <4> HIDE DEF queued
      <4>1. Unfinished(d) \cap queued = queued
        BY <2>2
      <4>2. /\ IsFiniteSet(Unfinished(d) \ queued)
            /\ Cardinality(Unfinished(d) \ queued)
                 = Cardinality(Unfinished(d)) - Cardinality(Unfinished(d) \cap queued)
        BY UnfinishedFinite, FS_Difference
      <4> QED BY <4>1, <4>2
    <3>3. pending[d] \in 0..MaxBatch /\ pending[d] = Cardinality(Unfinished(d))
      BY <1>2 DEF AccountsKept, AioTypeOK
    <3>4. /\ Cardinality(queued) \in Nat /\ Cardinality(Unfinished(d) \ queued) \in Nat
          /\ (Cardinality(Unfinished(d) \ queued) = 0) <=> (Unfinished(d) \ queued = {})
      BY <3>1, <3>2, FS_CardinalityType, FS_EmptySet
    <3>5. left = Cardinality(Unfinished(d) \ queued)
      BY <3>2, <3>3
    <3> HIDE DEF left
    <3>6. left \in 0..MaxBatch
      BY <3>3, <3>4, <3>5, MaxBatchAssumption DEF left
    <3>7. (left = 0) <=> (Unfinished(d)' = {})
      BY <2>2, <3>4, <3>5
    <3> QED BY <2>2, <3>5, <3>6, <3>7
  <2>4. /\ Moves(t, r.at, d, r.state, {})
        /\ left = 0 => \A u \in Threads : call'[u].at # "parked"
    <3>1. \/ left # 0 /\ call' = [call EXCEPT ![t] = r]
          \/ left = 0 /\ call' = [Notified EXCEPT ![t] = r]
      BY <2>0
    <3> HIDE DEF left
    <3>2. Moves(t, r.at, d, r.state, {})
      BY <3>1, StartMoves
    <3>3. left = 0 => \A u \in Threads : call'[u].at # "parked"
      BY <3>1, NotifiedCalls
    <3> QED BY <3>2, <3>3
  <2> HIDE DEF left, queued
  <2>5. /\ pending' \in [Ids -> 0..MaxBatch]
        /\ pending'[d] = left
        /\ \A e \in Ids : e # d => pending'[e] = pending[e]
    BY <2>0, <2>3 DEF AioTypeOK
  <2>6. /\ state' \in [Ids -> States]
        /\ \A e \in Ids : e # d => state'[e] = state[e]
        /\ (state'[d] \in Terminal) <=> (left = 0)
    BY <1>2, <2>0 DEF AioTypeOK, States, Terminal
  <2>7. AioTypeOK'
    <3>1. cancelled' \in [Ids -> BOOLEAN]
      BY <2>0 DEF AioTypeOK
    <3> QED BY <2>1, <2>4, <2>5, <2>6, <3>1 DEF AioTypeOK, Moves
  <2>8. AccountsKept'
    <3>1. \A e \in Ids : phase'[e] # "live" => \A i \in Indexes : slot'[e][i] = "none"
      BY <1>2, <2>1 DEF AccountsKept
    <3>2. ASSUME NEW e \in Ids, phase'[e] = "live"
          PROVE  /\ pending'[e] = Cardinality(Unfinished(e)')
                 /\ (state'[e] \in Terminal) <=> (pending'[e] = 0)
      <4>1. CASE e = d
        BY <2>3, <2>5, <2>6, <4>1
      <4>2. CASE e # d
        BY <2>2, <2>5, <2>6, <3>2, <4>2 DEF AccountsKept
      <4> QED BY <4>1, <4>2
    <3> QED BY <3>1, <3>2 DEF AccountsKept
  <2>9. JobsKept'
    <3>1. ASSUME NEW w \in Workers, job[w] # NoJob, phase[job[w][1]] = "live"
          PROVE  slot'[job[w][1]][job[w][2]] = "running"
      <4>1. job[w][1] \in Ids /\ job[w][2] \in Indexes /\ slot[job[w][1]][job[w][2]] = "running"
        BY <3>1 DEF JobsKept, AioTypeOK
      <4> QED BY <2>1, <4>1
    <3> QED BY <3>1 DEF JobsKept
  <2>10. HandsKept'
    <3>1. /\ \A u \in Threads, e \in Ids, i \in Indexes : Holds(u, e, i)' <=> Holds(u, e, i)
          /\ \A u \in Threads : call'[u].at \notin HandPlaces => call'[u].took = {}
      <4>1. \A e \in Ids, i \in Indexes : ~Holds(t, e, i)' /\ ~Holds(t, e, i)
        BY <1>0, <2>4 DEF Holds, Moves
      <4>2. /\ \A u \in Threads, e \in Ids, i \in Indexes :
                 u # t => (Holds(u, e, i)' <=> Holds(u, e, i))
            /\ \A u \in Threads : call'[u].at \notin HandPlaces => call'[u].took = {}
        BY <2>4, MovedHands
      <4> QED BY <4>1, <4>2
    <3>2. \A e \in Ids, i \in Indexes :
            \/ slot'[e][i] = slot[e][i]
            \/ slot[e][i] = "queued" /\ slot'[e][i] = "aborted"
      BY <2>1
    <3> QED BY <3>1, <3>2 DEF HandsKept
  <2>11. CallsKept'
    <3>1. ASSUME NEW u \in Threads, u # t PROVE CallKept(u)'
      <4>1. CallKept(u) /\ Carried(u) /\ (left = 0 => call'[u].at # "parked")
        BY <2>4, <3>1 DEF CallsKept, Moves
      <4>2. CASE call[u].id = d
        BY <1>2, <2>6, <4>1, <4>2 DEF CallKept, Carried, In
      <4>3. CASE call[u].id # d
        BY <2>1, <2>6, <4>1, <4>3 DEF CallKept, Carried, In
      <4> QED BY <4>2, <4>3
    <3>2. CallKept(t)'
      <4>1. r.at = "drain" /\ r.state \in Terminal => state'[d] \in Terminal
        BY <1>2, <2>3, <2>6 DEF StateAfterCancel
      <4> QED BY <1>0, <2>4, <4>1 DEF CallKept, Moves, In
    <3> QED BY <3>1, <3>2 DEF CallsKept
  <2> QED BY <2>7, <2>8, <2>9, <2>10, <2>11
<1> QED BY <1>1, <1>2

(***************************************************************************)
(* A call that starts with a cancel.                                       *)
(***************************************************************************)
LEMMA CancelKept ==
    ASSUME AioIInv, NEW t \in Threads, NEW d \in Ids, CancelCall(t, d) \/ DeleteCall(t, d)
    PROVE  AioIInv'
<1>0. state[d] \in States /\ StateAfterCancel(d) \in States
  BY DEF AioIInv, AioTypeOK, StateAfterCancel, States, Terminal
<1>1. CASE CancelCall(t, d)
  <2> DEFINE s == StateAfterCancel(d)
             Begun == [at : {"drain"}, id : {d}, limit : {"none"}, state : {s}, took : {{}}]
  <2>0. [NoCall EXCEPT !.at = "drain", !.id = d, !.state = s] \in Begun
    BY DEF NoCall
  <2>1. Cancelled(t, d, [NoCall EXCEPT !.at = "drain", !.id = d, !.state = s])
    BY <1>1 DEF CancelCall
  <2>2. PICK r \in Begun : Cancelled(t, d, r)
    BY <2>0, <2>1
  <2>3. r \in CallRecord /\ r.id = d /\ r.took = {} /\ r.at = "drain" /\ r.state = s
    BY <1>0, MaxSubmitsAssumption DEF CallRecord, Places, Ids
  <2> QED BY <1>1, <2>2, <2>3, CancelledKept DEF CancelCall
<1>2. CASE DeleteCall(t, d)
  <2> DEFINE Begun == [at : {"delDrain"}, id : {d}, limit : {"none"}, state : {"NONE"},
                       took : {{}}]
  <2>0. [NoCall EXCEPT !.at = "delDrain", !.id = d] \in Begun
    BY DEF NoCall
  <2>1. Cancelled(t, d, [NoCall EXCEPT !.at = "delDrain", !.id = d])
    BY <1>2 DEF DeleteCall
  <2>2. PICK r \in Begun : Cancelled(t, d, r)
    BY <2>0, <2>1
  <2>3. r \in CallRecord /\ r.id = d /\ r.took = {} /\ r.at = "delDrain"
    BY MaxSubmitsAssumption DEF CallRecord, Places, Ids, States
  <2> QED BY <1>2, <2>2, <2>3, CancelledKept DEF DeleteCall
<1> QED BY <1>1, <1>2

(***************************************************************************)
(* Every step preserves the invariant.                                     *)
(***************************************************************************)
LEMMA StepAioIInv == AioIInv /\ [AioNext]_aioVars => AioIInv'
<1> SUFFICES ASSUME AioIInv, [AioNext]_aioVars PROVE AioIInv'
  OBVIOUS
<1>1. ASSUME NEW t \in Threads, NEW n \in Indexes, Submit(t, n) PROVE AioIInv'
  BY <1>1, SubmitKept
<1>2. ASSUME NEW t \in Threads, NEW d \in Ids, NEW l \in {"none", "future"},
             PollCall(t, d) \/ WaitCall(t, d, l)
      PROVE  AioIInv'
  BY <1>2, StartsKept
<1>3. ASSUME NEW t \in Threads, NEW d \in Ids, CancelCall(t, d) \/ DeleteCall(t, d)
      PROVE  AioIInv'
  BY <1>3, CancelKept
<1>4. ASSUME NEW t \in Threads, CallStep(t) PROVE AioIInv'
  BY <1>4, WaitStepKept, DrainKept, RemoveKept, DeliverKept DEF CallStep
<1>5. ASSUME (\E t \in Threads : LimitPasses(t)) \/ BeginTermination PROVE AioIInv'
  BY <1>5, PassingKept
<1>6. ASSUME NEW w \in Workers, WorkerStep(w) PROVE AioIInv'
  BY <1>6, PopKept, FinishKept DEF WorkerStep
<1>7. ASSUME NEW d \in Ids, Evict(d) PROVE AioIInv'
  BY <1>7, EvictKept
<1>8. CASE UNCHANGED aioVars
  <2>1. UNCHANGED <<engine, job, result, call, terminating>>
    BY <1>8 DEF aioVars
  <2>2. AioTypeOK /\ terminating' \in BOOLEAN
    BY <2>1 DEF AioIInv, AioTypeOK
  <2> QED BY <2>1, <2>2, AllCarried, CarriedKept
<1> QED BY <1>1, <1>2, <1>3, <1>4, <1>5, <1>6, <1>7, <1>8 DEF AioNext

(***************************************************************************)
(* The invariant gives the engine's accounts, workers, hands and sleepers  *)
(* as AioInv states them: Held has one member when it has any.             *)
(***************************************************************************)
LEMMA AioIInvImplies == AioIInv => AioInv
<1> SUFFICES ASSUME AioIInv PROVE AioInv
  OBVIOUS
<1> USE DEF AioIInv
<1>1. \A d \in Ids : phase[d] = "live" =>
        /\ pending[d] = Cardinality({i \in Indexes : slot[d][i] \in {"queued", "running"}})
        /\ (state[d] \in Terminal) <=> (pending[d] = 0)
  BY DEF AccountsKept, Unfinished
<1>2. \A v, w \in Workers : v # w /\ job[v] # NoJob => job[v] # job[w]
  BY DEF JobsKept
<1>3. ASSUME NEW d \in Ids, NEW i \in Indexes, Held(d, i) # {}
      PROVE  Cardinality(Held(d, i)) = 1 /\ result[d][i] = "submitted"
  <2>1. PICK t \in Threads : t \in Held(d, i)
    BY <1>3 DEF Held
  <2>2. \A u \in Threads : u \in Held(d, i) <=> Holds(u, d, i)
    BY DEF Held, Holds
  <2>3. Held(d, i) = {t}
    <3>1. Held(d, i) \subseteq Threads
      BY DEF Held
    <3> QED BY <2>1, <2>2, <3>1 DEF HandsKept
  <2>4. Cardinality({t}) = 1
    BY FS_Singleton
  <2> QED BY <2>1, <2>2, <2>3, <2>4 DEF HandsKept
<1>4. \A t \in Threads : In(t, "parked") =>
        phase[call[t].id] = "live" /\ state[call[t].id] \notin Terminal
  BY DEF CallsKept, CallKept
<1> QED BY <1>1, <1>2, <1>3, <1>4 DEF AioInv

-------------------------------------------------------------------------------
(***************************************************************************)
(* Type correctness and the engine's accounts, for every number of guest   *)
(* threads, workers, submissions and requests: the requests left are       *)
(* counted exactly, a submission is final when none is left, no two        *)
(* workers perform one request (AioEngine::worker_loop), no outcome is     *)
(* handed out twice (drain_completions), and no thread sleeps on done_cv   *)
(* for a submission that is final or deleted.                              *)
(***************************************************************************)
THEOREM AioAccountsExact == AioSpec => []AioInv
<1>1. AioSpec => []AioIInv
  BY InitAioIInv, StepAioIInv, PTL DEF AioSpec
<1> QED BY <1>1, AioIInvImplies, PTL

(***************************************************************************)
(* One step of the theorem below: the thread that returns has delivered.   *)
(***************************************************************************)
LEMMA StepReports ==
    ASSUME AioIInv, [AioNext]_aioVars, NEW t \in Threads, NEW i \in Indexes,
           In(t, "deliver"), In(t, "idle")', call[t].state \in Terminal,
           phase[call[t].id] = "live", slot[call[t].id][i] # "none"
    PROVE  result'[call[t].id][i] \in Outcomes \/ Held(call[t].id, i) \ {t} # {}
<1> USE DEF AioIInv
<1> DEFINE d == call[t].id
<1>0. d \in Ids /\ slot[d][i] = "drained" /\ call'[t].at = "idle" /\ call[t].at = "deliver"
  BY DEF CallsKept, CallKept, In
<1>1. result[d][i] \in Outcomes \/ \E u \in Threads : Holds(u, d, i)
  BY <1>0 DEF HandsKept
<1>2. CASE \E u \in Threads : u # t /\ Holds(u, d, i)
  BY <1>2 DEF Held, Holds
<1>3. CASE Deliver(t) /\ (result[d][i] \in Outcomes \/ Holds(t, d, i))
  BY <1>0, <1>3 DEF Deliver, Holds, AioTypeOK
<1>4. Deliver(t)
  <2> SUFFICES ASSUME ~Deliver(t) PROVE FALSE
    OBVIOUS
  <2>1. Notified[t].at = "deliver"
    BY <1>0, NotifiedCalls
  <2>2. ASSUME NEW u \in Threads, NEW n \in Indexes, Submit(u, n) PROVE FALSE
    BY <1>0, <2>2 DEF Submit
  <2>3. ASSUME NEW u \in Threads, NEW e \in Ids, NEW l \in {"none", "future"},
               PollCall(u, e) \/ WaitCall(u, e, l)
        PROVE  FALSE
    BY <1>0, <2>3 DEF PollCall, WaitCall, In, AioTypeOK
  <2>4. ASSUME NEW u \in Threads, NEW e \in Ids, CancelCall(u, e) \/ DeleteCall(u, e)
        PROVE  FALSE
    <3>1. PICK r : In(u, "idle") /\ Cancelled(u, e, r)
      BY <2>4 DEF CancelCall, DeleteCall
    <3>2. u # t
      BY <1>0, <3>1 DEF In
    <3> QED BY <1>0, <2>1, <3>1, <3>2, NotifiedCalls DEF Cancelled, AioTypeOK
  <2>5. ASSUME NEW u \in Threads, CallStep(u) PROVE FALSE
    <3>1. CASE u = t
      BY <1>0, <2>5, <3>1 DEF CallStep, WaitStep, SliceStarts, WokenLooks, SliceExpires,
            ExpiredLooks, Drain, Remove, In
    <3>2. CASE u # t /\ (WaitStep(u) \/ Drain(u) \/ Deliver(u))
      BY <1>0, <3>2 DEF WaitStep, SliceStarts, WokenLooks, SliceExpires, ExpiredLooks, Look,
            WaitOver, TimedOut, Goto, Return, Drain, Deliver, AioTypeOK
    <3>3. CASE u # t /\ Remove(u)
      BY <1>0, <2>1, <3>3, NotifiedCalls DEF Remove, Return, AioTypeOK
    <3> QED BY <2>5, <3>1, <3>2, <3>3 DEF CallStep
  <2>6. ASSUME NEW u \in Threads, LimitPasses(u) PROVE FALSE
    BY <1>0, <2>6, CallFields DEF LimitPasses, AioTypeOK, CallRecord
  <2>7. ASSUME NEW w \in Workers, WorkerStep(w) PROVE FALSE
    BY <1>0, <2>1, <2>7 DEF WorkerStep, WorkerPops, WorkerFinishes
  <2>8. CASE BeginTermination \/ (\E e \in Ids : Evict(e)) \/ UNCHANGED aioVars
    BY <1>0, <2>8 DEF BeginTermination, Evict, aioVars
  <2> QED BY <2>2, <2>3, <2>4, <2>5, <2>6, <2>7, <2>8 DEF AioNext
<1> QED BY <1>1, <1>2, <1>3, <1>4

(***************************************************************************)
(* A poll, wait or cancel that reports a final state of a live submission  *)
(* has every result in guest memory or on its way there in another         *)
(* thread's hands: deliver_completions runs after the state was read and   *)
(* drain_completions leaves no outcome behind.                             *)
(***************************************************************************)
THEOREM ReportsAreDelivered == AioSpec => ResultsBeforeReport
<1> DEFINE Reported ==
      \A t \in Threads :
        LET d == call[t].id IN
        In(t, "deliver") /\ In(t, "idle")' /\ call[t].state \in Terminal /\ phase[d] = "live" =>
          \A i \in Indexes : slot[d][i] # "none" =>
            result'[d][i] \in Outcomes \/ Held(d, i) \ {t} # {}
<1>1. AioIInv /\ [AioNext]_aioVars => [Reported]_aioVars
  BY StepReports
<1>2. AioSpec => []AioIInv
  BY InitAioIInv, StepAioIInv, PTL DEF AioSpec
<1> QED BY <1>1, <1>2, PTL DEF AioSpec, ResultsBeforeReport

===============================================================================
