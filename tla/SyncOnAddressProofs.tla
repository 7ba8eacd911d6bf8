-------------------------- MODULE SyncOnAddressProofs --------------------------
(***************************************************************************)
(* Proofs about SyncOnAddress, for every set of threads, every set of      *)
(* values of the word and every choice of wake counts.  SyncInv is         *)
(* inductive as it stands: that a wake which ends a store's debt has taken *)
(* every waiter (NoLostWake) follows from QueuedOrTaken.                   *)
(***************************************************************************)
EXTENDS SyncOnAddress, WaiterFifoProofs

InWait(t) == pc[t] \in {"queued", "spinning", "parked", "handler"}

(***************************************************************************)
(* The initial state satisfies it.                                         *)
(***************************************************************************)
LEMMA InitSyncInv == Init => SyncInv
<1> SUFFICES ASSUME Init PROVE SyncInv
  OBVIOUS
<1>1. queue \in Seq(Threads) /\ NoDuplicates(queue) /\ \A t : ~Queued(queue, t)
  BY DEF Init, NoDuplicates, Queued
<1>2. SyncTypeOK
  BY <1>1 DEF Init, SyncTypeOK, Pcs, Limits, Results
<1>3. QueuedOrTaken /\ NoLostWake
  BY <1>1 DEF Init, QueuedOrTaken, NoLostWake
<1> QED BY <1>2, <1>3 DEF SyncInv

(***************************************************************************)
(* A wait of t returns and its entry, if it still has one, goes: all the   *)
(* ends of a wait preserve the invariant.                                  *)
(***************************************************************************)
LEMMA ReturnKeepsInv ==
  ASSUME SyncInv, NEW t \in Threads, NEW r \in Results,
         queue' = Cancelled(queue, t), Return(t, r)
  PROVE  SyncInv'
<1> USE DEF SyncInv
<1>1. /\ queue' \in Seq(Threads) /\ NoDuplicates(queue')
      /\ \A u : Queued(queue', u) <=> Queued(queue, u) /\ u # t
  BY CancelledFacts DEF SyncTypeOK
<1>2. SyncTypeOK'
  <2>1. (CHOOSE v \in Values : TRUE) \in Values
    BY DEF SyncTypeOK
  <2> QED BY <1>1, <2>1 DEF SyncTypeOK, Return, Pcs, Limits
<1>3. QueuedOrTaken'
  BY <1>1 DEF QueuedOrTaken, SyncTypeOK, Return
<1>4. NoLostWake'
  BY DEF NoLostWake, SyncTypeOK, Return
<1> QED BY <1>2, <1>3, <1>4

(***************************************************************************)
(* A thread moves between two places of its wait and nothing else changes. *)
(* Leaving the compare needs the word to have the expected value.          *)
(***************************************************************************)
LEMMA MoveKeepsInv ==
  ASSUME SyncInv, NEW t \in Threads, NEW p \in {"spinning", "parked", "handler"},
         InWait(t), pc[t] = "queued" => word = expected[t],
         pc' = [pc EXCEPT ![t] = p],
         UNCHANGED <<word, queue, signaled, expected, compares, limit, result,
                     owing, terminating>>
  PROVE  SyncInv'
<1> USE DEF SyncInv
<1>1. SyncTypeOK'
  BY DEF SyncTypeOK, Pcs
<1>2. QueuedOrTaken'
  BY DEF QueuedOrTaken, SyncTypeOK, InWait
<1>3. NoLostWake'
  BY DEF NoLostWake, SyncTypeOK, InWait
<1> QED BY <1>1, <1>2, <1>3

(***************************************************************************)
(* What a wake of n does: the k oldest entries leave the queue and only    *)
(* they get their wake bit.                                                *)
(***************************************************************************)
LEMMA WakeFacts ==
  ASSUME SyncInv, NEW t \in Threads, NEW n \in Counts, Wake(t, n)
  PROVE  \E k \in 0..Len(queue) :
           /\ signaled' = signaled \cup {queue[i] : i \in 1..k}
           /\ {queue[i] : i \in 1..k} \subseteq Threads
           /\ queue' \in Seq(Threads) /\ NoDuplicates(queue')
           /\ \A u : Queued(queue', u)
                       <=> Queued(queue, u) /\ u \notin {queue[i] : i \in 1..k}
           /\ owing' = owing \/ \A u : ~Queued(queue', u)
           /\ owing' \subseteq owing
<1> DEFINE k == IF n < Len(queue) THEN n ELSE Len(queue)
<1>1. queue \in Seq(Threads) /\ NoDuplicates(queue) /\ Len(queue) \in Nat /\ n \in Nat
  BY CountsPositive DEF SyncInv, SyncTypeOK
<1>2. k \in 0..Len(queue) /\ (~(n < Len(queue)) => k = Len(queue))
  BY <1>1
<1>3. /\ signaled' = signaled \cup {queue[i] : i \in 1..k}
      /\ queue' = SubSeq(queue, k + 1, Len(queue))
      /\ owing' = IF n < Len(queue) THEN owing ELSE owing \ {t}
  BY DEF Wake
<1> HIDE DEF k
<1>4. /\ {queue[i] : i \in 1..k} \subseteq Threads
      /\ queue' \in Seq(Threads) /\ NoDuplicates(queue')
      /\ \A u : Queued(queue', u) <=> Queued(queue, u) /\ u \notin {queue[i] : i \in 1..k}
  BY <1>1, <1>2, <1>3, DropFacts
<1>5. k = Len(queue) => \A u : ~Queued(queue', u)
  BY <1>4 DEF Queued
<1>6. (owing' = owing \/ \A u : ~Queued(queue', u)) /\ owing' \subseteq owing
  BY <1>2, <1>3, <1>5
<1> QED BY <1>2, <1>3, <1>4, <1>6

(***************************************************************************)
(* Every step preserves the invariant.                                     *)
(***************************************************************************)
LEMMA StepSyncInv == SyncInv /\ [Next]_vars => SyncInv'
<1> SUFFICES ASSUME SyncInv, [Next]_vars PROVE SyncInv'
  OBVIOUS
<1>0. SyncTypeOK /\ QueuedOrTaken /\ NoLostWake
  BY DEF SyncInv
<1>1. ASSUME NEW t \in Threads, NEW v \in Values, NEW comparing \in BOOLEAN,
             NEW kind \in Kinds, WaitEnter(t, v, comparing, kind)
      PROVE  SyncInv'
  <2>1. queue \in Seq(Threads) /\ NoDuplicates(queue) /\ ~Queued(queue, t)
    BY <1>0, <1>1 DEF SyncTypeOK, QueuedOrTaken, WaitEnter
  <2>2. queue' = Joined(queue, t)
    <3>1. Cancelled(queue, t) = queue
      BY <2>1, CancelledFacts
    <3> QED BY <1>1, <3>1 DEF WaitEnter, Joined
  <2>3. /\ queue' \in Seq(Threads) /\ NoDuplicates(queue')
        /\ \A u : Queued(queue', u) <=> Queued(queue, u) \/ u = t
    BY <2>1, <2>2, JoinedFacts
  <2>4. SyncTypeOK'
    BY <1>0, <1>1, <2>3, KindsAssumption DEF SyncTypeOK, WaitEnter, Pcs, Limits, Results
  <2>5. QueuedOrTaken'
    BY <1>0, <1>1, <2>3 DEF QueuedOrTaken, SyncTypeOK, WaitEnter
  <2>6. NoLostWake'
    BY <1>0, <1>1 DEF NoLostWake, SyncTypeOK, WaitEnter
  <2> QED BY <2>4, <2>5, <2>6 DEF SyncInv
<1>2. ASSUME NEW t \in Threads, Progress(t) PROVE SyncInv'
  <2>1. CASE ComparePasses(t)
    BY <2>1, MoveKeepsInv DEF ComparePasses, InWait
  <2>2. CASE SpinExhausted(t)
    BY <2>2, MoveKeepsInv DEF SpinExhausted, InWait
  <2>3. CASE CompareFails(t) \/ CompareFaults(t) \/ SliceExpires(t)
    BY <2>3, ReturnKeepsInv
       DEF CompareFails, CompareFaults, SliceExpires, CancelOr, Results
  <2>4. CASE SliceTerminates(t)
    BY <2>4, ReturnKeepsInv DEF SliceTerminates, Results
  <2>5. CASE ObserveWake(t)
    <3>1. ~Queued(queue, t)
      BY <1>0, <2>5 DEF ObserveWake, QueuedOrTaken
    <3>2. queue' = Cancelled(queue, t)
      BY <1>0, <2>5, <3>1, CancelledFacts DEF ObserveWake, SyncTypeOK
    <3> QED BY <2>5, <3>2, ReturnKeepsInv DEF ObserveWake, Results
  <2> QED BY <1>2, <2>1, <2>2, <2>3, <2>4, <2>5 DEF Progress
<1>3. ASSUME NEW t \in Threads, SliceDelivers(t) \/ HandlerReturns(t) PROVE SyncInv'
  BY <1>3, MoveKeepsInv DEF SliceDelivers, HandlerReturns, InWait
<1>4. ASSUME NEW t \in Threads, NEW v \in Values, Store(t, v) PROVE SyncInv'
  <2>1. SyncTypeOK'
    BY <1>0, <1>4 DEF SyncTypeOK, Store
  <2>2. QueuedOrTaken'
    BY <1>0, <1>4 DEF QueuedOrTaken, Store
  <2>3. NoLostWake'
    BY <1>4 DEF NoLostWake, Store
  <2> QED BY <2>1, <2>2, <2>3 DEF SyncInv
<1>5. ASSUME NEW t \in Threads, NEW n \in Counts, Wake(t, n) PROVE SyncInv'
  <2>1. PICK k \in 0..Len(queue) :
           /\ signaled' = signaled \cup {queue[i] : i \in 1..k}
           /\ {queue[i] : i \in 1..k} \subseteq Threads
           /\ queue' \in Seq(Threads) /\ NoDuplicates(queue')
           /\ \A u : Queued(queue', u)
                       <=> Queued(queue, u) /\ u \notin {queue[i] : i \in 1..k}
           /\ owing' = owing \/ \A u : ~Queued(queue', u)
           /\ owing' \subseteq owing
    BY <1>5, WakeFacts
  <2> DEFINE taken == {queue[i] : i \in 1..k}
  <2>2. \A u \in taken : Queued(queue, u)
    BY DEF Queued
  <2>3. /\ signaled' = signaled \cup taken /\ taken \subseteq Threads
        /\ \A u : Queued(queue', u) <=> Queued(queue, u) /\ u \notin taken
    BY <2>1
  <2> HIDE DEF taken
  <2>4. UNCHANGED <<word, pc, expected, compares, limit, result, terminating>>
    BY <1>5 DEF Wake
  <2>5. SyncTypeOK'
    BY <1>0, <2>1, <2>3, <2>4 DEF SyncTypeOK
  <2>6. QueuedOrTaken'
    BY <1>0, <2>2, <2>3, <2>4 DEF QueuedOrTaken
  <2>7. NoLostWake'
    <3>1. CASE owing' = owing
      BY <1>0, <2>3, <2>4, <3>1 DEF NoLostWake
    <3>2. CASE \A u : ~Queued(queue', u)
      <4>1. \A u \in Threads : pc'[u] \in {"spinning", "parked", "handler"} => u \in signaled'
        BY <2>6, <3>2 DEF QueuedOrTaken
      <4>2. compares' \subseteq Threads
        BY <1>0, <2>4 DEF SyncTypeOK
      <4> QED BY <4>1, <4>2 DEF NoLostWake
    <3> QED BY <2>1, <3>1, <3>2
  <2> QED BY <2>5, <2>6, <2>7 DEF SyncInv
<1>6. ASSUME NEW t \in Threads, ThreadExit(t) PROVE SyncInv'
  <2>1. SyncTypeOK'
    BY <1>0, <1>6 DEF SyncTypeOK, ThreadExit, Pcs, Limits
  <2>2. QueuedOrTaken'
    BY <1>0, <1>6 DEF QueuedOrTaken, SyncTypeOK, ThreadExit
  <2>3. NoLostWake'
    BY <1>0, <1>6 DEF NoLostWake, SyncTypeOK, ThreadExit
  <2> QED BY <2>1, <2>2, <2>3 DEF SyncInv
<1>7. ASSUME NEW t \in Threads, LimitPasses(t) PROVE SyncInv'
  <2>1. limit' \in [Threads -> Limits]
    <3>1. /\ limit[t] \in {"selfheal", "deadline"} \X {"ahead", "passed"}
          /\ limit' = [limit EXCEPT ![t][2] = "passed"]
      BY <1>0, <1>7 DEF SyncTypeOK, LimitPasses, Limits
    <3>2. [limit[t] EXCEPT ![2] = "passed"] \in Limits
      BY <3>1 DEF Limits
    <3> QED BY <1>0, <3>1, <3>2 DEF SyncTypeOK
  <2>2. SyncTypeOK'
    BY <1>0, <1>7, <2>1 DEF SyncTypeOK, LimitPasses
  <2>3. QueuedOrTaken' /\ NoLostWake'
    BY <1>0, <1>7 DEF QueuedOrTaken, NoLostWake, LimitPasses
  <2> QED BY <2>2, <2>3 DEF SyncInv
<1>8. ASSUME BeginTermination PROVE SyncInv'
  BY <1>0, <1>8 DEF SyncInv, SyncTypeOK, QueuedOrTaken, NoLostWake, BeginTermination
<1>9. ASSUME UNCHANGED vars PROVE SyncInv'
  BY <1>0, <1>9 DEF SyncInv, SyncTypeOK, QueuedOrTaken, NoLostWake, vars
<1> QED BY <1>1, <1>2, <1>3, <1>4, <1>5, <1>6, <1>7, <1>8, <1>9 DEF Next

(***************************************************************************)
(* No wake is lost on the way to the sleep, and each live wait is queued   *)
(* or has been taken by a waker, never both and never neither.             *)
(***************************************************************************)
THEOREM NoWakeLost == Spec => []SyncInv
BY InitSyncInv, StepSyncInv, PTL DEF Spec

-------------------------------------------------------------------------------
(***************************************************************************)
(* A wait that ends although a waker has taken its entry answers OK: the   *)
(* failed compare and the passed limit find the entry gone.                *)
(***************************************************************************)
LEMMA StepReports ==
  ASSUME SyncInv, Next, NEW t \in signaled, pc'[t] = "guest"
  PROVE  result'[t] = "OK"
<1>0. SyncTypeOK /\ QueuedOrTaken /\ t \in Threads
  BY DEF SyncInv, SyncTypeOK
<1>1. pc[t] # "guest"
  BY <1>0 DEF QueuedOrTaken
<1>2. PICK u \in Threads :
         \/ Progress(u)
         \/ \E v \in Values, comparing \in BOOLEAN, kind \in Kinds :
              WaitEnter(u, v, comparing, kind)
         \/ SliceDelivers(u) \/ HandlerReturns(u) \/ ThreadExit(u)
  BY <1>1 DEF Next, Store, Wake, LimitPasses, BeginTermination
<1>3. u = t /\ Progress(u)
  BY <1>0, <1>1, <1>2
     DEF SyncTypeOK, Progress, WaitEnter, SliceDelivers, HandlerReturns, ThreadExit,
         ComparePasses, CompareFails, CompareFaults, ObserveWake, SpinExhausted,
         SliceTerminates, SliceExpires, CancelOr, Return
<1>4. CASE ObserveWake(t) \/ SliceTerminates(t)
  BY <1>0, <1>4 DEF ObserveWake, SliceTerminates, Return, SyncTypeOK
<1>5. CASE CompareFails(t) \/ CompareFaults(t) \/ SliceExpires(t)
  <2>1. ~Queued(queue, t)
    BY <1>0, <1>5 DEF QueuedOrTaken, CompareFails, CompareFaults, SliceExpires
  <2>2. PICK r : CancelOr(t, r)
    BY <1>5 DEF CompareFails, CompareFaults, SliceExpires
  <2> QED BY <1>0, <2>1, <2>2 DEF CancelOr, Return, SyncTypeOK
<1>6. CASE ComparePasses(t) \/ SpinExhausted(t)
  BY <1>0, <1>6 DEF ComparePasses, SpinExhausted, SyncTypeOK
<1> QED BY <1>3, <1>4, <1>5, <1>6 DEF Progress

(***************************************************************************)
(* A wake that takes a waiter takes every older one.                       *)
(***************************************************************************)
LEMMA StepFifo ==
  ASSUME SyncInv, Next,
         NEW t \in signaled' \ signaled, NEW u \in Threads,
         Queued(queue, u), Queued(queue, t),
         PositionOf(queue, u) < PositionOf(queue, t)
  PROVE  u \in signaled'
<1>1. PICK w \in Threads, n \in Counts : Wake(w, n)
  BY DEF Next, Progress, WaitEnter, SliceDelivers, HandlerReturns, ThreadExit, Store,
         LimitPasses, BeginTermination, ComparePasses, CompareFails, CompareFaults,
         ObserveWake, SpinExhausted, SliceTerminates, SliceExpires, CancelOr, Return
<1>2. PICK k \in 0..Len(queue) : signaled' = signaled \cup {queue[i] : i \in 1..k}
  BY <1>1, WakeFacts
<1>3. queue \in Seq(Threads) /\ NoDuplicates(queue) /\ Len(queue) \in Nat
  BY DEF SyncInv, SyncTypeOK
<1> DEFINE p(x) == PositionOf(queue, x)
<1>4. \A x : Queued(queue, x) => p(x) \in 1..Len(queue) /\ queue[p(x)] = x
  BY DEF Queued, PositionOf
<1>5. PICK i \in 1..k : queue[i] = t
  BY <1>2
<1> HIDE DEF p
<1>6. i = p(t)
  BY <1>2, <1>3, <1>4, <1>5 DEF NoDuplicates
<1>7. p(u) < p(t)
  BY DEF p
<1>8. p(u) \in 1..k /\ queue[p(u)] = u
  BY <1>2, <1>3, <1>4, <1>5, <1>6, <1>7
<1> QED BY <1>2, <1>8

(***************************************************************************)
(* Wakes are spent well: the wait that a wake took reports success,        *)
(* whichever check it is at, and waiters are taken in order of arrival.    *)
(***************************************************************************)
THEOREM WakesWellSpent == Spec => WakesSpentWell
<1>1. SyncInv /\ [Next]_vars
        => [\A t \in signaled : pc'[t] = "guest" => result'[t] = "OK"]_vars
  BY StepReports
<1>2. SyncInv /\ [Next]_vars
        => [ \A t, u \in Threads :
               (/\ t \in signaled' \ signaled
                /\ Queued(queue, u) /\ Queued(queue, t)
                /\ PositionOf(queue, u) < PositionOf(queue, t))
                 => u \in signaled' ]_vars
  BY StepFifo
<1> QED BY <1>1, <1>2, NoWakeLost, PTL DEF Spec, WakesSpentWell, WakeIsReported, WakeIsFifo
===============================================================================
