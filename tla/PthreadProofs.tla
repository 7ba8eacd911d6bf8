---------------------------- MODULE PthreadProofs ----------------------------
(***************************************************************************)
(* Proofs about the pthread locks: PthreadMutex, PthreadCond, which is     *)
(* built on it, PthreadRwlock and MutexTable, for every set of threads,    *)
(* every mutex type and every bound.                                       *)
(***************************************************************************)
EXTENDS PthreadCond, PthreadRwlock, MutexTable, WaiterFifoProofs, FiniteSetTheorems

-------------------------------------------------------------------------------
(***************************************************************************)
(* The mutex.                                                              *)
(***************************************************************************)

(***************************************************************************)
(* Who holds what: a thread in guest code holds the recorded depth if it   *)
(* is the owner and nothing otherwise; a thread still inside its lock call *)
(* has been told nothing yet.                                              *)
(***************************************************************************)
Bookkeeping ==
    /\ owner # NoThread => recursion > 0
    /\ \A t \in Threads :
         held[t] = IF owner = t /\ pc[t] = "guest" THEN recursion ELSE 0
    /\ \A t \in woken : pc[t] \in Waiting
    /\ \A t \in Threads : pc[t] = "dead" => owner # t

IInv ==
    /\ TypeOK
    /\ NoDuplicates(waiters)
    /\ FreeMeansNoWaiters
    /\ HandoffExact
    /\ Bookkeeping

(***************************************************************************)
(* The inductive invariant gives the safety properties.                    *)
(***************************************************************************)
LEMMA IInvImplies ==
  IInv => HoldersAgree /\ FreeMeansNoWaiters /\ HandoffExact /\ DeadOwnsNothing
<1> SUFFICES ASSUME IInv
             PROVE  HoldersAgree /\ DeadOwnsNothing
  BY DEF IInv
<1>1. HoldersAgree
  BY DEF IInv, Bookkeeping, HoldersAgree, TypeOK
<1>2. DeadOwnsNothing
  BY DEF IInv, Bookkeeping, HandoffExact, DeadOwnsNothing, TypeOK, Waiting
<1> QED BY <1>1, <1>2

(***************************************************************************)
(* The initial state satisfies it.                                         *)
(***************************************************************************)
LEMMA InitIInv == Init => IInv
<1> SUFFICES ASSUME Init PROVE IInv
  OBVIOUS
<1>1. TypeOK
  <2>1. 0 \in 0..MaxRecursion
    BY MaxRecursionAssumption
  <2>2. terminating \in BOOLEAN
    BY DEF Init
  <2>3. waiters \in Seq(Threads)
    BY DEF Init
  <2> QED BY <2>1, <2>2, <2>3 DEF Init, TypeOK, Pcs
<1>2. NoDuplicates(waiters) /\ FreeMeansNoWaiters
  BY DEF Init, NoDuplicates, FreeMeansNoWaiters
<1>3. HandoffExact
  BY DEF Init, HandoffExact, Queued, Waiting
<1>4. Bookkeeping
  BY NoThreadAssumption DEF Init, Bookkeeping
<1> QED BY <1>1, <1>2, <1>3, <1>4 DEF IInv

(***************************************************************************)
(* What try_grant_head does to a free mutex with queue q: the result is    *)
(* either still free with nobody queued, or owned at depth one by a thread *)
(* taken out of the queue, whose wake bit is set.                          *)
(***************************************************************************)
LEMMA GrantFree ==
  ASSUME NEW q \in Seq(Threads), NoDuplicates(q), Granted(NoThread, 0, q)
  PROVE  /\ waiters' \in Seq(Threads)
         /\ NoDuplicates(waiters')
         /\ \/ /\ q = <<>> /\ waiters' = <<>>
               /\ owner' = NoThread /\ recursion' = 0 /\ woken' = woken
            \/ /\ q # <<>> /\ owner' = Head(q)
               /\ owner' \in Threads
               /\ Queued(q, owner')
               /\ recursion' = 1
               /\ woken' = woken \cup {owner'}
               /\ \A u : Queued(waiters', u) <=> Queued(q, u) /\ u # owner'
<1>1. CASE q = <<>>
  BY <1>1 DEF Granted
<1>2. CASE q # <<>>
  <2>1. /\ owner' = Head(q) /\ recursion' = 1
        /\ waiters' = Tail(q) /\ woken' = woken \cup {Head(q)}
    BY <1>2 DEF Granted
  <2>2. /\ Head(q) \in Threads
        /\ Tail(q) \in Seq(Threads)
        /\ NoDuplicates(Tail(q))
        /\ Queued(q, Head(q))
        /\ \A u : Queued(Tail(q), u) <=> Queued(q, u) /\ u # Head(q)
    BY <1>2, PopFacts
  <2> QED BY <1>2, <2>1, <2>2
<1> QED BY <1>1, <1>2

(***************************************************************************)
(* The last unlock and the death of an owner preserve the invariant: both  *)
(* clear the owner t and hand the mutex to the oldest waiter, if any.      *)
(***************************************************************************)
LEMMA HandOver ==
  ASSUME IInv, NEW t \in Threads, owner = t, pc[t] = "guest",
         Granted(NoThread, 0, waiters),
         held' \in [Threads -> 0..MaxRecursion],
         \A u \in Threads : held'[u] = 0,
         pc' \in [Threads -> Pcs], pc'[t] \in {"guest", "dead"},
         \A u \in Threads \ {t} : pc'[u] = pc[u],
         ty' = ty, deadline' = deadline, terminating' = terminating
  PROVE  IInv'
<1> USE DEF IInv
<1>1. /\ waiters' \in Seq(Threads)
      /\ NoDuplicates(waiters')
      /\ \/ /\ waiters = <<>> /\ waiters' = <<>>
            /\ owner' = NoThread /\ recursion' = 0 /\ woken' = woken
         \/ /\ owner' \in Threads
            /\ Queued(waiters, owner')
            /\ recursion' = 1
            /\ woken' = woken \cup {owner'}
            /\ \A u : Queued(waiters', u) <=> Queued(waiters, u) /\ u # owner'
  BY GrantFree DEF TypeOK
<1>2. /\ ~Queued(waiters, t)
      /\ \A u \in Threads : pc[u] \in Waiting => Queued(waiters, u)
  BY DEF HandoffExact, Waiting
<1>3. TypeOK'
  <2>1. 1 \in 0..MaxRecursion /\ 0 \in 0..MaxRecursion
    BY MaxRecursionAssumption
  <2>2. owner' \in Threads \cup {NoThread} /\ woken' \subseteq Threads
    BY <1>1 DEF TypeOK
  <2> QED BY <1>1, <2>1, <2>2 DEF TypeOK
<1>4. NoDuplicates(waiters)' /\ FreeMeansNoWaiters'
  BY <1>1, NoThreadAssumption DEF NoDuplicates, FreeMeansNoWaiters
<1>5. CASE owner' = NoThread
  <2>0. waiters = <<>> /\ waiters' = <<>> /\ recursion' = 0 /\ woken' = woken
    BY <1>1, <1>5, NoThreadAssumption
  <2>1. \A u \in Threads : ~Queued(waiters, u) /\ ~Queued(waiters', u)
    BY <2>0 DEF Queued
  <2>2. \A u \in Threads : pc'[u] \notin Waiting
    BY <1>2, <2>1 DEF Waiting
  <2>3. HandoffExact'
    BY <2>1, <2>2 DEF HandoffExact
  <2>4. Bookkeeping'
    BY <1>2, <1>5, <2>0, <2>1, <2>2, NoThreadAssumption
       DEF Bookkeeping, TypeOK, Waiting
  <2> QED BY <1>3, <1>4, <2>3, <2>4
<1>6. CASE owner' # NoThread
  <2>0. /\ owner' \in Threads /\ owner' # t
        /\ Queued(waiters, owner')
        /\ recursion' = 1 /\ woken' = woken \cup {owner'}
        /\ \A u : Queued(waiters', u) <=> Queued(waiters, u) /\ u # owner'
    BY <1>1, <1>2, <1>6
  <2>1. pc'[owner'] \in Waiting
    BY <2>0 DEF HandoffExact
  <2>2. HandoffExact'
    <3> SUFFICES ASSUME NEW u \in Threads
                 PROVE  IF Queued(waiters', u)
                          THEN pc'[u] \in Waiting /\ u \notin woken' /\ owner' # u
                          ELSE pc'[u] \in Waiting =>
                                 owner' = u /\ recursion' = 1 /\ u \in woken'
      BY DEF HandoffExact
    <3>1. CASE u = t
      BY <3>1, <2>0, <1>2 DEF Waiting
    <3>2. CASE u # t /\ u = owner'
      BY <3>2, <2>0
    <3>3. CASE u # t /\ u # owner'
      BY <3>3, <2>0, <1>2 DEF HandoffExact
    <3> QED BY <3>1, <3>2, <3>3
  <2>3. Bookkeeping'
    BY <1>2, <2>0, <2>1 DEF Bookkeeping, TypeOK, Waiting, HandoffExact
  <2> QED BY <1>3, <1>4, <2>2, <2>3
<1> QED BY <1>5, <1>6

(***************************************************************************)
(* Every step preserves the inductive invariant.                           *)
(***************************************************************************)
LEMMA StepIInv == IInv /\ [Next]_vars => IInv'
<1> SUFFICES ASSUME IInv, [Next]_vars PROVE IInv'
  OBVIOUS
<1> USE DEF IInv
<1>A. 1 \in 0..MaxRecursion /\ 0 \in 0..MaxRecursion
  BY MaxRecursionAssumption
<1>1. ASSUME NEW t \in Threads, Relock(t) PROVE IInv'
  <2>1. TypeOK'
    BY <1>1, MaxRecursionAssumption, NoThreadAssumption DEF Relock, TypeOK, Bookkeeping
  <2>2. NoDuplicates(waiters)' /\ FreeMeansNoWaiters'
    BY <1>1, NoThreadAssumption DEF Relock, NoDuplicates, FreeMeansNoWaiters
  <2>3. HandoffExact'
    BY <1>1 DEF Relock, HandoffExact, TypeOK, Waiting
  <2>4. Bookkeeping'
    BY <1>1, NoThreadAssumption DEF Relock, Bookkeeping, TypeOK
  <2> QED BY <2>1, <2>2, <2>3, <2>4
<1>2. ASSUME NEW t \in Threads, LockFree(t) PROVE IInv'
  <2>1. TypeOK'
    BY <1>2, <1>A, NoThreadAssumption DEF LockFree, TypeOK, Bookkeeping
  <2>2. NoDuplicates(waiters)' /\ FreeMeansNoWaiters'
    BY <1>2, NoThreadAssumption DEF LockFree, NoDuplicates, FreeMeansNoWaiters
  <2>3. HandoffExact'
    BY <1>2, NoThreadAssumption DEF LockFree, HandoffExact, TypeOK, Waiting, Queued
  <2>4. Bookkeeping'
    BY <1>2, NoThreadAssumption DEF LockFree, Bookkeeping, TypeOK
  <2> QED BY <2>1, <2>2, <2>3, <2>4
<1>3. ASSUME NEW t \in Threads, NEW timed \in BOOLEAN, LockEnqueue(t, timed)
      PROVE  IInv'
  <2> DEFINE q == Joined(waiters, t)
  <2>1. /\ pc[t] = "guest" /\ owner # t /\ owner # NoThread
        /\ owner \in Threads /\ ~Queued(waiters, t)
    BY <1>3, NoThreadAssumption
       DEF LockEnqueue, FreeMeansNoWaiters, HandoffExact, TypeOK, Waiting
  <2>2. /\ q \in Seq(Threads) /\ NoDuplicates(q)
        /\ \A u : Queued(q, u) <=> Queued(waiters, u) \/ u = t
    BY <2>1, JoinedFacts DEF TypeOK
  <2> HIDE DEF q
  <2>3. /\ owner' = owner /\ recursion' = recursion /\ waiters' = q
        /\ woken' = woken /\ held' = held /\ ty' = ty
        /\ terminating' = terminating
        /\ pc' = [pc EXCEPT ![t] = "spin"]
        /\ deadline' \in [Threads -> {"none", "future", "passed"}]
    BY <1>3, <2>1 DEF LockEnqueue, Granted, q, TypeOK
  <2>4. TypeOK'
    BY <2>2, <2>3 DEF TypeOK, Pcs, Waiting
  <2>5. NoDuplicates(waiters)' /\ FreeMeansNoWaiters'
    BY <2>1, <2>2, <2>3 DEF NoDuplicates, FreeMeansNoWaiters
  <2>6. HandoffExact'
    BY <2>1, <2>2, <2>3 DEF HandoffExact, TypeOK, Waiting, Bookkeeping
  <2>7. Bookkeeping'
    BY <2>1, <2>3 DEF Bookkeeping, TypeOK, Waiting
  <2> QED BY <2>4, <2>5, <2>6, <2>7
<1>4. ASSUME NEW t \in Threads, ObserveGrant(t) PROVE IInv'
  <2>1. /\ pc[t] \in Waiting /\ ~Queued(waiters, t)
        /\ owner = t /\ recursion = 1 /\ held[t] = 0
    BY <1>4 DEF ObserveGrant, HandoffExact, Waiting, Bookkeeping, TypeOK
  <2>2. TypeOK'
    BY <1>4, <1>A, <2>1 DEF ObserveGrant, Return, TypeOK, Pcs
  <2>3. NoDuplicates(waiters)' /\ FreeMeansNoWaiters'
    BY <1>4 DEF ObserveGrant, NoDuplicates, FreeMeansNoWaiters
  <2>4. HandoffExact'
    BY <1>4, <2>1 DEF ObserveGrant, Return, HandoffExact, TypeOK, Waiting
  <2>5. Bookkeeping'
    BY <1>4, <2>1 DEF ObserveGrant, Return, Bookkeeping, TypeOK, Waiting
  <2> QED BY <2>2, <2>3, <2>4, <2>5
<1>5. ASSUME NEW t \in Threads, SpinExhausted(t) PROVE IInv'
  <2>1. TypeOK'
    BY <1>5 DEF SpinExhausted, mutexState, TypeOK, Pcs, Waiting
  <2>2. NoDuplicates(waiters)' /\ FreeMeansNoWaiters'
    BY <1>5 DEF SpinExhausted, mutexState, NoDuplicates, FreeMeansNoWaiters
  <2>3. HandoffExact'
    BY <1>5 DEF SpinExhausted, mutexState, HandoffExact, TypeOK, Waiting
  <2>4. Bookkeeping'
    BY <1>5 DEF SpinExhausted, mutexState, Bookkeeping, TypeOK, Waiting
  <2> QED BY <2>1, <2>2, <2>3, <2>4
<1>6. ASSUME NEW t \in Threads, SliceEnds(t) PROVE IInv'
  <2>1. TypeOK'
    BY <1>6 DEF SliceEnds, mutexState, TypeOK, Pcs, Waiting
  <2>2. NoDuplicates(waiters)' /\ FreeMeansNoWaiters'
    BY <1>6 DEF SliceEnds, mutexState, NoDuplicates, FreeMeansNoWaiters
  <2>3. HandoffExact'
    BY <1>6 DEF SliceEnds, mutexState, HandoffExact, TypeOK, Waiting
  <2>4. Bookkeeping'
    BY <1>6 DEF SliceEnds, mutexState, Bookkeeping, TypeOK, Waiting
  <2> QED BY <2>1, <2>2, <2>3, <2>4
<1>7. ASSUME NEW t \in Threads, AbandonWait(t) PROVE IInv'
  <2>0. /\ pc[t] \in Waiting
        /\ pc' = [pc EXCEPT ![t] = "guest"]
        /\ deadline' = [deadline EXCEPT ![t] = "none"]
        /\ ty' = ty /\ terminating' = terminating
    BY <1>7 DEF AbandonWait, Return, Waiting
  <2>1. CASE Queued(waiters, t)
    <3> DEFINE q == Cancelled(waiters, t)
    <3>1. /\ q \in Seq(Threads) /\ NoDuplicates(q)
          /\ \A u : Queued(q, u) <=> Queued(waiters, u) /\ u # t
      BY CancelledFacts DEF TypeOK
    <3> HIDE DEF q
    <3>2. owner # NoThread /\ owner # t /\ t \notin woken
      BY <2>1 DEF FreeMeansNoWaiters, HandoffExact, Queued
    <3>3. /\ owner' = owner /\ recursion' = recursion /\ waiters' = q
          /\ woken' = woken /\ held' = held
      BY <1>7, <2>1, <3>2 DEF AbandonWait, Granted, q
    <3>4. TypeOK'
      BY <2>0, <3>1, <3>3 DEF TypeOK, Pcs
    <3>5. NoDuplicates(waiters)' /\ FreeMeansNoWaiters'
      BY <3>1, <3>2, <3>3 DEF NoDuplicates, FreeMeansNoWaiters
    <3>6. HandoffExact'
      BY <2>0, <3>1, <3>2, <3>3 DEF HandoffExact, TypeOK, Waiting
    <3>7. Bookkeeping'
      BY <2>0, <3>2, <3>3 DEF Bookkeeping, TypeOK, Waiting
    <3> QED BY <3>4, <3>5, <3>6, <3>7
  <2>2. CASE ~Queued(waiters, t)
    <3>1. owner = t /\ recursion = 1 /\ held[t] = 0
      BY <2>0, <2>2 DEF HandoffExact, Bookkeeping, Waiting
    <3>2. /\ woken' = woken \ {t} /\ held' = [held EXCEPT ![t] = @ + 1]
          /\ owner' = owner /\ recursion' = recursion /\ waiters' = waiters
      BY <1>7, <2>2 DEF AbandonWait
    <3>3. TypeOK'
      BY <1>A, <2>0, <3>1, <3>2 DEF TypeOK, Pcs
    <3>4. NoDuplicates(waiters)' /\ FreeMeansNoWaiters'
      BY <3>2 DEF NoDuplicates, FreeMeansNoWaiters
    <3>5. HandoffExact'
      BY <2>0, <2>2, <3>1, <3>2 DEF HandoffExact, TypeOK, Waiting
    <3>6. Bookkeeping'
      BY <2>0, <3>1, <3>2 DEF Bookkeeping, TypeOK, Waiting
    <3> QED BY <3>3, <3>4, <3>5, <3>6
  <2> QED BY <2>1, <2>2
<1>8. ASSUME NEW t \in Threads, Unlock(t) PROVE IInv'
  <2>0. /\ pc[t] = "guest" /\ owner = t /\ held[t] = recursion
        /\ ty' = ty /\ pc' = pc /\ deadline' = deadline
        /\ terminating' = terminating
        /\ held' = [held EXCEPT ![t] = @ - 1]
        /\ recursion > 0
    BY <1>8 DEF Unlock, Bookkeeping
  <2>1. CASE recursion = 1
    <3>1. Granted(NoThread, 0, waiters)
      BY <1>8, <2>1 DEF Unlock
    <3>2. /\ held' \in [Threads -> 0..MaxRecursion]
          /\ \A u \in Threads : held'[u] = 0
      BY <1>A, <2>0, <2>1 DEF TypeOK, Bookkeeping
    <3>3. pc' \in [Threads -> Pcs] /\ pc'[t] = "guest"
      BY <2>0 DEF TypeOK
    <3> QED BY <2>0, <3>1, <3>2, <3>3, HandOver
  <2>2. CASE recursion # 1
    <3>1. /\ recursion' = recursion - 1 /\ owner' = owner
          /\ waiters' = waiters /\ woken' = woken
      BY <1>8, <2>2 DEF Unlock
    <3>2. TypeOK'
      BY <2>0, <2>2, <3>1, MaxRecursionAssumption DEF TypeOK
    <3>3. NoDuplicates(waiters)' /\ FreeMeansNoWaiters'
      BY <2>0, <3>1, NoThreadAssumption DEF NoDuplicates, FreeMeansNoWaiters
    <3>4. HandoffExact'
      BY <2>0, <3>1 DEF HandoffExact, TypeOK, Waiting
    <3>5. Bookkeeping'
      BY <2>0, <2>2, <3>1 DEF Bookkeeping, TypeOK
    <3> QED BY <3>2, <3>3, <3>4, <3>5
  <2> QED BY <2>1, <2>2
<1>9. ASSUME NEW t \in Threads, ThreadExit(t) PROVE IInv'
  <2>0. /\ pc[t] = "guest" /\ pc' = [pc EXCEPT ![t] = "dead"]
        /\ held' = [held EXCEPT ![t] = 0]
        /\ ty' = ty /\ deadline' = deadline /\ terminating' = terminating
    BY <1>9 DEF ThreadExit
  <2>1. CASE owner = t
    <3>1. Granted(NoThread, 0, waiters)
      BY <1>9, <2>1 DEF ThreadExit
    <3>2. /\ held' \in [Threads -> 0..MaxRecursion]
          /\ \A u \in Threads : held'[u] = 0
      BY <1>A, <2>0, <2>1 DEF TypeOK, Bookkeeping
    <3>3. /\ pc' \in [Threads -> Pcs] /\ pc'[t] = "dead"
          /\ \A u \in Threads \ {t} : pc'[u] = pc[u]
      BY <2>0 DEF TypeOK, Pcs
    <3> QED BY <2>0, <2>1, <3>1, <3>2, <3>3, HandOver
  <2>2. CASE owner # t
    <3>0. /\ owner' = owner /\ recursion' = recursion
          /\ waiters' = waiters /\ woken' = woken
      BY <1>9, <2>2 DEF ThreadExit, mutexState
    <3>1. TypeOK'
      BY <1>A, <2>0, <3>0 DEF TypeOK, Pcs
    <3>2. NoDuplicates(waiters)' /\ FreeMeansNoWaiters'
      BY <3>0 DEF NoDuplicates, FreeMeansNoWaiters
    <3>3. HandoffExact'
      BY <2>0, <2>2, <3>0 DEF HandoffExact, TypeOK, Waiting
    <3>4. Bookkeeping'
      BY <2>0, <2>2, <3>0 DEF Bookkeeping, TypeOK, Waiting
    <3> QED BY <3>1, <3>2, <3>3, <3>4
  <2> QED BY <2>1, <2>2
<1>10. ASSUME NEW t \in Threads, DeadlinePasses(t) PROVE IInv'
  <2>1. TypeOK'
    BY <1>10 DEF DeadlinePasses, mutexState, TypeOK
  <2>2. NoDuplicates(waiters)' /\ FreeMeansNoWaiters' /\ HandoffExact'
    BY <1>10 DEF DeadlinePasses, mutexState, NoDuplicates, FreeMeansNoWaiters,
                 HandoffExact
  <2>3. Bookkeeping'
    BY <1>10 DEF DeadlinePasses, mutexState, Bookkeeping
  <2> QED BY <2>1, <2>2, <2>3
<1>11. ASSUME BeginTermination PROVE IInv'
  <2>1. TypeOK'
    BY <1>11 DEF BeginTermination, mutexState, TypeOK
  <2>2. NoDuplicates(waiters)' /\ FreeMeansNoWaiters' /\ HandoffExact'
    BY <1>11 DEF BeginTermination, mutexState, NoDuplicates, FreeMeansNoWaiters,
                 HandoffExact
  <2>3. Bookkeeping'
    BY <1>11 DEF BeginTermination, mutexState, Bookkeeping
  <2> QED BY <2>1, <2>2, <2>3
<1>12. ASSUME UNCHANGED vars PROVE IInv'
  BY <1>12 DEF vars, TypeOK, NoDuplicates, FreeMeansNoWaiters, HandoffExact,
              Bookkeeping
<1> QED
  BY <1>1, <1>2, <1>3, <1>4, <1>5, <1>6, <1>7, <1>8, <1>9, <1>10, <1>11, <1>12
     DEF Next

(***************************************************************************)
(* The inductive invariant always holds.                                   *)
(***************************************************************************)
THEOREM Invariance == Spec => []IInv
<1>1. Init => IInv
  BY InitIInv
<1>2. IInv /\ [Next]_vars => IInv'
  BY StepIInv
<1> QED BY <1>1, <1>2, PTL DEF Spec

(***************************************************************************)
(* Type correctness of the mutex state and of every call in progress.      *)
(***************************************************************************)
THEOREM TypeCorrect == Spec => []TypeOK
<1>1. IInv => TypeOK
  BY DEF IInv
<1> QED BY <1>1, Invariance, PTL

(***************************************************************************)
(* Mutual exclusion, in the form that what guests were told agrees with    *)
(* the recorded owner and depth.                                           *)
(***************************************************************************)
THEOREM MutualExclusion == Spec => []HoldersAgree
BY IInvImplies, Invariance, PTL

(***************************************************************************)
(* No waiter is stranded on a free mutex.                                  *)
(***************************************************************************)
THEOREM NoStrandedWaiter == Spec => []FreeMeansNoWaiters
BY IInvImplies, Invariance, PTL

(***************************************************************************)
(* A timeout or termination that races a handoff resolves one way: not     *)
(* being in the FIFO any more means being the owner.                       *)
(***************************************************************************)
THEOREM HandoffRaceResolved == Spec => []HandoffExact
BY IInvImplies, Invariance, PTL

(***************************************************************************)
(* Owner-death recovery is complete: no thread waits behind a dead one.    *)
(***************************************************************************)
THEOREM OwnerDeathRecovered == Spec => []DeadOwnsNothing
BY IInvImplies, Invariance, PTL

(***************************************************************************)
(* The invariant the mutex run checks, for every set of threads, every     *)
(* type and every recursion limit.                                         *)
(***************************************************************************)
THEOREM MutexInvariant == Spec => []MutexInv
<1>1. IInv => MutexInv
  <2>1. IInv => TypeOK
    BY DEF IInv
  <2> QED BY <2>1, IInvImplies DEF MutexInv
<1> QED BY <1>1, Invariance, PTL

(***************************************************************************)
(* No barging: with waiters queued, the next owner is the oldest of them.  *)
(***************************************************************************)
THEOREM FifoHandoff == Spec => HandoffIsFifo
<1> DEFINE Fifo == (owner' \notin {owner, NoThread} /\ waiters # <<>>)
                     => owner' = Head(waiters)
<1>1. IInv /\ [Next]_vars => [Fifo]_vars
  <2> SUFFICES ASSUME IInv, Next, owner' \notin {owner, NoThread}, waiters # <<>>
               PROVE  owner' = Head(waiters)
    OBVIOUS
  <2> owner # NoThread
    BY DEF IInv, FreeMeansNoWaiters
  <2>1. ASSUME NEW t \in Threads, AbandonWait(t) PROVE owner' = Head(waiters)
    BY <2>1 DEF AbandonWait, Granted
  <2>2. ASSUME NEW t \in Threads, Unlock(t) PROVE owner' = Head(waiters)
    BY <2>2 DEF Unlock, Granted
  <2>3. ASSUME NEW t \in Threads, ThreadExit(t) PROVE owner' = Head(waiters)
    BY <2>3 DEF ThreadExit, Granted, mutexState
  <2>4. ASSUME NEW t \in Threads, NEW timed \in BOOLEAN, LockEnqueue(t, timed)
        PROVE  owner' = Head(waiters)
    BY <2>4 DEF LockEnqueue, Granted
  <2> QED
    BY <2>1, <2>2, <2>3, <2>4
       DEF Next, Relock, LockFree, ObserveGrant, SpinExhausted, SliceEnds,
           DeadlinePasses, BeginTermination, mutexState
<1> QED BY <1>1, Invariance, PTL DEF Spec, HandoffIsFifo

-------------------------------------------------------------------------------
(***************************************************************************)
(* The mutex implements the reentrant lock: every answer the calls give is *)
(* one a reentrant lock could give.                                        *)
(***************************************************************************)
THEOREM Refinement == Spec => ImplementsReentrantLock
<1>1. Init => Lock!Init
  BY DEF Init, Lock!Init
<1>2. IInv /\ IInv' /\ [Next]_vars => [Lock!Next]_held
  <2> SUFFICES ASSUME IInv, IInv', Next, held' # held
               PROVE  Lock!Next
    BY DEF vars
  <2>0. \A t, u \in Threads : (owner = t /\ u # t) => held[u] = 0
    BY DEF IInv, Bookkeeping
  <2>a. owner = NoThread => \A u \in Threads : held[u] = 0
    BY NoThreadAssumption DEF IInv, Bookkeeping
  <2>1. ASSUME NEW t \in Threads, Relock(t) PROVE Lock!Acquire(t)
    BY <2>1, <2>0 DEF Relock, Lock!Acquire
  <2>2. ASSUME NEW t \in Threads, LockFree(t) PROVE Lock!Acquire(t)
    BY <2>2, <2>a DEF LockFree, Lock!Acquire
  <2>3. ASSUME NEW t \in Threads, NEW timed \in BOOLEAN, LockEnqueue(t, timed)
        PROVE  Lock!Acquire(t)
    BY <2>3, <2>a DEF LockEnqueue, Granted, Lock!Acquire
  <2>4. ASSUME NEW t \in Threads, ObserveGrant(t) PROVE Lock!Acquire(t)
    <3>1. owner = t
      BY <2>4 DEF ObserveGrant, IInv, HandoffExact, Waiting
    <3> QED BY <2>4, <3>1, <2>0 DEF ObserveGrant, Lock!Acquire
  <2>5. ASSUME NEW t \in Threads, AbandonWait(t) PROVE Lock!Acquire(t)
    <3>1. ~Queued(waiters, t) /\ pc[t] \in Waiting
      BY <2>5 DEF AbandonWait, Waiting
    <3>2. owner = t
      BY <3>1 DEF IInv, HandoffExact
    <3> QED BY <2>5, <3>1, <3>2, <2>0 DEF AbandonWait, Lock!Acquire
  <2>6. ASSUME NEW t \in Threads, Unlock(t) PROVE Lock!Release(t)
    BY <2>6 DEF Unlock, Lock!Release, IInv, Bookkeeping
  <2>7. ASSUME NEW t \in Threads, ThreadExit(t) PROVE Lock!Abandon(t)
    <3>1. held[t] # 0
      BY <2>7 DEF ThreadExit, IInv, TypeOK
    <3> QED BY <2>7, <3>1 DEF ThreadExit, Lock!Abandon, IInv, TypeOK
  <2> QED
    BY <2>1, <2>2, <2>3, <2>4, <2>5, <2>6, <2>7
       DEF Next, Lock!Next, SpinExhausted, SliceEnds, DeadlinePasses,
           BeginTermination
<1> QED BY <1>1, <1>2, Invariance, PTL DEF Spec, ImplementsReentrantLock, Lock!Spec

-------------------------------------------------------------------------------
(***************************************************************************)
(* The condition variable.  The mutex below is known from the proofs above *)
(* once CondSpec is shown to implement Spec.                               *)
(***************************************************************************)

(***************************************************************************)
(* Every step of the composition is a step of the mutex or leaves the      *)
(* mutex alone.                                                            *)
(***************************************************************************)
LEMMA CondStepIsMutexStep == [CondNext]_allVars => [Next]_vars
<1> SUFFICES ASSUME [CondNext]_allVars PROVE [Next]_vars
  OBVIOUS
<1>1. ASSUME NEW t \in Threads, MutexCall(t) PROVE Next
  BY <1>1 DEF MutexCall, Next
<1>2. ASSUME NEW t \in Threads, WaitUnlocks(t) PROVE [Next]_vars
  BY <1>2 DEF WaitUnlocks, Next
<1>3. ASSUME NEW t \in Threads,
             \/ RelockAtOnce(t) \/ RelockQueues(t)
             \/ RelockContinues(t) \/ RelockDone(t)
      PROVE  Next
  BY <1>3 DEF RelockAtOnce, RelockQueues, RelockContinues, RelockDone, Next
<1>4. ASSUME NEW t \in Threads, EndThread(t) PROVE Next
  BY <1>4 DEF EndThread, Next
<1>5. ASSUME Terminate PROVE Next
  BY <1>5 DEF Terminate, Next
<1>6. ASSUME NEW t \in Threads,
             \/ \E timed \in BOOLEAN : WaitEnter(t, timed)
             \/ WaitUnlockFails(t) \/ WaitWoken(t) \/ WaitTimesOut(t)
             \/ WaitTerminates(t) \/ RelockBusy(t)
             \/ Signal(t) \/ (\E u \in Threads : SignalTo(t, u)) \/ Broadcast(t)
             \/ LimitPasses(t)
      PROVE  UNCHANGED vars
  BY <1>6 DEF WaitEnter, WaitUnlockFails, WaitWoken, WaitTimesOut, WaitTerminates,
              WakeUp, RelockBusy, Signal, SignalTo, Broadcast, LimitPasses
<1>7. ASSUME UNCHANGED allVars PROVE UNCHANGED vars
  BY <1>7 DEF allVars
<1> QED BY <1>1, <1>2, <1>3, <1>4, <1>5, <1>6, <1>7 DEF CondNext

(***************************************************************************)
(* wait_core uses the mutex only as any guest may: with condition waits on *)
(* top, the mutex still satisfies the specification of PthreadMutex.       *)
(***************************************************************************)
THEOREM MutexRefinement == CondSpec => MutexUnderCond
<1>1. CondInit => Init
  BY DEF CondInit
<1> QED BY <1>1, CondStepIsMutexStep, PTL DEF CondSpec, MutexUnderCond, Spec

(***************************************************************************)
(* Hence everything proved of the mutex holds below a condition variable.  *)
(***************************************************************************)
THEOREM MutexInvariantUnderCond == CondSpec => []IInv
BY MutexRefinement, Invariance, PTL DEF MutexUnderCond

-------------------------------------------------------------------------------
(***************************************************************************)
(* What the calls of one thread leave behind for the next: a thread asleep *)
(* in a wait is not in lock_core and has no outcome yet, the deadline of a *)
(* lock call ends with it, and lock_core run by a wait has none, so it can *)
(* give up only because of termination.                                    *)
(***************************************************************************)
CallShape ==
    \A t \in Threads :
      /\ cpc[t] \in {"unlocking", "asleep"} => pc[t] = "guest" /\ coutcome[t] = "none"
      /\ pc[t] \in {"guest", "dead"} => deadline[t] = "none"
      /\ pc[t] = "busy" => terminating
      /\ cpc[t] = "relock" => deadline[t] = "none" /\ pc[t] # "late"

CondIInv == CondInv /\ CallShape

(***************************************************************************)
(* The initial state satisfies it.                                         *)
(***************************************************************************)
LEMMA InitCondIInv == CondInit => CondIInv
<1> SUFFICES ASSUME CondInit PROVE CondIInv
  OBVIOUS
<1>1. CondTypeOK
  <2>1. cqueue \in Seq(Threads) /\ NoDuplicates(cqueue)
    BY DEF CondInit, NoDuplicates
  <2> QED BY <2>1 DEF CondInit, CondTypeOK, CondPcs, Outcomes
<1>2. NoWakeGap
  BY DEF CondInit, NoWakeGap, Queued
<1>3. CallShape
  BY DEF CondInit, Init, CallShape
<1> QED BY <1>1, <1>2, <1>3 DEF CondIInv, CondInv

(***************************************************************************)
(* A step in which the entry of t leaves the queue and its wake bit is     *)
(* cleared, while t ends its wait or moves to the relock: the deadline,    *)
(* termination, a failed unlock and the death of t.                        *)
(***************************************************************************)
LEMMA EntryDropped ==
  ASSUME CondInv, NEW t \in Threads, NEW p \in {"out", "relock"},
         cqueue' = Cancelled(cqueue, t),
         csignaled' = csignaled \ {t},
         cpc' = [cpc EXCEPT ![t] = p],
         climit' = [climit EXCEPT ![t] = "none"],
         coutcome' \in [Threads -> Outcomes]
  PROVE  CondInv'
<1>1. /\ cqueue' \in Seq(Threads) /\ NoDuplicates(cqueue')
      /\ \A u : Queued(cqueue', u) <=> Queued(cqueue, u) /\ u # t
  BY CancelledFacts DEF CondInv, CondTypeOK
<1>2. CondTypeOK'
  BY <1>1 DEF CondInv, CondTypeOK, CondPcs
<1>3. NoWakeGap'
  BY <1>1 DEF CondInv, NoWakeGap, CondTypeOK
<1> QED BY <1>2, <1>3 DEF CondInv

(***************************************************************************)
(* A step of wait_core or of a guest outside it that touches neither the   *)
(* queue nor the wake bits and moves t at most from the relock to the end  *)
(* of its wait, or from the unlock to sleep.                               *)
(***************************************************************************)
LEMMA EntryKept ==
  ASSUME CondInv, NEW t \in Threads,
         \/ cpc' = cpc
         \/ cpc[t] = "relock" /\ cpc' = [cpc EXCEPT ![t] = "out"]
         \/ cpc[t] = "unlocking" /\ cpc' = [cpc EXCEPT ![t] = "asleep"],
         cqueue' = cqueue, csignaled' = csignaled,
         climit' \in [Threads -> {"none", "future", "passed"}], coutcome' = coutcome
  PROVE  CondInv'
<1>1. CondTypeOK'
  BY DEF CondInv, CondTypeOK, CondPcs
<1>2. NoWakeGap'
  BY DEF CondInv, NoWakeGap, CondTypeOK
<1> QED BY <1>1, <1>2 DEF CondInv

(***************************************************************************)
(* The mutex's own actions preserve CallShape, except that a deadline may  *)
(* run out only for a thread that is not in a wait.                        *)
(***************************************************************************)
LEMMA LockCoreShape ==
  ASSUME IInv, CondIInv, NEW t \in Threads,
         \/ cpc[t] = "out"
         \/ cpc[t] = "relock",
         \/ Relock(t) \/ LockFree(t) \/ ObserveGrant(t)
         \/ SpinExhausted(t) \/ SliceEnds(t) \/ AbandonWait(t)
         \/ LockEnqueue(t, FALSE)
         \/ cpc[t] = "out" /\ (LockEnqueue(t, TRUE) \/ DeadlinePasses(t) \/ Unlock(t)),
         coutcome' = coutcome,
         \/ cpc' = cpc
         \/ cpc' = [cpc EXCEPT ![t] = "out"]
  PROVE  CallShape'
<1> USE DEF CondIInv, CallShape
<1>0. /\ pc \in [Threads -> Pcs] /\ cpc \in [Threads -> CondPcs]
      /\ deadline \in [Threads -> {"none", "future", "passed"}]
  BY DEF IInv, TypeOK, CondInv, CondTypeOK
<1>1. CASE Relock(t) \/ LockFree(t) \/ Unlock(t)
  BY <1>0, <1>1 DEF Relock, LockFree, Unlock
<1>2. CASE ObserveGrant(t) \/ AbandonWait(t)
  BY <1>0, <1>2 DEF ObserveGrant, AbandonWait, Return
<1>3. CASE SpinExhausted(t)
  BY <1>0, <1>3 DEF SpinExhausted
<1>4. CASE SliceEnds(t)
  BY <1>0, <1>4 DEF SliceEnds
<1>5. CASE DeadlinePasses(t) /\ cpc[t] = "out"
  BY <1>0, <1>5 DEF DeadlinePasses
<1>6. ASSUME NEW timed \in BOOLEAN, LockEnqueue(t, timed), timed => cpc[t] = "out"
      PROVE  CallShape'
  <2>1. owner # NoThread
    BY <1>6 DEF IInv, LockEnqueue, FreeMeansNoWaiters
  <2>2. /\ pc[t] = "guest" /\ pc' = [pc EXCEPT ![t] = "spin"]
        /\ deadline' = [deadline EXCEPT ![t] = IF timed THEN "future" ELSE "none"]
        /\ terminating' = terminating
    BY <1>6, <2>1 DEF LockEnqueue
  <2> QED BY <1>0, <1>6, <2>2
<1> QED BY <1>1, <1>2, <1>3, <1>4, <1>5, <1>6

(***************************************************************************)
(* Every step preserves the inductive invariant.                           *)
(***************************************************************************)
LEMMA StepCondIInv == IInv /\ CondIInv /\ [CondNext]_allVars => CondIInv'
<1> SUFFICES ASSUME IInv, CondIInv, [CondNext]_allVars PROVE CondIInv'
  OBVIOUS
<1>0. /\ CondInv /\ CondTypeOK /\ NoWakeGap /\ CallShape
      /\ pc \in [Threads -> Pcs] /\ cpc \in [Threads -> CondPcs]
      /\ climit \in [Threads -> {"none", "future", "passed"}]
      /\ coutcome \in [Threads -> Outcomes]
  BY DEF IInv, TypeOK, CondIInv, CondInv, CondTypeOK
<1>1. ASSUME NEW t \in Threads, MutexCall(t) PROVE CondIInv'
  <2>1. cpc[t] = "out" /\ UNCHANGED condVars
    BY <1>1 DEF MutexCall
  <2>2. CondInv'
    BY <1>0, <2>1, EntryKept DEF condVars
  <2>3. CallShape'
    BY <1>1, <2>1, LockCoreShape DEF MutexCall, condVars
  <2> QED BY <2>2, <2>3 DEF CondIInv
<1>2. ASSUME NEW t \in Threads, NEW timed \in BOOLEAN, WaitEnter(t, timed)
      PROVE  CondIInv'
  <2>1. ~Queued(cqueue, t) /\ t \notin csignaled
    BY <1>0, <1>2 DEF WaitEnter, NoWakeGap
  <2>q. cqueue \in Seq(Threads) /\ NoDuplicates(cqueue)
    BY <1>0 DEF CondTypeOK
  <2>2. cqueue' = Joined(cqueue, t)
    <3>1. Cancelled(cqueue, t) = cqueue
      BY <2>1, <2>q, CancelledFacts
    <3> QED BY <1>2, <3>1 DEF WaitEnter, Joined
  <2>3. /\ cqueue' \in Seq(Threads) /\ NoDuplicates(cqueue')
        /\ \A u : Queued(cqueue', u) <=> Queued(cqueue, u) \/ u = t
    BY <2>1, <2>2, <2>q, JoinedFacts
  <2>4. CondTypeOK'
    BY <1>0, <1>2, <2>3 DEF WaitEnter, CondTypeOK, CondPcs, Outcomes
  <2>5. NoWakeGap'
    BY <1>0, <1>2, <2>3 DEF WaitEnter, NoWakeGap, CondTypeOK
  <2>6. CallShape'
    BY <1>0, <1>2 DEF WaitEnter, CallShape, vars
  <2> QED BY <2>4, <2>5, <2>6 DEF CondIInv, CondInv
<1>3. ASSUME NEW t \in Threads, WaitUnlocks(t) PROVE CondIInv'
  <2>1. CondInv'
    BY <1>0, <1>3, EntryKept DEF WaitUnlocks
  <2>2. pc' = pc /\ deadline' = deadline /\ terminating' = terminating
    BY <1>3 DEF WaitUnlocks, Unlock, vars
  <2>3. CallShape'
    BY <1>0, <1>3, <2>2 DEF WaitUnlocks, CallShape
  <2> QED BY <2>1, <2>3 DEF CondIInv
<1>4. ASSUME NEW t \in Threads, WaitUnlockFails(t) PROVE CondIInv'
  <2>1. CondInv'
    BY <1>0, <1>4, EntryDropped DEF WaitUnlockFails
  <2>2. CallShape'
    BY <1>0, <1>4 DEF WaitUnlockFails, CallShape, vars
  <2> QED BY <2>1, <2>2 DEF CondIInv
<1>5. ASSUME NEW t \in Threads, WaitWoken(t) \/ WaitTimesOut(t) \/ WaitTerminates(t)
      PROVE  CondIInv'
  <2>1. PICK o \in Outcomes : cpc[t] = "asleep" /\ WakeUp(t, o)
    BY <1>5 DEF WaitWoken, WaitTimesOut, WaitTerminates, Outcomes
  <2>2. cqueue' = Cancelled(cqueue, t)
    <3>1. CASE WaitWoken(t)
      <4>1. ~Queued(cqueue, t)
        BY <1>0, <3>1 DEF WaitWoken, NoWakeGap
      <4> QED BY <1>0, <3>1, <4>1, CancelledFacts DEF WaitWoken, CondTypeOK
    <3> QED BY <1>5, <3>1 DEF WaitTimesOut, WaitTerminates
  <2>3. CondInv'
    BY <1>0, <2>1, <2>2, EntryDropped DEF WakeUp
  <2>4. CallShape'
    BY <1>0, <2>1 DEF WakeUp, CallShape, vars
  <2> QED BY <2>3, <2>4 DEF CondIInv
<1>6. ASSUME NEW t \in Threads, RelockAtOnce(t) \/ RelockDone(t) PROVE CondIInv'
  <2>1. cpc[t] = "relock" /\ Leave(t)
    BY <1>6 DEF RelockAtOnce, RelockDone
  <2>2. CondInv'
    BY <1>0, <2>1, EntryKept DEF Leave
  <2>3. CallShape'
    BY <1>6, <2>1, LockCoreShape DEF RelockAtOnce, RelockDone, Leave
  <2> QED BY <2>2, <2>3 DEF CondIInv
<1>7. ASSUME NEW t \in Threads, RelockQueues(t) \/ RelockContinues(t) PROVE CondIInv'
  <2>1. cpc[t] = "relock" /\ UNCHANGED condVars
    BY <1>7 DEF RelockQueues, RelockContinues
  <2>2. CondInv'
    BY <1>0, <2>1, EntryKept DEF condVars
  <2>3. CallShape'
    BY <1>7, <2>1, LockCoreShape DEF RelockQueues, RelockContinues, condVars
  <2> QED BY <2>2, <2>3 DEF CondIInv
<1>8. ASSUME NEW t \in Threads, RelockBusy(t) PROVE CondIInv'
  <2>1. CondInv'
    BY <1>0, <1>8, EntryKept DEF RelockBusy, Leave
  <2>2. CallShape'
    BY <1>0, <1>8 DEF RelockBusy, Leave, CallShape, vars
  <2> QED BY <2>1, <2>2 DEF CondIInv
<1>9. ASSUME NEW S \in SUBSET Threads,
             cqueue' \in Seq(Threads), NoDuplicates(cqueue'),
             \A u \in S : Queued(cqueue, u),
             \A u \in Threads : Queued(cqueue', u) <=> Queued(cqueue, u) /\ u \notin S,
             csignaled' = csignaled \cup S,
             UNCHANGED <<vars, cpc, climit, coutcome>>
      PROVE  CondIInv'
  <2>1. CondTypeOK'
    BY <1>0, <1>9 DEF CondTypeOK
  <2>2. NoWakeGap'
    BY <1>0, <1>9 DEF NoWakeGap
  <2>3. CallShape'
    BY <1>0, <1>9 DEF CallShape, vars
  <2> QED BY <2>1, <2>2, <2>3 DEF CondIInv, CondInv
<1>10. ASSUME NEW t \in Threads, Signal(t) PROVE CondIInv'
  <2>1. cqueue \in Seq(Threads) /\ NoDuplicates(cqueue) /\ cqueue # <<>>
    BY <1>0, <1>10 DEF Signal, CondTypeOK
  <2>2. /\ Head(cqueue) \in Threads /\ Queued(cqueue, Head(cqueue))
        /\ Tail(cqueue) \in Seq(Threads) /\ NoDuplicates(Tail(cqueue))
        /\ \A u : Queued(Tail(cqueue), u) <=> Queued(cqueue, u) /\ u # Head(cqueue)
    BY <2>1, PopFacts
  <2>3. /\ {Head(cqueue)} \in SUBSET Threads
        /\ \A u \in {Head(cqueue)} : Queued(cqueue, u)
        /\ cqueue' \in Seq(Threads) /\ NoDuplicates(cqueue')
        /\ \A u \in Threads : Queued(cqueue', u) <=> Queued(cqueue, u) /\ u \notin {Head(cqueue)}
        /\ csignaled' = csignaled \cup {Head(cqueue)}
        /\ UNCHANGED <<vars, cpc, climit, coutcome>>
    BY <1>10, <2>2 DEF Signal
  <2> QED BY ONLY <1>9, <2>3
<1>11. ASSUME NEW t \in Threads, NEW u \in Threads, SignalTo(t, u) PROVE CondIInv'
  <2>1. cqueue \in Seq(Threads) /\ NoDuplicates(cqueue)
    BY <1>0 DEF CondTypeOK
  <2>2. /\ Cancelled(cqueue, u) \in Seq(Threads) /\ NoDuplicates(Cancelled(cqueue, u))
        /\ \A x : Queued(Cancelled(cqueue, u), x) <=> Queued(cqueue, x) /\ x # u
    BY <2>1, CancelledFacts
  <2>3. /\ {u} \in SUBSET Threads
        /\ \A x \in {u} : Queued(cqueue, x)
        /\ cqueue' \in Seq(Threads) /\ NoDuplicates(cqueue')
        /\ \A x \in Threads : Queued(cqueue', x) <=> Queued(cqueue, x) /\ x \notin {u}
        /\ csignaled' = csignaled \cup {u}
        /\ UNCHANGED <<vars, cpc, climit, coutcome>>
    BY <1>11, <2>2 DEF SignalTo
  <2> QED BY ONLY <1>9, <2>3
<1>12. ASSUME NEW t \in Threads, Broadcast(t) PROVE CondIInv'
  <2>1. /\ cqueue' = <<>> /\ cqueue' \in Seq(Threads) /\ NoDuplicates(cqueue')
        /\ \A u : ~Queued(cqueue', u)
    BY <1>12 DEF Broadcast, NoDuplicates, Queued
  <2> DEFINE S == {u \in Threads : Queued(cqueue, u)}
  <2>2. /\ S \in SUBSET Threads
        /\ \A u \in S : Queued(cqueue, u)
        /\ \A u \in Threads : Queued(cqueue', u) <=> Queued(cqueue, u) /\ u \notin S
        /\ csignaled' = csignaled \cup S
        /\ UNCHANGED <<vars, cpc, climit, coutcome>>
    BY <1>12, <2>1 DEF Broadcast
  <2> HIDE DEF S
  <2> QED BY ONLY <1>9, <2>1, <2>2
<1>13. ASSUME NEW t \in Threads, EndThread(t) PROVE CondIInv'
  <2>1. CondInv'
    BY <1>0, <1>13, EntryDropped DEF EndThread
  <2>2. /\ pc[t] = "guest" /\ pc' = [pc EXCEPT ![t] = "dead"]
        /\ deadline' = deadline /\ terminating' = terminating
    BY <1>13 DEF EndThread, ThreadExit
  <2>3. CallShape'
    BY <1>0, <1>13, <2>2 DEF EndThread, CallShape
  <2> QED BY <2>1, <2>3 DEF CondIInv
<1>14. ASSUME NEW t \in Threads, LimitPasses(t) PROVE CondIInv'
  <2>1. CondInv'
    BY <1>0, <1>14, EntryKept DEF LimitPasses
  <2>2. CallShape'
    BY <1>0, <1>14 DEF LimitPasses, CallShape, vars
  <2> QED BY <2>1, <2>2 DEF CondIInv
<1>15. ASSUME Terminate \/ UNCHANGED allVars PROVE CondIInv'
  <2>1. UNCHANGED condVars /\ UNCHANGED <<pc, deadline>> /\ (terminating => terminating')
    BY <1>15 DEF Terminate, BeginTermination, allVars, vars
  <2>2. CondTypeOK' /\ NoWakeGap'
    BY <1>0, <2>1 DEF condVars, CondTypeOK, NoWakeGap
  <2>3. CallShape'
    BY <1>0, <2>1 DEF CallShape, condVars
  <2> QED BY <2>2, <2>3 DEF CondIInv, CondInv
<1> QED
  BY <1>1, <1>2, <1>3, <1>4, <1>5, <1>6, <1>7, <1>8, <1>10, <1>11, <1>12, <1>13,
     <1>14, <1>15
     DEF CondNext

(***************************************************************************)
(* The inductive invariant always holds.                                   *)
(***************************************************************************)
THEOREM CondInvariance == CondSpec => []CondIInv
BY InitCondIInv, StepCondIInv, MutexInvariantUnderCond, PTL DEF CondSpec

(***************************************************************************)
(* No wake is lost or delivered twice: from the moment a wait is published *)
(* it is in the queue or selected by a signal, never both and never        *)
(* neither, and nobody outside a wait absorbs a signal.                    *)
(***************************************************************************)
THEOREM NoWakeLost == CondSpec => []CondInv
<1>1. CondIInv => CondInv
  BY DEF CondIInv
<1> QED BY <1>1, CondInvariance, PTL

(***************************************************************************)
(* Unless the process terminates, a wait returns with the mutex held: its  *)
(* lock_core has no deadline, so it can only be granted the mutex.         *)
(***************************************************************************)
THEOREM ReturnsHolding == CondSpec => WaitReturnsHolding
<1> DEFINE A == \A t \in Threads :
                  (cpc[t] = "relock" /\ cpc'[t] = "out" /\ ~terminating)
                    => held'[t] > 0 /\ owner' = t
<1>1. IInv /\ CondIInv /\ [CondNext]_allVars => [A]_allVars
  <2> SUFFICES ASSUME IInv, CondIInv, CondNext, NEW t \in Threads,
                      cpc[t] = "relock", cpc'[t] = "out", ~terminating
               PROVE  held'[t] > 0 /\ owner' = t
    OBVIOUS
  <2>0. /\ cpc \in [Threads -> CondPcs] /\ held \in [Threads -> Nat]
        /\ pc[t] \notin {"busy", "late"}
    BY DEF IInv, TypeOK, CondIInv, CondInv, CondTypeOK, CallShape
  <2>1. ASSUME NEW u \in Threads,
               cpc' = [cpc EXCEPT ![u] = "out"] \/ cpc' = [cpc EXCEPT ![u] = "relock"]
                 \/ cpc' = [cpc EXCEPT ![u] = "asleep"]
                 \/ cpc' = [cpc EXCEPT ![u] = "unlocking"]
        PROVE  u = t /\ cpc[u] = "relock"
    BY <2>0, <2>1
  <2>2. RelockAtOnce(t) \/ RelockDone(t)
    <3>1. cpc' # cpc
      OBVIOUS
    <3> QED
      BY <2>1, <3>1, ZenonT(40)
         DEF CondNext, MutexCall, WaitEnter, WaitUnlocks, WaitUnlockFails, WaitWoken,
             WaitTimesOut, WaitTerminates, WakeUp, RelockAtOnce, RelockQueues,
             RelockContinues, RelockDone, RelockBusy, Leave, Signal, SignalTo, Broadcast,
             EndThread, LimitPasses, Terminate, condVars
  <2>3. CASE RelockAtOnce(t)
    BY <2>0, <2>3 DEF RelockAtOnce, Relock, LockFree
  <2>4. CASE RelockDone(t)
    <3>1. ObserveGrant(t)
      BY <2>0, <2>4 DEF RelockDone, AbandonWait
    <3>2. owner = t
      BY <3>1 DEF ObserveGrant, IInv, HandoffExact, Waiting
    <3> QED BY <2>0, <3>1, <3>2 DEF ObserveGrant
  <2> QED BY <2>2, <2>3, <2>4
<1> QED BY <1>1, CondInvariance, MutexInvariantUnderCond, PTL DEF CondSpec, WaitReturnsHolding

(***************************************************************************)
(* A wait selected by a signal does not report a timeout: its entry has    *)
(* left the queue, which is what the timeout path looks at.                *)
(***************************************************************************)
THEOREM SignalWins == CondSpec => SignalBeatsTimeout
<1> DEFINE A == \A t \in Threads : (cpc[t] = "asleep" /\ t \in csignaled)
                                     => coutcome'[t] # "timedout"
<1>1. CondIInv /\ [CondNext]_allVars => [A]_allVars
  <2> SUFFICES ASSUME CondIInv, CondNext, NEW t \in Threads,
                      cpc[t] = "asleep", t \in csignaled
               PROVE  coutcome'[t] # "timedout"
    OBVIOUS
  <2>0. /\ coutcome[t] = "none" /\ ~Queued(cqueue, t)
        /\ coutcome \in [Threads -> Outcomes]
    BY DEF CondIInv, CondInv, CondTypeOK, NoWakeGap, CallShape
  <2>1. CASE coutcome' = coutcome
    BY <2>0, <2>1
  <2>2. ASSUME NEW u \in Threads, NEW timed \in BOOLEAN, WaitEnter(u, timed)
        PROVE  coutcome'[t] # "timedout"
    BY <2>0, <2>2 DEF WaitEnter
  <2>3. ASSUME NEW u \in Threads, WaitWoken(u) \/ WaitTerminates(u)
        PROVE  coutcome'[t] # "timedout"
    BY <2>0, <2>3 DEF WaitWoken, WaitTerminates, WakeUp
  <2>4. ASSUME NEW u \in Threads, WaitTimesOut(u)
        PROVE  coutcome'[t] # "timedout"
    BY <2>0, <2>4 DEF WaitTimesOut, WakeUp
  <2> QED
    BY <2>1, <2>2, <2>3, <2>4
       DEF CondNext, MutexCall, WaitUnlocks, WaitUnlockFails, RelockAtOnce, RelockQueues,
           RelockContinues, RelockDone, RelockBusy, Leave, Signal, SignalTo, Broadcast,
           EndThread, LimitPasses, Terminate, condVars
<1> QED BY <1>1, CondInvariance, PTL DEF CondSpec, SignalBeatsTimeout

-------------------------------------------------------------------------------
(***************************************************************************)
(* The read-write lock.                                                    *)
(***************************************************************************)

(***************************************************************************)
(* Only a dying thread owes holds it has collected, and from then on it    *)
(* has none recorded.                                                      *)
(***************************************************************************)
DyingGivesBack ==
    \A t \in Threads :
      /\ owed[t] # 0 => rpc[t] = "dying"
      /\ rpc[t] \in {"dying", "ending", "dead"} => holds[t] = 0

RwIInv == RwInv /\ IsFiniteSet(Shares) /\ DyingGivesBack

(***************************************************************************)
(* The first n holds of t.                                                 *)
(***************************************************************************)
HoldsOf(t, n) == {<<t, i>> : i \in 1..n}

-------------------------------------------------------------------------------
(***************************************************************************)
(* There are n of them.                                                    *)
(***************************************************************************)
LEMMA HoldsOfCount ==
    ASSUME NEW t, NEW n \in Nat
    PROVE  IsFiniteSet(HoldsOf(t, n)) /\ Cardinality(HoldsOf(t, n)) = n
<1>1. HoldsOf(t, n) = {t} \X (1..n)
  BY DEF HoldsOf
<1>2. IsFiniteSet(1..n) /\ Cardinality(1..n) = n
  BY FS_Interval
<1>3. IsFiniteSet({t}) /\ Cardinality({t}) = 1
  BY FS_Singleton
<1>4. IsFiniteSet({t} \X (1..n)) /\ Cardinality({t} \X (1..n)) = 1 * n
  BY <1>2, <1>3, FS_Product
<1> QED BY <1>1, <1>4

(***************************************************************************)
(* Which holds there are, and that every share is a number.                *)
(***************************************************************************)
LEMMA SharesAre ==
    ASSUME RwTypeOK
    PROVE  /\ \A t \in Threads : Share(t) \in Nat
           /\ \A x : x \in Shares <=> \E t \in Threads : x \in HoldsOf(t, Share(t))
<1>1. \A t \in Threads : Share(t) \in Nat
  BY DEF RwTypeOK, Share
<1> QED BY <1>1 DEF Shares, HoldsOf

(***************************************************************************)
(* A thread's share is part of the count, and no holds means no shares.    *)
(***************************************************************************)
LEMMA ShareBound ==
    ASSUME RwTypeOK, IsFiniteSet(Shares), NEW t \in Threads
    PROVE  /\ Cardinality(Shares) \in Nat
           /\ Share(t) <= Cardinality(Shares)
<1>1. HoldsOf(t, Share(t)) \subseteq Shares
  BY SharesAre
<1>2. Cardinality(HoldsOf(t, Share(t))) = Share(t)
  BY SharesAre, HoldsOfCount
<1>3. Cardinality(HoldsOf(t, Share(t))) <= Cardinality(Shares)
  BY <1>1, FS_Subset
<1> QED BY <1>2, <1>3, FS_CardinalityType

(***************************************************************************)
(* A step that changes the share of one thread changes the count by that.  *)
(***************************************************************************)
LEMMA OneShareChanges ==
    ASSUME RwTypeOK, RwTypeOK', IsFiniteSet(Shares), NEW t \in Threads,
           \A u \in Threads : u # t => Share(u)' = Share(u)
    PROVE  /\ IsFiniteSet(Shares')
           /\ Cardinality(Shares') = Cardinality(Shares) - Share(t) + Share(t)'
<1> DEFINE a == Share(t)
           b == Share(t)'
           A == HoldsOf(t, a)
           B == HoldsOf(t, b)
           R == Shares \ A
<1>1. a \in Nat /\ b \in Nat
  <2>1. a \in Nat
    BY SharesAre
  <2>2. b \in Nat
    BY DEF RwTypeOK, Share
  <2> QED BY <2>1, <2>2
<1>2. /\ IsFiniteSet(A) /\ Cardinality(A) = a
      /\ IsFiniteSet(B) /\ Cardinality(B) = b
  BY <1>1, HoldsOfCount
<1>3. A \subseteq Shares
  BY SharesAre
<1>4. \A x : x \in R <=> \E u \in Threads \ {t} : x \in HoldsOf(u, Share(u))
  BY SharesAre DEF HoldsOf
<1>5. \A x : x \in Shares' <=> \E u \in Threads : x \in HoldsOf(u, Share(u)')
  <2>1. \A u \in Threads : Share(u)' \in Nat
    BY DEF RwTypeOK, Share
  <2> QED BY <2>1 DEF Shares, HoldsOf
<1>6. Shares' = R \cup B
  BY <1>4, <1>5
<1>7. R \cap B = {}
  BY <1>4 DEF HoldsOf
<1>8. IsFiniteSet(R) /\ Cardinality(R) = Cardinality(Shares) - a
  <2>1. Shares \cap A = A
    BY <1>3
  <2>2. /\ IsFiniteSet(Shares \ A)
        /\ Cardinality(Shares \ A) = Cardinality(Shares) - Cardinality(Shares \cap A)
    BY FS_Difference
  <2> QED BY <1>2, <2>1, <2>2
<1>9. /\ IsFiniteSet(R \cup B)
      /\ Cardinality(R \cup B) = Cardinality(R) + Cardinality(B) - Cardinality(R \cap B)
  BY <1>2, <1>8, FS_Union
<1>10. Cardinality(R \cap B) = 0
  BY <1>7, FS_EmptySet
<1>11. Cardinality(Shares) \in Nat /\ Cardinality(R) \in Nat
  BY <1>8, FS_CardinalityType
<1> QED BY <1>1, <1>2, <1>6, <1>8, <1>9, <1>10, <1>11

(***************************************************************************)
(* A step that changes no share leaves the holds as they are.              *)
(***************************************************************************)
LEMMA NoShareChanges ==
    ASSUME \A u \in Threads : Share(u)' = Share(u)
    PROVE  Shares' = Shares
BY DEF Shares

-------------------------------------------------------------------------------
(***************************************************************************)
(* A new lock satisfies the invariant.                                     *)
(***************************************************************************)
LEMMA InitRwIInv == RwInit => RwIInv
<1> SUFFICES ASSUME RwInit PROVE RwIInv
  OBVIOUS
<1>1. RwTypeOK
  BY DEF RwInit, RwTypeOK, RwPcs, Limits
<1>2. \A t \in Threads : Share(t) = 0
  BY DEF RwInit, Share
<1>3. Shares = {}
  BY <1>2 DEF Shares
<1>4. IsFiniteSet(Shares) /\ ReadersExact
  BY <1>3, FS_EmptySet DEF RwInit, ReadersExact
<1>5. WriterExcludesReaders
  BY <1>2 DEF WriterExcludesReaders
<1>6. DeadHoldsNothing /\ NoMissedRelease /\ DyingGivesBack
  BY DEF RwInit, DeadHoldsNothing, NoMissedRelease, DyingGivesBack
<1> QED BY <1>1, <1>4, <1>5, <1>6 DEF RwIInv, RwInv

(***************************************************************************)
(* Every step preserves it.                                                *)
(***************************************************************************)
LEMMA StepRwIInv == RwIInv /\ [RwNext]_rwVars => RwIInv'
<1> SUFFICES ASSUME RwIInv, [RwNext]_rwVars PROVE RwIInv'
  OBVIOUS
<1>0. /\ RwTypeOK /\ ReadersExact /\ WriterExcludesReaders /\ DeadHoldsNothing
      /\ NoMissedRelease /\ IsFiniteSet(Shares) /\ DyingGivesBack
  BY DEF RwIInv, RwInv
<1> USE <1>0, NoThreadAssumption
<1>1. ASSUME NEW t \in Threads, RdTake(t)
      PROVE  RwIInv'
  <2>1. RwTypeOK'
    BY <1>1 DEF RwTypeOK, RwPcs, Limits, RdTake, Idle, At
  <2>2. /\ \A u \in Threads : u # t => Share(u)' = Share(u)
        /\ Share(t)' = Share(t) + 1
    BY <1>1 DEF Share, RwTypeOK, DyingGivesBack, RdTake, Idle, At
  <2>3. ReadersExact' /\ IsFiniteSet(Shares')
    <3>1. readers \in Nat /\ Share(t) \in Nat /\ owed[t] \in Nat
      BY SharesAre DEF RwTypeOK
    <3>2. /\ IsFiniteSet(Shares')
          /\ Cardinality(Shares') = Cardinality(Shares) - Share(t) + Share(t)'
      BY <2>1, <2>2, OneShareChanges
    <3> QED
      BY <1>1, <2>2, <3>1, <3>2 DEF ReadersExact, RdTake
  <2>4. WriterExcludesReaders' /\ DeadHoldsNothing'
    BY <1>1, <2>2, SharesAre
       DEF WriterExcludesReaders, DeadHoldsNothing, RwTypeOK, DyingGivesBack, RdTake,
           Idle, MayRead, At
  <2>5. NoMissedRelease'
    BY <1>1 DEF NoMissedRelease, RwTypeOK, RdTake, Idle, At, MayRead, MayWrite
  <2>6. DyingGivesBack'
    BY <1>1 DEF DyingGivesBack, RwTypeOK, RdTake, Idle, At
  <2> QED BY <2>1, <2>3, <2>4, <2>5, <2>6 DEF RwIInv, RwInv
<1>2. ASSUME NEW t \in Threads, RdRecord(t)
      PROVE  RwIInv'
  <2>1. RwTypeOK'
    BY <1>2 DEF RwTypeOK, RwPcs, Limits, RdRecord, Returned, At
  <2>2. \A u \in Threads : Share(u)' = Share(u)
    BY <1>2 DEF Share, RwTypeOK, RdRecord, Returned, At
  <2>3. ReadersExact' /\ IsFiniteSet(Shares')
    BY <1>2, <2>2, NoShareChanges DEF ReadersExact, RdRecord
  <2>4. WriterExcludesReaders' /\ DeadHoldsNothing'
    BY <1>2, <2>2
       DEF WriterExcludesReaders, DeadHoldsNothing, RwTypeOK, RdRecord, Returned, At
  <2>5. NoMissedRelease'
    BY <1>2 DEF NoMissedRelease, RwTypeOK, RdRecord, Returned, At, MayRead, MayWrite
  <2>6. DyingGivesBack'
    BY <1>2 DEF DyingGivesBack, RwTypeOK, RdRecord, Returned, At
  <2> QED BY <2>1, <2>3, <2>4, <2>5, <2>6 DEF RwIInv, RwInv
<1>3. ASSUME NEW t \in Threads, WrTake(t)
      PROVE  RwIInv'
  <2>1. RwTypeOK'
    BY <1>3 DEF RwTypeOK, RwPcs, Limits, WrTake, Idle, Returned, At
  <2>2. \A u \in Threads : Share(u)' = Share(u)
    BY <1>3 DEF Share, RwTypeOK, WrTake, Idle, Returned, At
  <2>3. ReadersExact' /\ IsFiniteSet(Shares')
    BY <1>3, <2>2, NoShareChanges DEF ReadersExact, WrTake
  <2>4. WriterExcludesReaders' /\ DeadHoldsNothing'
    <3>1. readers = 0 => \A u \in Threads : Share(u) = 0
      BY ShareBound, SharesAre DEF ReadersExact
    <3> QED
      BY <1>3, <2>2, <3>1
         DEF WriterExcludesReaders, DeadHoldsNothing, RwTypeOK, WrTake, Idle,
             MayWrite, Returned, At
  <2>5. NoMissedRelease'
    BY <1>3
       DEF NoMissedRelease, RwTypeOK, WrTake, Idle, Returned, At, MayRead, MayWrite
  <2>6. DyingGivesBack'
    BY <1>3 DEF DyingGivesBack, RwTypeOK, WrTake, Idle, Returned, At
  <2> QED BY <2>1, <2>3, <2>4, <2>5, <2>6 DEF RwIInv, RwInv
<1>4. ASSUME NEW t \in Threads, NEW lim \in {"none", "future"}, Park(t, lim)
      PROVE  RwIInv'
  <2>1. RwTypeOK'
    BY <1>4 DEF RwTypeOK, RwPcs, Limits, Park, Idle, At
  <2>2. \A u \in Threads : Share(u)' = Share(u)
    BY <1>4 DEF Share, RwTypeOK, Park, Idle, At
  <2>3. ReadersExact' /\ IsFiniteSet(Shares')
    BY <1>4, <2>2, NoShareChanges DEF ReadersExact, Park
  <2>4. WriterExcludesReaders' /\ DeadHoldsNothing'
    BY <1>4, <2>2
       DEF WriterExcludesReaders, DeadHoldsNothing, RwTypeOK, Park, Idle, MayRead,
           MayWrite, At
  <2>5. NoMissedRelease'
    BY <1>4 DEF NoMissedRelease, RwTypeOK, Park, Idle, MayRead, MayWrite, At
  <2>6. DyingGivesBack'
    BY <1>4 DEF DyingGivesBack, RwTypeOK, Park, Idle, At
  <2> QED BY <2>1, <2>3, <2>4, <2>5, <2>6 DEF RwIInv, RwInv
<1>5. ASSUME NEW t \in Threads, LookAgain(t)
      PROVE  RwIInv'
  <2>1. RwTypeOK'
    BY <1>5 DEF RwTypeOK, RwPcs, Limits, LookAgain, Returned, At
  <2>2. \A u \in Threads : Share(u)' = Share(u)
    BY <1>5 DEF Share, RwTypeOK, LookAgain, Returned, At
  <2>3. ReadersExact' /\ IsFiniteSet(Shares')
    BY <1>5, <2>2, NoShareChanges DEF ReadersExact, LookAgain
  <2>4. WriterExcludesReaders' /\ DeadHoldsNothing'
    BY <1>5, <2>2
       DEF WriterExcludesReaders, DeadHoldsNothing, RwTypeOK, LookAgain, MayRead,
           MayWrite, Returned, At
  <2>5. NoMissedRelease'
    BY <1>5 DEF NoMissedRelease, RwTypeOK, LookAgain, MayRead, MayWrite, Returned, At
  <2>6. DyingGivesBack'
    BY <1>5 DEF DyingGivesBack, RwTypeOK, LookAgain, Returned, At
  <2> QED BY <2>1, <2>3, <2>4, <2>5, <2>6 DEF RwIInv, RwInv
<1>6. ASSUME NEW t \in Threads, RwSliceEnds(t)
      PROVE  RwIInv'
  <2>1. RwTypeOK'
    BY <1>6 DEF RwTypeOK, RwPcs, Limits, RwSliceEnds, At
  <2>2. \A u \in Threads : Share(u)' = Share(u)
    BY <1>6 DEF Share, RwTypeOK, RwSliceEnds, At
  <2>3. ReadersExact' /\ IsFiniteSet(Shares')
    BY <1>6, <2>2, NoShareChanges DEF ReadersExact, RwSliceEnds
  <2>4. WriterExcludesReaders' /\ DeadHoldsNothing'
    BY <1>6, <2>2
       DEF WriterExcludesReaders, DeadHoldsNothing, RwTypeOK, RwSliceEnds, At
  <2>5. NoMissedRelease'
    BY <1>6 DEF NoMissedRelease, RwTypeOK, RwSliceEnds, At, MayRead, MayWrite
  <2>6. DyingGivesBack'
    BY <1>6 DEF DyingGivesBack, RwTypeOK, RwSliceEnds, At
  <2> QED BY <2>1, <2>3, <2>4, <2>5, <2>6 DEF RwIInv, RwInv
<1>7. ASSUME NEW t \in Threads, UnlockRead(t)
      PROVE  RwIInv'
  <2>1. RwTypeOK'
    BY <1>7 DEF RwTypeOK, RwPcs, Limits, UnlockRead, Idle, At
  <2>2. \A u \in Threads : Share(u)' = Share(u)
    BY <1>7 DEF Share, RwTypeOK, UnlockRead, Idle, At
  <2>3. ReadersExact' /\ IsFiniteSet(Shares')
    BY <1>7, <2>2, NoShareChanges DEF ReadersExact, UnlockRead
  <2>4. WriterExcludesReaders' /\ DeadHoldsNothing'
    BY <1>7, <2>2
       DEF WriterExcludesReaders, DeadHoldsNothing, RwTypeOK, UnlockRead, Idle, At
  <2>5. NoMissedRelease'
    BY <1>7 DEF NoMissedRelease, RwTypeOK, UnlockRead, Idle, At, MayRead, MayWrite
  <2>6. DyingGivesBack'
    BY <1>7 DEF DyingGivesBack, RwTypeOK, UnlockRead, Idle, At
  <2> QED BY <2>1, <2>3, <2>4, <2>5, <2>6 DEF RwIInv, RwInv
<1>8. ASSUME NEW t \in Threads, Uncount(t)
      PROVE  RwIInv'
  <2>0. readers' = readers - 1
    <3>1. readers >= 1
      BY <1>8, ShareBound DEF RwTypeOK, ReadersExact, Share, Uncount, NotifyIf, At
    <3> QED
      BY <1>8, <3>1 DEF RwTypeOK, Uncount, NotifyIf, At
  <2>1. RwTypeOK'
    BY <1>8, <2>0 DEF RwTypeOK, RwPcs, Limits, Uncount, NotifyIf, At
  <2>2. /\ \A u \in Threads : u # t => Share(u)' = Share(u)
        /\ Share(t)' = Share(t) - 1
    BY <1>8 DEF Share, RwTypeOK, DyingGivesBack, Uncount, NotifyIf, At
  <2>3. ReadersExact' /\ IsFiniteSet(Shares')
    <3>1. readers \in Nat /\ Share(t) \in Nat /\ owed[t] \in Nat
      BY SharesAre DEF RwTypeOK
    <3>2. /\ IsFiniteSet(Shares')
          /\ Cardinality(Shares') = Cardinality(Shares) - Share(t) + Share(t)'
      BY <2>1, <2>2, OneShareChanges
    <3> QED
      BY <1>8, <2>0, <2>2, <3>1, <3>2 DEF ReadersExact
  <2>4. WriterExcludesReaders' /\ DeadHoldsNothing'
    <3>1. Share(t) = 0 => Share(t)' = 0
      BY <1>8, <2>2 DEF Share, RwTypeOK, Uncount
    <3>2. /\ writer' = writer /\ rpc'[t] # "dead"
          /\ \A u \in Threads : u # t => rpc'[u] = rpc[u]
      BY <1>8 DEF RwTypeOK, Uncount, NotifyIf, At
    <3> QED BY <2>2, <3>1, <3>2 DEF WriterExcludesReaders, DeadHoldsNothing
  <2>5. NoMissedRelease'
    BY <1>8, <2>0
       DEF NoMissedRelease, RwTypeOK, Uncount, NotifyIf, At, MayRead, MayWrite
  <2>6. DyingGivesBack'
    BY <1>8 DEF DyingGivesBack, RwTypeOK, Uncount, NotifyIf, At
  <2> QED BY <2>1, <2>3, <2>4, <2>5, <2>6 DEF RwIInv, RwInv
<1>9. ASSUME NEW t \in Threads, UnlockWrite(t)
      PROVE  RwIInv'
  <2>1. RwTypeOK'
    BY <1>9 DEF RwTypeOK, RwPcs, Limits, UnlockWrite, Idle, NotifyIf
  <2>2. \A u \in Threads : Share(u)' = Share(u)
    BY <1>9 DEF Share, RwTypeOK, UnlockWrite, Idle, NotifyIf
  <2>3. ReadersExact' /\ IsFiniteSet(Shares')
    BY <1>9, <2>2, NoShareChanges DEF ReadersExact, UnlockWrite
  <2>4. WriterExcludesReaders' /\ DeadHoldsNothing'
    BY <1>9, <2>2
       DEF WriterExcludesReaders, DeadHoldsNothing, RwTypeOK, UnlockWrite, Idle,
           NotifyIf
  <2>5. NoMissedRelease'
    BY <1>9
       DEF NoMissedRelease, RwTypeOK, UnlockWrite, Idle, NotifyIf, MayRead, MayWrite
  <2>6. DyingGivesBack'
    BY <1>9 DEF DyingGivesBack, RwTypeOK, UnlockWrite, Idle, NotifyIf
  <2> QED BY <2>1, <2>3, <2>4, <2>5, <2>6 DEF RwIInv, RwInv
<1>10. ASSUME NEW t \in Threads, Notify(t)
      PROVE  RwIInv'
  <2>1. RwTypeOK'
    BY <1>10 DEF RwTypeOK, RwPcs, Limits, Notify
  <2>2. \A u \in Threads : Share(u)' = Share(u)
    BY <1>10 DEF Share, RwTypeOK, Notify
  <2>3. ReadersExact' /\ IsFiniteSet(Shares')
    BY <1>10, <2>2, NoShareChanges DEF ReadersExact, Notify
  <2>4. WriterExcludesReaders' /\ DeadHoldsNothing'
    BY <1>10, <2>2 DEF WriterExcludesReaders, DeadHoldsNothing, RwTypeOK, Notify
  <2>5. NoMissedRelease'
    BY <1>10 DEF NoMissedRelease, RwTypeOK, Notify, MayRead, MayWrite
  <2>6. DyingGivesBack'
    BY <1>10 DEF DyingGivesBack, RwTypeOK, Notify
  <2> QED BY <2>1, <2>3, <2>4, <2>5, <2>6 DEF RwIInv, RwInv
<1>11. ASSUME NEW t \in Threads, DieCollect(t)
      PROVE  RwIInv'
  <2>1. RwTypeOK'
    BY <1>11 DEF RwTypeOK, RwPcs, Limits, DieCollect, Idle, At
  <2>2. \A u \in Threads : Share(u)' = Share(u)
    BY <1>11 DEF Share, RwTypeOK, DieCollect, Idle, At, DyingGivesBack
  <2>3. ReadersExact' /\ IsFiniteSet(Shares')
    BY <1>11, <2>2, NoShareChanges DEF ReadersExact, DieCollect
  <2>4. WriterExcludesReaders' /\ DeadHoldsNothing'
    BY <1>11, <2>2
       DEF WriterExcludesReaders, DeadHoldsNothing, RwTypeOK, DieCollect, Idle, At
  <2>5. NoMissedRelease'
    BY <1>11 DEF NoMissedRelease, RwTypeOK, DieCollect, Idle, At, MayRead, MayWrite
  <2>6. DyingGivesBack'
    BY <1>11 DEF DyingGivesBack, RwTypeOK, DieCollect, Idle, At
  <2> QED BY <2>1, <2>3, <2>4, <2>5, <2>6 DEF RwIInv, RwInv
<1>12. ASSUME NEW t \in Threads, DieUncount(t)
      PROVE  RwIInv'
  <2>0. readers' = readers - owed[t]
    <3>1. readers >= owed[t]
      BY <1>12, ShareBound DEF RwTypeOK, ReadersExact, Share, DieUncount, NotifyIf, At
    <3> QED
      BY <1>12, <3>1 DEF RwTypeOK, DieUncount, NotifyIf, At
  <2>1. RwTypeOK'
    BY <1>12, <2>0 DEF RwTypeOK, RwPcs, Limits, DieUncount, NotifyIf, At
  <2>2. /\ \A u \in Threads : u # t => Share(u)' = Share(u)
        /\ Share(t)' = Share(t) - owed[t]
    BY <1>12 DEF Share, RwTypeOK, DyingGivesBack, DieUncount, NotifyIf, At
  <2>3. ReadersExact' /\ IsFiniteSet(Shares')
    <3>1. readers \in Nat /\ Share(t) \in Nat /\ owed[t] \in Nat
      BY SharesAre DEF RwTypeOK
    <3>2. /\ IsFiniteSet(Shares')
          /\ Cardinality(Shares') = Cardinality(Shares) - Share(t) + Share(t)'
      BY <2>1, <2>2, OneShareChanges
    <3> QED
      BY <1>12, <2>0, <2>2, <3>1, <3>2 DEF ReadersExact
  <2>4. WriterExcludesReaders' /\ DeadHoldsNothing'
    <3>1. Share(t) = 0 => Share(t)' = 0
      BY <1>12, <2>2 DEF Share, RwTypeOK, DieUncount
    <3>2. /\ writer' = writer /\ rpc'[t] # "dead"
          /\ \A u \in Threads : u # t => rpc'[u] = rpc[u]
      BY <1>12 DEF RwTypeOK, DieUncount, NotifyIf, At
    <3> QED BY <2>2, <3>1, <3>2 DEF WriterExcludesReaders, DeadHoldsNothing
  <2>5. NoMissedRelease'
    BY <1>12, <2>0
       DEF NoMissedRelease, RwTypeOK, DieUncount, NotifyIf, At, MayRead, MayWrite
  <2>6. DyingGivesBack'
    BY <1>12 DEF DyingGivesBack, RwTypeOK, DieUncount, NotifyIf, At
  <2> QED BY <2>1, <2>3, <2>4, <2>5, <2>6 DEF RwIInv, RwInv
<1>13. ASSUME NEW t \in Threads, DieClear(t)
      PROVE  RwIInv'
  <2>1. RwTypeOK'
    BY <1>13 DEF RwTypeOK, RwPcs, Limits, DieClear, NotifyIf, At
  <2>2. \A u \in Threads : Share(u)' = Share(u)
    BY <1>13 DEF Share, RwTypeOK, DieClear, NotifyIf, At
  <2>3. ReadersExact' /\ IsFiniteSet(Shares')
    BY <1>13, <2>2, NoShareChanges DEF ReadersExact, DieClear
  <2>4. WriterExcludesReaders' /\ DeadHoldsNothing'
    BY <1>13, <2>2
       DEF WriterExcludesReaders, DeadHoldsNothing, RwTypeOK, DyingGivesBack, Share,
           DieClear, NotifyIf, At
  <2>5. NoMissedRelease'
    BY <1>13 DEF NoMissedRelease, RwTypeOK, DieClear, NotifyIf, At, MayRead, MayWrite
  <2>6. DyingGivesBack'
    BY <1>13 DEF DyingGivesBack, RwTypeOK, DieClear, NotifyIf, At
  <2> QED BY <2>1, <2>3, <2>4, <2>5, <2>6 DEF RwIInv, RwInv
<1>14. ASSUME NEW t \in Threads, RwDeadlinePasses(t)
      PROVE  RwIInv'
  <2>1. RwTypeOK'
    BY <1>14 DEF RwTypeOK, RwPcs, Limits, RwDeadlinePasses
  <2>2. \A u \in Threads : Share(u)' = Share(u)
    BY <1>14 DEF Share, RwTypeOK, RwDeadlinePasses
  <2>3. ReadersExact' /\ IsFiniteSet(Shares')
    BY <1>14, <2>2, NoShareChanges DEF ReadersExact, RwDeadlinePasses
  <2>4. WriterExcludesReaders' /\ DeadHoldsNothing'
    BY <1>14, <2>2
       DEF WriterExcludesReaders, DeadHoldsNothing, RwTypeOK, RwDeadlinePasses
  <2>5. NoMissedRelease'
    BY <1>14 DEF NoMissedRelease, RwTypeOK, RwDeadlinePasses, MayRead, MayWrite
  <2>6. DyingGivesBack'
    BY <1>14 DEF DyingGivesBack, RwTypeOK, RwDeadlinePasses
  <2> QED BY <2>1, <2>3, <2>4, <2>5, <2>6 DEF RwIInv, RwInv
<1>15. ASSUME RwBeginTermination
      PROVE  RwIInv'
  <2>1. RwTypeOK'
    BY <1>15 DEF RwTypeOK, RwPcs, Limits, RwBeginTermination
  <2>2. \A u \in Threads : Share(u)' = Share(u)
    BY <1>15 DEF Share, RwTypeOK, RwBeginTermination
  <2>3. ReadersExact' /\ IsFiniteSet(Shares')
    BY <1>15, <2>2, NoShareChanges DEF ReadersExact, RwBeginTermination
  <2>4. WriterExcludesReaders' /\ DeadHoldsNothing'
    BY <1>15, <2>2
       DEF WriterExcludesReaders, DeadHoldsNothing, RwTypeOK, RwBeginTermination
  <2>5. NoMissedRelease'
    BY <1>15 DEF NoMissedRelease, RwTypeOK, RwBeginTermination, MayRead, MayWrite
  <2>6. DyingGivesBack'
    BY <1>15 DEF DyingGivesBack, RwTypeOK, RwBeginTermination
  <2> QED BY <2>1, <2>3, <2>4, <2>5, <2>6 DEF RwIInv, RwInv
<1>16. ASSUME UNCHANGED rwVars PROVE RwIInv'
  <2>1. Shares' = Shares
    BY <1>16 DEF rwVars, Shares, Share
  <2> QED
    BY <1>16, <2>1
       DEF rwVars, RwIInv, RwInv, RwTypeOK, ReadersExact, WriterExcludesReaders,
           DeadHoldsNothing, NoMissedRelease, DyingGivesBack, Share, MayRead, MayWrite
<1> QED
  BY <1>1, <1>2, <1>3, <1>4, <1>5, <1>6, <1>7, <1>8, <1>9, <1>10, <1>11, <1>12, <1>13,
     <1>14, <1>15, <1>16 DEF RwNext

(***************************************************************************)
(* The reader count is exactly the number of holds through acquisitions,   *)
(* releases and deaths of several steps; a writer shares the lock with     *)
(* nobody, the dead hold nothing and no parked call misses its release.    *)
(***************************************************************************)
THEOREM RwlockCountsExact == RwSpec => []RwInv
<1>1. RwIInv => RwInv
  BY DEF RwIInv
<1> QED BY <1>1, InitRwIInv, StepRwIInv, PTL DEF RwSpec

-------------------------------------------------------------------------------
(***************************************************************************)
(* The table that finds the mutex object of a guest address.               *)
(***************************************************************************)

CallPlaces == {"idle", "probe", "deref", "alias", "entry", "publish", "acquire"}

CallType == [at : CallPlaces, op : {"lock", "unlock"}, key : Keys,
             handle : Handles \cup {0}, obj : 0..MaxObjects]

(***************************************************************************)
(* Types; a call that goes to an object or an alias knows which.           *)
(***************************************************************************)
TableTypeOK ==
    /\ table \in [Keys -> 0..MaxObjects]
    /\ mem \in [Keys -> Handles \cup {0}]
    /\ heap \subseteq Handles
    /\ made \in 0..MaxObjects
    /\ holder \in [Objects -> Threads \cup {NoThread}]
    /\ call \in [Threads -> CallType]
    /\ \A t \in Threads : In(t, "alias") \/ In(t, "publish") => call[t].handle \in Handles
    /\ \A t \in Threads : In(t, "publish") \/ In(t, "acquire") => call[t].obj # 0
    /\ lockedAs \in [Threads -> Keys \cup {0}]
    /\ split \in BOOLEAN
    /\ gone \in BOOLEAN

(***************************************************************************)
(* The object that the mutex meant by k has: the handle in the slot means  *)
(* what the slot means, also before it is in the table.                    *)
(***************************************************************************)
Leads(k) == IF k = mem[Slot] THEN table[Slot] ELSE table[k]

(***************************************************************************)
(* The table at any time: only the slot holds a handle, which is allocated *)
(* and leads to the slot's object or to none; any other two keys lead to   *)
(* different objects; the next object is new.                              *)
(***************************************************************************)
KeysSound ==
    /\ \A k \in Handles : mem[k] = 0
    /\ \A k \in Keys : table[k] <= made
    /\ \A k \in Handles : table[k] # 0 => k \in heap
    /\ \A j, k \in Keys : table[j] # 0 /\ table[j] = table[k] => SameMutex(j, k)
    /\ table[Slot] = 0 <=> mem[Slot] = 0
    /\ mem[Slot] # 0 => mem[Slot] \in heap /\ table[mem[Slot]] \in {0, table[Slot]}

(***************************************************************************)
(* Why the handle in the slot may lead nowhere: its creator is about to    *)
(* insert it, or it was destroyed by name, and never both.                 *)
(***************************************************************************)
AliasMeant ==
    /\ mem[Slot] # 0 /\ table[mem[Slot]] = 0 => gone \/ \E t \in Threads : In(t, "publish")
    /\ gone => /\ mem[Slot] # 0
               /\ table[mem[Slot]] = 0
               /\ \A t \in Threads : ~In(t, "publish")
    /\ \A t, u \in Threads : In(t, "publish") /\ In(u, "publish") => t = u

(***************************************************************************)
(* Where a call has come: it looks further only for the slot's mutex, and  *)
(* an object it has found is the one its key leads to, as is the object a  *)
(* thread holds.                                                           *)
(***************************************************************************)
CallLed(t) ==
    /\ ~In(t, "idle") => Passes(call[t].key)
    /\ call[t].at \in {"deref", "alias", "entry"} => call[t].key \in {Slot, mem[Slot]}
    /\ In(t, "alias") => call[t].handle = mem[Slot]
    /\ In(t, "publish") \/ In(t, "acquire") => call[t].obj = Leads(call[t].key)
    /\ In(t, "publish") => /\ call[t].key = Slot
                           /\ call[t].handle = mem[Slot]
                           /\ table[mem[Slot]] = 0

HoldLed(t) ==
    lockedAs[t] # 0 => /\ Passes(lockedAs[t])
                       /\ Leads(lockedAs[t]) # 0
                       /\ holder[Leads(lockedAs[t])] = t

AllLed == \A t \in Threads : CallLed(t) /\ HoldLed(t)

TableIInv ==
    /\ TableTypeOK
    /\ ~split => KeysSound /\ AliasMeant /\ AllLed

-------------------------------------------------------------------------------
(***************************************************************************)
(* The call of t goes on at place a, with key k, handle h and object o;    *)
(* the calls of the others stay as they are.                               *)
(***************************************************************************)
Moves(t, a, k, h, o) ==
    /\ call' \in [Threads -> CallType]
    /\ \A u \in Threads : u # t => call'[u] = call[u]
    /\ call'[t].at = a
    /\ call'[t].key = k
    /\ call'[t].handle = h
    /\ call'[t].obj = o

(***************************************************************************)
(* What the type invariant says of a call.                                 *)
(***************************************************************************)
LEMMA CallFields ==
    ASSUME TableTypeOK, NEW t \in Threads
    PROVE  /\ call[t] \in CallType
           /\ call[t].at \in CallPlaces
           /\ call[t].key \in Keys
           /\ call[t].handle \in Handles \cup {0}
           /\ call[t].obj \in 0..MaxObjects
           /\ table[call[t].key] \in 0..MaxObjects
           /\ mem[call[t].key] \in Handles \cup {0}
           /\ In(t, "alias") => table[call[t].handle] \in 0..MaxObjects
BY DEF TableTypeOK, CallType, Keys

(***************************************************************************)
(* A call that has found an object goes on to acquire or release it.       *)
(***************************************************************************)
LEMMA FoundMoves ==
    ASSUME TableTypeOK, NEW t \in Threads, NEW o \in 0..MaxObjects, Found(t, o)
    PROVE  Moves(t, "acquire", call[t].key, call[t].handle, o)
BY CallFields, ZenonT(40) DEF TableTypeOK, CallType, CallPlaces, Found, Moves

(***************************************************************************)
(* A call goes to another place.                                           *)
(***************************************************************************)
LEMMA AtMoves ==
    ASSUME TableTypeOK, NEW t \in Threads, NEW a \in CallPlaces,
           call' = [call EXCEPT ![t].at = a]
    PROVE  Moves(t, a, call[t].key, call[t].handle, call[t].obj)
BY CallFields DEF TableTypeOK, CallType, Moves

(***************************************************************************)
(* A call returns.                                                         *)
(***************************************************************************)
LEMMA AnswerMoves ==
    ASSUME TableTypeOK, NEW t \in Threads, Answer(t)
    PROVE  Moves(t, "idle", Slot, 0, 0)
BY MaxObjectsAssumption
   DEF TableTypeOK, CallType, CallPlaces, Answer, NoCall, Moves, Keys

(***************************************************************************)
(* A lock or unlock call starts with the key it is given.                  *)
(***************************************************************************)
LEMMA StartMoves ==
    ASSUME TableTypeOK, NEW t \in Threads, NEW k \in Keys, LockCall(t, k) \/ UnlockCall(t, k)
    PROVE  Moves(t, "probe", k, 0, 0)
<1> DEFINE Begun == [at : {"probe"}, op : {"lock", "unlock"}, key : {k}, handle : {0},
                     obj : {0}]
<1>1. /\ [NoCall EXCEPT !.at = "probe", !.key = k] \in Begun
      /\ [NoCall EXCEPT !.at = "probe", !.op = "unlock", !.key = k] \in Begun
  BY DEF NoCall
<1>2. PICK r \in Begun : call' = [call EXCEPT ![t] = r]
  BY <1>1 DEF LockCall, UnlockCall
<1>3. r \in CallType
  BY MaxObjectsAssumption DEF CallType, CallPlaces
<1> QED BY <1>2, <1>3 DEF TableTypeOK, Moves

(***************************************************************************)
(* A call has read a handle from guest memory.                             *)
(***************************************************************************)
LEMMA HandleMoves ==
    ASSUME TableTypeOK, NEW t \in Threads, NEW a \in CallPlaces, NEW h \in Handles \cup {0},
           call' = [call EXCEPT ![t].handle = h, ![t].at = a]
    PROVE  Moves(t, a, call[t].key, h, call[t].obj)
BY CallFields, ZenonT(40) DEF TableTypeOK, CallType, Moves

(***************************************************************************)
(* A call has created an object and its handle.                            *)
(***************************************************************************)
LEMMA CreateMoves ==
    ASSUME TableTypeOK, NEW t \in Threads, NEW h \in Handles, NEW o \in 0..MaxObjects,
           call' = [call EXCEPT ![t].at = "publish", ![t].handle = h, ![t].obj = o]
    PROVE  Moves(t, "publish", call[t].key, h, o)
<1>1. \A u \in Threads : u # t => call'[u] = call[u]
  BY DEF TableTypeOK
<1>2. /\ call'[t] \in CallType
      /\ call'[t].at = "publish" /\ call'[t].key = call[t].key
      /\ call'[t].handle = h /\ call'[t].obj = o
  BY CallFields DEF TableTypeOK, CallType, CallPlaces
<1>3. call' \in [Threads -> CallType]
  BY <1>1, <1>2 DEF TableTypeOK
<1> QED BY <1>1, <1>2, <1>3 DEF Moves

(***************************************************************************)
(* The calls keep what the type invariant says of them.                    *)
(***************************************************************************)
LEMMA MovesTyped ==
    ASSUME TableTypeOK, NEW t \in Threads, NEW a, NEW k, NEW h, NEW o, Moves(t, a, k, h, o),
           a \in {"alias", "publish"} => h \in Handles,
           a \in {"publish", "acquire"} => o # 0
    PROVE  /\ call' \in [Threads -> CallType]
           /\ \A u \in Threads : In(u, "alias")' \/ In(u, "publish")' => call'[u].handle \in Handles
           /\ \A u \in Threads : In(u, "publish")' \/ In(u, "acquire")' => call'[u].obj # 0
BY DEF TableTypeOK, Moves, In

(***************************************************************************)
(* A call that goes on towards its object, in an unchanged table.          *)
(***************************************************************************)
LEMMA LedKept ==
    ASSUME KeysSound, AliasMeant, AllLed,
           NEW t \in Threads, NEW a, NEW k, NEW h, NEW o, Moves(t, a, k, h, o),
           ~In(t, "publish"), a # "publish",
           a # "idle" => Passes(k),
           a \in {"deref", "alias", "entry"} => k \in {Slot, mem[Slot]},
           a = "alias" => h = mem[Slot],
           a = "acquire" => o = Leads(k),
           UNCHANGED <<table, mem, heap, made, gone>>,
           \A u \in Threads : HoldLed(u)'
    PROVE  KeysSound' /\ AliasMeant' /\ AllLed'
<1>1. \A u \in Threads : In(u, "publish")' <=> In(u, "publish")
  BY DEF Moves, In
<1>2. KeysSound'
  BY DEF KeysSound, SameMutex
<1>3. AliasMeant'
  BY <1>1 DEF AliasMeant
<1>4. ASSUME NEW u \in Threads PROVE CallLed(u)'
  <2>1. CASE u = t
    BY <2>1 DEF CallLed, Moves, In, Passes, Leads
  <2>2. CASE u # t
    BY <2>2 DEF AllLed, CallLed, Moves, In, Passes, Leads
  <2> QED BY <2>1, <2>2
<1> QED BY <1>2, <1>3, <1>4 DEF AllLed

(***************************************************************************)
(* A key that is in the table may be passed and leads to what is there.    *)
(***************************************************************************)
LEMMA FoundLeads ==
    ASSUME KeysSound, NEW k \in Keys, table[k] # 0
    PROVE  Passes(k) /\ table[k] = Leads(k)
BY KeysDistinct DEF KeysSound, Passes, Leads, Keys

(***************************************************************************)
(* What is held stays where it leads while nobody locks or unlocks.        *)
(***************************************************************************)
LEMMA HoldsKept ==
    ASSUME AllLed, UNCHANGED <<table, mem, holder, lockedAs>>
    PROVE  \A u \in Threads : HoldLed(u)'
BY DEF AllLed, HoldLed, Passes, Leads

(***************************************************************************)
(* With nobody in a call or holding a mutex nothing is on its way.         *)
(***************************************************************************)
LEMMA UnusedLed ==
    ASSUME TableTypeOK, Unused, UNCHANGED <<call, lockedAs>>
    PROVE  AllLed' /\ \A u \in Threads : ~In(u, "publish") /\ ~In(u, "publish")'
BY DEF TableTypeOK, Unused, AllLed, CallLed, HoldLed, In

-------------------------------------------------------------------------------
(***************************************************************************)
(* An empty table satisfies the invariant.                                 *)
(***************************************************************************)
LEMMA InitTableIInv == TableInit => TableIInv
<1> SUFFICES ASSUME TableInit PROVE TableIInv
  OBVIOUS
<1>1. NoCall \in CallType /\ NoCall.at = "idle"
  BY MaxObjectsAssumption DEF NoCall, CallType, CallPlaces, Keys
<1>2. 0 \in 0..MaxObjects
  BY MaxObjectsAssumption
<1>3. TableTypeOK
  BY <1>1, <1>2 DEF TableInit, TableTypeOK, In
<1>4. KeysSound /\ AliasMeant
  BY <1>1, KeysDistinct DEF TableInit, KeysSound, AliasMeant, In, Keys
<1>5. AllLed
  BY <1>1 DEF TableInit, AllLed, CallLed, HoldLed, In
<1> QED BY <1>3, <1>4, <1>5 DEF TableIInv

(***************************************************************************)
(* Every step preserves it.                                                *)
(***************************************************************************)
LEMMA StepTableIInv == TableIInv /\ [TableNext]_tableVars => TableIInv'
<1> SUFFICES ASSUME TableIInv, [TableNext]_tableVars PROVE TableIInv'
  OBVIOUS
<1>0. TableTypeOK /\ (~split => KeysSound /\ AliasMeant /\ AllLed)
  BY DEF TableIInv
<1> USE <1>0, KeysDistinct, NoThreadAssumption, MaxObjectsAssumption
    DEF mutexVars
<1>1. ASSUME NEW t \in Threads, NEW k \in Keys, LockCall(t, k)
      PROVE  TableIInv'
  <2>0. /\ In(t, "idle") /\ lockedAs[t] = 0 /\ Passes(k)
        /\ Moves(t, "probe", k, 0, 0)
        /\ UNCHANGED <<table, mem, heap, made, holder, gone, lockedAs, split>>
    BY <1>1, StartMoves DEF LockCall
  <2>1. TableTypeOK'
    BY <2>0, CallFields, MovesTyped DEF TableTypeOK, In, Keys, Objects
  <2>2. ASSUME ~split' PROVE KeysSound' /\ AliasMeant' /\ AllLed'
    <3>1. ~split /\ KeysSound /\ AliasMeant /\ AllLed /\ CallLed(t) /\ HoldLed(t)
      BY <2>0, <2>2 DEF AllLed
    <3>2. \A u \in Threads : HoldLed(u)'
      BY <2>0, <3>1, HoldsKept
    <3> QED BY <2>0, <3>1, <3>2, CallFields, LedKept
           DEF KeysSound, SameMutex, CallLed, HoldLed, In, Keys, Leads, Passes
  <2> QED BY <2>1, <2>2 DEF TableIInv
<1>2. ASSUME NEW t \in Threads, NEW k \in Keys, UnlockCall(t, k)
      PROVE  TableIInv'
  <2>0. /\ In(t, "idle")
        /\ Passes(k) \/ (lockedAs[t] # 0 /\ k = lockedAs[t])
        /\ Moves(t, "probe", k, 0, 0)
        /\ UNCHANGED <<table, mem, heap, made, holder, gone, lockedAs, split>>
    BY <1>2, StartMoves DEF UnlockCall
  <2>1. TableTypeOK'
    BY <2>0, CallFields, MovesTyped DEF TableTypeOK, In, Keys, Objects
  <2>2. ASSUME ~split' PROVE KeysSound' /\ AliasMeant' /\ AllLed'
    <3>1. ~split /\ KeysSound /\ AliasMeant /\ AllLed /\ CallLed(t) /\ HoldLed(t)
      BY <2>0, <2>2 DEF AllLed
    <3>2. \A u \in Threads : HoldLed(u)'
      BY <2>0, <3>1, HoldsKept
    <3>3. Passes(k) /\ ~In(t, "publish")
      BY <2>0, <3>1 DEF HoldLed, In
    <3> QED BY <2>0, <3>1, <3>2, <3>3, LedKept
  <2> QED BY <2>1, <2>2 DEF TableIInv
<1>3. ASSUME NEW t \in Threads, Probe(t)
      PROVE  TableIInv'
  <2>0. /\ In(t, "probe")
        /\ \/ /\ table[call[t].key] # 0
              /\ Moves(t, "acquire", call[t].key, call[t].handle, table[call[t].key])
           \/ table[call[t].key] = 0 /\ Moves(t, "deref", call[t].key, call[t].handle, call[t].obj)
        /\ UNCHANGED <<table, mem, heap, made, holder, gone, lockedAs, split>>
    BY <1>3, CallFields, FoundMoves, AtMoves DEF Probe, CallPlaces
  <2>1. TableTypeOK'
    BY <2>0, CallFields, MovesTyped DEF TableTypeOK, In, Keys, Objects
  <2>2. ASSUME ~split' PROVE KeysSound' /\ AliasMeant' /\ AllLed'
    <3>1. ~split /\ KeysSound /\ AliasMeant /\ AllLed /\ CallLed(t) /\ HoldLed(t)
      BY <2>0, <2>2 DEF AllLed
    <3>2. \A u \in Threads : HoldLed(u)'
      BY <2>0, <3>1, HoldsKept
    <3>3. CASE table[call[t].key] # 0
      <4>1. /\ Moves(t, "acquire", call[t].key, call[t].handle, table[call[t].key])
            /\ ~In(t, "publish")
        BY <2>0, <3>3 DEF In
      <4>2. Passes(call[t].key) /\ table[call[t].key] = Leads(call[t].key)
        BY <3>1, <3>3, CallFields, FoundLeads
      <4> QED BY <2>0, <3>1, <3>2, <4>1, <4>2, LedKept
    <3>4. CASE table[call[t].key] = 0
      BY <2>0, <3>1, <3>2, <3>4, CallFields, LedKept
         DEF KeysSound, SameMutex, CallLed, In, Keys, Leads, Passes
    <3> QED BY <3>3, <3>4
  <2> QED BY <2>1, <2>2 DEF TableIInv
<1>4. ASSUME NEW t \in Threads, Deref(t)
      PROVE  TableIInv'
  <2>0. /\ In(t, "deref")
        /\ \/ mem[call[t].key] = 0 /\ Moves(t, "entry", call[t].key, 0, call[t].obj)
           \/ mem[call[t].key] # 0 /\ Moves(t, "alias", call[t].key, mem[call[t].key], call[t].obj)
        /\ UNCHANGED <<table, mem, heap, made, holder, gone, lockedAs, split>>
    BY <1>4, CallFields, HandleMoves DEF Deref, CallPlaces
  <2>1. TableTypeOK'
    <3>1. CASE mem[call[t].key] = 0
      BY <2>0, <3>1, MovesTyped DEF TableTypeOK, In
    <3>2. CASE mem[call[t].key] # 0
      BY <2>0, <3>2, CallFields, MovesTyped DEF TableTypeOK, In
    <3> QED BY <3>1, <3>2
  <2>2. ASSUME ~split' PROVE KeysSound' /\ AliasMeant' /\ AllLed'
    <3>1. ~split /\ KeysSound /\ AliasMeant /\ AllLed /\ CallLed(t) /\ HoldLed(t)
      BY <2>0, <2>2 DEF AllLed
    <3>2. \A u \in Threads : HoldLed(u)'
      BY <2>0, <3>1, HoldsKept
    <3>3. CASE mem[call[t].key] = 0
      BY <2>0, <3>1, <3>2, <3>3, CallFields, LedKept
         DEF KeysSound, SameMutex, CallLed, In, Keys, Leads, Passes
    <3>4. CASE mem[call[t].key] # 0
      BY <2>0, <3>1, <3>2, <3>4, CallFields, LedKept
         DEF KeysSound, SameMutex, CallLed, In, Keys, Leads, Passes
    <3> QED BY <3>3, <3>4
  <2> QED BY <2>1, <2>2 DEF TableIInv
<1>5. ASSUME NEW t \in Threads, ProbeAlias(t)
      PROVE  TableIInv'
  <2>0. /\ In(t, "alias")
        /\ \/ /\ table[call[t].handle] # 0
              /\ Moves(t, "acquire", call[t].key, call[t].handle, table[call[t].handle])
           \/ table[call[t].handle] = 0 /\ Moves(t, "entry", call[t].key, call[t].handle, call[t].obj)
        /\ UNCHANGED <<table, mem, heap, made, holder, gone, lockedAs, split>>
    BY <1>5, CallFields, FoundMoves, AtMoves DEF ProbeAlias, CallPlaces
  <2>1. TableTypeOK'
    BY <2>0, CallFields, MovesTyped DEF TableTypeOK, In, Keys, Objects
  <2>2. ASSUME ~split' PROVE KeysSound' /\ AliasMeant' /\ AllLed'
    <3>1. ~split /\ KeysSound /\ AliasMeant /\ AllLed /\ CallLed(t) /\ HoldLed(t)
      BY <2>0, <2>2 DEF AllLed
    <3>2. \A u \in Threads : HoldLed(u)'
      BY <2>0, <3>1, HoldsKept
    <3>3. CASE table[call[t].handle] # 0
      <4>1. /\ Moves(t, "acquire", call[t].key, call[t].handle, table[call[t].handle])
            /\ ~In(t, "publish")
        BY <2>0, <3>3 DEF In
      <4>2. Passes(call[t].key) /\ table[call[t].handle] = Leads(call[t].key)
        BY <2>0, <3>1, <3>3, CallFields DEF KeysSound, CallLed, In, Leads, TableTypeOK
      <4> QED BY <2>0, <3>1, <3>2, <4>1, <4>2, LedKept
    <3>4. CASE table[call[t].handle] = 0
      BY <2>0, <3>1, <3>2, <3>4, CallFields, LedKept
         DEF KeysSound, SameMutex, CallLed, In, Keys, Leads, Passes
    <3> QED BY <3>3, <3>4
  <2> QED BY <2>1, <2>2 DEF TableIInv
<1>6. ASSUME NEW t \in Threads, UnlockUnknown(t)
      PROVE  TableIInv'
  <2>0. /\ In(t, "entry")
        /\ Moves(t, "idle", Slot, 0, 0)
        /\ UNCHANGED <<table, mem, heap, made, holder, gone, lockedAs, split>>
    BY <1>6, AnswerMoves DEF UnlockUnknown
  <2>1. TableTypeOK'
    BY <2>0, CallFields, MovesTyped DEF TableTypeOK, In, Keys, Objects
  <2>2. ASSUME ~split' PROVE KeysSound' /\ AliasMeant' /\ AllLed'
    <3>1. ~split /\ KeysSound /\ AliasMeant /\ AllLed /\ CallLed(t) /\ HoldLed(t)
      BY <2>0, <2>2 DEF AllLed
    <3>2. \A u \in Threads : HoldLed(u)'
      BY <2>0, <3>1, HoldsKept
    <3> QED BY <2>0, <3>1, <3>2, CallFields, LedKept
           DEF KeysSound, SameMutex, CallLed, HoldLed, In, Keys, Leads, Passes
  <2> QED BY <2>1, <2>2 DEF TableIInv
<1>7. ASSUME NEW t \in Threads, EntryOccupied(t)
      PROVE  TableIInv'
  <2>0. /\ In(t, "entry") /\ table[call[t].key] # 0
        /\ Moves(t, "acquire", call[t].key, call[t].handle, table[call[t].key])
        /\ UNCHANGED <<table, mem, heap, made, holder, gone, lockedAs, split>>
    BY <1>7, CallFields, FoundMoves DEF EntryOccupied
  <2>1. TableTypeOK'
    BY <2>0, CallFields, MovesTyped DEF TableTypeOK, In, Keys, Objects
  <2>2. ASSUME ~split' PROVE KeysSound' /\ AliasMeant' /\ AllLed'
    <3>1. ~split /\ KeysSound /\ AliasMeant /\ AllLed /\ CallLed(t) /\ HoldLed(t)
      BY <2>0, <2>2 DEF AllLed
    <3>2. \A u \in Threads : HoldLed(u)'
      BY <2>0, <3>1, HoldsKept
    <3>3. Passes(call[t].key) /\ table[call[t].key] = Leads(call[t].key) /\ ~In(t, "publish")
      BY <2>0, <3>1, CallFields, FoundLeads DEF In
    <3> QED BY <2>0, <3>1, <3>2, <3>3, LedKept
  <2> QED BY <2>1, <2>2 DEF TableIInv
<1>8. ASSUME NEW t \in Threads, NEW h \in Handles, Create(t, h)
      PROVE  TableIInv'
  <2>0. /\ In(t, "entry") /\ table[call[t].key] = 0 /\ h \notin heap /\ made < MaxObjects
        /\ heap' = heap \cup {h}
        /\ mem' = [mem EXCEPT ![call[t].key] = h]
        /\ made' = made + 1
        /\ table' = [table EXCEPT ![call[t].key] = made + 1]
        /\ Moves(t, "publish", call[t].key, h, made + 1)
        /\ split' = (split \/ call[t].key # Slot)
        /\ UNCHANGED <<holder, gone, lockedAs>>
    <3>1. made + 1 \in 0..MaxObjects
      BY <1>8 DEF Create, TableTypeOK
    <3> QED BY <1>8, <3>1, CreateMoves DEF Create
  <2>1. TableTypeOK'
    BY <2>0, CallFields, MovesTyped DEF TableTypeOK, In, Keys, Objects
  <2>2. ASSUME ~split' PROVE KeysSound' /\ AliasMeant' /\ AllLed'
    <3>1. /\ ~split /\ KeysSound /\ AliasMeant /\ AllLed
          /\ call[t].key = Slot /\ table[Slot] = 0 /\ mem[Slot] = 0 /\ ~gone
      BY <2>0, <2>2 DEF TableTypeOK, KeysSound, AliasMeant
    <3>2. /\ made + 1 # 0 /\ table'[Slot] = made + 1 /\ mem'[Slot] = h
          /\ \A k \in Handles : table'[k] = table[k] /\ mem'[k] = 0
          /\ table[h] = 0
      BY <2>0, <3>1 DEF TableTypeOK, KeysSound, Keys
    <3>3. KeysSound'
      <4>1. \A k \in Keys : table'[k] <= made'
        BY <2>0, <3>1, <3>2 DEF TableTypeOK, KeysSound, Keys
      <4>2. ASSUME NEW j \in Keys, NEW k \in Keys, table'[j] # 0, table'[j] = table'[k]
            PROVE  SameMutex(j, k)'
        <5>1. \A i \in Handles : table'[i] # made + 1
          BY <3>1, <3>2 DEF TableTypeOK, KeysSound, Keys
        <5>2. CASE j = Slot \/ k = Slot
          BY <3>2, <4>2, <5>1, <5>2 DEF SameMutex, Keys
        <5>3. CASE j \in Handles /\ k \in Handles
          BY <3>1, <3>2, <4>2, <5>3 DEF SameMutex, KeysSound, Keys
        <5> QED BY <5>2, <5>3 DEF Keys
      <4> QED BY <2>0, <3>1, <3>2, <4>1, <4>2 DEF KeysSound
    <3>4. /\ In(t, "publish")' /\ call'[t].handle = h /\ call'[t].obj = made + 1
          /\ call'[t].key = Slot
          /\ \A u \in Threads : u # t => ~In(u, "publish") /\ ~In(u, "publish")'
      BY <2>0, <3>1 DEF Moves, In, AllLed, CallLed, TableTypeOK, Leads
    <3>5. AliasMeant'
      BY <2>0, <3>1, <3>2, <3>4 DEF AliasMeant, In
    <3>6. \A k \in Keys : Passes(k) => Passes(k)' /\ (k # Slot => k # h /\ Leads(k)' = Leads(k))
      BY <2>0, <3>1, <3>2 DEF Passes, Leads, KeysSound, Keys
    <3>7. ASSUME NEW u \in Threads PROVE CallLed(u)'
      <4>1. CASE u = t
        BY <3>1, <3>2, <3>4, <4>1 DEF CallLed, In, Passes, Leads
      <4>2. CASE u # t
        <5>1. CallLed(u) /\ call'[u] = call[u] /\ call[u].key \in Keys /\ ~In(u, "publish")
          BY <2>0, <3>1, <3>4, <4>2, CallFields DEF Moves, AllLed
        <5>2. In(u, "acquire") => call[u].key # Slot
          BY <3>1, <5>1 DEF TableTypeOK, CallLed, Leads
        <5>3. ~In(u, "alias")
          BY <3>1, <5>1 DEF TableTypeOK, CallLed
        <5>4. call[u].at \in {"deref", "entry"} => call[u].key = Slot
          BY <3>1, <5>1 DEF CallLed, Keys
        <5> QED BY <3>6, <5>1, <5>2, <5>3, <5>4 DEF CallLed, In
      <4> QED BY <4>1, <4>2
    <3>8. ASSUME NEW u \in Threads PROVE HoldLed(u)'
      <4>1. HoldLed(u) /\ lockedAs[u] \in Keys \cup {0} /\ lockedAs'[u] = lockedAs[u]
        BY <2>0, <3>1 DEF AllLed, TableTypeOK
      <4>2. lockedAs[u] # Slot
        BY <3>1, <4>1 DEF HoldLed, Leads, Keys
      <4>3. lockedAs[u] # 0 => /\ Passes(lockedAs[u])'
                               /\ Leads(lockedAs[u])' = Leads(lockedAs[u])
        BY <3>6, <4>1, <4>2 DEF HoldLed
      <4>4. lockedAs[u] # 0 => holder'[Leads(lockedAs[u])] = u /\ Leads(lockedAs[u]) # 0
        BY <2>0, <4>1 DEF HoldLed
      <4> QED BY <4>1, <4>3, <4>4 DEF HoldLed, Passes, Leads
    <3> QED BY <3>3, <3>5, <3>7, <3>8 DEF AllLed
  <2> QED BY <2>1, <2>2 DEF TableIInv
<1>9. ASSUME NEW t \in Threads, CreateFails(t)
      PROVE  TableIInv'
  <2>0. /\ In(t, "entry")
        /\ Moves(t, "idle", Slot, 0, 0)
        /\ UNCHANGED <<table, mem, heap, made, holder, gone, lockedAs, split>>
    BY <1>9, AnswerMoves DEF CreateFails
  <2>1. TableTypeOK'
    BY <2>0, CallFields, MovesTyped DEF TableTypeOK, In, Keys, Objects
  <2>2. ASSUME ~split' PROVE KeysSound' /\ AliasMeant' /\ AllLed'
    <3>1. ~split /\ KeysSound /\ AliasMeant /\ AllLed /\ CallLed(t) /\ HoldLed(t)
      BY <2>0, <2>2 DEF AllLed
    <3>2. \A u \in Threads : HoldLed(u)'
      BY <2>0, <3>1, HoldsKept
    <3> QED BY <2>0, <3>1, <3>2, CallFields, LedKept
           DEF KeysSound, SameMutex, CallLed, HoldLed, In, Keys, Leads, Passes
  <2> QED BY <2>1, <2>2 DEF TableIInv
<1>10. ASSUME NEW t \in Threads, Publish(t)
      PROVE  TableIInv'
  <2>0. /\ In(t, "publish")
        /\ table' = [table EXCEPT ![call[t].handle] = call[t].obj]
        /\ Moves(t, "acquire", call[t].key, call[t].handle, call[t].obj)
        /\ UNCHANGED <<mem, heap, made, holder, gone, lockedAs, split>>
    BY <1>10, AtMoves DEF Publish, CallPlaces
  <2>1. TableTypeOK'
    BY <2>0, CallFields, MovesTyped DEF TableTypeOK, In, Keys, Objects
  <2>2. ASSUME ~split' PROVE KeysSound' /\ AliasMeant' /\ AllLed'
    <3>1. ~split /\ KeysSound /\ AliasMeant /\ AllLed /\ CallLed(t)
      BY <2>0, <2>2 DEF AllLed
    <3>2. /\ mem[Slot] \in Handles /\ call[t].handle = mem[Slot] /\ call[t].key = Slot
          /\ call[t].obj = table[Slot] /\ table[Slot] # 0 /\ table[mem[Slot]] = 0 /\ ~gone
      BY <2>0, <3>1 DEF TableTypeOK, CallLed, Leads, AliasMeant, Keys
    <3>3. /\ table'[mem[Slot]] = table[Slot]
          /\ \A k \in Keys : k # mem[Slot] => table'[k] = table[k]
      BY <2>0, <3>2 DEF TableTypeOK, Keys
    <3>4. KeysSound'
      <4>1. table'[Slot] = table[Slot] /\ \A k \in Keys : table'[k] <= made
        BY <3>1, <3>2, <3>3 DEF KeysSound, Keys
      <4>2. ASSUME NEW j \in Keys, NEW k \in Keys, table'[j] # 0, table'[j] = table'[k]
            PROVE  SameMutex(j, k)'
        BY <2>0, <3>1, <3>2, <3>3, <4>2 DEF KeysSound, SameMutex, Keys
      <4>3. \A k \in Handles : table'[k] # 0 => k \in heap
        BY <3>1, <3>2, <3>3 DEF KeysSound, Keys
      <4> QED BY <2>0, <3>1, <3>2, <3>3, <4>1, <4>2, <4>3 DEF KeysSound
    <3>5. \A u \in Threads : ~In(u, "publish")'
      BY <2>0, <3>1 DEF AliasMeant, Moves, In
    <3>6. AliasMeant'
      BY <2>0, <3>2, <3>3, <3>5 DEF AliasMeant
    <3>7. \A k \in Keys : Leads(k)' = Leads(k) /\ (Passes(k) => Passes(k)')
      BY <2>0, <3>2, <3>3 DEF Leads, Passes, Keys
    <3>8. ASSUME NEW u \in Threads PROVE CallLed(u)'
      <4>1. CallLed(u) /\ call[u].key \in Keys
        BY <3>1, CallFields DEF AllLed
      <4>2. CASE u = t
        BY <2>0, <3>2, <3>7, <4>1, <4>2 DEF CallLed, Moves, In
      <4>3. CASE u # t
        BY <2>0, <3>5, <3>7, <4>1, <4>3 DEF CallLed, Moves, In
      <4> QED BY <4>2, <4>3
    <3>9. ASSUME NEW u \in Threads PROVE HoldLed(u)'
      BY <2>0, <3>1, <3>7 DEF AllLed, HoldLed, TableTypeOK
    <3> QED BY <3>4, <3>6, <3>8, <3>9 DEF AllLed
  <2> QED BY <2>1, <2>2 DEF TableIInv
<1>11. ASSUME NEW t \in Threads, Acquire(t)
      PROVE  TableIInv'
  <2>0. /\ In(t, "acquire") /\ holder[call[t].obj] = NoThread
        /\ holder' = [holder EXCEPT ![call[t].obj] = t]
        /\ lockedAs' = [lockedAs EXCEPT ![t] = call[t].key]
        /\ Moves(t, "idle", Slot, 0, 0)
        /\ UNCHANGED <<table, mem, heap, made, gone, split>>
    BY <1>11, AnswerMoves DEF Acquire
  <2>1. TableTypeOK'
    BY <2>0, CallFields, MovesTyped DEF TableTypeOK, In, Keys, Objects
  <2>2. ASSUME ~split' PROVE KeysSound' /\ AliasMeant' /\ AllLed'
    <3>1. ~split /\ KeysSound /\ AliasMeant /\ AllLed /\ CallLed(t) /\ HoldLed(t)
      BY <2>0, <2>2 DEF AllLed
    <3>2. /\ call[t].obj = Leads(call[t].key) /\ call[t].obj \in Objects
          /\ call[t].key \in Keys /\ Passes(call[t].key)
      BY <2>0, <3>1, CallFields DEF CallLed, In, TableTypeOK, Objects
    <3>3. ASSUME NEW u \in Threads PROVE HoldLed(u)'
      <4>1. CASE u = t
        BY <2>0, <3>2, <4>1 DEF HoldLed, TableTypeOK, Leads, Passes, Objects
      <4>2. CASE u # t
        <5>1. HoldLed(u) /\ lockedAs'[u] = lockedAs[u]
          BY <2>0, <3>1, <4>2 DEF AllLed, TableTypeOK
        <5>2. lockedAs[u] # 0 => Leads(lockedAs[u]) # call[t].obj
          BY <2>0, <5>1 DEF HoldLed
        <5>3. lockedAs[u] # 0 => holder'[Leads(lockedAs[u])] = holder[Leads(lockedAs[u])]
          BY <2>0, <5>2 DEF TableTypeOK
        <5> QED BY <2>0, <5>1, <5>3 DEF HoldLed, Leads, Passes
      <4> QED BY <4>1, <4>2
    <3> QED BY <2>0, <3>1, <3>3, LedKept DEF In
  <2> QED BY <2>1, <2>2 DEF TableIInv
<1>12. ASSUME NEW t \in Threads, Busy(t)
      PROVE  TableIInv'
  <2>0. /\ In(t, "acquire")
        /\ Moves(t, "idle", Slot, 0, 0)
        /\ UNCHANGED <<table, mem, heap, made, holder, gone, lockedAs, split>>
    BY <1>12, AnswerMoves DEF Busy
  <2>1. TableTypeOK'
    BY <2>0, CallFields, MovesTyped DEF TableTypeOK, In, Keys, Objects
  <2>2. ASSUME ~split' PROVE KeysSound' /\ AliasMeant' /\ AllLed'
    <3>1. ~split /\ KeysSound /\ AliasMeant /\ AllLed /\ CallLed(t) /\ HoldLed(t)
      BY <2>0, <2>2 DEF AllLed
    <3>2. \A u \in Threads : HoldLed(u)'
      BY <2>0, <3>1, HoldsKept
    <3> QED BY <2>0, <3>1, <3>2, CallFields, LedKept
           DEF KeysSound, SameMutex, CallLed, HoldLed, In, Keys, Leads, Passes
  <2> QED BY <2>1, <2>2 DEF TableIInv
<1>13. ASSUME NEW t \in Threads, Release(t)
      PROVE  TableIInv'
  <2>0. /\ In(t, "acquire")
        /\ \/ /\ holder[call[t].obj] = t
              /\ holder' = [holder EXCEPT ![call[t].obj] = NoThread]
              /\ lockedAs' = [lockedAs EXCEPT ![t] = 0]
           \/ UNCHANGED <<holder, lockedAs>>
        /\ Moves(t, "idle", Slot, 0, 0)
        /\ UNCHANGED <<table, mem, heap, made, gone, split>>
    BY <1>13, AnswerMoves DEF Release
  <2>1. TableTypeOK'
    BY <2>0, CallFields, MovesTyped DEF TableTypeOK, In, Keys, Objects
  <2>2. ASSUME ~split' PROVE KeysSound' /\ AliasMeant' /\ AllLed'
    <3>1. ~split /\ KeysSound /\ AliasMeant /\ AllLed /\ CallLed(t) /\ HoldLed(t)
      BY <2>0, <2>2 DEF AllLed
    <3>2. /\ call[t].obj = Leads(call[t].key) /\ call[t].obj \in Objects
          /\ call[t].key \in Keys /\ Passes(call[t].key)
      BY <2>0, <3>1, CallFields DEF CallLed, In, TableTypeOK, Objects
    <3>3. ASSUME NEW u \in Threads PROVE HoldLed(u)'
      <4>1. CASE UNCHANGED <<holder, lockedAs>>
        BY <2>0, <3>1, <4>1, HoldsKept
      <4>2. CASE ~UNCHANGED <<holder, lockedAs>> /\ u = t
        BY <2>0, <4>2 DEF HoldLed, TableTypeOK
      <4>3. CASE ~UNCHANGED <<holder, lockedAs>> /\ u # t
        <5>1. HoldLed(u) /\ lockedAs'[u] = lockedAs[u]
          BY <2>0, <3>1, <4>3 DEF AllLed, TableTypeOK
        <5>2. /\ holder[call[t].obj] = t
              /\ holder' = [holder EXCEPT ![call[t].obj] = NoThread]
          BY <2>0, <4>3
        <5>3. lockedAs[u] # 0 => holder'[Leads(lockedAs[u])] = holder[Leads(lockedAs[u])]
          BY <4>3, <5>1, <5>2 DEF TableTypeOK, HoldLed
        <5>4. UNCHANGED <<table, mem>>
          BY <2>0
        <5> QED BY <5>1, <5>3, <5>4 DEF HoldLed, Leads, Passes
      <4> QED BY <4>1, <4>2, <4>3
    <3> QED BY <2>0, <3>1, <3>3, LedKept DEF In
  <2> QED BY <2>1, <2>2 DEF TableIInv
<1>14. ASSUME NEW h \in Handles, MutexInit(h)
      PROVE  TableIInv'
  <2>1. TableTypeOK'
    <3>1. /\ table' \in [Keys -> 0..MaxObjects] /\ mem' \in [Keys -> Handles \cup {0}]
          /\ made' \in 0..MaxObjects /\ heap' \subseteq Handles
      BY <1>14 DEF TableTypeOK, MutexInit, Keys
    <3> QED BY <1>14, <3>1 DEF TableTypeOK, In, MutexInit
  <2>2. ASSUME ~split' PROVE KeysSound' /\ AliasMeant' /\ AllLed'
    <3>1. KeysSound /\ made \in Nat
      BY <1>14, <2>2 DEF TableTypeOK, MutexInit
    <3>2. /\ table'[Slot] = made + 1 /\ table'[h] = made + 1 /\ mem'[Slot] = h
          /\ made' = made + 1 /\ heap' = heap \cup {h} /\ ~gone'
          /\ \A k \in Handles : mem'[k] = 0 /\ (k # h => table'[k] = table[k])
      BY <1>14, <3>1 DEF MutexInit, TableTypeOK, KeysSound, Keys
    <3>3. \A k \in Handles : k # h => table'[k] # made + 1 /\ table'[k] <= made + 1
      BY <3>1, <3>2 DEF TableTypeOK, KeysSound, Keys
    <3>4. ASSUME NEW j \in Keys, NEW k \in Keys, table'[j] # 0, table'[j] = table'[k]
          PROVE  SameMutex(j, k)'
      <4>1. CASE j \in {Slot, h} \/ k \in {Slot, h}
        BY <3>2, <3>3, <3>4, <4>1 DEF SameMutex, Keys
      <4>2. CASE j \notin {Slot, h} /\ k \notin {Slot, h}
        BY <3>1, <3>2, <3>4, <4>2 DEF SameMutex, KeysSound, Keys
      <4> QED BY <4>1, <4>2
    <3>5. KeysSound'
      BY <3>1, <3>2, <3>3, <3>4 DEF KeysSound, Keys
    <3>6. AllLed' /\ \A u \in Threads : ~In(u, "publish")'
      BY <1>14, UnusedLed DEF MutexInit
    <3>7. AliasMeant'
      BY <3>1, <3>2, <3>6 DEF AliasMeant
    <3> QED BY <3>5, <3>6, <3>7
  <2> QED BY <2>1, <2>2 DEF TableIInv
<1>15. ASSUME NEW h \in Handles, MutexInitFails(h)
      PROVE  TableIInv'
  <2>1. TableTypeOK'
    BY <1>15 DEF TableTypeOK, In, MutexInitFails
  <2>2. ASSUME ~split' PROVE KeysSound' /\ AliasMeant' /\ AllLed'
    <3>1. ~split /\ UNCHANGED <<table, mem, made, gone, call, lockedAs>> /\ heap \subseteq heap'
      BY <1>15, <2>2 DEF MutexInitFails
    <3>2. KeysSound'
      BY <3>1 DEF KeysSound, SameMutex
    <3>3. AllLed'
      BY <1>15, UnusedLed DEF MutexInitFails
    <3>4. AliasMeant'
      BY <3>1 DEF AliasMeant, In
    <3> QED BY <3>2, <3>3, <3>4
  <2> QED BY <2>1, <2>2 DEF TableIInv
<1>16. ASSUME NEW k \in Keys, Destroy(k)
      PROVE  TableIInv'
  <2>1. TableTypeOK'
    BY <1>16 DEF TableTypeOK, In, Destroy, Unused, Keys, Objects
  <2>2. ASSUME ~split' PROVE KeysSound' /\ AliasMeant' /\ AllLed'
    <3>1. KeysSound /\ AliasMeant /\ made' = made
      BY <1>16, <2>2 DEF Destroy
    <3>2. /\ \A j \in Keys : table'[j] = IF j \in {k, mem[k]} THEN 0 ELSE table[j]
          /\ heap' = heap \ {mem[k]}
          /\ \A j \in Keys : mem'[j] = IF j = k THEN 0 ELSE mem[j]
          /\ gone' = (k = mem[Slot] \/ (k # Slot /\ gone))
          /\ table[k] # 0 \/ (mem[k] # 0 /\ table[mem[k]] # 0)
      BY <1>16 DEF Destroy, TableTypeOK
    <3>3. AllLed' /\ \A u \in Threads : ~In(u, "publish") /\ ~In(u, "publish")'
      BY <1>16, UnusedLed DEF Destroy
    <3>4. CASE k = Slot
      <4>1. mem'[Slot] = 0 /\ table'[Slot] = 0 /\ ~gone'
        <5>1. Slot # mem[Slot] /\ Slot \in Keys
          BY DEF TableTypeOK, Keys
        <5> QED BY <3>2, <3>4, <5>1
      <4>2. ASSUME NEW i \in Keys, NEW j \in Keys, table'[i] # 0, table'[i] = table'[j]
            PROVE  SameMutex(i, j)'
        <5>1. SameMutex(i, j) /\ i # Slot /\ j # Slot
          BY <3>1, <3>2, <3>4, <4>2 DEF KeysSound
        <5> QED BY <5>1 DEF SameMutex
      <4>3. KeysSound'
        BY <3>1, <3>2, <3>4, <4>1, <4>2 DEF TableTypeOK, KeysSound, Keys
      <4>4. AliasMeant'
        BY <3>3, <4>1 DEF AliasMeant
      <4> QED BY <3>3, <4>3, <4>4
    <3>5. CASE k # Slot
      <4>1. /\ k \in Handles /\ mem[k] = 0
            /\ table'[k] = 0 /\ \A j \in Keys : j # k => table'[j] = table[j]
            /\ heap' = heap /\ \A j \in Keys : mem'[j] = mem[j]
        <5>1. k \in Handles /\ mem[k] = 0 /\ 0 \notin Keys /\ heap \subseteq Handles
          BY <3>1, <3>5 DEF KeysSound, TableTypeOK, Keys
        <5>2. table'[k] = 0 /\ \A j \in Keys : j # k => table'[j] = table[j]
          BY <3>2, <5>1
        <5>3. heap' = heap /\ \A j \in Keys : mem'[j] = mem[j]
          BY <3>2, <5>1
        <5> QED BY <5>1, <5>2, <5>3
      <4>2. ASSUME NEW i \in Keys, NEW j \in Keys, table'[i] # 0, table'[i] = table'[j]
            PROVE  SameMutex(i, j)'
        BY <3>1, <4>1, <4>2 DEF SameMutex, KeysSound, Keys
      <4>3. KeysSound'
        BY <3>1, <3>5, <4>1, <4>2 DEF TableTypeOK, KeysSound, Keys
      <4>4. AliasMeant'
        <5>1. mem'[Slot] = mem[Slot] /\ mem[Slot] \in Keys \cup {0}
          BY <4>1 DEF TableTypeOK, Keys
        <5>2. CASE k = mem[Slot]
          BY <3>2, <3>3, <4>1, <5>1, <5>2 DEF AliasMeant
        <5>3. CASE k # mem[Slot]
          BY <3>1, <3>2, <3>3, <3>5, <4>1, <5>1, <5>3 DEF AliasMeant
        <5> QED BY <5>2, <5>3
      <4> QED BY <3>3, <4>3, <4>4
    <3> QED BY <3>4, <3>5
  <2> QED BY <2>1, <2>2 DEF TableIInv
<1>17. ASSUME UNCHANGED tableVars PROVE TableIInv'
  <2>1. TableTypeOK'
    BY <1>17 DEF tableVars, TableTypeOK, In
  <2>2. ASSUME ~split' PROVE KeysSound' /\ AliasMeant' /\ AllLed'
    BY <1>17, <2>2 DEF tableVars, KeysSound, AliasMeant, AllLed, CallLed, HoldLed, In, Leads,
                       Passes, SameMutex
  <2> QED BY <2>1, <2>2 DEF TableIInv
<1> QED
  BY <1>1, <1>2, <1>3, <1>4, <1>5, <1>6, <1>7, <1>8, <1>9, <1>10, <1>11, <1>12, <1>13,
     <1>14, <1>15, <1>16, <1>17 DEF TableNext

(***************************************************************************)
(* A mutex that several threads touch first, under the slot or under its   *)
(* handle, is one mutex, after any inits, re-inits and destroys: at most   *)
(* one thread holds it, and the keys left over lead somewhere else.        *)
(***************************************************************************)
THEOREM TableIsOneMutex == TableSpec => []TableInv
<1>1. TableIInv => TableInv
  <2> SUFFICES ASSUME TableIInv PROVE TableInv
    OBVIOUS
  <2>1. OneMutex
    <3> SUFFICES ASSUME ~split, NEW t \in Threads, NEW u \in Threads,
                        lockedAs[t] # 0, lockedAs[u] # 0, SameMutex(lockedAs[t], lockedAs[u])
                 PROVE  t = u
      BY DEF OneMutex
    <3>1. HoldLed(t) /\ HoldLed(u)
      BY DEF TableIInv, AllLed
    <3>2. Leads(lockedAs[t]) = Leads(lockedAs[u])
      BY DEF SameMutex, Leads
    <3> QED BY <3>1, <3>2 DEF HoldLed
  <2>2. KeysAgree
    BY KeysDistinct DEF TableIInv, TableTypeOK, KeysSound, AliasMeant, KeysAgree, Keys
  <2> QED BY <2>1, <2>2 DEF TableInv
<1> QED BY <1>1, InitTableIInv, StepTableIInv, PTL DEF TableSpec

===============================================================================
