---------------------------- MODULE PosixSemProofs ----------------------------
(***************************************************************************)
(* Proofs about PosixSem and the ExceptionDelivery inside it, for every    *)
(* finite set of threads, any number of raises and of semaphore objects,   *)
(* and every ceiling of the count.                                         *)
(***************************************************************************)
EXTENDS PosixSem, FiniteSetTheorems, TLAPS

(***************************************************************************)
(* What exception delivery needs besides its two properties.               *)
(*                                                                         *)
(* A thread is in the middle of a table update only where it makes one;    *)
(* its handler frame is on the stack exactly in the handler and at the     *)
(* safe points of the handler, where the mark tells it apart.              *)
(***************************************************************************)
PlacesMeant ==
    \A t \in Threads :
      /\ pc[t] \in {"checked", "delivering", "dead"} => sync[t] = "idle"
      /\ pc[t] = "handler" => depth[t] = 1
      /\ pc[t] \notin {"handler", "checked"} => depth[t] = 0
      /\ pc[t] = "checked" => (t \in active <=> depth[t] = 1)

(***************************************************************************)
(* A queued raise is the newest one, and a claimed raise is the newest one *)
(* unless a newer one is queued.                                           *)
(***************************************************************************)
RaisesMeant ==
    \A t \in Threads :
      /\ claimed[t] # 0 <=> pc[t] \in {"claiming", "delivering"}
      /\ pending[t] # 0 => pending[t] = latest[t]
      /\ claimed[t] # 0 /\ pending[t] = 0 => claimed[t] = latest[t]

ExcIInv ==
    /\ ExceptionTypeOK
    /\ NewestRaiseKept
    /\ DeliveriesExclusive
    /\ PlacesMeant
    /\ RaisesMeant

(***************************************************************************)
(* What the semaphore needs: frames without a call are empty, calls are    *)
(* about objects that were made, and a thread that is delivering is not    *)
(* also asleep.                                                            *)
(***************************************************************************)
FramesMeant ==
    \A t \in Threads :
      /\ \A d \in Levels : /\ frame[t][d].at = "none" => frame[t][d] = NoCall
                           /\ frame[t][d].obj <= made
      /\ pc[t] \notin {"guest", "handler"} => Call(t).at \in {"none", "delivering"}

PosixIInv == ExcIInv /\ PosixInv /\ FramesMeant

-------------------------------------------------------------------------------
(***************************************************************************)
(* Numbers of threads and of raises.                                       *)
(***************************************************************************)
LEMMA CountFacts ==
  /\ Cardinality(Threads) \in Nat
  /\ \A T \in SUBSET Threads :
       IsFiniteSet(T) /\ Cardinality(T) \in 0..Cardinality(Threads)
<1>1. Cardinality(Threads) \in Nat
  BY ThreadsFinite, FS_CardinalityType
<1>2. ASSUME NEW T \in SUBSET Threads
      PROVE  IsFiniteSet(T) /\ Cardinality(T) \in 0..Cardinality(Threads)
  <2>1. IsFiniteSet(T) /\ Cardinality(T) <= Cardinality(Threads)
    BY ThreadsFinite, FS_Subset
  <2>2. Cardinality(T) \in Nat
    BY <2>1, FS_CardinalityType
  <2> QED BY <1>1, <2>1, <2>2
<1> QED BY <1>1, <1>2

(***************************************************************************)
(* The numbers the actions write stay in their ranges.                     *)
(***************************************************************************)
LEMMA NumberFacts ==
  /\ 0 \in Raises /\ 0 \in 0..Cardinality(Threads)
  /\ 0 \in 0..1 /\ 1 \in 0..1
  /\ \A r \in Raises : r < MaxRaises => r + 1 \in Raises /\ r + 1 # 0
BY MaxRaisesAssumption, CountFacts DEF Raises

(***************************************************************************)
(* The initial state satisfies the invariant of exception delivery.        *)
(***************************************************************************)
LEMMA InitExcIInv == Init => ExcIInv
<1> SUFFICES ASSUME Init PROVE ExcIInv
  OBVIOUS
<1>2. ExceptionTypeOK
  BY NumberFacts DEF Init, ExceptionTypeOK, Pcs
<1>3. NewestRaiseKept
  BY DEF Init, NewestRaiseKept
<1>4. DeliveriesExclusive /\ PlacesMeant /\ RaisesMeant
  BY DEF Init, DeliveriesExclusive, PlacesMeant, RaisesMeant
<1> QED BY <1>2, <1>3, <1>4 DEF ExcIInv

(***************************************************************************)
(* Every step of exception delivery preserves its invariant.               *)
(***************************************************************************)
LEMMA StepExcIInv == ExcIInv /\ [Next]_vars => ExcIInv'
<1> SUFFICES ASSUME ExcIInv, [Next]_vars PROVE ExcIInv'
  OBVIOUS
<1>0. ExceptionTypeOK /\ NewestRaiseKept /\ DeliveriesExclusive /\ PlacesMeant /\ RaisesMeant
  BY DEF ExcIInv
<1> USE <1>0 DEF ExceptionTypeOK
<1>1. ASSUME NEW t \in Threads, NEW u \in Threads, Raise(t, u) PROVE ExcIInv'
  <2>1. ExceptionTypeOK'
    BY <1>1, NumberFacts DEF Pcs, PlacesMeant, Raise, StartSync, InGuestCode
  <2>2. DeliveriesExclusive' /\ PlacesMeant'
    BY <1>1 DEF DeliveriesExclusive, PlacesMeant, Raise, StartSync, InGuestCode
  <2>3. RaisesMeant'
    BY <1>1, NumberFacts DEF PlacesMeant, RaisesMeant, Raise, StartSync, InGuestCode
  <2>4. NewestRaiseKept'
    BY <1>1 DEF NewestRaiseKept, RaisesMeant, Raises, Raise, StartSync, InGuestCode
  <2> QED BY <2>1, <2>2, <2>3, <2>4 DEF ExcIInv
<1>2. ASSUME NEW t \in Threads, SyncReads(t) PROVE ExcIInv'
  <2>1. ExceptionTypeOK'
    BY <1>2, NumberFacts, CountFacts DEF Pcs, PlacesMeant, SyncReads
  <2>2. DeliveriesExclusive' /\ PlacesMeant'
    BY <1>2 DEF DeliveriesExclusive, PlacesMeant, SyncReads
  <2>3. RaisesMeant'
    BY <1>2, NumberFacts DEF PlacesMeant, RaisesMeant, SyncReads
  <2>4. NewestRaiseKept'
    BY <1>2 DEF NewestRaiseKept, RaisesMeant, Raises, SyncReads
  <2> QED BY <2>1, <2>2, <2>3, <2>4 DEF ExcIInv
<1>3. ASSUME NEW t \in Threads, SyncStores(t) PROVE ExcIInv'
  <2>1. ExceptionTypeOK'
    BY <1>3, NumberFacts DEF Pcs, PlacesMeant, SyncStores, Resumed
  <2>2. DeliveriesExclusive' /\ PlacesMeant'
    BY <1>3 DEF DeliveriesExclusive, PlacesMeant, SyncStores, Resumed
  <2>3. RaisesMeant'
    BY <1>3, NumberFacts DEF PlacesMeant, RaisesMeant, SyncStores, Resumed
  <2>4. NewestRaiseKept'
    BY <1>3 DEF NewestRaiseKept, RaisesMeant, Raises, SyncStores, Resumed
  <2> QED BY <2>1, <2>2, <2>3, <2>4 DEF ExcIInv
<1>4. ASSUME NEW t \in Threads, SafePoint(t) PROVE ExcIInv'
  <2>1. ExceptionTypeOK'
    BY <1>4, NumberFacts DEF Pcs, PlacesMeant, SafePoint, InGuestCode
  <2>2. DeliveriesExclusive' /\ PlacesMeant'
    BY <1>4 DEF DeliveriesExclusive, PlacesMeant, SafePoint, InGuestCode
  <2>3. RaisesMeant'
    BY <1>4, NumberFacts DEF PlacesMeant, RaisesMeant, SafePoint, InGuestCode
  <2>4. NewestRaiseKept'
    BY <1>4 DEF NewestRaiseKept, RaisesMeant, Raises, SafePoint, InGuestCode
  <2> QED BY <2>1, <2>2, <2>3, <2>4 DEF ExcIInv
<1>5. ASSUME NEW t \in Threads, Claim(t) PROVE ExcIInv'
  <2>1. ExceptionTypeOK'
    BY <1>5, NumberFacts DEF Pcs, PlacesMeant, Claim, StartSync
  <2>2. DeliveriesExclusive' /\ PlacesMeant'
    BY <1>5 DEF DeliveriesExclusive, PlacesMeant, Claim, StartSync
  <2>3. RaisesMeant'
    BY <1>5, NumberFacts DEF PlacesMeant, RaisesMeant, Claim, StartSync
  <2>4. NewestRaiseKept'
    BY <1>5 DEF NewestRaiseKept, RaisesMeant, Raises, Claim, StartSync
  <2> QED BY <2>1, <2>2, <2>3, <2>4 DEF ExcIInv
<1>6. ASSUME NEW t \in Threads, NothingToClaim(t) PROVE ExcIInv'
  <2>1. ExceptionTypeOK'
    BY <1>6, NumberFacts DEF Pcs, PlacesMeant, NothingToClaim, Resumed
  <2>2. DeliveriesExclusive' /\ PlacesMeant'
    BY <1>6 DEF DeliveriesExclusive, PlacesMeant, NothingToClaim, Resumed
  <2>3. RaisesMeant'
    BY <1>6, NumberFacts DEF PlacesMeant, RaisesMeant, NothingToClaim, Resumed
  <2>4. NewestRaiseKept'
    BY <1>6 DEF NewestRaiseKept, RaisesMeant, Raises, NothingToClaim, Resumed
  <2> QED BY <2>1, <2>2, <2>3, <2>4 DEF ExcIInv
<1>7. ASSUME NEW t \in Threads, Defer(t) PROVE ExcIInv'
  <2>1. ExceptionTypeOK'
    BY <1>7, NumberFacts DEF Pcs, PlacesMeant, Defer, StartSync
  <2>2. DeliveriesExclusive' /\ PlacesMeant'
    BY <1>7 DEF DeliveriesExclusive, PlacesMeant, Defer, StartSync
  <2>3. RaisesMeant'
    BY <1>7, NumberFacts DEF PlacesMeant, RaisesMeant, Defer, StartSync
  <2>4. NewestRaiseKept'
    BY <1>7 DEF NewestRaiseKept, RaisesMeant, Raises, Defer, StartSync
  <2> QED BY <2>1, <2>2, <2>3, <2>4 DEF ExcIInv
<1>8. ASSUME NEW t \in Threads, Abandon(t) PROVE ExcIInv'
  <2>1. ExceptionTypeOK'
    BY <1>8, NumberFacts DEF Pcs, PlacesMeant, Abandon, Resumed
  <2>2. DeliveriesExclusive' /\ PlacesMeant'
    BY <1>8 DEF DeliveriesExclusive, PlacesMeant, Abandon, Resumed
  <2>3. RaisesMeant'
    BY <1>8, NumberFacts DEF PlacesMeant, RaisesMeant, Abandon, Resumed
  <2>4. NewestRaiseKept'
    BY <1>8 DEF NewestRaiseKept, RaisesMeant, Raises, Abandon, Resumed
  <2> QED BY <2>1, <2>2, <2>3, <2>4 DEF ExcIInv
<1>9. ASSUME NEW t \in Threads, RunHandler(t) PROVE ExcIInv'
  <2>1. ExceptionTypeOK'
    BY <1>9, NumberFacts DEF Pcs, PlacesMeant, RunHandler
  <2>2. DeliveriesExclusive' /\ PlacesMeant'
    BY <1>9 DEF DeliveriesExclusive, PlacesMeant, RunHandler
  <2>3. RaisesMeant'
    BY <1>9, NumberFacts DEF PlacesMeant, RaisesMeant, RunHandler
  <2>4. NewestRaiseKept'
    BY <1>9 DEF NewestRaiseKept, RaisesMeant, Raises, RunHandler
  <2> QED BY <2>1, <2>2, <2>3, <2>4 DEF ExcIInv
<1>10. ASSUME NEW t \in Threads, HandlerReturns(t) PROVE ExcIInv'
  <2>1. ExceptionTypeOK'
    BY <1>10, NumberFacts DEF Pcs, PlacesMeant, HandlerReturns
  <2>2. DeliveriesExclusive' /\ PlacesMeant'
    BY <1>10 DEF DeliveriesExclusive, PlacesMeant, HandlerReturns
  <2>3. RaisesMeant'
    BY <1>10, NumberFacts DEF PlacesMeant, RaisesMeant, HandlerReturns
  <2>4. NewestRaiseKept'
    BY <1>10 DEF NewestRaiseKept, RaisesMeant, Raises, HandlerReturns
  <2> QED BY <2>1, <2>2, <2>3, <2>4 DEF ExcIInv
<1>11. ASSUME NEW t \in Threads, ThreadExit(t) PROVE ExcIInv'
  <2>1. ExceptionTypeOK'
    BY <1>11, NumberFacts DEF Pcs, PlacesMeant, ThreadExit, StartSync, InGuestCode
  <2>2. DeliveriesExclusive' /\ PlacesMeant'
    BY <1>11 DEF DeliveriesExclusive, PlacesMeant, ThreadExit, StartSync, InGuestCode
  <2>3. RaisesMeant'
    BY <1>11, NumberFacts DEF PlacesMeant, RaisesMeant, ThreadExit, StartSync, InGuestCode
  <2>4. NewestRaiseKept'
    BY <1>11 DEF NewestRaiseKept, RaisesMeant, Raises, ThreadExit, StartSync, InGuestCode
  <2> QED BY <2>1, <2>2, <2>3, <2>4 DEF ExcIInv
<1>12. ASSUME BeginTermination PROVE ExcIInv'
  <2>1. ExceptionTypeOK'
    BY <1>12, NumberFacts DEF Pcs, PlacesMeant, BeginTermination
  <2>2. DeliveriesExclusive' /\ PlacesMeant'
    BY <1>12 DEF DeliveriesExclusive, PlacesMeant, BeginTermination
  <2>3. RaisesMeant'
    BY <1>12, NumberFacts DEF PlacesMeant, RaisesMeant, BeginTermination
  <2>4. NewestRaiseKept'
    BY <1>12 DEF NewestRaiseKept, RaisesMeant, Raises, BeginTermination
  <2> QED BY <2>1, <2>2, <2>3, <2>4 DEF ExcIInv
<1>13. ASSUME UNCHANGED vars PROVE ExcIInv'
  BY <1>13 DEF vars, ExcIInv, NewestRaiseKept, DeliveriesExclusive, PlacesMeant, RaisesMeant
<1> QED
  BY <1>1, <1>2, <1>3, <1>4, <1>5, <1>6, <1>7, <1>8, <1>9, <1>10, <1>11, <1>12, <1>13 DEF Next

(***************************************************************************)
(* Semaphores leave exception delivery as it is: every step of the         *)
(* composition is a step of exception delivery or none.                    *)
(***************************************************************************)
LEMMA StepIsDeliveryStep == [PosixNext]_allVars => [Next]_vars
<1> SUFFICES ASSUME [PosixNext]_allVars PROVE [Next]_vars
  OBVIOUS
<1>1. ASSUME NEW t \in Threads, SemCall(t) \/ Post(t) \/ TryWait(t) \/ LimitPasses(t)
      PROVE  UNCHANGED vars
  BY <1>1 DEF SemCall, SemInit, SemDestroy, Resolve, Post, TryWait, LimitPasses
<1>2. ASSUME NEW t \in Threads, WaitStep(t) PROVE SafePoint(t) \/ UNCHANGED vars
  BY <1>2 DEF WaitStep, Take, Interrupted, FindsRaise, DeliverStarts, DeliverSkipped,
              DeliverOver, TimesOut, Park, SliceEnds
<1>3. ASSUME NEW t \in Threads,
             GuestException(t) \/ HandlerEnds(t) \/ DeliveryStep(t) \/ EndThread(t)
      PROVE  Next
  BY <1>3 DEF GuestException, HandlerEnds, DeliveryStep, EndThread, Next
<1>4. ASSUME Terminate PROVE Next
  BY <1>4 DEF Terminate, Next
<1>5. ASSUME UNCHANGED allVars PROVE UNCHANGED vars
  BY <1>5 DEF allVars
<1> QED BY <1>1, <1>2, <1>3, <1>4, <1>5 DEF PosixNext, Next

(***************************************************************************)
(* Exception delivery, with semaphore calls that run handlers in the       *)
(* middle of a wait, is exception delivery.                                *)
(***************************************************************************)
THEOREM DeliveryUnderSemaphores == PosixSpec => Spec
<1>1. PosixInit => Init
  BY DEF PosixInit
<1> QED BY <1>1, StepIsDeliveryStep, PTL DEF PosixSpec, Spec

(***************************************************************************)
(* The invariant of exception delivery, alone and under semaphores.        *)
(***************************************************************************)
THEOREM DeliveryInvariance == Spec => []ExcIInv
BY InitExcIInv, StepExcIInv, PTL DEF Spec

(***************************************************************************)
(* The newest raise at a thread is queued, claimed or settled: no          *)
(* concurrent raise and no deferred delivery loses it.                     *)
(***************************************************************************)
THEOREM NewestRaiseSafe == PosixSpec => []NewestRaiseKept
<1>1. ExcIInv => NewestRaiseKept
  BY DEF ExcIInv
<1> QED BY <1>1, DeliveryUnderSemaphores, DeliveryInvariance, PTL

(***************************************************************************)
(* Deliveries never nest, and the delivering mark is on a thread exactly   *)
(* while it delivers, also when the delivery runs inside sem_wait.         *)
(***************************************************************************)
THEOREM DeliveriesNeverNest == PosixSpec => []DeliveriesExclusive
<1>1. ExcIInv => DeliveriesExclusive
  BY DEF ExcIInv
<1> QED BY <1>1, DeliveryUnderSemaphores, DeliveryInvariance, PTL

-------------------------------------------------------------------------------
(***************************************************************************)
(* Who sleeps on an object and who will look at it is told by the call     *)
(* each thread is running, not by the one it has suspended.                *)
(***************************************************************************)
AtIsCall ==
    \A o \in Objects :
      /\ At("wait", o) = {t \in Threads : Call(t).at = "wait" /\ Call(t).obj = o}
      /\ At("parked", o) = {t \in Threads : Call(t).at = "parked" /\ Call(t).obj = o}

(***************************************************************************)
(* A thread has a call on the outer level that is looking or parked only   *)
(* while that is the call it is running.                                   *)
(***************************************************************************)
LEMMA AtFacts == PosixTypeOK => AtIsCall
<1> SUFFICES ASSUME PosixTypeOK PROVE AtIsCall
  OBVIOUS
<1>1. ASSUME NEW p \in {"wait", "parked"}, NEW o, NEW t \in Threads
      PROVE  (\E d \in Levels : d <= depth[t] /\ frame[t][d].at = p /\ frame[t][d].obj = o)
               <=> Call(t).at = p /\ Call(t).obj = o
  <2>1. Levels = {0, 1} /\ 0 <= 0 /\ 0 <= 1 /\ 1 <= 1 /\ ~(1 <= 0)
    BY DEF Levels
  <2>2. depth[t] \in {0, 1}
    BY <2>1 DEF PosixTypeOK, ExceptionTypeOK, Levels
  <2>3. CASE depth[t] = 0
    BY <2>1, <2>3 DEF Call
  <2>4. CASE depth[t] = 1
    BY <2>1, <2>4 DEF Call, PosixTypeOK
  <2> QED BY <2>2, <2>3, <2>4
<1> QED BY <1>1 DEF AtIsCall, At

(***************************************************************************)
(* What the call of one thread may do without leaving a post behind: at an *)
(* object whose count is zero, or that nobody sleeps on; or it neither     *)
(* puts itself to sleep there nor stops looking at a count it leaves; or   *)
(* it takes the count it stops looking at.                                 *)
(***************************************************************************)
Harmless(t, c, v, o) ==
    \/ v[o] = 0
    \/ /\ ~(c.at = "parked" /\ c.obj = o)
       /\ \/ At("parked", o) = {}
          \/ v[o] + 1 <= value[o]
          \/ v[o] <= value[o] /\ ~(Call(t).at = "wait" /\ Call(t).obj = o)

(***************************************************************************)
(* A step of one thread whose call is harmless at every object leaves no   *)
(* post behind on a parked waiter.                                         *)
(***************************************************************************)
LEMMA ReachKept ==
  ASSUME PosixTypeOK, PosixTypeOK', PostsReachWaiters, NEW t \in Threads,
         \A u \in Threads \ {t} : (Call(u).at)' = Call(u).at /\ (Call(u).obj)' = Call(u).obj,
         \A o \in Objects : Harmless(t, Call(t)', value', o)
  PROVE  PostsReachWaiters'
<1> SUFFICES ASSUME NEW o \in Objects, At("parked", o)' # {}
             PROVE  value'[o] <= Cardinality(At("wait", o)')
  BY DEF PostsReachWaiters
<1> DEFINE W == At("wait", o)
           V == At("wait", o)'
<1>1. /\ W = {u \in Threads : Call(u).at = "wait" /\ Call(u).obj = o}
      /\ At("parked", o) = {u \in Threads : Call(u).at = "parked" /\ Call(u).obj = o}
  BY AtFacts DEF AtIsCall
<1>2. /\ V = {u \in Threads : (Call(u).at)' = "wait" /\ (Call(u).obj)' = o}
      /\ At("parked", o)' = {u \in Threads : (Call(u).at)' = "parked" /\ (Call(u).obj)' = o}
  <2>1. AtIsCall'
    BY AtFacts, PTL
  <2> QED BY <2>1 DEF AtIsCall
<1>3. /\ W \ {t} \subseteq V
      /\ t \notin W => W \subseteq V
      /\ ~((Call(t).at)' = "parked" /\ (Call(t).obj)' = o) => At("parked", o) # {}
  BY <1>1, <1>2
<1>4. IsFiniteSet(W) /\ IsFiniteSet(V) /\ Cardinality(W) \in Nat /\ Cardinality(V) \in Nat
  BY <1>1, <1>2, CountFacts
<1>5. value[o] \in Int /\ value'[o] \in Int
  BY DEF PosixTypeOK
<1> HIDE DEF W, V
<1>6. CASE value'[o] = 0
  BY <1>4, <1>6 DEF V
<1>7. CASE /\ ~((Call(t).at)' = "parked" /\ (Call(t).obj)' = o)
           /\ value'[o] + 1 <= value[o]
  <2>1. value[o] <= Cardinality(W)
    BY <1>3, <1>7 DEF PostsReachWaiters, W
  <2>2. Cardinality(W) <= Cardinality(W \ {t}) + 1 /\ IsFiniteSet(W \ {t})
    BY <1>4, FS_RemoveElement
  <2>3. Cardinality(W \ {t}) <= Cardinality(V) /\ Cardinality(W \ {t}) \in Nat
    BY <1>3, <1>4, <2>2, FS_Subset, FS_CardinalityType
  <2> QED BY <1>4, <1>5, <1>7, <2>1, <2>2, <2>3 DEF V
<1>8. CASE /\ ~((Call(t).at)' = "parked" /\ (Call(t).obj)' = o)
           /\ value'[o] <= value[o] /\ ~(Call(t).at = "wait" /\ Call(t).obj = o)
  <2>1. value[o] <= Cardinality(W)
    BY <1>3, <1>8 DEF PostsReachWaiters, W
  <2>2. W \subseteq V
    BY <1>1, <1>3, <1>8
  <2>3. Cardinality(W) <= Cardinality(V)
    BY <1>4, <2>2, FS_Subset
  <2> QED BY <1>4, <1>5, <1>8, <2>1, <2>3 DEF V
<1>9. Harmless(t, Call(t)', value', o)
  OBVIOUS
<1> QED BY <1>3, <1>6, <1>7, <1>8, <1>9 DEF Harmless

(***************************************************************************)
(* One thread's call changes to c, harmlessly, and no handler frame comes  *)
(* or goes.                                                                *)
(***************************************************************************)
LEMMA CallChange ==
  ASSUME PosixIInv, ExcIInv', NEW t \in Threads, NEW c \in Calls,
         frame' = [frame EXCEPT ![t][depth[t]] = c], depth' = depth,
         \A u \in Threads \ {t} : pc'[u] = pc[u],
         pc'[t] \notin {"guest", "handler"} => c.at = "delivering",
         c.at = "none" => c = NoCall, c.obj <= made',
         current' \in 0..made', made' \in 0..MaxObjects, made <= made',
         value' \in [Objects -> 0..MaxValue],
         \A o \in Objects : Harmless(t, c, value', o)
  PROVE  PosixIInv'
<1>0. PosixTypeOK /\ PostsReachWaiters /\ FramesMeant /\ ExceptionTypeOK
  BY DEF PosixIInv, PosixInv, ExcIInv
<1>1. /\ frame' \in [Threads -> [Levels -> Calls]]
      /\ frame'[t][depth[t]] = c
      /\ \A u \in Threads, d \in Levels :
           u # t \/ d # depth[t] => frame'[u][d] = frame[u][d]
      /\ \A u \in Threads : depth[u] \in Levels
  BY <1>0 DEF PosixTypeOK, ExceptionTypeOK, Levels
<1>2. Call(t)' = c /\ \A u \in Threads \ {t} : Call(u)' = Call(u)
  BY <1>1 DEF Call
<1>3. 0 \in Levels /\ 1 \in Levels /\ 0 # 1
  BY DEF Levels
<1>4. PosixTypeOK'
  <2>1. ASSUME NEW u \in Threads
        PROVE  /\ depth'[u] = 0 => frame'[u][1] = NoCall
               /\ depth'[u] = 1 => frame'[u][0].at \in {"none", "delivering"}
    BY <1>0, <1>1, <1>3 DEF PosixTypeOK
  <2>2. ExceptionTypeOK'
    BY DEF ExcIInv
  <2> QED BY <1>1, <2>1, <2>2 DEF PosixTypeOK
<1>5. FramesMeant'
  <2>1. ASSUME NEW u \in Threads, NEW d \in Levels
        PROVE  /\ frame'[u][d].at = "none" => frame'[u][d] = NoCall
               /\ frame'[u][d].obj <= made'
    <3>1. CASE u = t /\ d = depth[t]
      BY <1>1, <3>1
    <3>2. CASE u # t \/ d # depth[t]
      <4>1. frame'[u][d] = frame[u][d] /\ frame[u][d].obj \in Nat /\ made \in Nat /\ made' \in Nat
        BY <1>0, <1>1, <3>2 DEF PosixTypeOK, Calls
      <4>2. frame[u][d].at = "none" => frame[u][d] = NoCall
        BY <1>0 DEF FramesMeant
      <4>3. frame[u][d].obj <= made
        BY <1>0 DEF FramesMeant
      <4> QED BY <4>1, <4>2, <4>3
    <3> QED BY <3>1, <3>2
  <2>2. ASSUME NEW u \in Threads, pc'[u] \notin {"guest", "handler"}
        PROVE  (Call(u).at)' \in {"none", "delivering"}
    BY <1>0, <1>2, <2>2 DEF FramesMeant
  <2> QED BY <2>1, <2>2 DEF FramesMeant
<1>6. PostsReachWaiters'
  BY <1>0, <1>2, <1>4, ReachKept
<1> QED BY <1>4, <1>5, <1>6 DEF PosixIInv, PosixInv

(***************************************************************************)
(* Replacing one call leaves the other calls alone.                        *)
(***************************************************************************)
LEMMA FrameExcept ==
  ASSUME NEW f \in [Threads -> [Levels -> Calls]], NEW t \in Threads, NEW d \in Levels,
         NEW c \in Calls, NEW h, h = [f EXCEPT ![t][d] = c]
  PROVE  /\ h \in [Threads -> [Levels -> Calls]]
         /\ h[t][d] = c
         /\ \A u \in Threads, e \in Levels : (u = t => e # d) => h[u][e] = f[u][e]
OBVIOUS

(***************************************************************************)
(* A call moves to another place of its loop.                              *)
(***************************************************************************)
LEMMA MovesFacts ==
  ASSUME PosixTypeOK, NEW t \in Threads, NEW p \in CallPcs, Moves(t, p)
  PROVE  \E c \in Calls : /\ c.at = p /\ c.obj = Call(t).obj
                          /\ frame' = [frame EXCEPT ![t][depth[t]] = c]
<1>1. depth[t] \in Levels /\ Call(t) \in Calls
  BY DEF PosixTypeOK, ExceptionTypeOK, Levels, Call
<1> DEFINE c == [Call(t) EXCEPT !.at = p]
<1>2. c \in Calls /\ c.at = p /\ c.obj = Call(t).obj
  BY <1>1 DEF Calls
<1>3. frame' = [frame EXCEPT ![t][depth[t]] = c]
  BY DEF Moves, Call
<1> QED BY <1>2, <1>3

(***************************************************************************)
(* The empty call, and the call of a thread.                               *)
(***************************************************************************)
LEMMA CallFacts ==
  ASSUME PosixIInv, NEW t \in Threads
  PROVE  /\ NoCall \in Calls /\ NoCall.at = "none" /\ NoCall.obj = 0 /\ 0 <= made
         /\ Call(t) \in Calls /\ Call(t).obj <= made /\ Call(t).obj \in 0..MaxObjects
         /\ made \in Nat
<1>1. depth[t] \in Levels /\ made \in 0..MaxObjects
  BY DEF PosixIInv, PosixInv, PosixTypeOK, ExceptionTypeOK, Levels
<1>2. Call(t) \in Calls /\ Call(t).obj <= made
  BY <1>1 DEF PosixIInv, PosixInv, PosixTypeOK, FramesMeant, Call
<1>3. NoCall \in Calls /\ NoCall.at = "none" /\ NoCall.obj = 0 /\ 0 <= made
  BY <1>1, MaxObjectsAssumption DEF NoCall, Calls, CallPcs
<1> QED BY <1>1, <1>2, <1>3 DEF Calls

-------------------------------------------------------------------------------
(***************************************************************************)
(* sem_post wakes a parked waiter: the count it adds is matched by the     *)
(* waiter that is now awake.                                               *)
(***************************************************************************)
LEMMA WakeKeepsInv ==
  ASSUME PosixIInv, ExcIInv', NEW t \in Threads, InCall(t, "post"),
         value[Call(t).obj] < MaxValue,
         value' = [value EXCEPT ![Call(t).obj] = @ + 1],
         NEW u \in At("parked", Call(t).obj),
         frame' = [frame EXCEPT ![t][depth[t]] = NoCall, ![u][depth[u]].at = "wait"],
         UNCHANGED <<vars, current, made>>
  PROVE  PosixIInv'
<1> DEFINE o == Call(t).obj
<1>0. PosixTypeOK /\ PostsReachWaiters /\ FramesMeant /\ ExceptionTypeOK
  BY DEF PosixIInv, PosixInv, ExcIInv
<1>1. /\ At("parked", o) \subseteq Threads /\ u \in Threads
      /\ \A x \in Threads : depth[x] \in Levels
  BY <1>0 DEF At, PosixTypeOK, ExceptionTypeOK, Levels
<1>2. Call(t).at = "post" /\ o \in 0..MaxObjects /\ NoCall \in Calls
      /\ NoCall.at = "none" /\ NoCall.obj = 0 /\ 0 <= made /\ made \in Nat
  BY CallFacts DEF InCall
<1>3. /\ 0 \in Levels /\ 1 \in Levels /\ 0 # 1
      /\ depth' = depth /\ pc' = pc /\ made' = made /\ current' = current
  BY DEF Levels, vars
<1>4. Call(u).at = "parked" /\ Call(u).obj = o /\ u # t
  <2>1. PICK d \in Levels : d <= depth[u] /\ frame[u][d].at = "parked" /\ frame[u][d].obj = o
    BY DEF At
  <2>2. d = depth[u]
    <3>1. Levels = {0, 1} /\ ~(1 <= 0)
      BY DEF Levels
    <3>2. depth[u] = 1 => d # 0
      BY <1>0, <1>1, <2>1 DEF PosixTypeOK
    <3> QED BY <1>1, <2>1, <3>1, <3>2
  <2>3. Call(u).at = "parked" /\ Call(u).obj = o
    BY <2>1, <2>2 DEF Call
  <2> QED BY <1>2, <2>3
<1> DEFINE c == [Call(u) EXCEPT !.at = "wait"]
<1>5. c \in Calls /\ c.at = "wait" /\ c.obj = o /\ c.obj <= made
  BY <1>1, <1>4, CallFacts DEF Calls, CallPcs
<1>6. /\ frame' \in [Threads -> [Levels -> Calls]]
      /\ frame'[t][depth[t]] = NoCall
      /\ frame'[u][depth[u]] = c
      /\ \A x \in Threads, d \in Levels :
           (x = t => d # depth[t]) /\ (x = u => d # depth[u]) => frame'[x][d] = frame[x][d]
  <2> DEFINE g == [frame EXCEPT ![t][depth[t]] = NoCall]
  <2>1. /\ g \in [Threads -> [Levels -> Calls]]
        /\ g[t][depth[t]] = NoCall
        /\ \A x \in Threads, d \in Levels : (x = t => d # depth[t]) => g[x][d] = frame[x][d]
    BY <1>0, <1>1, <1>2, FrameExcept DEF PosixTypeOK
  <2>2. frame' = [g EXCEPT ![u][depth[u]] = c]
    BY <1>4 DEF Call
  <2> HIDE DEF c, g
  <2>3. /\ frame' \in [Threads -> [Levels -> Calls]]
        /\ frame'[u][depth[u]] = c
        /\ \A x \in Threads, d \in Levels : (x = u => d # depth[u]) => frame'[x][d] = g[x][d]
    <3>1. u \in Threads /\ depth[u] \in Levels
      BY <1>1
    <3>2. c \in Calls
      BY <1>5
    <3>3. g \in [Threads -> [Levels -> Calls]]
      BY <2>1
    <3> QED BY ONLY <3>1, <3>2, <3>3, <2>2, FrameExcept
  <2>4. frame'[t][depth[t]] = NoCall
    BY ONLY <1>1, <1>4, <2>1, <2>3, t \in Threads
  <2> QED BY ONLY <2>1, <2>3, <2>4
<1> HIDE DEF c, o
<1>7. /\ Call(t)' = NoCall /\ Call(u)' = c
      /\ \A x \in Threads \ {t, u} : Call(x)' = Call(x)
  BY <1>1, <1>6 DEF Call, vars
<1>8. value' \in [Objects -> 0..MaxValue]
  <2>1. \A v \in 0..MaxValue : v < MaxValue => v + 1 \in 0..MaxValue
    BY MaxValueAssumption
  <2> QED BY <1>0, <2>1 DEF PosixTypeOK
<1>9. PosixTypeOK'
  <2>1. ASSUME NEW x \in Threads
        PROVE  /\ depth'[x] = 0 => frame'[x][1] = NoCall
               /\ depth'[x] = 1 => frame'[x][0].at \in {"none", "delivering"}
    <3>1. \A d \in Levels : d # depth[x] => frame'[x][d] = frame[x][d]
      BY ONLY <1>6, x \in Threads
    <3>2. /\ depth[x] = 0 => frame[x][1] = NoCall
          /\ depth[x] = 1 => frame[x][0].at \in {"none", "delivering"}
      BY ONLY <1>0, x \in Threads DEF PosixTypeOK
    <3> QED BY ONLY <1>3, <3>1, <3>2
  <2>2. ExceptionTypeOK'
    BY DEF ExcIInv
  <2> QED BY <1>0, <1>6, <1>8, <2>1, <2>2 DEF PosixTypeOK
<1>10. FramesMeant'
  <2>1. ASSUME NEW x \in Threads, NEW d \in Levels
        PROVE  /\ frame'[x][d].at = "none" => frame'[x][d] = NoCall
               /\ frame'[x][d].obj <= made'
    <3>1. CASE x = t /\ d = depth[t]
      BY <1>2, <1>3, <1>6, <3>1
    <3>2. CASE x = u /\ d = depth[u]
      BY <1>3, <1>5, <1>6, <3>2
    <3>3. CASE (x = t => d # depth[t]) /\ (x = u => d # depth[u])
      <4>1. frame'[x][d] = frame[x][d]
        BY <1>6, <3>3
      <4>2. /\ frame[x][d].at = "none" => frame[x][d] = NoCall
            /\ frame[x][d].obj <= made
        BY <1>0 DEF FramesMeant
      <4> QED BY <1>3, <4>1, <4>2
    <3> QED BY <3>1, <3>2, <3>3
  <2>2. ASSUME NEW x \in Threads, pc'[x] \notin {"guest", "handler"}
        PROVE  (Call(x).at)' \in {"none", "delivering"}
    <3>1. x # u
      BY <1>0, <1>1, <1>4, <2>2 DEF FramesMeant, vars
    <3> QED BY <1>0, <1>2, <1>7, <2>2, <3>1 DEF FramesMeant, vars
  <2> QED BY <2>1, <2>2 DEF FramesMeant
<1>11. PostsReachWaiters'
  <2> SUFFICES ASSUME NEW p \in Objects, At("parked", p)' # {}
               PROVE  value'[p] <= Cardinality(At("wait", p)')
    BY DEF PostsReachWaiters
  <2>1. AtIsCall /\ AtIsCall'
    BY <1>0, <1>9, AtFacts, PTL
  <2>2. At("parked", p)' \subseteq At("parked", p)
    BY <1>2, <1>5, <1>7, <2>1 DEF AtIsCall
  <2>3. value[p] <= Cardinality(At("wait", p))
    BY <1>0, <2>2 DEF PostsReachWaiters
  <2>4. CASE p # o
    <3>1. At("wait", p)' = At("wait", p)
      <4>1. ASSUME NEW x \in Threads
            PROVE  ((Call(x).at)' = "wait" /\ (Call(x).obj)' = p)
                      <=> (Call(x).at = "wait" /\ Call(x).obj = p)
        <5>1. CASE x = t
          BY <1>2, <1>7, <5>1
        <5>2. CASE x = u
          BY <1>4, <1>5, <1>7, <2>4, <5>2
        <5>3. CASE x \in Threads \ {t, u}
          BY <1>7, <5>3
        <5> QED BY <5>1, <5>2, <5>3
      <4>2. /\ At("wait", p) = {x \in Threads : Call(x).at = "wait" /\ Call(x).obj = p}
            /\ At("wait", p)' = {x \in Threads : (Call(x).at)' = "wait" /\ (Call(x).obj)' = p}
        BY <2>1 DEF AtIsCall
      <4> QED BY ONLY <4>1, <4>2
    <3>2. value'[p] = value[p]
      BY <1>0, <2>4 DEF PosixTypeOK, o
    <3> QED BY <2>3, <3>1, <3>2
  <2>5. CASE p = o
    <3>1. At("wait", p)' = At("wait", p) \cup {u} /\ u \notin At("wait", p)
      BY <1>1, <1>2, <1>4, <1>5, <1>7, <2>1, <2>5 DEF AtIsCall
    <3>2. At("wait", p) \in SUBSET Threads
      BY DEF At
    <3>3. IsFiniteSet(At("wait", p)) /\ Cardinality(At("wait", p)) \in Nat
      BY <3>2, CountFacts
    <3>4. Cardinality(At("wait", p)') = Cardinality(At("wait", p)) + 1
      BY <3>1, <3>3, FS_AddElement
    <3>5. value'[p] = value[p] + 1 /\ value[p] \in Int
      BY <1>0, <2>5 DEF PosixTypeOK, o
    <3> QED BY <2>3, <3>3, <3>4, <3>5
  <2> QED BY <2>4, <2>5
<1> QED BY <1>9, <1>10, <1>11 DEF PosixIInv, PosixInv

(***************************************************************************)
(* A post that wakes nobody, and the calls that do not wait.               *)
(***************************************************************************)
LEMMA CallsKeepInv ==
  ASSUME PosixIInv, ExcIInv', NEW t \in Threads, SemCall(t) \/ Post(t) \/ TryWait(t)
  PROVE  PosixIInv'
<1>0. /\ PosixTypeOK /\ PostsReachWaiters /\ FramesMeant /\ ExceptionTypeOK /\ ExceptionTypeOK'
      /\ value \in [Objects -> 0..MaxValue]
      /\ current \in 0..made /\ made \in 0..MaxObjects /\ made <= made
  BY MaxObjectsAssumption DEF PosixIInv, PosixInv, PosixTypeOK, ExcIInv
<1>1. /\ NoCall \in Calls /\ NoCall.at = "none" /\ NoCall.obj = 0 /\ 0 <= made
      /\ Call(t) \in Calls /\ Call(t).obj <= made /\ made \in Nat
  BY CallFacts
<1>2. ASSUME NEW v \in 0..1, SemInit(t, v) PROVE PosixIInv'
  <2>1. /\ made + 1 \in 0..MaxObjects /\ made + 1 \in 0..(made + 1) /\ v \in 0..MaxValue
        /\ \A n \in Nat : n <= made => n <= made + 1 /\ n # made + 1
    BY <1>0, <1>2, MaxObjectsAssumption, MaxValueAssumption DEF SemInit
  <2>2. \A u \in Threads, d \in Levels : frame[u][d].obj <= made /\ frame[u][d].obj \in Nat
    BY <1>0 DEF FramesMeant, PosixTypeOK, Calls
  <2>3. PosixTypeOK'
    BY <1>0, <1>2, <2>1 DEF PosixTypeOK, SemInit, vars
  <2>4. FramesMeant'
    <3>1. ASSUME NEW u \in Threads, NEW d \in Levels
          PROVE  /\ frame'[u][d].at = "none" => frame'[u][d] = NoCall
                 /\ frame'[u][d].obj <= made'
      BY <1>0, <1>2, <2>1, <2>2 DEF FramesMeant, SemInit
    <3>2. ASSUME NEW u \in Threads, pc'[u] \notin {"guest", "handler"}
          PROVE  (Call(u).at)' \in {"none", "delivering"}
      BY <1>0, <1>2, <3>2 DEF FramesMeant, SemInit, Call, vars
    <3> QED BY <3>1, <3>2 DEF FramesMeant
  <2>5. PostsReachWaiters'
    <3>1. At("parked", made + 1) = {}
      BY <2>1, <2>2 DEF At
    <3>2. \A p, o : At(p, o)' = At(p, o)
      BY <1>2 DEF SemInit, At, vars
    <3>3. \A o \in Objects \ {made + 1} : value'[o] = value[o]
      BY <1>0, <1>2 DEF SemInit
    <3> QED BY <1>0, <3>1, <3>2, <3>3 DEF PostsReachWaiters
  <2>6. QED
    BY <2>3, <2>4, <2>5 DEF PosixIInv, PosixInv
<1>3. ASSUME SemDestroy(t) PROVE PosixIInv'
  <2>1. 0 \in 0..made
    BY <1>0, MaxObjectsAssumption
  <2>2. PosixTypeOK'
    BY <1>0, <1>3, <2>1 DEF PosixTypeOK, SemDestroy, vars
  <2>3. FramesMeant' /\ PostsReachWaiters'
    BY <1>0, <1>3 DEF FramesMeant, PostsReachWaiters, SemDestroy, Call, At, vars
  <2> QED BY <2>2, <2>3 DEF PosixIInv, PosixInv
<1>4. ASSUME NEW p \in {"post", "try", "wait"}, NEW limit \in {"none", "future"},
             Resolve(t, p, limit)
      PROVE  PosixIInv'
  <2> DEFINE c == [at |-> p, obj |-> current', limit |-> limit]
  <2>1. /\ made' \in 0..MaxObjects /\ made <= made'
        /\ current' \in 0..made' /\ current' \in 0..MaxObjects /\ current' <= made'
    BY <1>0, <1>4, MaxObjectsAssumption DEF Resolve
  <2>2. c \in Calls /\ c.at = p /\ c.obj = current'
    BY <2>1 DEF Calls, CallPcs
  <2>3. frame' = [frame EXCEPT ![t][depth[t]] = c] /\ UNCHANGED <<vars, value>>
    BY <1>4 DEF Resolve
  <2> HIDE DEF c
  <2>4. Call(t).at = "none" /\ pc[t] \in {"guest", "handler"}
    BY <1>4 DEF Resolve, Idle, InGuestCode
  <2>5. \A o \in Objects : value'[o] <= value[o]
    BY <1>0, <2>3
  <2>6. \A o \in Objects : Harmless(t, c, value', o)
    BY <2>2, <2>4, <2>5 DEF Harmless
  <2> QED BY <1>0, <2>1, <2>2, <2>3, <2>4, <2>6, CallChange DEF vars
<1>5. ASSUME Post(t) \/ TryWait(t), frame' = [frame EXCEPT ![t][depth[t]] = NoCall],
             \A o \in Objects : value'[o] <= value[o] \/ At("parked", o) = {},
             value' \in [Objects -> 0..MaxValue]
      PROVE  PosixIInv'
  <2>1. /\ Call(t).at # "wait" /\ pc[t] \in {"guest", "handler"}
        /\ UNCHANGED <<vars, current, made>>
    BY <1>5 DEF Post, TryWait, InCall
  <2>2. \A o \in Objects : Harmless(t, NoCall, value', o)
    BY <1>1, <1>5, <2>1 DEF Harmless
  <2> QED BY <1>0, <1>1, <1>5, <2>1, <2>2, CallChange DEF vars
<1>6. ASSUME Post(t) PROVE PosixIInv'
  <2> DEFINE o == Call(t).obj
  <2>1. CASE Returns(t) /\ UNCHANGED value
    BY <1>0, <1>5, <1>6, <2>1 DEF Returns
  <2>2. CASE /\ Returns(t) /\ value[o] < MaxValue /\ At("parked", o) = {}
             /\ value' = [value EXCEPT ![o] = @ + 1]
    <3>1. \A v \in 0..MaxValue : v < MaxValue => v + 1 \in 0..MaxValue
      BY MaxValueAssumption
    <3>2. value' \in [Objects -> 0..MaxValue]
      BY <1>0, <2>2, <3>1
    <3>3. \A x \in Objects : value'[x] <= value[x] \/ At("parked", x) = {}
      BY <1>0, <2>2
    <3> QED BY <1>5, <1>6, <2>2, <3>2, <3>3 DEF Returns
  <2>3. CASE /\ value[o] < MaxValue
             /\ value' = [value EXCEPT ![o] = @ + 1]
             /\ \E u \in At("parked", o) :
                  frame' = [frame EXCEPT ![t][depth[t]] = NoCall, ![u][depth[u]].at = "wait"]
    BY <1>6, <2>3, WakeKeepsInv DEF Post
  <2> QED BY <1>6, <2>1, <2>2, <2>3 DEF Post
<1>7. ASSUME TryWait(t) PROVE PosixIInv'
  <2>1. \A v \in 0..MaxValue : v > 0 => v - 1 \in 0..MaxValue /\ v - 1 <= v
    BY MaxValueAssumption
  <2>2. value' \in [Objects -> 0..MaxValue]
    BY <1>0, <1>7, <2>1 DEF TryWait
  <2>3. \A o \in Objects : value'[o] <= value[o]
    BY <1>0, <1>7, <2>1 DEF TryWait
  <2> QED BY <1>5, <1>7, <2>2, <2>3 DEF TryWait, Returns
<1> QED BY <1>2, <1>3, <1>4, <1>6, <1>7 DEF SemCall

(***************************************************************************)
(* The steps of acquire's loop.                                            *)
(***************************************************************************)
LEMMA WaitStepsKeepInv ==
  ASSUME PosixIInv, ExcIInv', NEW t \in Threads, WaitStep(t)
  PROVE  PosixIInv'
<1> DEFINE q == Call(t).obj
<1>0. /\ PosixTypeOK /\ value \in [Objects -> 0..MaxValue]
      /\ current \in 0..made /\ made \in 0..MaxObjects /\ made <= made
      /\ \A o \in Objects : value[o] <= value[o]
  BY MaxObjectsAssumption, MaxValueAssumption DEF PosixIInv, PosixInv, PosixTypeOK
<1>1. /\ NoCall \in Calls /\ NoCall.at = "none" /\ NoCall.obj = 0 /\ 0 <= made
      /\ Call(t) \in Calls /\ Call(t).obj <= made /\ made \in Nat
  BY CallFacts
<1>2. CASE Take(t)
  <2>1. /\ InCall(t, "wait") /\ value[q] > 0 /\ value' = [value EXCEPT ![q] = @ - 1]
        /\ Returns(t) /\ UNCHANGED <<vars, current, made>>
    BY <1>2 DEF Take
  <2>2. \A v \in 0..MaxValue : v > 0 => v - 1 \in 0..MaxValue /\ (v - 1) + 1 <= v
    BY MaxValueAssumption
  <2>3. value' \in [Objects -> 0..MaxValue]
    BY <1>0, <2>1, <2>2
  <2>4. ASSUME NEW o \in Objects PROVE Harmless(t, NoCall, value', o)
    <3>1. CASE o = q
      BY <1>0, <1>1, <2>1, <2>2, <3>1 DEF Harmless
    <3>2. CASE o # q
      BY <1>0, <1>1, <2>1, <3>2 DEF Harmless
    <3> QED BY <3>1, <3>2
  <2> QED BY <1>0, <1>1, <2>1, <2>3, <2>4, CallChange DEF InCall, Returns, vars
<1>3. CASE Interrupted(t) \/ TimesOut(t)
  <2>1. Empty(t) /\ Returns(t) /\ UNCHANGED <<vars, current, made, value>>
    BY <1>3 DEF Interrupted, TimesOut
  <2>2. pc[t] \in {"guest", "handler"} /\ value[q] = 0
    BY <2>1 DEF Empty, InCall
  <2>3. \A o \in Objects : Harmless(t, NoCall, value', o)
    BY <1>0, <1>1, <2>1, <2>2 DEF Harmless
  <2> QED BY <1>0, <1>1, <2>1, <2>2, <2>3, CallChange DEF Returns, vars
<1>4. CASE FindsRaise(t) \/ Park(t)
  <2>1. Empty(t) /\ UNCHANGED <<vars, current, made, value>>
    BY <1>4 DEF FindsRaise, Park
  <2>2. PICK p \in {"deliver", "parked"} : Moves(t, p)
    BY <1>4 DEF FindsRaise, Park
  <2>3. PICK c \in Calls : /\ c.at = p /\ c.obj = q
                           /\ frame' = [frame EXCEPT ![t][depth[t]] = c]
    BY <1>0, <2>2, MovesFacts DEF CallPcs
  <2>4. pc[t] \in {"guest", "handler"} /\ value[q] = 0
    BY <2>1 DEF Empty, InCall
  <2>5. \A o \in Objects : Harmless(t, c, value', o)
    BY <1>0, <2>1, <2>3, <2>4 DEF Harmless
  <2> QED BY <1>0, <1>1, <2>1, <2>3, <2>4, <2>5, CallChange DEF vars
<1>5. CASE DeliverStarts(t)
  <2>1. /\ InCall(t, "deliver") /\ Moves(t, "delivering") /\ SafePoint(t)
        /\ UNCHANGED <<current, made, value>>
    BY <1>5 DEF DeliverStarts
  <2>2. PICK c \in Calls : /\ c.at = "delivering" /\ c.obj = q
                           /\ frame' = [frame EXCEPT ![t][depth[t]] = c]
    BY <1>0, <2>1, MovesFacts DEF CallPcs
  <2>3. \A o \in Objects : Harmless(t, c, value', o)
    BY <1>0, <2>1, <2>2 DEF Harmless, InCall
  <2>4. depth' = depth /\ \A u \in Threads \ {t} : pc'[u] = pc[u]
    BY <1>0, <2>1 DEF SafePoint, PosixTypeOK, ExceptionTypeOK
  <2> QED BY <1>0, <1>1, <2>1, <2>2, <2>3, <2>4, CallChange
<1>6. CASE DeliverSkipped(t) \/ DeliverOver(t) \/ SliceEnds(t)
  <2>1. /\ Moves(t, "wait") /\ UNCHANGED <<vars, current, made, value>>
        /\ pc[t] \in {"guest", "handler"} /\ Call(t).at # "wait"
    BY <1>6 DEF DeliverSkipped, DeliverOver, SliceEnds, InCall
  <2>2. PICK c \in Calls : /\ c.at = "wait" /\ c.obj = q
                           /\ frame' = [frame EXCEPT ![t][depth[t]] = c]
    BY <1>0, <2>1, MovesFacts DEF CallPcs
  <2>3. \A o \in Objects : Harmless(t, c, value', o)
    BY <1>0, <2>1, <2>2 DEF Harmless
  <2> QED BY <1>0, <1>1, <2>1, <2>2, <2>3, CallChange DEF vars
<1> QED BY <1>2, <1>3, <1>4, <1>5, <1>6 DEF WaitStep

(***************************************************************************)
(* A deadline passes: nothing that the invariant reads changes.            *)
(***************************************************************************)
LEMMA LimitKeepsInv ==
  ASSUME PosixIInv, ExcIInv', NEW t \in Threads, LimitPasses(t)
  PROVE  PosixIInv'
<1>0. PosixTypeOK /\ PostsReachWaiters /\ FramesMeant
  BY DEF PosixIInv, PosixInv
<1>1. PICK d \in Levels : /\ frame[t][d].limit = "future"
                          /\ frame' = [frame EXCEPT ![t][d].limit = "passed"]
                          /\ UNCHANGED <<vars, current, made, value>>
  BY DEF LimitPasses
<1> DEFINE c == [frame[t][d] EXCEPT !.limit = "passed"]
<1>2. frame[t][d] \in Calls /\ NoCall.limit = "none"
  BY <1>0 DEF PosixTypeOK, NoCall
<1>3. /\ c \in Calls /\ c.at = frame[t][d].at /\ c.obj = frame[t][d].obj
      /\ frame[t][d] # NoCall
  BY <1>1, <1>2 DEF Calls
<1>4. frame' = [frame EXCEPT ![t][d] = c]
  BY <1>1
<1> HIDE DEF c
<1>5. /\ frame' \in [Threads -> [Levels -> Calls]]
      /\ frame'[t][d] = c
      /\ \A u \in Threads, e \in Levels : (u = t => e # d) => frame'[u][e] = frame[u][e]
  <2>1. frame \in [Threads -> [Levels -> Calls]]
    BY <1>0 DEF PosixTypeOK
  <2> QED BY <1>3, <1>4, <2>1, FrameExcept
<1>6. ASSUME NEW u \in Threads, NEW e \in Levels
      PROVE  /\ frame'[u][e].at = frame[u][e].at /\ frame'[u][e].obj = frame[u][e].obj
             /\ frame[u][e] = NoCall => frame'[u][e] = NoCall
  BY <1>3, <1>5
<1>7. /\ depth' = depth /\ pc' = pc /\ 0 \in Levels /\ 1 \in Levels
      /\ \A u \in Threads : depth[u] \in Levels
  BY <1>0, <1>1 DEF vars, Levels, PosixTypeOK, ExceptionTypeOK
<1>8. \A u \in Threads : (Call(u).at)' = Call(u).at
  BY <1>6, <1>7 DEF Call
<1>9. PosixTypeOK'
  <2>1. ExceptionTypeOK'
    BY DEF ExcIInv
  <2>2. ASSUME NEW u \in Threads
        PROVE  /\ depth'[u] = 0 => frame'[u][1] = NoCall
               /\ depth'[u] = 1 => frame'[u][0].at \in {"none", "delivering"}
    BY <1>0, <1>6, <1>7 DEF PosixTypeOK
  <2> QED BY <1>0, <1>1, <1>5, <2>1, <2>2 DEF PosixTypeOK
<1>10. FramesMeant'
  <2>1. ASSUME NEW u \in Threads, NEW e \in Levels
        PROVE  /\ frame'[u][e].at = "none" => frame'[u][e] = NoCall
               /\ frame'[u][e].obj <= made'
    <3>1. (frame[u][e].at = "none" => frame[u][e] = NoCall) /\ frame[u][e].obj <= made
      BY <1>0 DEF FramesMeant
    <3> QED BY <1>1, <1>6, <3>1
  <2>2. ASSUME NEW u \in Threads, pc'[u] \notin {"guest", "handler"}
        PROVE  (Call(u).at)' \in {"none", "delivering"}
    BY <1>0, <1>7, <1>8, <2>2 DEF FramesMeant
  <2> QED BY <2>1, <2>2 DEF FramesMeant
<1>11. PostsReachWaiters'
  <2>1. \A p, o : At(p, o)' = At(p, o)
    BY <1>6, <1>7 DEF At
  <2> QED BY <1>0, <1>1, <2>1 DEF PostsReachWaiters
<1> QED BY <1>9, <1>10, <1>11 DEF PosixIInv, PosixInv

(***************************************************************************)
(* Exception delivery keeps the calls: a handler frame comes when the call *)
(* below it is suspended in its delivery and goes when the handler has no  *)
(* call of its own.                                                        *)
(***************************************************************************)
LEMMA DeliveryKeepsInv ==
  ASSUME PosixIInv, ExcIInv', NEW t \in Threads,
         GuestException(t) \/ HandlerEnds(t) \/ DeliveryStep(t)
  PROVE  PosixIInv'
<1>0. PosixTypeOK /\ PostsReachWaiters /\ FramesMeant /\ ExceptionTypeOK /\ PlacesMeant
  BY DEF PosixIInv, PosixInv, ExcIInv
<1>1. /\ UNCHANGED <<current, made, value, frame>> /\ ExceptionTypeOK'
      /\ 0 \in Levels /\ 1 \in Levels /\ depth[t] \in Levels
  BY <1>0 DEF GuestException, HandlerEnds, DeliveryStep, semVars, ExcIInv, ExceptionTypeOK, Levels
<1>2. /\ \A u \in Threads \ {t} : pc'[u] = pc[u] /\ depth'[u] = depth[u]
      /\ \/ /\ depth'[t] = depth[t]
            /\ pc'[t] \in {"guest", "handler"} \/ Call(t).at \in {"none", "delivering"}
         \/ /\ depth[t] = 0 /\ depth'[t] = 1 /\ pc'[t] = "handler"
            /\ Call(t).at \in {"none", "delivering"}
         \/ /\ depth[t] = 1 /\ depth'[t] = 0 /\ pc'[t] = "guest"
            /\ Call(t).at = "none"
  <2>1. CASE GuestException(t)
    BY <1>0, <2>1 DEF GuestException, Idle, InGuestCode, Raise, SafePoint, ExceptionTypeOK
  <2>2. CASE HandlerEnds(t)
    <3>1. depth[t] = 1 /\ depth' = [depth EXCEPT ![t] = @ - 1] /\ Call(t).at = "none"
      BY <1>0, <2>2 DEF HandlerEnds, Idle, HandlerReturns, PlacesMeant
    <3>2. pc' = [pc EXCEPT ![t] = "guest"]
      BY <2>2, <3>1 DEF HandlerEnds, HandlerReturns
    <3> QED BY <1>0, <3>1, <3>2 DEF ExceptionTypeOK
  <2>3. CASE DeliveryStep(t) /\ RunHandler(t)
    <3>1. /\ depth[t] = 0 /\ depth' = [depth EXCEPT ![t] = @ + 1]
          /\ pc' = [pc EXCEPT ![t] = "handler"] /\ pc[t] = "delivering"
      BY <1>0, <2>3 DEF RunHandler, PlacesMeant
    <3> QED BY <1>0, <3>1 DEF ExceptionTypeOK, FramesMeant
  <2>4. CASE SyncReads(t) \/ SyncStores(t)
    <3>1. pc'[t] = pc[t] \/ pc[t] \notin {"guest", "handler"}
      BY <1>0, <2>4 DEF SyncReads, SyncStores, ExceptionTypeOK
    <3>2. depth' = depth /\ \A u \in Threads \ {t} : pc'[u] = pc[u]
      BY <1>0, <2>4 DEF SyncReads, SyncStores, ExceptionTypeOK
    <3> QED BY <1>0, <3>1, <3>2 DEF FramesMeant
  <2>5. CASE Claim(t) \/ NothingToClaim(t) \/ Defer(t) \/ Abandon(t)
    <3>1. pc[t] \notin {"guest", "handler"}
      BY <2>5 DEF Claim, NothingToClaim, Defer, Abandon
    <3>2. depth' = depth /\ \A u \in Threads \ {t} : pc'[u] = pc[u]
      BY <1>0, <2>5 DEF Claim, NothingToClaim, Defer, Abandon, ExceptionTypeOK
    <3> QED BY <1>0, <3>1, <3>2 DEF FramesMeant
  <2> QED BY <2>1, <2>2, <2>3, <2>4, <2>5 DEF DeliveryStep
<1>3. \A u \in Threads \ {t} : (Call(u).at)' = Call(u).at /\ (Call(u).obj)' = Call(u).obj
  BY <1>1, <1>2 DEF Call
<1>4. /\ depth[t] = 0 => frame[t][1] = NoCall
      /\ depth[t] = 1 => frame[t][0].at \in {"none", "delivering"}
      /\ \A d \in Levels : frame[t][d].at = "none" => frame[t][d] = NoCall
  BY <1>0 DEF PosixTypeOK, FramesMeant
<1>5. /\ depth'[t] = 0 => frame[t][1] = NoCall
      /\ depth'[t] = 1 => frame[t][0].at \in {"none", "delivering"}
  BY <1>1, <1>2, <1>4 DEF Call
<1>6. PosixTypeOK'
  BY <1>0, <1>1, <1>2, <1>5 DEF PosixTypeOK
<1>7. FramesMeant'
  <2>1. pc'[t] \notin {"guest", "handler"} => (Call(t).at)' \in {"none", "delivering"}
    BY <1>1, <1>2 DEF Call
  <2> QED BY <1>0, <1>1, <1>2, <1>3, <2>1 DEF FramesMeant
<1>8. PostsReachWaiters'
  <2>1. Call(t)' = Call(t)
        \/ (Call(t).at # "wait" /\ (Call(t).at)' # "parked" /\ (Call(t).at)' # "wait")
    BY <1>1, <1>2, <1>4 DEF Call, NoCall
  <2>2. CASE Call(t)' = Call(t)
    <3>1. AtIsCall /\ AtIsCall'
      BY <1>0, <1>6, AtFacts, PTL
    <3>2. ASSUME NEW u \in Threads
          PROVE  (Call(u).at)' = Call(u).at /\ (Call(u).obj)' = Call(u).obj
      BY <1>3, <2>2
    <3>3. \A o \in Objects : At("wait", o)' = At("wait", o) /\ At("parked", o)' = At("parked", o)
      BY <3>1, <3>2 DEF AtIsCall
    <3> QED BY <1>0, <1>1, <3>3 DEF PostsReachWaiters
  <2>3. CASE Call(t).at # "wait" /\ (Call(t).at)' # "parked" /\ (Call(t).at)' # "wait"
    <3>1. \A o \in Objects : value'[o] <= value[o]
      BY <1>0, <1>1 DEF PosixTypeOK
    <3>2. \A o \in Objects : Harmless(t, Call(t)', value', o)
      BY <2>3, <3>1 DEF Harmless
    <3> QED BY <1>0, <1>3, <1>6, <3>2, ReachKept
  <2> QED BY <2>1, <2>2, <2>3
<1> QED BY <1>6, <1>7, <1>8 DEF PosixIInv, PosixInv

(***************************************************************************)
(* A thread that ends, in its handler too, has no call left.               *)
(***************************************************************************)
LEMMA EndKeepsInv ==
  ASSUME PosixIInv, ExcIInv', NEW t \in Threads, EndThread(t)
  PROVE  PosixIInv'
<1>0. PosixTypeOK /\ PostsReachWaiters /\ FramesMeant /\ ExceptionTypeOK /\ ExceptionTypeOK'
  BY DEF PosixIInv, PosixInv, ExcIInv
<1>1. /\ NoCall \in Calls /\ NoCall.at = "none" /\ NoCall.obj = 0 /\ 0 <= made
      /\ 0 \in Levels /\ 1 \in Levels
  BY CallFacts DEF Levels
<1>2. /\ Call(t).at = "none" /\ UNCHANGED <<current, made, value>>
      /\ frame' = [frame EXCEPT ![t] = [d \in Levels |-> NoCall]]
      /\ depth' = [depth EXCEPT ![t] = 0]
      /\ pc' = [pc EXCEPT ![t] = "exiting"]
  BY DEF EndThread, Idle, ThreadExit
<1>3. /\ frame' \in [Threads -> [Levels -> Calls]]
      /\ \A d \in Levels : frame'[t][d] = NoCall
      /\ \A u \in Threads \ {t} : frame'[u] = frame[u] /\ depth'[u] = depth[u] /\ pc'[u] = pc[u]
      /\ depth'[t] = 0
  BY <1>0, <1>1, <1>2 DEF PosixTypeOK, ExceptionTypeOK
<1>4. /\ \A u \in Threads \ {t} : Call(u)' = Call(u)
      /\ Call(t)' = NoCall
  BY <1>1, <1>3 DEF Call
<1>5. PosixTypeOK'
  BY <1>0, <1>1, <1>2, <1>3 DEF PosixTypeOK
<1>6. FramesMeant'
  <2>1. ASSUME NEW u \in Threads, NEW d \in Levels
        PROVE  /\ frame'[u][d].at = "none" => frame'[u][d] = NoCall
               /\ frame'[u][d].obj <= made'
    BY <1>0, <1>1, <1>2, <1>3 DEF FramesMeant
  <2>2. ASSUME NEW u \in Threads, pc'[u] \notin {"guest", "handler"}
        PROVE  (Call(u).at)' \in {"none", "delivering"}
    BY <1>0, <1>1, <1>3, <1>4, <2>2 DEF FramesMeant
  <2> QED BY <2>1, <2>2 DEF FramesMeant
<1>7. PostsReachWaiters'
  <2>1. \A o \in Objects : value'[o] <= value[o]
    BY <1>0, <1>2 DEF PosixTypeOK
  <2>2. \A o \in Objects : Harmless(t, Call(t)', value', o)
    BY <1>1, <1>2, <1>4, <2>1 DEF Harmless
  <2> QED BY <1>0, <1>4, <1>5, <2>2, ReachKept
<1> QED BY <1>5, <1>6, <1>7 DEF PosixIInv, PosixInv

-------------------------------------------------------------------------------
(***************************************************************************)
(* The initial state satisfies the invariant.                              *)
(***************************************************************************)
LEMMA InitPosixIInv == PosixInit => PosixIInv
<1> SUFFICES ASSUME PosixInit PROVE PosixIInv
  OBVIOUS
<1>1. ExcIInv
  BY InitExcIInv DEF PosixInit
<1>2. /\ NoCall \in Calls /\ NoCall.at = "none" /\ NoCall.obj = 0 /\ 0 <= 0
      /\ 0 \in Levels /\ 1 \in Levels /\ 0 \in 0..0 /\ 0 \in 0..MaxObjects /\ 0 \in 0..MaxValue
  BY MaxObjectsAssumption, MaxValueAssumption DEF NoCall, Calls, CallPcs, Levels
<1>3. \A t \in Threads : \A d \in Levels : frame[t][d] = NoCall
  BY DEF PosixInit
<1>4. PosixTypeOK
  BY <1>1, <1>2, <1>3 DEF PosixInit, PosixTypeOK, ExcIInv
<1>5. FramesMeant
  <2>1. \A t \in Threads : depth[t] \in Levels
    BY <1>1 DEF ExcIInv, ExceptionTypeOK, Levels
  <2> QED BY <1>2, <1>3, <2>1 DEF PosixInit, FramesMeant, Call
<1>6. PostsReachWaiters
  <2>1. \A o \in Objects : At("parked", o) = {}
    BY <1>2, <1>3 DEF At
  <2> QED BY <2>1 DEF PostsReachWaiters
<1> QED BY <1>1, <1>4, <1>5, <1>6 DEF PosixIInv, PosixInv

(***************************************************************************)
(* Every step of every thread preserves the invariant.                     *)
(***************************************************************************)
LEMMA StepPosixIInv == PosixIInv /\ [PosixNext]_allVars => PosixIInv'
<1> SUFFICES ASSUME PosixIInv, [PosixNext]_allVars PROVE PosixIInv'
  OBVIOUS
<1>1. ExcIInv'
  BY StepIsDeliveryStep, StepExcIInv DEF PosixIInv
<1>2. CASE Terminate \/ UNCHANGED allVars
  <2>1. UNCHANGED <<current, made, value, frame, depth, pc>>
    BY <1>2 DEF Terminate, BeginTermination, allVars, vars, semVars
  <2>2. PosixTypeOK /\ PostsReachWaiters /\ FramesMeant /\ ExceptionTypeOK'
    BY <1>1 DEF PosixIInv, PosixInv, ExcIInv
  <2>3. PosixTypeOK'
    BY <2>1, <2>2 DEF PosixTypeOK
  <2>4. FramesMeant' /\ PostsReachWaiters'
    BY <2>1, <2>2 DEF FramesMeant, PostsReachWaiters, Call, At
  <2> QED BY <1>1, <2>3, <2>4 DEF PosixIInv, PosixInv
<1> QED
  BY <1>1, <1>2, CallsKeepInv, WaitStepsKeepInv, LimitKeepsInv, DeliveryKeepsInv, EndKeepsInv
     DEF PosixNext

(***************************************************************************)
(* No post is lost on a parked waiter, although waits leave the loop for   *)
(* handlers that use semaphores too, slices end on their own and the       *)
(* object may be replaced or destroyed under the calls.                    *)
(***************************************************************************)
THEOREM NoPostLost == PosixSpec => []PosixInv
<1>1. PosixIInv => PosixInv
  BY DEF PosixIInv
<1> QED BY <1>1, InitPosixIInv, StepPosixIInv, PTL DEF PosixSpec
===============================================================================
