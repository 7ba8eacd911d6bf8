---------------------------- MODULE WaitGateProofs ----------------------------
(***************************************************************************)
(* Proofs about the objects that wait through WaitGate: KernelSemaphore,   *)
(* EventFlag and EventQueue, for every set of threads and every bound.     *)
(***************************************************************************)
EXTENDS KernelSemaphore, EventFlag, EventQueue, TLAPS

-------------------------------------------------------------------------------
(***************************************************************************)
(* The kernel semaphore.                                                   *)
(***************************************************************************)

(***************************************************************************)
(* A thread in a wait has a semaphore and a need of its own.               *)
(***************************************************************************)
WantKept ==
    \A t \in Threads : InWait(t) => want[t] \in [sem : Sems, need : Needs]

(***************************************************************************)
(* Between the look at the object and the sleep, the lock is held but the  *)
(* object may change: whoever changes it owes a notify, and cannot pay it  *)
(* before the sleeper has released the lock.                               *)
(***************************************************************************)
ShortCovered ==
    \A t \in Threads :
      gpc[t] = "short" /\ Satisfiable(t) => notifying # {}

SemIInv == SemInv /\ WantKept /\ ShortCovered

-------------------------------------------------------------------------------
(***************************************************************************)
(* The initial state satisfies the invariant.                              *)
(***************************************************************************)
LEMMA InitSemIInv == Init => SemIInv
<1> SUFFICES ASSUME Init PROVE SemIInv
  OBVIOUS
<1>1. SemTypeOK
  <2>1. 0 \in 0 .. MaxCount
    BY MaxCountAssumption
  <2>2. GateTypeOK
    BY DEF Init, GateInit, GateTypeOK, GatePcs, Limits
  <2> QED BY <2>1, <2>2 DEF Init, SemTypeOK
<1>2. GateHeldExactly
  BY NoThreadAssumption DEF Init, GateInit, GateHeldExactly
<1>3. NoMissedNotify /\ WantKept /\ ShortCovered
  BY DEF Init, GateInit, NoMissedNotify, WantKept, ShortCovered, InWait
<1> QED BY <1>1, <1>2, <1>3 DEF SemIInv, SemInv

(***************************************************************************)
(* Every step preserves it.                                                *)
(***************************************************************************)
LEMMA StepSemIInv == SemIInv /\ [Next]_vars => SemIInv'
<1> SUFFICES ASSUME SemIInv, [Next]_vars PROVE SemIInv'
  OBVIOUS
<1>0. SemTypeOK /\ GateHeldExactly /\ NoMissedNotify /\ WantKept /\ ShortCovered
  BY DEF SemIInv, SemInv
<1> USE <1>0, NoThreadAssumption DEF SemTypeOK, GateTypeOK, gateVars, semVars
<1>1. ASSUME NEW t \in Threads, NEW s \in Sems, NEW i \in 0 .. MaxCount, Create(t, s, i)
      PROVE  SemIInv'
  <2>1. SemTypeOK'
    BY <1>1 DEF GatePcs, Limits, Create
  <2>2. GateHeldExactly' /\ WantKept'
    BY <1>1 DEF GateHeldExactly, WantKept, InWait, Create
  <2>3. NoMissedNotify' /\ ShortCovered'
    BY <1>1 DEF NoMissedNotify, ShortCovered, Satisfiable, GateHeldExactly, Create
  <2> QED BY <2>1, <2>2, <2>3 DEF SemIInv, SemInv
<1>2. ASSUME NEW t \in Threads, NEW s \in Sems, Delete(t, s)
      PROVE  SemIInv'
  <2>1. SemTypeOK'
    BY <1>2 DEF GatePcs, Limits, Delete, OweNotify
  <2>2. GateHeldExactly' /\ WantKept'
    BY <1>2 DEF GateHeldExactly, WantKept, InWait, Delete, OweNotify
  <2>3. NoMissedNotify' /\ ShortCovered'
    BY <1>2
       DEF NoMissedNotify, ShortCovered, Satisfiable, GateHeldExactly, Delete, OweNotify
  <2> QED BY <2>1, <2>2, <2>3 DEF SemIInv, SemInv
<1>3. ASSUME NEW t \in Threads, NEW s \in Sems, NEW n \in Needs, Signal(t, s, n)
      PROVE  SemIInv'
  <2>1. SemTypeOK'
    <3>1. \A a \in 0 .. MaxCount, b \in Needs : a <= MaxCount - b => a + b \in 0 .. MaxCount
      BY MaxCountAssumption DEF Needs
    <3> QED BY <1>3, <3>1 DEF Signal, OweNotify
  <2>2. GateHeldExactly' /\ WantKept'
    BY <1>3 DEF GateHeldExactly, WantKept, InWait, Signal, OweNotify
  <2>3. NoMissedNotify' /\ ShortCovered'
    BY <1>3
       DEF NoMissedNotify, ShortCovered, Satisfiable, GateHeldExactly, Signal, OweNotify
  <2> QED BY <2>1, <2>2, <2>3 DEF SemIInv, SemInv
<1>4. ASSUME NEW t \in Threads, NEW s \in Sems, NEW n \in Needs, Poll(t, s, n)
      PROVE  SemIInv'
  <2>1. SemTypeOK'
    <3>1. \A a \in 0 .. MaxCount, b \in Needs : a >= b => a - b \in 0 .. MaxCount
      BY MaxCountAssumption DEF Needs
    <3> QED BY <1>4, <3>1 DEF Poll, Consume
  <2>2. GateHeldExactly' /\ WantKept'
    BY <1>4 DEF GateHeldExactly, WantKept, InWait, Poll, Consume
  <2>3. ASSUME NEW u \in Threads, gpc'[u] \in {"parked", "short"}, Satisfiable(u)'
        PROVE  gpc'[u] = gpc[u] /\ Satisfiable(u)
    BY <1>4, <2>3 DEF Satisfiable, WantKept, InWait, Needs, Poll, Consume
  <2>4. NoMissedNotify' /\ ShortCovered'
    BY <1>4, <2>3 DEF NoMissedNotify, ShortCovered, Poll, Consume
  <2> QED BY <2>1, <2>2, <2>4 DEF SemIInv, SemInv
<1>5. ASSUME NEW t \in Threads, NEW s \in Sems, NEW c \in -1 .. MaxCount + 1, Cancel(t, s, c)
      PROVE  SemIInv'
  <2>1. SemTypeOK'
    <3>1. Clamped(c) \in 0 .. MaxCount
      BY MaxCountAssumption DEF Clamped
    <3> QED BY <1>5, <3>1 DEF Cancel, OweNotify
  <2>2. GateHeldExactly' /\ WantKept'
    BY <1>5 DEF GateHeldExactly, WantKept, InWait, Cancel, OweNotify
  <2>3. NoMissedNotify' /\ ShortCovered'
    BY <1>5
       DEF NoMissedNotify, ShortCovered, Satisfiable, GateHeldExactly, Cancel, OweNotify
  <2> QED BY <2>1, <2>2, <2>3 DEF SemIInv, SemInv
<1>6. ASSUME NEW t \in Threads, NEW s \in Sems, NEW n \in Needs, NEW lim \in Limits,
             WaitCall(t, s, n, lim)
      PROVE  SemIInv'
  <2>1. SemTypeOK'
    BY <1>6 DEF GatePcs, Limits, WaitCall, At
  <2>2. GateHeldExactly' /\ WantKept'
    BY <1>6 DEF GateHeldExactly, WantKept, InWait, WaitCall, At
  <2>3. NoMissedNotify' /\ ShortCovered'
    BY <1>6 DEF NoMissedNotify, ShortCovered, Satisfiable, GateHeldExactly, WaitCall, At
  <2> QED BY <2>1, <2>2, <2>3 DEF SemIInv, SemInv
<1>7. ASSUME NEW t \in Threads, WaitTerminates(t)
      PROVE  SemIInv'
  <2>1. SemTypeOK'
    BY <1>7 DEF GatePcs, Limits, WaitTerminates, SeesTermination, Returns, EndWait, At
  <2>2. GateHeldExactly' /\ WantKept'
    BY <1>7
       DEF GateHeldExactly, WantKept, InWait, WaitTerminates, SeesTermination, Returns,
           EndWait, At
  <2>3. NoMissedNotify' /\ ShortCovered'
    BY <1>7
       DEF NoMissedNotify, ShortCovered, Satisfiable, GateHeldExactly, WaitTerminates,
           SeesTermination, Returns, EndWait, At
  <2> QED BY <2>1, <2>2, <2>3 DEF SemIInv, SemInv
<1>8. ASSUME NEW t \in Threads, Deliver(t)
      PROVE  SemIInv'
  <2>1. SemTypeOK'
    BY <1>8 DEF GatePcs, Limits, Deliver, At
  <2>2. GateHeldExactly' /\ WantKept'
    BY <1>8 DEF GateHeldExactly, WantKept, InWait, Deliver, At
  <2>3. NoMissedNotify' /\ ShortCovered'
    BY <1>8 DEF NoMissedNotify, ShortCovered, Satisfiable, GateHeldExactly, Deliver, At
  <2> QED BY <2>1, <2>2, <2>3 DEF SemIInv, SemInv
<1>9. ASSUME NEW t \in Threads, HandlerReturns(t)
      PROVE  SemIInv'
  <2>1. SemTypeOK'
    BY <1>9 DEF GatePcs, Limits, HandlerReturns, At
  <2>2. GateHeldExactly' /\ WantKept'
    BY <1>9 DEF GateHeldExactly, WantKept, InWait, HandlerReturns, At
  <2>3. NoMissedNotify' /\ ShortCovered'
    BY <1>9
       DEF NoMissedNotify, ShortCovered, Satisfiable, GateHeldExactly, HandlerReturns, At
  <2> QED BY <2>1, <2>2, <2>3 DEF SemIInv, SemInv
<1>10. ASSUME NEW t \in Threads, TryTakes(t)
      PROVE  SemIInv'
  <2>1. SemTypeOK'
    <3>1. \A a \in 0 .. MaxCount, b \in Needs : a >= b => a - b \in 0 .. MaxCount
      BY MaxCountAssumption DEF Needs
    <3>2. want[t].sem \in Sems /\ want[t].need \in Needs
      BY <1>10 DEF TryTakes, Looking, WantKept, InWait
    <3> QED BY <1>10, <3>1, <3>2
       DEF TryTakes, Looking, Consume, Returns, EndWait, At, GatePcs, Limits
  <2>2. GateHeldExactly' /\ WantKept'
    BY <1>10
       DEF GateHeldExactly, WantKept, InWait, TryTakes, Looking, Consume, Returns,
           EndWait, At
  <2>3. ASSUME NEW u \in Threads, gpc'[u] \in {"parked", "short"}, Satisfiable(u)'
        PROVE  gpc'[u] = gpc[u] /\ Satisfiable(u)
    BY <1>10, <2>3
       DEF Satisfiable, WantKept, InWait, Needs, TryTakes, Looking, Consume, Returns,
           EndWait, At
  <2>4. NoMissedNotify' /\ ShortCovered'
    BY <1>10, <2>3
       DEF NoMissedNotify, ShortCovered, TryTakes, Looking, Consume, Returns, EndWait, At
  <2> QED BY <2>1, <2>2, <2>4 DEF SemIInv, SemInv
<1>11. ASSUME NEW t \in Threads, TryFindsDeleted(t)
      PROVE  SemIInv'
  <2>1. SemTypeOK'
    BY <1>11 DEF GatePcs, Limits, TryFindsDeleted, Looking, Returns, EndWait, At
  <2>2. GateHeldExactly' /\ WantKept'
    BY <1>11
       DEF GateHeldExactly, WantKept, InWait, TryFindsDeleted, Looking, Returns, EndWait,
           At
  <2>3. NoMissedNotify' /\ ShortCovered'
    BY <1>11
       DEF NoMissedNotify, ShortCovered, Satisfiable, GateHeldExactly, TryFindsDeleted,
           Looking, Returns, EndWait, At
  <2> QED BY <2>1, <2>2, <2>3 DEF SemIInv, SemInv
<1>12. ASSUME NEW t \in Threads, TryFails(t)
      PROVE  SemIInv'
  <2>1. SemTypeOK'
    BY <1>12 DEF GatePcs, Limits, TryFails, Looking, Returns, EndWait, At
  <2>2. GateHeldExactly' /\ WantKept'
    BY <1>12 DEF GateHeldExactly, WantKept, InWait, TryFails, Looking, Returns, EndWait, At
  <2>3. NoMissedNotify' /\ ShortCovered'
    <3>1. ~Satisfiable(t) /\ UNCHANGED <<live, count, notifying>>
      <4>1. want[t] \in [sem : Sems, need : Needs]
        BY <1>12 DEF TryFails, Looking, WantKept, InWait
      <4>2. \A a \in 0 .. MaxCount, b \in Needs : a < b => ~(a >= b)
        BY MaxCountAssumption DEF Needs
      <4> QED BY <1>12, <4>1, <4>2 DEF TryFails, Satisfiable, Returns, EndWait
    <3>2. /\ \A u \in Threads \ {t} : gpc'[u] = gpc[u] /\ want'[u] = want[u]
          /\ gpc'[t] # "guest" => gpc'[t] = "short" /\ want'[t] = want[t]
      BY <1>12 DEF TryFails, Returns, EndWait, At
    <3>3. ASSUME NEW u \in Threads, gpc'[u] \in {"parked", "short"}, Satisfiable(u)'
          PROVE  notifying' # {}
      <4>1. u # t
        BY <3>1, <3>2, <3>3 DEF Satisfiable
      <4>2. gpc[u] \in {"parked", "short"} /\ Satisfiable(u)
        BY <3>1, <3>2, <3>3, <4>1 DEF Satisfiable
      <4> QED BY <3>1, <4>2 DEF NoMissedNotify, ShortCovered
    <3> QED BY <3>3 DEF NoMissedNotify, ShortCovered
  <2> QED BY <2>1, <2>2, <2>3 DEF SemIInv, SemInv
<1>13. ASSUME NEW t \in Threads, TakeGate(t), UNCHANGED semVars
      PROVE  SemIInv'
  <2>1. SemTypeOK'
    BY <1>13 DEF GatePcs, Limits, TakeGate, At
  <2>2. GateHeldExactly' /\ WantKept'
    BY <1>13 DEF GateHeldExactly, WantKept, InWait, TakeGate, At
  <2>3. NoMissedNotify' /\ ShortCovered'
    BY <1>13 DEF NoMissedNotify, ShortCovered, Satisfiable, GateHeldExactly, TakeGate, At
  <2> QED BY <2>1, <2>2, <2>3 DEF SemIInv, SemInv
<1>14. ASSUME NEW t \in Threads, Park(t), UNCHANGED semVars
      PROVE  SemIInv'
  <2>1. SemTypeOK'
    BY <1>14 DEF GatePcs, Limits, Park, At
  <2>2. GateHeldExactly' /\ WantKept'
    BY <1>14 DEF GateHeldExactly, WantKept, InWait, Park, At
  <2>3. NoMissedNotify' /\ ShortCovered'
    BY <1>14 DEF NoMissedNotify, ShortCovered, Satisfiable, GateHeldExactly, Park, At
  <2> QED BY <2>1, <2>2, <2>3 DEF SemIInv, SemInv
<1>15. ASSUME NEW t \in Threads, SliceEnds(t), UNCHANGED semVars
      PROVE  SemIInv'
  <2>1. SemTypeOK'
    BY <1>15 DEF GatePcs, Limits, SliceEnds, At
  <2>2. GateHeldExactly' /\ WantKept'
    BY <1>15 DEF GateHeldExactly, WantKept, InWait, SliceEnds, At
  <2>3. NoMissedNotify' /\ ShortCovered'
    BY <1>15 DEF NoMissedNotify, ShortCovered, Satisfiable, GateHeldExactly, SliceEnds, At
  <2> QED BY <2>1, <2>2, <2>3 DEF SemIInv, SemInv
<1>16. ASSUME NEW t \in Threads, Notify(t), UNCHANGED semVars
      PROVE  SemIInv'
  <2>1. SemTypeOK'
    BY <1>16 DEF GatePcs, Limits, Notify
  <2>2. GateHeldExactly' /\ WantKept'
    BY <1>16 DEF GateHeldExactly, WantKept, InWait, Notify
  <2>3. NoMissedNotify' /\ ShortCovered'
    BY <1>16 DEF NoMissedNotify, ShortCovered, Satisfiable, GateHeldExactly, Notify
  <2> QED BY <2>1, <2>2, <2>3 DEF SemIInv, SemInv
<1>17. ASSUME NEW t \in Threads, DeadlinePasses(t), UNCHANGED semVars
      PROVE  SemIInv'
  <2>1. SemTypeOK'
    BY <1>17 DEF GatePcs, Limits, DeadlinePasses
  <2>2. GateHeldExactly' /\ WantKept'
    BY <1>17 DEF GateHeldExactly, WantKept, InWait, DeadlinePasses
  <2>3. NoMissedNotify' /\ ShortCovered'
    BY <1>17 DEF NoMissedNotify, ShortCovered, Satisfiable, GateHeldExactly, DeadlinePasses
  <2> QED BY <2>1, <2>2, <2>3 DEF SemIInv, SemInv
<1>18. ASSUME NEW t \in Threads, Ends(t)
      PROVE  SemIInv'
  <2>1. SemTypeOK'
    BY <1>18 DEF GatePcs, Limits, Ends, ThreadEnds, Running, At
  <2>2. GateHeldExactly' /\ WantKept'
    BY <1>18 DEF GateHeldExactly, WantKept, InWait, Ends, ThreadEnds, Running, At
  <2>3. NoMissedNotify' /\ ShortCovered'
    BY <1>18
       DEF NoMissedNotify, ShortCovered, Satisfiable, GateHeldExactly, Ends, ThreadEnds,
           Running, At
  <2> QED BY <2>1, <2>2, <2>3 DEF SemIInv, SemInv
<1>19. ASSUME Terminate
      PROVE  SemIInv'
  <2>1. SemTypeOK'
    BY <1>19 DEF GatePcs, Limits, Terminate, BeginTermination
  <2>2. GateHeldExactly' /\ WantKept'
    BY <1>19 DEF GateHeldExactly, WantKept, InWait, Terminate, BeginTermination
  <2>3. NoMissedNotify' /\ ShortCovered'
    BY <1>19
       DEF NoMissedNotify, ShortCovered, Satisfiable, GateHeldExactly, Terminate,
           BeginTermination
  <2> QED BY <2>1, <2>2, <2>3 DEF SemIInv, SemInv
<1>20. ASSUME UNCHANGED vars PROVE SemIInv'
  BY <1>20
     DEF vars, SemIInv, SemInv, GateHeldExactly, NoMissedNotify, WantKept, ShortCovered,
               Satisfiable, InWait
<1> QED
  BY <1>1, <1>2, <1>3, <1>4, <1>5, <1>6, <1>7, <1>8, <1>9, <1>10, <1>11, <1>12, <1>13, <1>14,
     <1>15, <1>16, <1>17, <1>18, <1>19, <1>20 DEF Next, GateStep

(***************************************************************************)
(* A count stays within its ceiling, the lock is held exactly from the     *)
(* check to the sleep, and no waiter is left asleep that a signal, a       *)
(* cancel or a delete should have woken.                                   *)
(***************************************************************************)
THEOREM NoNotifyMissed == Spec => []SemInv
<1>1. SemIInv => SemInv
  BY DEF SemIInv
<1> QED BY <1>1, InitSemIInv, StepSemIInv, PTL DEF Spec

-------------------------------------------------------------------------------
(***************************************************************************)
(* The event flag.                                                         *)
(***************************************************************************)

(***************************************************************************)
(* Between the ready check and the sleep the lock is held but the bits may *)
(* change: whoever changes them owes a notify, and cannot pay it before    *)
(* the sleeper has released the lock.                                      *)
(***************************************************************************)
ShortFlagCovered ==
    \A t \in Threads : gpc[t] = "short" /\ ReadyNow(t) => notifying # {}

FlagIInv == FlagInv /\ GateHeldExactly /\ ShortFlagCovered

(***************************************************************************)
(* Clearing bits satisfies nobody.                                         *)
(***************************************************************************)
LEMMA ClearingSatisfiesNobody ==
    ASSUME NEW b, NEW p, NEW m, NEW q, NEW n,
           is_satisfied(apply_clear(b, p, m), q, n), q # {}
    PROVE  is_satisfied(b, q, n)
BY DEF is_satisfied, apply_clear

(***************************************************************************)
(* A wait asks for something, in one of the modes.                         *)
(***************************************************************************)
LEMMA AskOfWaiter ==
    ASSUME FlagTypeOK, NEW t \in Threads, InWait(t)
    PROVE  ask[t][1] \in Patterns /\ ask[t][1] # {} /\ ask[t][2] \in Modes
BY DEF FlagTypeOK, Patterns, NoAsk

(***************************************************************************)
(* Clearing stays within the bits of the flag.                             *)
(***************************************************************************)
LEMMA ClearStaysWithin ==
    ASSUME NEW b, b \subseteq Bits, NEW p, NEW m
    PROVE  apply_clear(b, p, m) \subseteq Bits
BY DEF apply_clear

(***************************************************************************)
(* A request is never mistaken for the absence of one.                     *)
(***************************************************************************)
LEMMA NoAskIsNone ==
    ASSUME NEW p \in Patterns, NEW m \in Modes
    PROVE  <<p, m>> # NoAsk
BY DEF Patterns, NoAsk

-------------------------------------------------------------------------------
(***************************************************************************)
(* A new flag, whatever its bits, satisfies the invariant.                 *)
(***************************************************************************)
LEMMA InitFlagIInv == FlagInit => FlagIInv
<1> SUFFICES ASSUME FlagInit PROVE FlagIInv
  OBVIOUS
<1>1. FlagTypeOK
  BY DEF FlagInit, GateInit, FlagTypeOK, GateTypeOK, GatePcs, Limits, InWait
<1>2. GateHeldExactly
  BY NoThreadAssumption DEF FlagInit, GateInit, GateHeldExactly
<1>3. NoMissedSet /\ ShortFlagCovered
  BY DEF FlagInit, GateInit, NoMissedSet, ShortFlagCovered
<1> QED BY <1>1, <1>2, <1>3 DEF FlagIInv, FlagInv

(***************************************************************************)
(* Every step preserves it.                                                *)
(***************************************************************************)
LEMMA StepFlagIInv == FlagIInv /\ [FlagNext]_flagAllVars => FlagIInv'
<1> SUFFICES ASSUME FlagIInv, [FlagNext]_flagAllVars PROVE FlagIInv'
  OBVIOUS
<1>0. FlagTypeOK /\ GateHeldExactly /\ NoMissedSet /\ ShortFlagCovered
  BY DEF FlagIInv, FlagInv
<1> USE <1>0, NoThreadAssumption DEF FlagTypeOK, GateTypeOK, gateVars, flagVars
<1>1. ASSUME NEW t \in Threads, NEW p \in Patterns, FlagSet(t, p)
      PROVE  FlagIInv'
  <2>1. FlagTypeOK'
    BY <1>1 DEF Patterns, GatePcs, Limits, InWait, FlagSet, FlagUpdate, OweNotify
  <2>2. GateHeldExactly'
    BY <1>1 DEF GateHeldExactly, FlagSet, FlagUpdate, OweNotify
  <2>3. NoMissedSet' /\ ShortFlagCovered'
    BY <1>1
       DEF NoMissedSet, ShortFlagCovered, ReadyNow, GateHeldExactly, FlagSet,
           FlagUpdate, OweNotify
  <2> QED BY <2>1, <2>2, <2>3 DEF FlagIInv, FlagInv
<1>2. ASSUME NEW t \in Threads, NEW p \in SUBSET Bits, FlagClear(t, p)
      PROVE  FlagIInv'
  <2>1. FlagTypeOK'
    BY <1>2 DEF GatePcs, Limits, InWait, FlagClear, FlagUpdate, OweNotify
  <2>2. GateHeldExactly'
    BY <1>2 DEF GateHeldExactly, FlagClear, FlagUpdate, OweNotify
  <2>3. NoMissedSet' /\ ShortFlagCovered'
    BY <1>2
       DEF NoMissedSet, ShortFlagCovered, ReadyNow, GateHeldExactly, FlagClear,
           FlagUpdate, OweNotify
  <2> QED BY <2>1, <2>2, <2>3 DEF FlagIInv, FlagInv
<1>3. ASSUME NEW t \in Threads, NEW p \in SUBSET Bits, FlagCancel(t, p)
      PROVE  FlagIInv'
  <2>1. FlagTypeOK'
    BY <1>3 DEF GatePcs, Limits, InWait, FlagCancel, FlagUpdate, OweNotify
  <2>2. GateHeldExactly'
    BY <1>3 DEF GateHeldExactly, FlagCancel, FlagUpdate, OweNotify
  <2>3. NoMissedSet' /\ ShortFlagCovered'
    BY <1>3
       DEF NoMissedSet, ShortFlagCovered, ReadyNow, GateHeldExactly, FlagCancel,
           FlagUpdate, OweNotify
  <2> QED BY <2>1, <2>2, <2>3 DEF FlagIInv, FlagInv
<1>4. ASSUME NEW t \in Threads, FlagDelete(t)
      PROVE  FlagIInv'
  <2>1. FlagTypeOK'
    BY <1>4 DEF GatePcs, Limits, InWait, FlagDelete, OweNotify
  <2>2. GateHeldExactly'
    BY <1>4 DEF GateHeldExactly, FlagDelete, OweNotify
  <2>3. NoMissedSet' /\ ShortFlagCovered'
    BY <1>4
       DEF NoMissedSet, ShortFlagCovered, ReadyNow, GateHeldExactly, FlagDelete,
           OweNotify
  <2> QED BY <2>1, <2>2, <2>3 DEF FlagIInv, FlagInv
<1>5. ASSUME NEW t \in Threads, NEW p \in Patterns, NEW m \in Modes, FlagPoll(t, p, m)
      PROVE  FlagIInv'
  <2>0. bits' \subseteq Bits
    <3>1. bits' = apply_clear(bits, p, m)
      BY <1>5 DEF FlagPoll
    <3> QED BY <3>1, ClearStaysWithin
  <2>1. FlagTypeOK'
    BY <1>5, <2>0 DEF GatePcs, Limits, InWait, FlagPoll
  <2>2. GateHeldExactly'
    BY <1>5 DEF GateHeldExactly, FlagPoll
  <2>3. ASSUME NEW u \in Threads, gpc'[u] \in {"parked", "short"}, ReadyNow(u)'
        PROVE  gpc'[u] = gpc[u] /\ ReadyNow(u)
    <3>1. gpc'[u] = gpc[u] /\ ask'[u] = ask[u] /\ flagLive' = flagLive
      BY <1>5, <2>3 DEF FlagPoll
    <3>2. ask[u][1] # {}
      BY <2>3, <3>1, AskOfWaiter DEF InWait
    <3>3. bits' = apply_clear(bits, p, m)
      BY <1>5 DEF FlagPoll
    <3> QED BY <2>3, <3>1, <3>2, <3>3, ClearingSatisfiesNobody DEF ReadyNow
  <2>4. NoMissedSet' /\ ShortFlagCovered'
    BY <1>5, <2>3 DEF NoMissedSet, ShortFlagCovered, FlagPoll
  <2> QED BY <2>1, <2>2, <2>4 DEF FlagIInv, FlagInv
<1>6. ASSUME NEW t \in Threads, NEW p \in Patterns, NEW m \in Modes, NEW lim \in Limits,
             FlagWaitCall(t, p, m, lim)
      PROVE  FlagIInv'
  <2>1. FlagTypeOK'
    BY <1>6, NoAskIsNone DEF GatePcs, Limits, InWait, FlagWaitCall, At
  <2>2. GateHeldExactly'
    BY <1>6 DEF GateHeldExactly, FlagWaitCall, At
  <2>3. NoMissedSet' /\ ShortFlagCovered'
    BY <1>6
       DEF NoMissedSet, ShortFlagCovered, ReadyNow, GateHeldExactly, FlagWaitCall, At
  <2> QED BY <2>1, <2>2, <2>3 DEF FlagIInv, FlagInv
<1>7. ASSUME NEW t \in Threads, FlagWaitTerminates(t)
      PROVE  FlagIInv'
  <2>1. FlagTypeOK'
    BY <1>7
       DEF GatePcs, Limits, InWait, FlagWaitTerminates, FlagSeesTermination,
           FlagReturns, EndWait, At
  <2>2. GateHeldExactly'
    BY <1>7
       DEF GateHeldExactly, FlagWaitTerminates, FlagSeesTermination, FlagReturns,
           EndWait, At
  <2>3. NoMissedSet' /\ ShortFlagCovered'
    BY <1>7
       DEF NoMissedSet, ShortFlagCovered, ReadyNow, GateHeldExactly,
           FlagWaitTerminates, FlagSeesTermination, FlagReturns, EndWait, At
  <2> QED BY <2>1, <2>2, <2>3 DEF FlagIInv, FlagInv
<1>8. ASSUME NEW t \in Threads, FlagDeliver(t)
      PROVE  FlagIInv'
  <2>1. FlagTypeOK'
    BY <1>8 DEF GatePcs, Limits, InWait, FlagDeliver, At
  <2>2. GateHeldExactly'
    BY <1>8 DEF GateHeldExactly, FlagDeliver, At
  <2>3. NoMissedSet' /\ ShortFlagCovered'
    BY <1>8
       DEF NoMissedSet, ShortFlagCovered, ReadyNow, GateHeldExactly, FlagDeliver, At
  <2> QED BY <2>1, <2>2, <2>3 DEF FlagIInv, FlagInv
<1>9. ASSUME NEW t \in Threads, FlagHandlerReturns(t)
      PROVE  FlagIInv'
  <2>1. FlagTypeOK'
    BY <1>9 DEF GatePcs, Limits, InWait, FlagHandlerReturns, At
  <2>2. GateHeldExactly'
    BY <1>9 DEF GateHeldExactly, FlagHandlerReturns, At
  <2>3. NoMissedSet' /\ ShortFlagCovered'
    BY <1>9
       DEF NoMissedSet, ShortFlagCovered, ReadyNow, GateHeldExactly,
           FlagHandlerReturns, At
  <2> QED BY <2>1, <2>2, <2>3 DEF FlagIInv, FlagInv
<1>10. ASSUME NEW t \in Threads, TimesOut(t)
      PROVE  FlagIInv'
  <2>1. FlagTypeOK'
    BY <1>10
       DEF GatePcs, Limits, InWait, TimesOut, AtDeadlineCheck, FlagReturns, EndWait,
           At
  <2>2. GateHeldExactly'
    BY <1>10 DEF GateHeldExactly, TimesOut, AtDeadlineCheck, FlagReturns, EndWait, At
  <2>3. NoMissedSet' /\ ShortFlagCovered'
    BY <1>10
       DEF NoMissedSet, ShortFlagCovered, ReadyNow, GateHeldExactly, TimesOut,
           AtDeadlineCheck, FlagReturns, EndWait, At
  <2> QED BY <2>1, <2>2, <2>3 DEF FlagIInv, FlagInv
<1>11. ASSUME NEW t \in Threads, StartsSlice(t)
      PROVE  FlagIInv'
  <2>1. FlagTypeOK'
    BY <1>11 DEF GatePcs, Limits, InWait, StartsSlice, AtDeadlineCheck, At
  <2>2. GateHeldExactly'
    BY <1>11 DEF GateHeldExactly, StartsSlice, AtDeadlineCheck, At
  <2>3. NoMissedSet' /\ ShortFlagCovered'
    BY <1>11
       DEF NoMissedSet, ShortFlagCovered, ReadyNow, GateHeldExactly, StartsSlice,
           AtDeadlineCheck, At
  <2> QED BY <2>1, <2>2, <2>3 DEF FlagIInv, FlagInv
<1>12. ASSUME NEW t \in Threads, Enter(t)
      PROVE  FlagIInv'
  <2>1. FlagTypeOK'
    BY <1>12 DEF GatePcs, Limits, InWait, Enter, TakeGate, At
  <2>2. GateHeldExactly'
    BY <1>12 DEF GateHeldExactly, Enter, TakeGate, At
  <2>3. NoMissedSet' /\ ShortFlagCovered'
    BY <1>12
       DEF NoMissedSet, ShortFlagCovered, ReadyNow, GateHeldExactly, Enter, TakeGate,
           At
  <2> QED BY <2>1, <2>2, <2>3 DEF FlagIInv, FlagInv
<1>13. ASSUME NEW t \in Threads, ReadySatisfied(t)
      PROVE  FlagIInv'
  <2>0. bits' \subseteq Bits
    <3>1. bits' = apply_clear(bits, ask[t][1], ask[t][2])
      BY <1>13 DEF ReadySatisfied
    <3> QED BY <3>1, ClearStaysWithin
  <2>1. FlagTypeOK'
    BY <1>13, <2>0
       DEF GatePcs, Limits, InWait, ReadySatisfied, FlagReturns, EndWait, At
  <2>2. GateHeldExactly'
    BY <1>13 DEF GateHeldExactly, ReadySatisfied, FlagReturns, EndWait, At
  <2>3. ASSUME NEW u \in Threads, gpc'[u] \in {"parked", "short"}, ReadyNow(u)'
        PROVE  gpc'[u] = gpc[u] /\ ReadyNow(u)
    <3>1. gpc'[u] = gpc[u] /\ ask'[u] = ask[u] /\ flagLive' = flagLive
      BY <1>13, <2>3 DEF ReadySatisfied, FlagReturns, EndWait, At
    <3>2. ask[u][1] # {}
      BY <2>3, <3>1, AskOfWaiter DEF InWait
    <3>3. bits' = apply_clear(bits, ask[t][1], ask[t][2])
      BY <1>13 DEF ReadySatisfied
    <3> QED BY <2>3, <3>1, <3>2, <3>3, ClearingSatisfiesNobody DEF ReadyNow
  <2>4. NoMissedSet' /\ ShortFlagCovered'
    BY <1>13, <2>3
       DEF NoMissedSet, ShortFlagCovered, ReadySatisfied, FlagReturns, EndWait, At
  <2> QED BY <2>1, <2>2, <2>4 DEF FlagIInv, FlagInv
<1>14. ASSUME NEW t \in Threads, ReadyDeleted(t)
      PROVE  FlagIInv'
  <2>1. FlagTypeOK'
    BY <1>14 DEF GatePcs, Limits, InWait, ReadyDeleted, FlagReturns, EndWait, At
  <2>2. GateHeldExactly'
    BY <1>14 DEF GateHeldExactly, ReadyDeleted, FlagReturns, EndWait, At
  <2>3. NoMissedSet' /\ ShortFlagCovered'
    BY <1>14
       DEF NoMissedSet, ShortFlagCovered, ReadyNow, GateHeldExactly, ReadyDeleted,
           FlagReturns, EndWait, At
  <2> QED BY <2>1, <2>2, <2>3 DEF FlagIInv, FlagInv
<1>15. ASSUME NEW t \in Threads, NotReady(t)
      PROVE  FlagIInv'
  <2>1. FlagTypeOK'
    BY <1>15 DEF GatePcs, Limits, InWait, NotReady, At
  <2>2. GateHeldExactly'
    BY <1>15 DEF GateHeldExactly, NotReady, At
  <2>3. NoMissedSet' /\ ShortFlagCovered'
    BY <1>15
       DEF NoMissedSet, ShortFlagCovered, ReadyNow, GateHeldExactly, NotReady, At
  <2> QED BY <2>1, <2>2, <2>3 DEF FlagIInv, FlagInv
<1>16. ASSUME NEW t \in Threads, SliceOver(t)
      PROVE  FlagIInv'
  <2>1. FlagTypeOK'
    BY <1>16 DEF GatePcs, Limits, InWait, SliceOver, At
  <2>2. GateHeldExactly'
    BY <1>16 DEF GateHeldExactly, SliceOver, At
  <2>3. NoMissedSet' /\ ShortFlagCovered'
    BY <1>16
       DEF NoMissedSet, ShortFlagCovered, ReadyNow, GateHeldExactly, SliceOver, At
  <2> QED BY <2>1, <2>2, <2>3 DEF FlagIInv, FlagInv
<1>17. ASSUME NEW t \in Threads, Park(t), UNCHANGED flagVars
      PROVE  FlagIInv'
  <2>1. FlagTypeOK'
    BY <1>17 DEF GatePcs, Limits, InWait, Park, At
  <2>2. GateHeldExactly'
    BY <1>17 DEF GateHeldExactly, Park, At
  <2>3. NoMissedSet' /\ ShortFlagCovered'
    BY <1>17 DEF NoMissedSet, ShortFlagCovered, ReadyNow, GateHeldExactly, Park, At
  <2> QED BY <2>1, <2>2, <2>3 DEF FlagIInv, FlagInv
<1>18. ASSUME NEW t \in Threads, SliceEnds(t), UNCHANGED flagVars
      PROVE  FlagIInv'
  <2>1. FlagTypeOK'
    BY <1>18 DEF GatePcs, Limits, InWait, SliceEnds, At
  <2>2. GateHeldExactly'
    BY <1>18 DEF GateHeldExactly, SliceEnds, At
  <2>3. NoMissedSet' /\ ShortFlagCovered'
    BY <1>18
       DEF NoMissedSet, ShortFlagCovered, ReadyNow, GateHeldExactly, SliceEnds, At
  <2> QED BY <2>1, <2>2, <2>3 DEF FlagIInv, FlagInv
<1>19. ASSUME NEW t \in Threads, Notify(t), UNCHANGED flagVars
      PROVE  FlagIInv'
  <2>1. FlagTypeOK'
    BY <1>19 DEF GatePcs, Limits, InWait, Notify
  <2>2. GateHeldExactly'
    BY <1>19 DEF GateHeldExactly, Notify
  <2>3. NoMissedSet' /\ ShortFlagCovered'
    BY <1>19 DEF NoMissedSet, ShortFlagCovered, ReadyNow, GateHeldExactly, Notify
  <2> QED BY <2>1, <2>2, <2>3 DEF FlagIInv, FlagInv
<1>20. ASSUME NEW t \in Threads, DeadlinePasses(t), UNCHANGED flagVars
      PROVE  FlagIInv'
  <2>1. FlagTypeOK'
    BY <1>20 DEF GatePcs, Limits, InWait, DeadlinePasses
  <2>2. GateHeldExactly'
    BY <1>20 DEF GateHeldExactly, DeadlinePasses
  <2>3. NoMissedSet' /\ ShortFlagCovered'
    BY <1>20
       DEF NoMissedSet, ShortFlagCovered, ReadyNow, GateHeldExactly, DeadlinePasses
  <2> QED BY <2>1, <2>2, <2>3 DEF FlagIInv, FlagInv
<1>21. ASSUME NEW t \in Threads, FlagEnds(t)
      PROVE  FlagIInv'
  <2>1. FlagTypeOK'
    BY <1>21 DEF GatePcs, Limits, InWait, FlagEnds, ThreadEnds, Running, At
  <2>2. GateHeldExactly'
    BY <1>21 DEF GateHeldExactly, FlagEnds, ThreadEnds, Running, At
  <2>3. NoMissedSet' /\ ShortFlagCovered'
    BY <1>21
       DEF NoMissedSet, ShortFlagCovered, ReadyNow, GateHeldExactly, FlagEnds,
           ThreadEnds, Running, At
  <2> QED BY <2>1, <2>2, <2>3 DEF FlagIInv, FlagInv
<1>22. ASSUME FlagTerminate
      PROVE  FlagIInv'
  <2>1. FlagTypeOK'
    BY <1>22 DEF GatePcs, Limits, InWait, FlagTerminate, BeginTermination
  <2>2. GateHeldExactly'
    BY <1>22 DEF GateHeldExactly, FlagTerminate, BeginTermination
  <2>3. NoMissedSet' /\ ShortFlagCovered'
    BY <1>22
       DEF NoMissedSet, ShortFlagCovered, ReadyNow, GateHeldExactly, FlagTerminate,
           BeginTermination
  <2> QED BY <2>1, <2>2, <2>3 DEF FlagIInv, FlagInv
<1>23. ASSUME UNCHANGED flagAllVars PROVE FlagIInv'
  BY <1>23
     DEF flagAllVars, FlagIInv, FlagInv, GateHeldExactly, NoMissedSet,
         ShortFlagCovered, ReadyNow, InWait
<1> QED
  BY <1>1, <1>2, <1>3, <1>4, <1>5, <1>6, <1>7, <1>8, <1>9, <1>10, <1>11, <1>12, <1>13,
     <1>14, <1>15, <1>16, <1>17, <1>18, <1>19, <1>20, <1>21, <1>22, <1>23 DEF
     FlagNext, FlagGateStep

(***************************************************************************)
(* No thread stays parked on a flag that has its bits, or that is deleted, *)
(* without a producer of update_event or delete about to notify it.        *)
(***************************************************************************)
THEOREM NoSetMissed == FlagSpec => []FlagInv
<1>1. FlagIInv => FlagInv
  BY DEF FlagIInv
<1> QED BY <1>1, InitFlagIInv, StepFlagIInv, PTL DEF FlagSpec

-------------------------------------------------------------------------------
(***************************************************************************)
(* The event queue and the ordered side effects of the GPU.                *)
(***************************************************************************)

(***************************************************************************)
(* Between the look at the queue and the sleep the lock is held but events *)
(* and effects may arrive: whoever brought them owes a notify.             *)
(***************************************************************************)
ShortQueueCovered ==
    \A t \in Guests : gpc[t] = "short" /\ Observable => notifying # {}

(***************************************************************************)
(* Numbers are given out once, by the clock; a pending event carries one   *)
(* that has not been delivered.                                            *)
(***************************************************************************)
NumbersGiven ==
    /\ \A e \in Events : newest[e] <= clock /\ batch[e] <= clock /\ delivered[e] <= clock
    /\ \A e \in triggered : newest[e] # delivered[e]

(***************************************************************************)
(* An effect that is published or drained but not applied has triggered    *)
(* nothing: its number is on no event, in no batch and not delivered.      *)
(***************************************************************************)
Untouched(x) ==
    /\ x[1] <= clock
    /\ x[1] # newest[x[2]]
    /\ x[1] # batch[x[2]]
    /\ x[1] # delivered[x[2]]

EffectsUntouched ==
    /\ \A i \in 1..Len(effects) : Untouched(effects[i])
    /\ \A t \in Guests : \A i \in 1..Len(hand[t]) : Untouched(hand[t][i])

(***************************************************************************)
(* No effect is in two places: PENDING is drained as a whole.              *)
(***************************************************************************)
Separate(q) == \A i, j \in 1..Len(q) : q[i][1] = q[j][1] => i = j
Disjoint(q, r) == \A i \in 1..Len(q), j \in 1..Len(r) : q[i][1] # r[j][1]

EffectsDistinct ==
    /\ Separate(effects)
    /\ \A t \in Guests : Separate(hand[t]) /\ Disjoint(hand[t], effects)
    /\ \A t, u \in Guests : t # u => Disjoint(hand[t], hand[u])

NumberInv == NumbersGiven /\ DeliveredOnce /\ EffectsUntouched /\ EffectsDistinct

QueueIInv ==
    /\ QueueTypeOK
    /\ GateHeldExactly
    /\ NoMissedTrigger
    /\ ShortQueueCovered
    /\ NumberInv

(***************************************************************************)
(* Guest threads and the GPU worker are threads; a guest is not the worker. *)
(***************************************************************************)
LEMMA GuestIsThread == \A t \in Guests : t \in Threads /\ t # NoThread /\ t # Worker
BY NoThreadAssumption DEF Guests

-------------------------------------------------------------------------------
(***************************************************************************)
(* A step that numbers nothing keeps the numbers in order.                 *)
(***************************************************************************)
LEMMA NumbersKept ==
    ASSUME NumberInv, triggered' \subseteq triggered,
           UNCHANGED <<newest, batch, delivered, effects, hand, clock>>
    PROVE  NumberInv'
<1> USE DEF NumberInv
<1>1. NumbersGiven' /\ DeliveredOnce'
  BY DEF NumbersGiven, DeliveredOnce, Collected
<1>2. EffectsUntouched'
  BY DEF EffectsUntouched, Untouched
<1>3. EffectsDistinct'
  BY SMTT(40) DEF EffectsDistinct, Separate, Disjoint
<1> QED BY <1>1, <1>2, <1>3

(***************************************************************************)
(* What the type invariant says of effects, published or drained.          *)
(***************************************************************************)
LEMMA EffectTypes ==
    ASSUME QueueTypeOK
    PROVE  /\ Len(effects) \in Nat
           /\ \A i \in 1..Len(effects) : effects[i] \in Effect
           /\ \A t \in Guests : Len(hand[t]) \in Nat
           /\ \A t \in Guests : \A i \in 1..Len(hand[t]) : hand[t][i] \in Effect
           /\ \A x \in Effect : x[1] \in Nat /\ x[1] # 0 /\ x[2] \in Events
           /\ clock \in Nat
           /\ \A e \in Events : newest[e] \in Nat /\ batch[e] \in Nat /\ delivered[e] \in Nat
BY BatchAssumption DEF QueueTypeOK, Effect, Numbers

(***************************************************************************)
(* A trigger of a guest thread.                                            *)
(***************************************************************************)
LEMMA TriggerNumbers ==
    ASSUME QueueTypeOK, NumberInv, NEW t \in Guests, NEW e \in Events, Trigger(t, e)
    PROVE  NumberInv'
<1> USE EffectTypes DEF NumberInv
<1>1. /\ clock' = clock + 1
      /\ newest' = [newest EXCEPT ![e] = clock + 1]
      /\ triggered' = triggered \cup {e}
      /\ UNCHANGED <<batch, delivered, effects, hand>>
  BY DEF Trigger, MarkPending
<1>2. \A f \in Events : newest'[f] = IF f = e THEN clock + 1 ELSE newest[f]
  BY <1>1 DEF QueueTypeOK
<1>3. NumbersGiven'
  BY <1>1, <1>2 DEF NumbersGiven, QueueTypeOK
<1>4. DeliveredOnce'
  BY <1>1 DEF DeliveredOnce, Collected
<1>5. ASSUME NEW x \in Effect, Untouched(x) PROVE Untouched(x)'
  BY <1>1, <1>2, <1>5 DEF Untouched
<1>6. EffectsUntouched'
  BY <1>1, <1>5 DEF EffectsUntouched
<1>7. EffectsDistinct'
  BY <1>1 DEF EffectsDistinct, Separate, Disjoint
<1> QED BY <1>3, <1>4, <1>6, <1>7

(***************************************************************************)
(* The GPU worker publishes an effect under a number nobody has.           *)
(***************************************************************************)
LEMMA PublishNumbers ==
    ASSUME QueueTypeOK, NumberInv, NEW e \in Events, Publish(e)
    PROVE  NumberInv'
<1> USE EffectTypes DEF NumberInv
<1>0. PICK n \in Nat : n = clock + 1
  OBVIOUS
<1>1. /\ clock' = n
      /\ effects' = Append(effects, <<n, e>>)
      /\ UNCHANGED <<triggered, newest, batch, delivered, hand>>
  BY <1>0 DEF Publish
<1>2. /\ Len(effects') = Len(effects) + 1
      /\ \A i \in 1..Len(effects) : effects'[i] = effects[i]
      /\ effects'[Len(effects) + 1] = <<n, e>>
  BY <1>1 DEF QueueTypeOK
<1>3. \A i \in 1..Len(effects) + 1 : i \in 1..Len(effects) \/ i = Len(effects) + 1
  OBVIOUS
<1>4. NumbersGiven' /\ DeliveredOnce'
  BY <1>0, <1>1 DEF NumbersGiven, DeliveredOnce, Collected
<1>5. ASSUME NEW x \in Effect, Untouched(x) PROVE Untouched(x)' /\ x[1] # n
  BY <1>0, <1>1, <1>5 DEF Untouched
<1>6. Untouched(<<n, e>>)'
  BY <1>0, <1>1 DEF Untouched, NumbersGiven
<1>7. EffectsUntouched'
  BY <1>1, <1>2, <1>3, <1>5, <1>6 DEF EffectsUntouched
<1>8. /\ \A i \in 1..Len(effects) : effects[i][1] # n
      /\ \A t \in Guests : \A i \in 1..Len(hand[t]) : hand[t][i][1] # n
  BY <1>5 DEF EffectsUntouched
<1>9. Separate(effects')
  <2>1. ASSUME NEW i \in 1..Len(effects) + 1, NEW j \in 1..Len(effects) + 1,
               effects'[i][1] = effects'[j][1]
        PROVE  i = j
    <3>1. CASE i \in 1..Len(effects) /\ j \in 1..Len(effects)
      BY <1>2, <2>1, <3>1 DEF EffectsDistinct, Separate
    <3>2. effects'[Len(effects) + 1][1] = n
      BY <1>2
    <3>3. \A k \in 1..Len(effects) : effects'[k][1] # n
      BY <1>2, <1>8
    <3> QED BY <1>3, <2>1, <3>1, <3>2, <3>3
  <2> QED BY <1>2, <2>1 DEF Separate
<1>10. ASSUME NEW t \in Guests PROVE Separate(hand[t]) /\ Disjoint(hand[t], effects')
  BY <1>2, <1>3, <1>8, SMTT(40) DEF EffectsDistinct, Disjoint
<1>11. EffectsDistinct'
  BY <1>1, <1>9, <1>10 DEF EffectsDistinct, Separate, Disjoint
<1> QED BY <1>4, <1>7, <1>11

(***************************************************************************)
(* A drain moves the published effects to one thread's hand, whole.        *)
(***************************************************************************)
LEMMA DrainNumbers ==
    ASSUME QueueTypeOK, NumberInv, NEW t \in Guests,
           hand' = [hand EXCEPT ![t] = effects], effects' = <<>>,
           UNCHANGED <<triggered, newest, batch, delivered, clock>>
    PROVE  NumberInv'
<1> USE EffectTypes DEF NumberInv
<1>1. NumbersGiven' /\ DeliveredOnce'
  BY DEF NumbersGiven, DeliveredOnce, Collected
<1>2. \A u \in Guests : hand'[u] = IF u = t THEN effects ELSE hand[u]
  BY DEF QueueTypeOK
<1>3. Len(effects') = 0
  OBVIOUS
<1>4. EffectsUntouched'
  BY <1>2, <1>3 DEF EffectsUntouched, Untouched
<1>5. EffectsDistinct'
  <2>1. Separate(effects') /\ \A q : Disjoint(q, effects')
    BY <1>3 DEF Separate, Disjoint
  <2>2. ASSUME NEW u \in Guests PROVE Separate(hand'[u])
    BY <1>2 DEF EffectsDistinct
  <2>3. \A q, r : Disjoint(q, r) => Disjoint(r, q)
    BY DEF Disjoint
  <2>4. ASSUME NEW u \in Guests, NEW v \in Guests, u # v
        PROVE  Disjoint(hand'[u], hand'[v])
    BY <1>2, <2>3, <2>4 DEF EffectsDistinct
  <2> QED BY <2>1, <2>2, <2>4 DEF EffectsDistinct, Separate, Disjoint
<1> QED BY <1>1, <1>4, <1>5

(***************************************************************************)
(* Head and tail of a hand that is not empty.                              *)
(***************************************************************************)
LEMMA TailOf ==
    ASSUME NEW q \in Seq(Effect), q # <<>>
    PROVE  /\ 1 \in 1..Len(q) /\ Head(q) = q[1]
           /\ Tail(q) \in Seq(Effect)
           /\ \A i \in 1..Len(Tail(q)) :
                i + 1 \in 1..Len(q) /\ i + 1 # 1 /\ Tail(q)[i] = q[i + 1]
<1>1. Len(q) \in Nat /\ Len(q) # 0
  OBVIOUS
<1>2. Tail(q) \in Seq(Effect) /\ Len(Tail(q)) = Len(q) - 1
  BY <1>1
<1>3. \A i \in 1..Len(q) - 1 : Tail(q)[i] = q[i + 1]
  BY <1>1
<1> QED BY <1>1, <1>2, <1>3

(***************************************************************************)
(* A drained effect becomes a trigger: its number was nobody else's.       *)
(***************************************************************************)
LEMMA ApplyNumbers ==
    ASSUME QueueTypeOK, NumberInv, NEW t \in Guests, Apply(t)
    PROVE  NumberInv'
<1> DEFINE x == Head(hand[t])
<1> USE EffectTypes DEF NumberInv
<1>1. /\ hand' = [hand EXCEPT ![t] = Tail(hand[t])]
      /\ hand[t] # <<>>
      /\ UNCHANGED <<batch, delivered, effects, clock>>
      /\ \/ triggered' = triggered \cup {x[2]} /\ newest' = [newest EXCEPT ![x[2]] = x[1]]
         \/ UNCHANGED <<triggered, newest>>
  BY DEF Apply, MarkPending
<1>2. /\ \A u \in Guests : u # t => hand'[u] = hand[u]
      /\ hand'[t] = Tail(hand[t])
      /\ hand[t] \in Seq(Effect)
  BY <1>1 DEF QueueTypeOK
<1>3. /\ 1 \in 1..Len(hand[t]) /\ hand[t][1] = x
      /\ \A i \in 1..Len(hand'[t]) :
           i + 1 \in 1..Len(hand[t]) /\ i + 1 # 1 /\ hand'[t][i] = hand[t][i + 1]
  BY <1>1, <1>2, TailOf
<1>4. x \in Effect /\ Untouched(x)
  BY <1>3 DEF EffectsUntouched
<1> HIDE DEF x
<1>5. \A f \in Events : newest'[f] = newest[f] \/ (f = x[2] /\ newest'[f] = x[1])
  BY <1>1, <1>4 DEF QueueTypeOK
<1>6. ASSUME NEW f \in Events, f \in triggered'
      PROVE  \/ f \in triggered /\ newest'[f] = newest[f]
             \/ f = x[2] /\ newest'[f] = x[1]
  BY <1>1, <1>4, <1>6 DEF QueueTypeOK
<1>7. triggered' \subseteq Events
  BY <1>1, <1>4 DEF QueueTypeOK
<1>8. NumbersGiven'
  BY <1>1, <1>4, <1>5, <1>6, <1>7 DEF NumbersGiven, Untouched
<1>9. DeliveredOnce'
  BY <1>1 DEF DeliveredOnce, Collected
<1>10. ASSUME NEW y \in Effect, Untouched(y), y[1] # x[1] PROVE Untouched(y)'
  BY <1>1, <1>5, <1>10 DEF Untouched
<1>11. /\ \A i \in 1..Len(effects) : effects[i][1] # x[1]
       /\ \A u \in Guests : \A i \in 1..Len(hand'[u]) : hand'[u][i][1] # x[1]
  <2>1. \A i \in 1..Len(effects) : effects[i][1] # x[1]
    BY <1>3 DEF EffectsDistinct, Disjoint
  <2>2. ASSUME NEW u \in Guests, u # t, NEW i \in 1..Len(hand'[u]) PROVE hand'[u][i][1] # x[1]
    BY <1>2, <1>3, <2>2, SMTT(40) DEF EffectsDistinct, Disjoint
  <2>3. ASSUME NEW i \in 1..Len(hand'[t]) PROVE hand'[t][i][1] # x[1]
    BY <1>3 DEF EffectsDistinct, Separate
  <2> QED BY <2>1, <2>2, <2>3
<1>12. \A u \in Guests : \A i \in 1..Len(hand'[u]) :
          \E j \in 1..Len(hand[u]) : hand'[u][i] = hand[u][j]
  BY <1>2, <1>3, ZenonT(40)
<1>13. EffectsUntouched'
  BY <1>1, <1>10, <1>11, <1>12, ZenonT(40) DEF EffectsUntouched
<1>14. EffectsDistinct'
  <2>1. Separate(effects') /\ \A u \in Guests : Disjoint(hand'[u], effects')
    BY <1>1, <1>12 DEF EffectsDistinct, Disjoint
  <2>2. ASSUME NEW u \in Guests, NEW v \in Guests, u # v
        PROVE  Disjoint(hand'[u], hand'[v])
    <3>1. Disjoint(hand[u], hand[v])
      BY <2>2 DEF EffectsDistinct
    <3>2. ASSUME NEW i \in 1..Len(hand'[u]), NEW j \in 1..Len(hand'[v])
          PROVE  hand'[u][i][1] # hand'[v][j][1]
      <4>1. PICK k \in 1..Len(hand[u]) : hand'[u][i] = hand[u][k]
        BY <1>12
      <4>2. PICK l \in 1..Len(hand[v]) : hand'[v][j] = hand[v][l]
        BY <1>12
      <4> QED BY <3>1, <4>1, <4>2 DEF Disjoint
    <3> QED BY <3>2 DEF Disjoint
  <2>3. Separate(hand'[t])
    <3>1. ASSUME NEW i \in 1..Len(hand'[t]), NEW j \in 1..Len(hand'[t]),
                 hand'[t][i][1] = hand'[t][j][1]
          PROVE  i = j
      <4>1. /\ i + 1 \in 1..Len(hand[t]) /\ hand'[t][i] = hand[t][i + 1]
            /\ j + 1 \in 1..Len(hand[t]) /\ hand'[t][j] = hand[t][j + 1]
        BY <1>3
      <4>2. \A k, l \in 1..Len(hand[t]) : hand[t][k][1] = hand[t][l][1] => k = l
        BY DEF EffectsDistinct, Separate
      <4>3. i + 1 = j + 1
        BY <3>1, <4>1, <4>2
      <4> QED BY <1>2, <4>3
    <3> QED BY <3>1 DEF Separate
  <2>4. \A u \in Guests : Separate(hand'[u])
    BY <1>2, <2>3 DEF EffectsDistinct
  <2> QED BY <2>1, <2>2, <2>4 DEF EffectsDistinct, Separate, Disjoint
<1> QED BY <1>8, <1>9, <1>13, <1>14

(***************************************************************************)
(* Registering an event, delivering one, collecting a batch and dropping   *)
(* its rest move numbers from the event to the batch to the guest, or      *)
(* forget them.                                                            *)
(***************************************************************************)
LEMMA BatchNumbers ==
    ASSUME QueueTypeOK, NumberInv, NEW t \in Guests,
           \/ \E e \in Events : AddEvent(t, e) \/ DeliverEvent(t, e)
           \/ Collect(t)
           \/ DeliverFaults(t)
    PROVE  NumberInv'
<1> USE EffectTypes DEF NumberInv
<1>1. UNCHANGED <<effects, hand, clock>> /\ triggered' \subseteq triggered
  BY DEF AddEvent, DeliverEvent, Collect, DeliverFaults
<1>2. EffectsDistinct'
  BY <1>1 DEF EffectsDistinct, Separate, Disjoint
<1>3. ASSUME NEW e \in Events
      PROVE  /\ newest'[e] \in {newest[e], 0}
             /\ batch'[e] \in {batch[e], 0} \/ (e \in triggered /\ batch'[e] = newest[e])
             /\ delivered'[e] = delivered[e] \/ (e \in Collected /\ delivered'[e] = batch[e])
  BY <1>3 DEF AddEvent, DeliverEvent, Collect, DeliverFaults, NoBatch, QueueTypeOK
<1>4. ASSUME NEW x \in Effect, Untouched(x) PROVE Untouched(x)'
  BY <1>1, <1>3, <1>4 DEF Untouched
<1>5. EffectsUntouched'
  BY <1>1, <1>4 DEF EffectsUntouched
<1>6. ASSUME NEW e \in Events, AddEvent(t, e) PROVE NumbersGiven' /\ DeliveredOnce'
  BY <1>6 DEF AddEvent, NumbersGiven, DeliveredOnce, Collected, QueueTypeOK
<1>7. ASSUME NEW e \in Events, DeliverEvent(t, e) PROVE NumbersGiven' /\ DeliveredOnce'
  BY <1>7 DEF DeliverEvent, NumbersGiven, DeliveredOnce, Collected, QueueTypeOK
<1>8. ASSUME Collect(t) PROVE NumbersGiven' /\ DeliveredOnce'
  BY <1>8 DEF Collect, NumbersGiven, DeliveredOnce, Collected, QueueTypeOK
<1>9. ASSUME DeliverFaults(t) PROVE NumbersGiven' /\ DeliveredOnce'
  BY <1>9 DEF DeliverFaults, NoBatch, NumbersGiven, DeliveredOnce, Collected, QueueTypeOK
<1> QED BY <1>2, <1>5, <1>6, <1>7, <1>8, <1>9

-------------------------------------------------------------------------------
(***************************************************************************)
(* The numbers within the bound.                                           *)
(***************************************************************************)
LEMMA NumberRange ==
    /\ 0 \in Numbers
    /\ 1..MaxTriggers \subseteq Numbers
    /\ \A c \in Numbers : c < MaxTriggers => c + 1 \in 1..MaxTriggers
BY BatchAssumption DEF Numbers

(***************************************************************************)
(* A new queue satisfies the invariant.                                    *)
(***************************************************************************)
LEMMA InitQueueIInv == QueueInit => QueueIInv
<1> SUFFICES ASSUME QueueInit PROVE QueueIInv
  OBVIOUS
<1>1. QueueTypeOK
  <2>1. 0 \in Numbers
    BY BatchAssumption DEF Numbers
  <2>2. GateTypeOK
    BY DEF QueueInit, GateInit, GateTypeOK, GatePcs, Limits
  <2>3. Collected = {}
    BY DEF QueueInit, Collected, NoBatch
  <2>4. <<>> \in Seq(Effect)
    OBVIOUS
  <2> QED BY <2>1, <2>2, <2>3, <2>4 DEF QueueInit, QueueTypeOK, NoBatch
<1>2. GateHeldExactly
  BY NoThreadAssumption DEF QueueInit, GateInit, GateHeldExactly
<1>3. NoMissedTrigger /\ ShortQueueCovered
  BY GuestIsThread DEF QueueInit, GateInit, NoMissedTrigger, ShortQueueCovered
<1>4. NumbersGiven /\ DeliveredOnce
  BY BatchAssumption
     DEF QueueInit, NumbersGiven, DeliveredOnce, Collected, NoBatch
<1>5. Len(effects) = 0 /\ \A t \in Guests : Len(hand[t]) = 0
  BY DEF QueueInit
<1>6. EffectsUntouched /\ EffectsDistinct
  BY <1>5 DEF EffectsUntouched, EffectsDistinct, Separate, Disjoint
<1> QED BY <1>1, <1>2, <1>3, <1>4, <1>6 DEF QueueIInv, NumberInv

(***************************************************************************)
(* Every step preserves it.                                                *)
(***************************************************************************)
LEMMA StepQueueIInv == QueueIInv /\ [QueueNext]_queueAllVars => QueueIInv'
<1> SUFFICES ASSUME QueueIInv, [QueueNext]_queueAllVars PROVE QueueIInv'
  OBVIOUS
<1>0. /\ QueueTypeOK /\ GateTypeOK /\ GateHeldExactly
      /\ NoMissedTrigger /\ ShortQueueCovered /\ NumberInv
  BY DEF QueueIInv, QueueTypeOK
<1> USE <1>0, NoThreadAssumption, WorkerAssumption, GuestIsThread
    DEF gateVars, queueVars
<1>1. ASSUME NEW t \in Guests, NEW e \in Events, AddEvent(t, e)
      PROVE  QueueIInv'
  <2>1. GateTypeOK'
    BY <1>1 DEF GateTypeOK, GatePcs, Limits, AddEvent
  <2>2. GateHeldExactly'
    BY <1>1 DEF GateTypeOK, GateHeldExactly, AddEvent
  <2>3. QueueTypeOK'
    <3>1. newest' \in [Events -> Numbers]
      BY <1>1, NumberRange DEF QueueTypeOK, AddEvent
    <3> QED BY <1>1, <2>1, <3>1 DEF QueueTypeOK, GateTypeOK, Collected, AddEvent
  <2>4. NoMissedTrigger' /\ ShortQueueCovered'
    BY <1>1
       DEF GateTypeOK, NoMissedTrigger, ShortQueueCovered, Observable,
           GateHeldExactly, AddEvent
  <2>5. NumberInv'
    BY <1>1, BatchNumbers
  <2> QED BY <2>2, <2>3, <2>4, <2>5 DEF QueueIInv
<1>2. ASSUME NEW t \in Guests, NEW e \in Events, DeleteEvent(t, e)
      PROVE  QueueIInv'
  <2>1. GateTypeOK'
    BY <1>2 DEF GateTypeOK, GatePcs, Limits, DeleteEvent
  <2>2. GateHeldExactly'
    BY <1>2 DEF GateTypeOK, GateHeldExactly, DeleteEvent
  <2>3. QueueTypeOK'
    BY <1>2, <2>1 DEF QueueTypeOK, GateTypeOK, GateHeldExactly, Collected, DeleteEvent
  <2>4. NoMissedTrigger' /\ ShortQueueCovered'
    BY <1>2
       DEF GateTypeOK, NoMissedTrigger, ShortQueueCovered, Observable,
           GateHeldExactly, DeleteEvent
  <2>5. NumberInv'
    BY <1>2, NumbersKept DEF DeleteEvent
  <2> QED BY <2>2, <2>3, <2>4, <2>5 DEF QueueIInv
<1>3. ASSUME NEW t \in Guests, NEW e \in Events, Trigger(t, e)
      PROVE  QueueIInv'
  <2>1. GateTypeOK'
    BY <1>3 DEF GateTypeOK, GatePcs, Limits, Trigger, MarkPending, OweNotify
  <2>2. GateHeldExactly'
    BY <1>3 DEF GateTypeOK, GateHeldExactly, Trigger, MarkPending, OweNotify
  <2>3. QueueTypeOK'
    <3>1. clock' \in Numbers /\ newest' \in [Events -> Numbers]
      BY <1>3, NumberRange DEF QueueTypeOK, Trigger, MarkPending
    <3> QED BY <1>3, <2>1, <3>1
            DEF QueueTypeOK, GateTypeOK, Collected, Trigger, MarkPending, OweNotify
  <2>4. NoMissedTrigger' /\ ShortQueueCovered'
    BY <1>3
       DEF GateTypeOK, NoMissedTrigger, ShortQueueCovered, Observable,
           GateHeldExactly, Trigger, MarkPending, OweNotify
  <2>5. NumberInv'
    BY <1>3, TriggerNumbers
  <2> QED BY <2>2, <2>3, <2>4, <2>5 DEF QueueIInv
<1>4. ASSUME NEW t \in Guests, NEW e \in Events, DeliverEvent(t, e)
      PROVE  QueueIInv'
  <2>1. GateTypeOK'
    BY <1>4 DEF GateTypeOK, GatePcs, Limits, DeliverEvent
  <2>2. GateHeldExactly'
    BY <1>4 DEF GateTypeOK, GateHeldExactly, DeliverEvent
  <2>3. QueueTypeOK'
    <3>1. batch' \in [Events -> Numbers] /\ delivered' \in [Events -> Numbers]
      BY <1>4, NumberRange DEF QueueTypeOK, DeliverEvent
    <3>2. Collected' \subseteq Collected
      BY <1>4 DEF QueueTypeOK, DeliverEvent, Collected
    <3>3. triggered' \subseteq registered'
      BY <1>4 DEF QueueTypeOK, DeliverEvent
    <3> QED BY <1>4, <2>1, <3>1, <3>2, <3>3 DEF QueueTypeOK, GateTypeOK, DeliverEvent
  <2>4. NoMissedTrigger' /\ ShortQueueCovered'
    BY <1>4
       DEF GateTypeOK, NoMissedTrigger, ShortQueueCovered, Observable,
           GateHeldExactly, DeliverEvent
  <2>5. NumberInv'
    BY <1>4, BatchNumbers
  <2> QED BY <2>2, <2>3, <2>4, <2>5 DEF QueueIInv
<1>5. ASSUME NEW t \in Guests, DeleteQueue(t)
      PROVE  QueueIInv'
  <2>1. GateTypeOK'
    BY <1>5 DEF GateTypeOK, GatePcs, Limits, DeleteQueue, OweNotify
  <2>2. GateHeldExactly'
    BY <1>5 DEF GateTypeOK, GateHeldExactly, DeleteQueue, OweNotify
  <2>3. QueueTypeOK'
    BY <1>5, <2>1
       DEF QueueTypeOK, GateTypeOK, GateHeldExactly, Collected, DeleteQueue, OweNotify
  <2>4. NoMissedTrigger' /\ ShortQueueCovered'
    BY <1>5
       DEF GateTypeOK, NoMissedTrigger, ShortQueueCovered, Observable,
           GateHeldExactly, DeleteQueue, OweNotify
  <2>5. NumberInv'
    BY <1>5, NumbersKept DEF DeleteQueue, OweNotify
  <2> QED BY <2>2, <2>3, <2>4, <2>5 DEF QueueIInv
<1>6. ASSUME NEW t \in Guests, Drain(t)
      PROVE  QueueIInv'
  <2>1. GateTypeOK'
    BY <1>6 DEF GateTypeOK, GatePcs, Limits, Drain
  <2>2. GateHeldExactly'
    BY <1>6 DEF GateTypeOK, GateHeldExactly, Drain
  <2>3. QueueTypeOK'
    BY <1>6, <2>1 DEF QueueTypeOK, GateTypeOK, GateHeldExactly, Collected, Drain
  <2>4. NoMissedTrigger' /\ ShortQueueCovered'
    BY <1>6
       DEF GateTypeOK, NoMissedTrigger, ShortQueueCovered, Observable,
           GateHeldExactly, Drain
  <2>5. NumberInv'
    BY <1>6, DrainNumbers DEF Drain
  <2> QED BY <2>2, <2>3, <2>4, <2>5 DEF QueueIInv
<1>7. ASSUME NEW t \in Guests, Apply(t)
      PROVE  QueueIInv'
  <2>1. GateTypeOK'
    BY <1>7 DEF GateTypeOK, GatePcs, Limits, Apply, MarkPending, OweNotify
  <2>2. GateHeldExactly'
    BY <1>7 DEF GateTypeOK, GateHeldExactly, Apply, MarkPending, OweNotify
  <2>3. QueueTypeOK'
    <3>1. hand[t] \in Seq(Effect) /\ hand[t] # <<>> /\ hand' = [hand EXCEPT ![t] = Tail(hand[t])]
      BY <1>7 DEF QueueTypeOK, Apply
    <3>2. hand' \in [Guests -> Seq(Effect)]
      BY <3>1, TailOf DEF QueueTypeOK
    <3>3. Head(hand[t]) \in Effect
      BY <3>1, TailOf
    <3>4. Head(hand[t])[1] \in Numbers
      BY <3>3, NumberRange DEF Effect
    <3>5. newest' \in [Events -> Numbers]
      BY <1>7, <3>4 DEF QueueTypeOK, Apply, MarkPending
    <3>6. triggered' \subseteq registered'
      BY <1>7 DEF QueueTypeOK, Apply, MarkPending
    <3> QED BY <1>7, <2>1, <3>2, <3>5, <3>6
            DEF QueueTypeOK, GateTypeOK, Collected, Apply, OweNotify
  <2>4. NoMissedTrigger' /\ ShortQueueCovered'
    BY <1>7
       DEF GateTypeOK, NoMissedTrigger, ShortQueueCovered, Observable,
           GateHeldExactly, Apply, MarkPending, OweNotify
  <2>5. NumberInv'
    BY <1>7, ApplyNumbers
  <2> QED BY <2>2, <2>3, <2>4, <2>5 DEF QueueIInv
<1>8. ASSUME NEW t \in Guests, NEW lim \in Timeouts, QueueWaitCall(t, lim)
      PROVE  QueueIInv'
  <2>1. GateTypeOK'
    BY <1>8, TimeoutsAssumption DEF GateTypeOK, GatePcs, Limits, QueueWaitCall, At
  <2>2. GateHeldExactly'
    BY <1>8 DEF GateTypeOK, GateHeldExactly, QueueWaitCall, At
  <2>3. QueueTypeOK'
    BY <1>8, <2>1
       DEF QueueTypeOK, GateTypeOK, GateHeldExactly, Collected, QueueWaitCall, At
  <2>4. NoMissedTrigger' /\ ShortQueueCovered'
    BY <1>8
       DEF GateTypeOK, NoMissedTrigger, ShortQueueCovered, Observable,
           GateHeldExactly, QueueWaitCall, At
  <2>5. NumberInv'
    BY <1>8, NumbersKept DEF QueueWaitCall, At
  <2> QED BY <2>2, <2>3, <2>4, <2>5 DEF QueueIInv
<1>9. ASSUME NEW t \in Guests, TopDrain(t)
      PROVE  QueueIInv'
  <2>1. GateTypeOK'
    BY <1>9 DEF GateTypeOK, GatePcs, Limits, TopDrain, At
  <2>2. GateHeldExactly'
    BY <1>9 DEF GateTypeOK, GateHeldExactly, TopDrain, At
  <2>3. QueueTypeOK'
    BY <1>9, <2>1
       DEF QueueTypeOK, GateTypeOK, GateHeldExactly, Collected, TopDrain, At
  <2>4. NoMissedTrigger' /\ ShortQueueCovered'
    BY <1>9
       DEF GateTypeOK, NoMissedTrigger, ShortQueueCovered, Observable,
           GateHeldExactly, TopDrain, At
  <2>5. NumberInv'
    BY <1>9, DrainNumbers DEF TopDrain, At
  <2> QED BY <2>2, <2>3, <2>4, <2>5 DEF QueueIInv
<1>10. ASSUME NEW t \in Guests, QueueDeliver(t)
      PROVE  QueueIInv'
  <2>1. GateTypeOK'
    BY <1>10 DEF GateTypeOK, GatePcs, Limits, QueueDeliver, At
  <2>2. GateHeldExactly'
    BY <1>10 DEF GateTypeOK, GateHeldExactly, QueueDeliver, At
  <2>3. QueueTypeOK'
    BY <1>10, <2>1
       DEF QueueTypeOK, GateTypeOK, GateHeldExactly, Collected, QueueDeliver, At
  <2>4. NoMissedTrigger' /\ ShortQueueCovered'
    BY <1>10
       DEF GateTypeOK, NoMissedTrigger, ShortQueueCovered, Observable,
           GateHeldExactly, QueueDeliver, At
  <2>5. NumberInv'
    BY <1>10, NumbersKept DEF QueueDeliver, At
  <2> QED BY <2>2, <2>3, <2>4, <2>5 DEF QueueIInv
<1>11. ASSUME NEW t \in Guests, QueueStartsSlice(t)
      PROVE  QueueIInv'
  <2>1. GateTypeOK'
    BY <1>11 DEF GateTypeOK, GatePcs, Limits, QueueStartsSlice, At
  <2>2. GateHeldExactly'
    BY <1>11 DEF GateTypeOK, GateHeldExactly, QueueStartsSlice, At
  <2>3. QueueTypeOK'
    BY <1>11, <2>1
       DEF QueueTypeOK, GateTypeOK, GateHeldExactly, Collected, QueueStartsSlice, At
  <2>4. NoMissedTrigger' /\ ShortQueueCovered'
    BY <1>11
       DEF GateTypeOK, NoMissedTrigger, ShortQueueCovered, Observable,
           GateHeldExactly, QueueStartsSlice, At
  <2>5. NumberInv'
    BY <1>11, NumbersKept DEF QueueStartsSlice, At
  <2> QED BY <2>2, <2>3, <2>4, <2>5 DEF QueueIInv
<1>12. ASSUME NEW t \in Guests, QueueEnter(t)
      PROVE  QueueIInv'
  <2>1. GateTypeOK'
    BY <1>12 DEF GateTypeOK, GatePcs, Limits, QueueEnter, TakeGate, At
  <2>2. GateHeldExactly'
    BY <1>12 DEF GateTypeOK, GateHeldExactly, QueueEnter, TakeGate, At
  <2>3. QueueTypeOK'
    BY <1>12, <2>1
       DEF QueueTypeOK, GateTypeOK, GateHeldExactly, Collected, QueueEnter, TakeGate,
           At
  <2>4. NoMissedTrigger' /\ ShortQueueCovered'
    BY <1>12
       DEF GateTypeOK, NoMissedTrigger, ShortQueueCovered, Observable,
           GateHeldExactly, QueueEnter, TakeGate, At
  <2>5. NumberInv'
    BY <1>12, NumbersKept DEF QueueEnter, TakeGate, At
  <2> QED BY <2>2, <2>3, <2>4, <2>5 DEF QueueIInv
<1>13. ASSUME NEW t \in Guests, QueueReadyDeleted(t)
      PROVE  QueueIInv'
  <2>1. GateTypeOK'
    BY <1>13 DEF GateTypeOK, GatePcs, Limits, QueueReadyDeleted, EndWait, At
  <2>2. GateHeldExactly'
    BY <1>13 DEF GateTypeOK, GateHeldExactly, QueueReadyDeleted, EndWait, At
  <2>3. QueueTypeOK'
    BY <1>13, <2>1
       DEF QueueTypeOK, GateTypeOK, GateHeldExactly, Collected, QueueReadyDeleted,
           EndWait, At
  <2>4. NoMissedTrigger' /\ ShortQueueCovered'
    BY <1>13
       DEF GateTypeOK, NoMissedTrigger, ShortQueueCovered, Observable,
           GateHeldExactly, QueueReadyDeleted, EndWait, At
  <2>5. NumberInv'
    BY <1>13, NumbersKept DEF QueueReadyDeleted, EndWait, At
  <2> QED BY <2>2, <2>3, <2>4, <2>5 DEF QueueIInv
<1>14. ASSUME NEW t \in Guests, Collect(t)
      PROVE  QueueIInv'
  <2>1. GateTypeOK'
    BY <1>14 DEF GateTypeOK, GatePcs, Limits, Collect, At
  <2>2. GateHeldExactly'
    BY <1>14 DEF GateTypeOK, GateHeldExactly, Collect, At
  <2>3. QueueTypeOK'
    BY <1>14, <2>1
       DEF QueueTypeOK, GateTypeOK, GateHeldExactly, Collected, Collect, At
  <2>4. NoMissedTrigger' /\ ShortQueueCovered'
    BY <1>14
       DEF GateTypeOK, NoMissedTrigger, ShortQueueCovered, Observable,
           GateHeldExactly, Collect, At
  <2>5. NumberInv'
    BY <1>14, BatchNumbers
  <2> QED BY <2>2, <2>3, <2>4, <2>5 DEF QueueIInv
<1>15. ASSUME NEW t \in Guests, DeliverFaults(t)
      PROVE  QueueIInv'
  <2>1. GateTypeOK'
    BY <1>15 DEF GateTypeOK, GatePcs, Limits, DeliverFaults, EndWait, At
  <2>2. GateHeldExactly'
    BY <1>15 DEF GateTypeOK, GateHeldExactly, DeliverFaults, EndWait, At
  <2>3. QueueTypeOK'
    <3>1. batch' \in [Events -> Numbers] /\ Collected' = {}
      BY <1>15, NumberRange DEF DeliverFaults, NoBatch, Collected
    <3> QED BY <1>15, <2>1, <3>1 DEF QueueTypeOK, DeliverFaults
  <2>4. NoMissedTrigger' /\ ShortQueueCovered'
    BY <1>15
       DEF GateTypeOK, NoMissedTrigger, ShortQueueCovered, Observable,
           GateHeldExactly, DeliverFaults, EndWait, At
  <2>5. NumberInv'
    BY <1>15, BatchNumbers
  <2> QED BY <2>2, <2>3, <2>4, <2>5 DEF QueueIInv
<1>16. ASSUME NEW t \in Guests, DeliverDone(t)
      PROVE  QueueIInv'
  <2>1. GateTypeOK'
    BY <1>16 DEF GateTypeOK, GatePcs, Limits, DeliverDone, EndWait, At
  <2>2. GateHeldExactly'
    BY <1>16 DEF GateTypeOK, GateHeldExactly, DeliverDone, EndWait, At
  <2>3. QueueTypeOK'
    BY <1>16, <2>1
       DEF QueueTypeOK, GateTypeOK, GateHeldExactly, Collected, DeliverDone, EndWait,
           At
  <2>4. NoMissedTrigger' /\ ShortQueueCovered'
    BY <1>16
       DEF GateTypeOK, NoMissedTrigger, ShortQueueCovered, Observable,
           GateHeldExactly, DeliverDone, EndWait, At
  <2>5. NumberInv'
    BY <1>16, NumbersKept DEF DeliverDone, EndWait, At
  <2> QED BY <2>2, <2>3, <2>4, <2>5 DEF QueueIInv
<1>17. ASSUME NEW t \in Guests, ReadyEffects(t)
      PROVE  QueueIInv'
  <2>1. GateTypeOK'
    BY <1>17 DEF GateTypeOK, GatePcs, Limits, ReadyEffects, At
  <2>2. GateHeldExactly'
    BY <1>17 DEF GateTypeOK, GateHeldExactly, ReadyEffects, At
  <2>3. QueueTypeOK'
    BY <1>17, <2>1
       DEF QueueTypeOK, GateTypeOK, GateHeldExactly, Collected, ReadyEffects, At
  <2>4. NoMissedTrigger' /\ ShortQueueCovered'
    BY <1>17
       DEF GateTypeOK, NoMissedTrigger, ShortQueueCovered, Observable,
           GateHeldExactly, ReadyEffects, At
  <2>5. NumberInv'
    BY <1>17, NumbersKept DEF ReadyEffects, At
  <2> QED BY <2>2, <2>3, <2>4, <2>5 DEF QueueIInv
<1>18. ASSUME NEW t \in Guests, QueueWaitTerminates(t)
      PROVE  QueueIInv'
  <2>1. GateTypeOK'
    BY <1>18
       DEF GateTypeOK, GatePcs, Limits, QueueWaitTerminates, NothingReady, EndWait, At
  <2>2. GateHeldExactly'
    BY <1>18
       DEF GateTypeOK, GateHeldExactly, QueueWaitTerminates, NothingReady, EndWait, At
  <2>3. QueueTypeOK'
    BY <1>18, <2>1
       DEF QueueTypeOK, GateTypeOK, GateHeldExactly, Collected, QueueWaitTerminates,
           NothingReady, EndWait, At
  <2>4. NoMissedTrigger' /\ ShortQueueCovered'
    BY <1>18
       DEF GateTypeOK, NoMissedTrigger, ShortQueueCovered, Observable,
           GateHeldExactly, QueueWaitTerminates, NothingReady, EndWait, At
  <2>5. NumberInv'
    BY <1>18, NumbersKept DEF QueueWaitTerminates, NothingReady, EndWait, At
  <2> QED BY <2>2, <2>3, <2>4, <2>5 DEF QueueIInv
<1>19. ASSUME NEW t \in Guests, QueueNotReady(t)
      PROVE  QueueIInv'
  <2>1. GateTypeOK'
    BY <1>19 DEF GateTypeOK, GatePcs, Limits, QueueNotReady, NothingReady, At
  <2>2. GateHeldExactly'
    BY <1>19 DEF GateTypeOK, GateHeldExactly, QueueNotReady, NothingReady, At
  <2>3. QueueTypeOK'
    BY <1>19, <2>1
       DEF QueueTypeOK, GateTypeOK, GateHeldExactly, Collected, QueueNotReady,
           NothingReady, At
  <2>4. NoMissedTrigger' /\ ShortQueueCovered'
    BY <1>19
       DEF GateTypeOK, NoMissedTrigger, ShortQueueCovered, Observable,
           GateHeldExactly, QueueNotReady, NothingReady, At
  <2>5. NumberInv'
    BY <1>19, NumbersKept DEF QueueNotReady, NothingReady, At
  <2> QED BY <2>2, <2>3, <2>4, <2>5 DEF QueueIInv
<1>20. ASSUME NEW t \in Guests, QueueSliceOver(t)
      PROVE  QueueIInv'
  <2>1. GateTypeOK'
    BY <1>20 DEF GateTypeOK, GatePcs, Limits, QueueSliceOver, EndWait, At
  <2>2. GateHeldExactly'
    BY <1>20 DEF GateTypeOK, GateHeldExactly, QueueSliceOver, EndWait, At
  <2>3. QueueTypeOK'
    BY <1>20, <2>1
       DEF QueueTypeOK, GateTypeOK, GateHeldExactly, Collected, QueueSliceOver,
           EndWait, At
  <2>4. NoMissedTrigger' /\ ShortQueueCovered'
    BY <1>20
       DEF GateTypeOK, NoMissedTrigger, ShortQueueCovered, Observable,
           GateHeldExactly, QueueSliceOver, EndWait, At
  <2>5. NumberInv'
    BY <1>20, NumbersKept DEF QueueSliceOver, EndWait, At
  <2> QED BY <2>2, <2>3, <2>4, <2>5 DEF QueueIInv
<1>21. ASSUME NEW t \in Guests, QueueEnds(t)
      PROVE  QueueIInv'
  <2>1. GateTypeOK'
    BY <1>21 DEF GateTypeOK, GatePcs, Limits, QueueEnds, ThreadEnds, Running, At
  <2>2. GateHeldExactly'
    BY <1>21 DEF GateTypeOK, GateHeldExactly, QueueEnds, ThreadEnds, Running, At
  <2>3. QueueTypeOK'
    BY <1>21, <2>1
       DEF QueueTypeOK, GateTypeOK, GateHeldExactly, Collected, QueueEnds, ThreadEnds,
           Running, At
  <2>4. NoMissedTrigger' /\ ShortQueueCovered'
    BY <1>21
       DEF GateTypeOK, NoMissedTrigger, ShortQueueCovered, Observable,
           GateHeldExactly, QueueEnds, ThreadEnds, Running, At
  <2>5. NumberInv'
    BY <1>21, NumbersKept DEF QueueEnds, ThreadEnds, Running, At
  <2> QED BY <2>2, <2>3, <2>4, <2>5 DEF QueueIInv
<1>22. ASSUME NEW t \in Threads, Park(t), UNCHANGED queueVars
      PROVE  QueueIInv'
  <2>1. GateTypeOK'
    BY <1>22 DEF GateTypeOK, GatePcs, Limits, Park, At
  <2>2. GateHeldExactly'
    BY <1>22 DEF GateTypeOK, GateHeldExactly, Park, At
  <2>3. QueueTypeOK'
    BY <1>22, <2>1 DEF QueueTypeOK, GateTypeOK, GateHeldExactly, Collected, Park, At
  <2>4. NoMissedTrigger' /\ ShortQueueCovered'
    BY <1>22
       DEF GateTypeOK, NoMissedTrigger, ShortQueueCovered, Observable,
           GateHeldExactly, Park, At
  <2>5. NumberInv'
    BY <1>22, NumbersKept DEF Park, At
  <2> QED BY <2>2, <2>3, <2>4, <2>5 DEF QueueIInv
<1>23. ASSUME NEW t \in Threads, SliceEnds(t), UNCHANGED queueVars
      PROVE  QueueIInv'
  <2>1. GateTypeOK'
    BY <1>23 DEF GateTypeOK, GatePcs, Limits, SliceEnds, At
  <2>2. GateHeldExactly'
    BY <1>23 DEF GateTypeOK, GateHeldExactly, SliceEnds, At
  <2>3. QueueTypeOK'
    BY <1>23, <2>1
       DEF QueueTypeOK, GateTypeOK, GateHeldExactly, Collected, SliceEnds, At
  <2>4. NoMissedTrigger' /\ ShortQueueCovered'
    BY <1>23
       DEF GateTypeOK, NoMissedTrigger, ShortQueueCovered, Observable,
           GateHeldExactly, SliceEnds, At
  <2>5. NumberInv'
    BY <1>23, NumbersKept DEF SliceEnds, At
  <2> QED BY <2>2, <2>3, <2>4, <2>5 DEF QueueIInv
<1>24. ASSUME NEW t \in Threads, Notify(t), UNCHANGED queueVars
      PROVE  QueueIInv'
  <2>1. GateTypeOK'
    BY <1>24 DEF GateTypeOK, GatePcs, Limits, Notify
  <2>2. GateHeldExactly'
    BY <1>24 DEF GateTypeOK, GateHeldExactly, Notify
  <2>3. QueueTypeOK'
    BY <1>24, <2>1 DEF QueueTypeOK, GateTypeOK, GateHeldExactly, Collected, Notify
  <2>4. NoMissedTrigger' /\ ShortQueueCovered'
    BY <1>24
       DEF GateTypeOK, NoMissedTrigger, ShortQueueCovered, Observable,
           GateHeldExactly, Notify
  <2>5. NumberInv'
    BY <1>24, NumbersKept DEF Notify
  <2> QED BY <2>2, <2>3, <2>4, <2>5 DEF QueueIInv
<1>25. ASSUME NEW t \in Threads, DeadlinePasses(t), UNCHANGED queueVars
      PROVE  QueueIInv'
  <2>1. GateTypeOK'
    BY <1>25 DEF GateTypeOK, GatePcs, Limits, DeadlinePasses
  <2>2. GateHeldExactly'
    BY <1>25 DEF GateTypeOK, GateHeldExactly, DeadlinePasses
  <2>3. QueueTypeOK'
    BY <1>25, <2>1
       DEF QueueTypeOK, GateTypeOK, GateHeldExactly, Collected, DeadlinePasses
  <2>4. NoMissedTrigger' /\ ShortQueueCovered'
    BY <1>25
       DEF GateTypeOK, NoMissedTrigger, ShortQueueCovered, Observable,
           GateHeldExactly, DeadlinePasses
  <2>5. NumberInv'
    BY <1>25, NumbersKept DEF DeadlinePasses
  <2> QED BY <2>2, <2>3, <2>4, <2>5 DEF QueueIInv
<1>26. ASSUME NEW e \in Events, Publish(e)
      PROVE  QueueIInv'
  <2>1. GateTypeOK'
    BY <1>26 DEF GateTypeOK, GatePcs, Limits, Publish, OweNotify
  <2>2. GateHeldExactly'
    BY <1>26 DEF GateTypeOK, GateHeldExactly, Publish, OweNotify
  <2>3. QueueTypeOK'
    <3>1. clock' \in Numbers /\ <<clock', e>> \in Effect
      BY <1>26, NumberRange DEF QueueTypeOK, Publish, Effect
    <3>2. effects' \in Seq(Effect)
      BY <1>26, <3>1 DEF QueueTypeOK, Publish
    <3> QED BY <1>26, <2>1, <3>1, <3>2 DEF QueueTypeOK, Collected, Publish, OweNotify
  <2>4. NoMissedTrigger' /\ ShortQueueCovered'
    BY <1>26
       DEF GateTypeOK, NoMissedTrigger, ShortQueueCovered, Observable,
           GateHeldExactly, Publish, OweNotify
  <2>5. NumberInv'
    BY <1>26, PublishNumbers
  <2> QED BY <2>2, <2>3, <2>4, <2>5 DEF QueueIInv
<1>27. ASSUME QueueTerminate
      PROVE  QueueIInv'
  <2>1. GateTypeOK'
    BY <1>27 DEF GateTypeOK, GatePcs, Limits, QueueTerminate, BeginTermination
  <2>2. GateHeldExactly'
    BY <1>27 DEF GateTypeOK, GateHeldExactly, QueueTerminate, BeginTermination
  <2>3. QueueTypeOK'
    BY <1>27, <2>1
       DEF QueueTypeOK, GateTypeOK, GateHeldExactly, Collected, QueueTerminate,
           BeginTermination
  <2>4. NoMissedTrigger' /\ ShortQueueCovered'
    BY <1>27
       DEF GateTypeOK, NoMissedTrigger, ShortQueueCovered, Observable,
           GateHeldExactly, QueueTerminate, BeginTermination
  <2>5. NumberInv'
    BY <1>27, NumbersKept DEF QueueTerminate, BeginTermination
  <2> QED BY <2>2, <2>3, <2>4, <2>5 DEF QueueIInv
<1>28. ASSUME UNCHANGED queueAllVars PROVE QueueIInv'
  <2>1. NumberInv'
    BY <1>28, NumbersKept DEF queueAllVars
  <2> QED
    BY <1>28, <2>1
       DEF queueAllVars, QueueIInv, QueueTypeOK, GateTypeOK, Collected,
           GateHeldExactly, NoMissedTrigger, ShortQueueCovered, Observable
<1> QED
  BY <1>1, <1>2, <1>3, <1>4, <1>5, <1>6, <1>7, <1>8, <1>9, <1>10, <1>11, <1>12, <1>13,
     <1>14, <1>15, <1>16, <1>17, <1>18, <1>19, <1>20, <1>21, <1>22, <1>23, <1>24,
     <1>25, <1>26, <1>27, <1>28 DEF QueueNext, QueueGateStep

(***************************************************************************)
(* No producer, the GPU worker included, leaves a waiter parked on what it *)
(* produced, and no trigger is handed to guests twice, however many        *)
(* threads wait, drain and apply at once.                                  *)
(***************************************************************************)
THEOREM NoTriggerMissed == QueueSpec => []QueueInv
<1>1. QueueIInv => QueueInv
  BY DEF QueueIInv, QueueInv, NumberInv
<1> QED BY <1>1, InitQueueIInv, StepQueueIInv, PTL DEF QueueSpec

(***************************************************************************)
(* The steps that end a wait, one by one.                                  *)
(***************************************************************************)
LEMMA StepNotEmptyHanded ==
    QueueTypeOK /\ [QueueNext]_queueAllVars
      => [\A t \in Guests :
            (InWait(t) /\ gpc'[t] = "guest")
              => \/ gpc[t] = "delivering"
                 \/ ~queueLive
                 \/ terminating
                 \/ limit[t] = "passed"]_queueAllVars
<1> SUFFICES ASSUME QueueTypeOK, QueueNext, NEW t \in Guests,
                    gpc[t] # "guest", gpc'[t] = "guest"
             PROVE  \/ gpc[t] = "delivering"
                    \/ ~queueLive
                    \/ terminating
                    \/ limit[t] = "passed"
  BY DEF queueAllVars, InWait
<1> USE GuestIsThread
<1>0. gpc \in [Threads -> GatePcs]
  BY DEF QueueTypeOK, GateTypeOK
<1>1. ASSUME UNCHANGED gpc PROVE FALSE
  BY <1>1
<1>2. ASSUME NEW u \in Threads, NEW place, place # "guest", At(u, place) PROVE FALSE
  BY <1>0, <1>2 DEF At
<1>3. ASSUME NEW u \in Threads, Notify(u) PROVE FALSE
  BY <1>3 DEF Notify
<1>4. PICK u \in Guests :
         \/ QueueReadyDeleted(u) \/ QueueWaitTerminates(u)
         \/ DeliverFaults(u) \/ DeliverDone(u)
         \/ QueueSliceOver(u) /\ DeadlineReached(u) /\ EndWait(u)
  <2>1. ASSUME NEW u \in Guests,
               \/ \E e \in Events : \/ AddEvent(u, e) \/ DeleteEvent(u, e)
                                    \/ Trigger(u, e) \/ DeliverEvent(u, e)
               \/ DeleteQueue(u) \/ Drain(u) \/ Apply(u)
        PROVE  FALSE
    BY <1>1, <2>1
       DEF AddEvent, DeleteEvent, Trigger, DeliverEvent, DeleteQueue, Drain, Apply,
           OweNotify, gateVars
  <2>2. ASSUME NEW u \in Guests, \E lim \in Timeouts : QueueWaitCall(u, lim) PROVE FALSE
    BY <1>2, <2>2 DEF QueueWaitCall
  <2>3. ASSUME NEW u \in Guests,
               \/ TopDrain(u) \/ QueueDeliver(u) \/ QueueStartsSlice(u)
               \/ Collect(u) \/ ReadyEffects(u) \/ QueueNotReady(u)
        PROVE  FALSE
    BY <1>2, <2>3
       DEF TopDrain, QueueDeliver, QueueStartsSlice, Collect, ReadyEffects, QueueNotReady
  <2>4. ASSUME NEW u \in Guests, QueueEnter(u) PROVE FALSE
    BY <1>2, <2>4 DEF QueueEnter, TakeGate
  <2>5. ASSUME NEW u \in Guests, QueueEnds(u) PROVE FALSE
    BY <1>2, <2>5 DEF QueueEnds, ThreadEnds
  <2>6. ASSUME NEW u \in Threads, QueueGateStep(u) PROVE FALSE
    BY <1>1, <1>2, <1>3, <2>6 DEF QueueGateStep, Park, SliceEnds, DeadlinePasses
  <2>7. ASSUME NEW u \in Guests, QueueSliceOver(u), ~(DeadlineReached(u) /\ EndWait(u))
        PROVE  FALSE
    BY <1>2, <2>7 DEF QueueSliceOver
  <2>8. ASSUME (\E e \in Events : Publish(e)) \/ QueueTerminate PROVE FALSE
    BY <1>1, <2>8 DEF Publish, OweNotify, QueueTerminate, BeginTermination
  <2> QED BY <2>1, <2>2, <2>3, <2>4, <2>5, <2>6, <2>7, <2>8 DEF QueueNext
<1>5. u = t
  BY <1>0, <1>4
     DEF QueueReadyDeleted, QueueWaitTerminates, DeliverFaults, DeliverDone, EndWait, At
<1> QED BY <1>4, <1>5
        DEF QueueReadyDeleted, QueueWaitTerminates, DeliverFaults, DeliverDone,
            DeadlineReached

(***************************************************************************)
(* sceKernelWaitEqueue never comes back without a reason: slices, handlers *)
(* and drained effects do not end a wait.                                  *)
(***************************************************************************)
THEOREM WaitsEndForAReason == QueueSpec => NeverEmptyHanded
<1>1. QueueIInv => QueueTypeOK
  BY DEF QueueIInv
<1> QED BY <1>1, InitQueueIInv, StepQueueIInv, StepNotEmptyHanded, PTL
        DEF QueueSpec, NeverEmptyHanded

===============================================================================
