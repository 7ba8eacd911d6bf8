---------------------------- MODULE KernelSemaphore ----------------------------
(***************************************************************************)
(* sceKernelCreate/Delete/Signal/Wait/Poll/CancelSema                      *)
(* (crates/raeen-hle/src/kernel_semaphore.rs): handle-based counting       *)
(* semaphores behind one shared condition variable.                        *)
(***************************************************************************)
EXTENDS WaitGate, Integers

CONSTANTS Sems,      \* handles that can be created; a handle is never reused
          MaxCount   \* max_count given at creation

ASSUME MaxCountAssumption == MaxCount \in Nat \ {0}

VARIABLES live,   \* handles in kernel_semaphores
          used,   \* handles already handed out
          count,  \* count of each live semaphore
          want    \* the semaphore and the need of each thread's wait

semVars == <<live, used, count, want>>
vars == <<gateVars, semVars>>

Needs == 1 .. MaxCount
NoWait == [sem |-> NoThread, need |-> 0]

(***************************************************************************)
(* Type invariant; a count stays between zero and the maximum.             *)
(***************************************************************************)
SemTypeOK ==
    /\ GateTypeOK
    /\ live \subseteq used
    /\ used \subseteq Sems
    /\ count \in [Sems -> 0 .. MaxCount]
    /\ want \in [Threads -> [sem : Sems, need : Needs] \cup {NoWait}]

Init ==
    /\ GateInit
    /\ live = {}
    /\ used = {}
    /\ count = [s \in Sems |-> 0]
    /\ want = [t \in Threads |-> NoWait]

-------------------------------------------------------------------------------
Create(t, s, initial) ==
    /\ Running(t)
    /\ s \notin used
    /\ live' = live \cup {s}
    /\ used' = used \cup {s}
    /\ count' = [count EXCEPT ![s] = initial]
    /\ UNCHANGED <<gateVars, want>>

(***************************************************************************)
(* Faulty variant: deletion does not notify.                               *)
(***************************************************************************)
DeleteSilently(t, s) ==
    /\ Running(t)
    /\ s \in live
    /\ live' = live \ {s}
    /\ UNCHANGED <<gateVars, used, count, want>>

Delete(t, s) ==
    /\ Running(t)
    /\ s \in live
    /\ live' = live \ {s}
    /\ OweNotify(t)
    /\ UNCHANGED <<used, count, want>>

Signal(t, s, n) ==
    /\ Running(t)
    /\ s \in live
    /\ n >= 1
    /\ count[s] <= MaxCount - n
    /\ count' = [count EXCEPT ![s] = @ + n]
    /\ OweNotify(t)
    /\ UNCHANGED <<live, used, want>>

(***************************************************************************)
(* try_consume succeeds.                                                   *)
(***************************************************************************)
Consume(s, n) ==
    /\ s \in live
    /\ count[s] >= n
    /\ count' = [count EXCEPT ![s] = @ - n]
    /\ UNCHANGED <<live, used>>

(***************************************************************************)
(* PollSema, and the fast path of WaitSema.                                *)
(***************************************************************************)
Poll(t, s, n) ==
    /\ Running(t)
    /\ Consume(s, n)
    /\ UNCHANGED <<gateVars, want>>

(***************************************************************************)
(* CancelSema: the count is replaced, clamped into range.                  *)
(***************************************************************************)
Clamped(c) == IF c < 0 THEN 0 ELSE IF c > MaxCount THEN MaxCount ELSE c

Cancel(t, s, c) ==
    /\ Running(t)
    /\ s \in live
    /\ count' = [count EXCEPT ![s] = Clamped(c)]
    /\ OweNotify(t)
    /\ UNCHANGED <<live, used, want>>

-------------------------------------------------------------------------------
(***************************************************************************)
(* WaitSema whose fast path finds the count short.                         *)
(***************************************************************************)
WaitCall(t, s, n, lim) ==
    /\ gpc[t] = "guest"
    /\ t \notin notifying
    /\ s \in live
    /\ count[s] < n
    /\ want' = [want EXCEPT ![t] = [sem |-> s, need |-> n]]
    /\ limit' = [limit EXCEPT ![t] = lim]
    /\ At(t, "entering")
    /\ UNCHANGED <<gate, notifying, terminating, live, used, count>>

(***************************************************************************)
(* A wait ends; OK is also the answer of a terminating process.            *)
(***************************************************************************)
Returns(t) == EndWait(t) /\ want' = [want EXCEPT ![t] = NoWait]

(***************************************************************************)
(* Faulty variant: termination is looked at only by timed waits.           *)
(***************************************************************************)
SeesTerminationIfTimed(t) ==
    gpc[t] = "checking" /\ terminating /\ limit[t] # "none"

(***************************************************************************)
(* process_is_terminating, asked at the head of every slice.               *)
(***************************************************************************)
SeesTermination(t) == gpc[t] = "checking" /\ terminating

WaitTerminates(t) ==
    /\ SeesTermination(t)
    /\ Returns(t)
    /\ UNCHANGED <<live, used, count>>

(***************************************************************************)
(* Faulty variant: the handler runs with the lock held.                    *)
(***************************************************************************)
DeliverUnderLock(t) ==
    /\ gpc[t] = "checking"
    /\ ~SeesTermination(t)
    /\ At(t, "handler")
    /\ UNCHANGED <<gate, notifying, limit, terminating, semVars>>

(***************************************************************************)
(* A queued exception is delivered with the lock released.                 *)
(***************************************************************************)
Deliver(t) ==
    /\ gpc[t] = "checking"
    /\ ~SeesTermination(t)
    /\ gate' = NoThread
    /\ At(t, "handler")
    /\ UNCHANGED <<notifying, limit, terminating, semVars>>

HandlerReturns(t) ==
    /\ gpc[t] = "handler"
    /\ t \notin notifying
    /\ At(t, "resuming")
    /\ UNCHANGED <<gate, notifying, limit, terminating, semVars>>

(***************************************************************************)
(* The object is looked at under the lock.                                 *)
(***************************************************************************)
Looking(t) == gpc[t] \in {"checking", "trying"} /\ ~SeesTermination(t)

TryTakes(t) ==
    /\ Looking(t)
    /\ Consume(want[t].sem, want[t].need)
    /\ Returns(t)

TryFindsDeleted(t) ==
    /\ Looking(t)
    /\ want[t].sem \notin live
    /\ Returns(t)
    /\ UNCHANGED <<live, used, count>>

(***************************************************************************)
(* The count is short: time out if the deadline has passed, else park.     *)
(***************************************************************************)
TryFails(t) ==
    /\ Looking(t)
    /\ want[t].sem \in live
    /\ count[want[t].sem] < want[t].need
    /\ \/ DeadlineReached(t) /\ Returns(t)
       \/ /\ ~DeadlineReached(t)
          /\ At(t, "short")
          /\ UNCHANGED <<gate, notifying, limit, terminating, want>>
    /\ UNCHANGED <<live, used, count>>

GateStep(t) ==
    /\ TakeGate(t) \/ Park(t) \/ SliceEnds(t) \/ Notify(t) \/ DeadlinePasses(t)
    /\ UNCHANGED semVars

(***************************************************************************)
(* A guest thread ends; a wait it was in is unwound.                       *)
(***************************************************************************)
Ends(t) ==
    /\ ThreadEnds(t)
    /\ want' = [want EXCEPT ![t] = NoWait]
    /\ UNCHANGED <<live, used, count>>

Terminate == BeginTermination /\ UNCHANGED semVars

Next ==
    \/ \E t \in Threads :
         \/ \E s \in Sems :
              \/ \E i \in 0 .. MaxCount : Create(t, s, i)
              \/ Delete(t, s)
              \/ \E n \in Needs : Signal(t, s, n) \/ Poll(t, s, n)
              \/ \E c \in -1 .. MaxCount + 1 : Cancel(t, s, c)
              \/ \E n \in Needs, lim \in Limits : WaitCall(t, s, n, lim)
         \/ WaitTerminates(t)
         \/ Deliver(t)
         \/ HandlerReturns(t)
         \/ TryTakes(t)
         \/ TryFindsDeleted(t)
         \/ TryFails(t)
         \/ GateStep(t)
         \/ Ends(t)
    \/ Terminate

Spec == Init /\ [][Next]_vars

-------------------------------------------------------------------------------
(***************************************************************************)
(* Fairness.  A thread holding the host lock moves on, a handler returns,  *)
(* and the host lock does not starve a thread that keeps asking for it.    *)
(* SlicesExpire, that slices run out, is assumed only by the properties    *)
(* that need it: the others do not depend on the slice.                    *)
(***************************************************************************)
HostStep(t) ==
    \/ WaitTerminates(t)
    \/ TryTakes(t)
    \/ TryFindsDeleted(t)
    \/ TryFails(t)
    \/ (TakeGate(t) \/ Park(t) \/ Notify(t)) /\ UNCHANGED semVars

NotifyFairSpec ==
    /\ Spec
    /\ \A t \in Threads : SF_vars(HostStep(t)) /\ SF_vars(HandlerReturns(t))

SlicesExpire(t) == WF_vars(SliceEnds(t) /\ UNCHANGED semVars)

-------------------------------------------------------------------------------
(***************************************************************************)
(* What would make the wait of t return: its count, or its deletion.       *)
(***************************************************************************)
Satisfiable(t) ==
    \/ want[t].sem \notin live
    \/ count[want[t].sem] >= want[t].need

(***************************************************************************)
(* No check-then-sleep gap: a thread parked although its semaphore could   *)
(* satisfy it, or was deleted, has a producer about to notify it.          *)
(***************************************************************************)
NoMissedNotify ==
    \A t \in Threads :
      gpc[t] = "parked" /\ Satisfiable(t) => notifying # {}

(***************************************************************************)
(* The count keeps to its ceiling through signals and cancels that race,   *)
(* the shared lock is held exactly between a check and the sleep, never    *)
(* across a handler, and no producer leaves a waiter asleep that its       *)
(* signal, cancel or delete should have woken.                             *)
(***************************************************************************)
SemInv == SemTypeOK /\ GateHeldExactly /\ NoMissedNotify

(***************************************************************************)
(* A parked thread whose semaphore can satisfy it is woken by the notify   *)
(* alone, without waiting for its slice, unless the count goes first.      *)
(***************************************************************************)
WokenByNotify ==
    \A t \in Threads :
      gpc[t] = "parked" /\ Satisfiable(t)
        ~> gpc[t] # "parked" \/ ~Satisfiable(t)

(***************************************************************************)
(* Once the process terminates every wait returns, and so does a wait      *)
(* whose deadline has passed, although nobody produces anything for it.    *)
(***************************************************************************)
SemWaitEnds ==
    \A t \in Threads :
      SlicesExpire(t) =>
        (InWait(t) /\ (terminating \/ limit[t] = "passed") ~> ~InWait(t))
===============================================================================
