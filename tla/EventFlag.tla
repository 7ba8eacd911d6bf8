------------------------------- MODULE EventFlag -------------------------------
(***************************************************************************)
(* sceKernelCreate/Delete/Set/Clear/Poll/Wait/CancelEventFlag              *)
(* (crates/raeen-hle/src/kernel_eventflag.rs) over wait_until, wake and    *)
(* update_event of OrbisKernel (crates/raeen-kernel/src/lib.rs).  One flag *)
(* is modelled; the lock and the condition variable are shared by all      *)
(* flags, and what another flag's producer does to this flag's waiters is  *)
(* what SliceEnds does.                                                    *)
(***************************************************************************)
EXTENDS WaitGate, FiniteSets

CONSTANTS Bits,   \* the bits of the flag in use
          Modes   \* the wait modes in use: how to match, what to clear

AllModes == {"and", "or"} \X {"keep", "clear_all", "clear_pattern"}

ASSUME ModesAssumption == Modes \subseteq AllModes

VARIABLES bits,      \* the bits that are set
          flagLive,  \* the flag is in kernel_event_flags
          ask,       \* pattern and mode of each thread's wait
          outcome    \* how each thread's last wait ended

flagVars == <<bits, flagLive, ask, outcome>>
flagAllVars == <<gateVars, flagVars>>

Patterns == (SUBSET Bits) \ {{}}
NoAsk == <<{}, <<>>>>

(***************************************************************************)
(* Type invariant; a thread that is not waiting holds no stale request.    *)
(***************************************************************************)
FlagTypeOK ==
    /\ GateTypeOK
    /\ bits \subseteq Bits
    /\ flagLive \in BOOLEAN
    /\ ask \in [Threads -> (Patterns \X Modes) \cup {NoAsk}]
    /\ \A t \in Threads : ask[t] # NoAsk <=> InWait(t)
    /\ outcome \in [Threads -> {"none", "ok", "timedout", "deleted"}]

FlagInit ==
    /\ GateInit
    /\ bits \in SUBSET Bits
    /\ flagLive = TRUE
    /\ ask = [t \in Threads |-> NoAsk]
    /\ outcome = [t \in Threads |-> "none"]

is_satisfied(b, p, m) == IF m[1] = "and" THEN p \subseteq b ELSE b \cap p # {}

apply_clear(b, p, m) ==
    CASE m[2] = "clear_all" -> {}
      [] m[2] = "clear_pattern" -> b \ p
      [] OTHER -> b

-------------------------------------------------------------------------------
(***************************************************************************)
(* update_event, then wake.                                                *)
(***************************************************************************)
FlagUpdate(t, b) ==
    /\ Running(t)
    /\ flagLive
    /\ bits' = b
    /\ OweNotify(t)
    /\ UNCHANGED <<flagLive, ask, outcome>>

(***************************************************************************)
(* Faulty variant: bits are set and nobody is told.                        *)
(***************************************************************************)
FlagSetSilently(t, p) ==
    /\ Running(t)
    /\ flagLive
    /\ bits' = bits \cup p
    /\ UNCHANGED <<gateVars, flagLive, ask, outcome>>

FlagSet(t, p) == FlagUpdate(t, bits \cup p)
FlagClear(t, p) == FlagUpdate(t, bits \cap p)
FlagCancel(t, p) == FlagUpdate(t, p)

(***************************************************************************)
(* Faulty variant: the flag is removed and nobody is told.                 *)
(***************************************************************************)
FlagDeleteSilently(t) ==
    /\ Running(t)
    /\ flagLive
    /\ flagLive' = FALSE
    /\ UNCHANGED <<gateVars, bits, ask, outcome>>

FlagDelete(t) ==
    /\ Running(t)
    /\ flagLive
    /\ flagLive' = FALSE
    /\ OweNotify(t)
    /\ UNCHANGED <<bits, ask, outcome>>

FlagPoll(t, p, m) ==
    /\ Running(t)
    /\ flagLive
    /\ is_satisfied(bits, p, m)
    /\ bits' = apply_clear(bits, p, m)
    /\ UNCHANGED <<gateVars, flagLive, ask, outcome>>

-------------------------------------------------------------------------------
FlagWaitCall(t, p, m, lim) ==
    /\ gpc[t] = "guest"
    /\ t \notin notifying
    /\ flagLive
    /\ ask' = [ask EXCEPT ![t] = <<p, m>>]
    /\ limit' = [limit EXCEPT ![t] = lim]
    /\ outcome' = [outcome EXCEPT ![t] = "none"]
    /\ At(t, "top")
    /\ UNCHANGED <<gate, notifying, terminating, bits, flagLive>>

FlagReturns(t, o) ==
    /\ EndWait(t)
    /\ ask' = [ask EXCEPT ![t] = NoAsk]
    /\ outcome' = [outcome EXCEPT ![t] = o]

FlagSeesTermination(t) == gpc[t] = "top" /\ terminating

(***************************************************************************)
(* Head of the outer loop: termination, then a queued exception, then the  *)
(* guest's deadline, then one bounded wait_until.                          *)
(***************************************************************************)
FlagWaitTerminates(t) ==
    /\ FlagSeesTermination(t)
    /\ FlagReturns(t, "ok")
    /\ UNCHANGED <<bits, flagLive>>

FlagDeliver(t) ==
    /\ gpc[t] = "top"
    /\ ~FlagSeesTermination(t)
    /\ At(t, "handler")
    /\ UNCHANGED <<gate, notifying, limit, terminating, flagVars>>

FlagHandlerReturns(t) ==
    /\ gpc[t] = "handler"
    /\ t \notin notifying
    /\ At(t, "resuming")
    /\ UNCHANGED <<gate, notifying, limit, terminating, flagVars>>

AtDeadlineCheck(t) == gpc[t] \in {"top", "resuming"} /\ ~FlagSeesTermination(t)

TimesOut(t) ==
    /\ AtDeadlineCheck(t)
    /\ DeadlineReached(t)
    /\ FlagReturns(t, "timedout")
    /\ UNCHANGED <<bits, flagLive>>

StartsSlice(t) ==
    /\ AtDeadlineCheck(t)
    /\ ~DeadlineReached(t)
    /\ At(t, "entering")
    /\ UNCHANGED <<gate, notifying, limit, terminating, flagVars>>

(***************************************************************************)
(* wait_until: the ready closure runs under the lock.                      *)
(***************************************************************************)
ReadySatisfied(t) ==
    /\ gpc[t] = "checking"
    /\ flagLive
    /\ is_satisfied(bits, ask[t][1], ask[t][2])
    /\ bits' = apply_clear(bits, ask[t][1], ask[t][2])
    /\ FlagReturns(t, "ok")
    /\ UNCHANGED flagLive

ReadyDeleted(t) ==
    /\ gpc[t] = "checking"
    /\ ~flagLive
    /\ FlagReturns(t, "deleted")
    /\ UNCHANGED <<bits, flagLive>>

NotReady(t) ==
    /\ gpc[t] = "checking"
    /\ flagLive
    /\ ~is_satisfied(bits, ask[t][1], ask[t][2])
    /\ \/ terminating /\ gate' = NoThread /\ At(t, "top")
       \/ ~terminating /\ gate' = gate /\ At(t, "short")
    /\ UNCHANGED <<notifying, limit, terminating, bits, flagLive, ask, outcome>>

(***************************************************************************)
(* The time of the slice is used up: back to the outer loop.               *)
(***************************************************************************)
SliceOver(t) ==
    /\ gpc[t] = "short"
    /\ gate' = NoThread
    /\ At(t, "top")
    /\ UNCHANGED <<notifying, limit, terminating, flagVars>>

Enter(t) == gpc[t] = "entering" /\ TakeGate(t) /\ UNCHANGED flagVars

FlagGateStep(t) ==
    /\ Park(t) \/ SliceEnds(t) \/ Notify(t) \/ DeadlinePasses(t)
    /\ UNCHANGED flagVars

FlagEnds(t) ==
    /\ ThreadEnds(t)
    /\ ask' = [ask EXCEPT ![t] = NoAsk]
    /\ UNCHANGED <<bits, flagLive, outcome>>

FlagTerminate == BeginTermination /\ UNCHANGED flagVars

FlagNext ==
    \/ \E t \in Threads :
         \/ \E p \in Patterns : FlagSet(t, p)
         \/ \E p \in SUBSET Bits : FlagClear(t, p) \/ FlagCancel(t, p)
         \/ FlagDelete(t)
         \/ \E p \in Patterns, m \in Modes :
              \/ FlagPoll(t, p, m)
              \/ \E lim \in Limits : FlagWaitCall(t, p, m, lim)
         \/ FlagWaitTerminates(t)
         \/ FlagDeliver(t)
         \/ FlagHandlerReturns(t)
         \/ TimesOut(t)
         \/ StartsSlice(t)
         \/ Enter(t)
         \/ ReadySatisfied(t)
         \/ ReadyDeleted(t)
         \/ NotReady(t)
         \/ SliceOver(t)
         \/ FlagGateStep(t)
         \/ FlagEnds(t)
    \/ FlagTerminate

FlagSpec == FlagInit /\ [][FlagNext]_flagAllVars

-------------------------------------------------------------------------------
(***************************************************************************)
(* Fairness, as for the semaphores: the host lock starves nobody, handlers *)
(* return.  FlagSlicesExpire, that slices run out, is assumed only by the  *)
(* properties that need it.                                                *)
(***************************************************************************)
FlagHostStep(t) ==
    \/ FlagWaitTerminates(t)
    \/ TimesOut(t)
    \/ StartsSlice(t)
    \/ ReadySatisfied(t)
    \/ ReadyDeleted(t)
    \/ NotReady(t)
    \/ Enter(t)
    \/ (Park(t) \/ Notify(t)) /\ UNCHANGED flagVars

FlagFairSpec ==
    /\ FlagSpec
    /\ \A t \in Threads :
         SF_flagAllVars(FlagHostStep(t)) /\ SF_flagAllVars(FlagHandlerReturns(t))

FlagSlicesExpire(t) ==
    /\ WF_flagAllVars(SliceEnds(t) /\ UNCHANGED flagVars)
    /\ SF_flagAllVars(SliceOver(t))

-------------------------------------------------------------------------------
(***************************************************************************)
(* What would end the wait of t: its pattern, or the flag's deletion.      *)
(***************************************************************************)
ReadyNow(t) == ~flagLive \/ is_satisfied(bits, ask[t][1], ask[t][2])

(***************************************************************************)
(* No check-then-sleep gap: a thread parked although its pattern is there, *)
(* or its flag deleted, has a producer about to notify it.                 *)
(***************************************************************************)
NoMissedSet ==
    \A t \in Threads : gpc[t] = "parked" /\ ReadyNow(t) => notifying # {}

(***************************************************************************)
(* The invariant of the event flag: its types, and that update_event and   *)
(* its notify never leave a satisfied waiter parked.                       *)
(***************************************************************************)
FlagInv == FlagTypeOK /\ NoMissedSet

(***************************************************************************)
(* A set reaches its waiter through the notify alone, without the help of  *)
(* slices that run out: a wait whose pattern is there, or whose flag was   *)
(* deleted, returns, unless another thread takes the bits away first.      *)
(***************************************************************************)
SetReachesWaiter ==
    \A t \in Threads :
      InWait(t) /\ ReadyNow(t) ~> ~InWait(t) \/ ~ReadyNow(t)

(***************************************************************************)
(* Once the process terminates every wait returns, and so does a wait      *)
(* whose deadline has passed, although nobody produces anything for it.    *)
(***************************************************************************)
FlagWaitEnds ==
    \A t \in Threads :
      FlagSlicesExpire(t) =>
        (InWait(t) /\ (terminating \/ limit[t] = "passed") ~> ~InWait(t))
===============================================================================
