-------------------------------- MODULE WaitGate -------------------------------
(***************************************************************************)
(* The sliced-wait discipline shared by the kernel's semaphores, event     *)
(* flags and event queues: one host lock and condition variable for all    *)
(* objects of a class (semaphore_signal, event_flag_signal of              *)
(* OrbisKernel).  A waiter checks its object under the lock and parks in   *)
(* bounded slices; a producer changes the object WITHOUT the lock, then    *)
(* takes the lock and notifies everybody.  Signal handlers run inside a    *)
(* wait with the lock released.                                            *)
(***************************************************************************)
EXTENDS Naturals, GuestThreads

VARIABLES gate,        \* holder of the host lock, or NoThread
          gpc,         \* where each thread is in its kernel call
          notifying,   \* producers that changed an object and owe a notify
          limit,       \* deadline of the wait each thread is in
          terminating  \* process_is_terminating

gateVars == <<gate, gpc, notifying, limit, terminating>>

(***************************************************************************)
(* guest: not waiting.  top: at the head of the wait loop, no lock held.   *)
(* entering: about to lock.  checking, trying: lock held, before the       *)
(* termination check and before looking at the object.  short: lock held,  *)
(* the object does not satisfy the wait.  parked: in wait_timeout.         *)
(* handler: running a guest handler; resuming: locking again after it.     *)
(* drained, delivering (event queues): GPU effects taken, no lock held;    *)
(* lock held, handing out a batch of events.                               *)
(***************************************************************************)
GatePcs == {"guest", "top", "entering", "checking", "trying", "short",
            "parked", "handler", "resuming", "drained", "delivering", "dead"}
Limits == {"none", "future", "passed"}

GateTypeOK ==
    /\ gate \in Threads \cup {NoThread}
    /\ gpc \in [Threads -> GatePcs]
    /\ notifying \subseteq Threads
    /\ limit \in [Threads -> Limits]
    /\ terminating \in BOOLEAN

GateInit ==
    /\ gate = NoThread
    /\ gpc = [t \in Threads |-> "guest"]
    /\ notifying = {}
    /\ limit = [t \in Threads |-> "none"]
    /\ terminating = FALSE

(***************************************************************************)
(* Threads that run guest code and may call the kernel.                    *)
(***************************************************************************)
Running(t) == gpc[t] \in {"guest", "handler"} /\ t \notin notifying

InWait(t) == gpc[t] \notin {"guest", "dead"}

(***************************************************************************)
(* guest_deadline_reached, and a variant that never says so.               *)
(***************************************************************************)
DeadlineNeverReached(t) == FALSE

DeadlineReached(t) == limit[t] = "passed"

At(t, place) == gpc' = [gpc EXCEPT ![t] = place]

-------------------------------------------------------------------------------
TakeGate(t) ==
    /\ gate = NoThread
    /\ \/ gpc[t] = "entering" /\ At(t, "checking")
       \/ gpc[t] = "resuming" /\ At(t, "trying")
    /\ gate' = t
    /\ UNCHANGED <<notifying, limit, terminating>>

(***************************************************************************)
(* wait_timeout: the lock is released and the thread parked in one step.   *)
(***************************************************************************)
Park(t) ==
    /\ gpc[t] = "short"
    /\ gate' = NoThread
    /\ At(t, "parked")
    /\ UNCHANGED <<notifying, limit, terminating>>

(***************************************************************************)
(* The slice runs out, or the host wakes the thread for no reason.         *)
(***************************************************************************)
SliceEnds(t) ==
    /\ gpc[t] = "parked"
    /\ At(t, "entering")
    /\ UNCHANGED <<gate, notifying, limit, terminating>>

(***************************************************************************)
(* The wait of t ends; the lock is released if t holds it.                 *)
(***************************************************************************)
EndWait(t) ==
    /\ At(t, "guest")
    /\ gate' = IF gate = t THEN NoThread ELSE gate
    /\ limit' = [limit EXCEPT ![t] = "none"]
    /\ UNCHANGED <<notifying, terminating>>

(***************************************************************************)
(* The producer's wake: lock, notify_all, unlock.                          *)
(***************************************************************************)
Notify(t) ==
    /\ t \in notifying
    /\ gate = NoThread
    /\ notifying' = notifying \ {t}
    /\ gpc' = [u \in Threads |-> IF gpc[u] = "parked" THEN "entering" ELSE gpc[u]]
    /\ UNCHANGED <<gate, limit, terminating>>

(***************************************************************************)
(* A producer t changes its object; the notify is still to come.           *)
(***************************************************************************)
OweNotify(t) ==
    /\ notifying' = notifying \cup {t}
    /\ UNCHANGED <<gate, gpc, limit, terminating>>

(***************************************************************************)
(* A guest thread ends, possibly inside a handler: the wait it interrupted *)
(* is unwound and leaves nothing behind.                                   *)
(***************************************************************************)
ThreadEnds(t) ==
    /\ Running(t)
    /\ At(t, "dead")
    /\ limit' = [limit EXCEPT ![t] = "none"]
    /\ UNCHANGED <<gate, notifying, terminating>>

DeadlinePasses(t) ==
    /\ limit[t] = "future"
    /\ limit' = [limit EXCEPT ![t] = "passed"]
    /\ UNCHANGED <<gate, gpc, notifying, terminating>>

BeginTermination ==
    /\ ~terminating
    /\ terminating' = TRUE
    /\ UNCHANGED <<gate, gpc, notifying, limit>>

-------------------------------------------------------------------------------
(***************************************************************************)
(* A thread holds the lock exactly while it is between locking and parking *)
(* or returning; in particular no handler runs with the lock held.         *)
(***************************************************************************)
GateHeldExactly ==
    \A t \in Threads :
      gate = t <=> gpc[t] \in {"checking", "trying", "short", "delivering"}
===============================================================================
