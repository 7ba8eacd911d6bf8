------------------------------ MODULE PthreadCond ------------------------------
(***************************************************************************)
(* One guest condition variable used with one guest mutex:                 *)
(* scePthreadCondWait / Timedwait / Signal / Signalto / Broadcast          *)
(* (crates/raeen-hle/src/pthread_cond.rs) over the GuestWaitQueue of       *)
(* crates/raeen-kernel/src/lib.rs, composed with PthreadMutex: a wait      *)
(* calls the mutex's own unlock and lock_core.                             *)
(*                                                                         *)
(* A wait joins the condition's FIFO, then unlocks the mutex, then sleeps  *)
(* in bounded slices, then locks the mutex again; every one of these is a  *)
(* separate action, and signals, deaths, deadlines and termination fall    *)
(* between them.                                                           *)
(***************************************************************************)
EXTENDS PthreadMutex

VARIABLES cqueue,    \* the condition's FIFO
          csignaled, \* threads whose condition wake bit is set
          cpc,       \* where each thread is in wait_core
          climit,    \* the timeout of the wait each thread is in
          coutcome   \* how the last wait of each thread ended

condVars == <<cqueue, csignaled, cpc, climit, coutcome>>
allVars == <<vars, condVars>>

(***************************************************************************)
(* out: not in a wait; unlocking: queued, mutex not released yet; asleep:  *)
(* in the slice loop; relock: selected, timed out or terminating, on the   *)
(* way back through lock_core.                                             *)
(***************************************************************************)
CondPcs == {"out", "unlocking", "asleep", "relock"}
Outcomes == {"none", "woken", "timedout", "terminated"}

(***************************************************************************)
(* Type invariant; a thread has at most one entry in the FIFO.             *)
(***************************************************************************)
CondTypeOK ==
    /\ cqueue \in Seq(Threads)
    /\ NoDuplicates(cqueue)
    /\ csignaled \subseteq Threads
    /\ cpc \in [Threads -> CondPcs]
    /\ climit \in [Threads -> {"none", "future", "passed"}]
    /\ coutcome \in [Threads -> Outcomes]

CondInit ==
    /\ Init
    /\ cqueue = <<>>
    /\ csignaled = {}
    /\ cpc = [t \in Threads |-> "out"]
    /\ climit = [t \in Threads |-> "none"]
    /\ coutcome = [t \in Threads |-> "none"]

-------------------------------------------------------------------------------
(***************************************************************************)
(* wait_core, entry: the waiter is published before the mutex is touched.  *)
(***************************************************************************)
WaitEnter(t, timed) ==
    /\ cpc[t] = "out"
    /\ pc[t] = "guest"
    /\ cqueue' = Append(cqueue, t)
    /\ csignaled' = csignaled \ {t}
    /\ cpc' = [cpc EXCEPT ![t] = "unlocking"]
    /\ climit' = [climit EXCEPT ![t] = IF timed THEN "future" ELSE "none"]
    /\ coutcome' = [coutcome EXCEPT ![t] = "none"]
    /\ UNCHANGED vars

(***************************************************************************)
(* Faulty variant: the mutex is not released before sleeping.              *)
(***************************************************************************)
WaitKeepsMutex(t) ==
    /\ cpc[t] = "unlocking"
    /\ owner = t
    /\ UNCHANGED vars
    /\ cpc' = [cpc EXCEPT ![t] = "asleep"]
    /\ UNCHANGED <<cqueue, csignaled, climit, coutcome>>

(***************************************************************************)
(* Faulty variant: the mutex is cleared without handing it to a waiter.    *)
(***************************************************************************)
WaitClearsOwner(t) ==
    /\ cpc[t] = "unlocking"
    /\ owner = t
    /\ owner' = NoThread
    /\ recursion' = 0
    /\ held' = [held EXCEPT ![t] = 0]
    /\ UNCHANGED <<ty, waiters, woken, pc, deadline, terminating>>
    /\ cpc' = [cpc EXCEPT ![t] = "asleep"]
    /\ UNCHANGED <<cqueue, csignaled, climit, coutcome>>

(***************************************************************************)
(* mutex_unlock_for_cond succeeds: one level is dropped, or a lenient      *)
(* unlock of a free mutex changes nothing and still answers OK.            *)
(***************************************************************************)
WaitUnlocks(t) ==
    /\ cpc[t] = "unlocking"
    /\ \/ Unlock(t)
       \/ recursion = 0 /\ ty \in Lenient /\ UNCHANGED vars
    /\ cpc' = [cpc EXCEPT ![t] = "asleep"]
    /\ UNCHANGED <<cqueue, csignaled, climit, coutcome>>

(***************************************************************************)
(* mutex_unlock_for_cond fails (not the owner): the entry is cancelled and *)
(* the error returned.                                                     *)
(***************************************************************************)
WaitUnlockFails(t) ==
    /\ cpc[t] = "unlocking"
    /\ \/ recursion > 0 /\ owner # t
       \/ recursion = 0 /\ ty \notin Lenient
    /\ cqueue' = Cancelled(cqueue, t)
    /\ csignaled' = csignaled \ {t}
    /\ cpc' = [cpc EXCEPT ![t] = "out"]
    /\ climit' = [climit EXCEPT ![t] = "none"]
    /\ UNCHANGED <<vars, coutcome>>

(***************************************************************************)
(* The wait of t leaves the slice loop with outcome o.                     *)
(***************************************************************************)
WakeUp(t, o) ==
    /\ csignaled' = csignaled \ {t}
    /\ cpc' = [cpc EXCEPT ![t] = "relock"]
    /\ climit' = [climit EXCEPT ![t] = "none"]
    /\ coutcome' = [coutcome EXCEPT ![t] = o]
    /\ UNCHANGED vars

(***************************************************************************)
(* A slice sees the wake bit.                                              *)
(***************************************************************************)
WaitWoken(t) ==
    /\ cpc[t] = "asleep"
    /\ t \in csignaled
    /\ WakeUp(t, "woken")
    /\ UNCHANGED cqueue

(***************************************************************************)
(* Faulty variant: the timeout wins without looking at the FIFO.           *)
(***************************************************************************)
WaitTimesOutBlindly(t) ==
    /\ cpc[t] = "asleep"
    /\ climit[t] = "passed"
    /\ cqueue' = Cancelled(cqueue, t)
    /\ WakeUp(t, "timedout")

(***************************************************************************)
(* The deadline is seen: removing the entry under the FIFO lock wins the   *)
(* race against a signal; an entry already gone means a signal took it.    *)
(***************************************************************************)
WaitTimesOut(t) ==
    /\ cpc[t] = "asleep"
    /\ climit[t] = "passed"
    /\ cqueue' = Cancelled(cqueue, t)
    /\ WakeUp(t, IF Queued(cqueue, t) THEN "timedout" ELSE "woken")

(***************************************************************************)
(* Faulty variant: termination is looked at only when the wait is timed.   *)
(***************************************************************************)
WaitTerminatesIfTimed(t) ==
    /\ cpc[t] = "asleep"
    /\ terminating
    /\ climit[t] # "none"
    /\ cqueue' = Cancelled(cqueue, t)
    /\ WakeUp(t, "terminated")

(***************************************************************************)
(* Termination is seen at the top of a slice.                              *)
(***************************************************************************)
WaitTerminates(t) ==
    /\ cpc[t] = "asleep"
    /\ terminating
    /\ cqueue' = Cancelled(cqueue, t)
    /\ WakeUp(t, "terminated")

-------------------------------------------------------------------------------
(***************************************************************************)
(* mutex_lock_for_cond: lock_core with no deadline.                        *)
(***************************************************************************)
Leave(t) ==
    /\ cpc' = [cpc EXCEPT ![t] = "out"]
    /\ UNCHANGED <<cqueue, csignaled, climit, coutcome>>

(***************************************************************************)
(* Faulty variant: the wait returns without taking the mutex back.         *)
(***************************************************************************)
RelockSkipped(t) ==
    /\ cpc[t] = "relock"
    /\ pc[t] = "guest"
    /\ UNCHANGED vars
    /\ Leave(t)

(***************************************************************************)
(* The mutex is available, or already owned and not error-checking.        *)
(***************************************************************************)
RelockAtOnce(t) ==
    /\ cpc[t] = "relock"
    /\ Relock(t) \/ LockFree(t)
    /\ Leave(t)

RelockQueues(t) ==
    /\ cpc[t] = "relock"
    /\ LockEnqueue(t, FALSE)
    /\ UNCHANGED condVars

RelockContinues(t) ==
    /\ cpc[t] = "relock"
    /\ SpinExhausted(t) \/ SliceEnds(t)
    /\ UNCHANGED condVars

RelockDone(t) ==
    /\ cpc[t] = "relock"
    /\ ObserveGrant(t) \/ AbandonWait(t)
    /\ Leave(t)

(***************************************************************************)
(* A contended relock of a terminating process answers EBUSY at once.      *)
(***************************************************************************)
RelockBusy(t) ==
    /\ cpc[t] = "relock"
    /\ pc[t] = "guest"
    /\ terminating
    /\ owner # t
    /\ owner # NoThread \/ waiters # <<>>
    /\ UNCHANGED vars
    /\ Leave(t)

-------------------------------------------------------------------------------
(***************************************************************************)
(* Callers of signal, signalto and broadcast.  A signal handler run inside *)
(* a wait slice may call them too, so a sleeping thread is also a caller.  *)
(***************************************************************************)
CanSignal(t) == pc[t] = "guest" /\ cpc[t] \in {"out", "asleep"}

(***************************************************************************)
(* signal_one: the oldest entry leaves the FIFO and is woken.  On an empty *)
(* FIFO nothing happens.                                                   *)
(***************************************************************************)
Signal(t) ==
    /\ CanSignal(t)
    /\ cqueue # <<>>
    /\ cqueue' = Tail(cqueue)
    /\ csignaled' = csignaled \cup {Head(cqueue)}
    /\ UNCHANGED <<vars, cpc, climit, coutcome>>

(***************************************************************************)
(* signal_thread: the entry of u, wherever it is.                          *)
(***************************************************************************)
SignalTo(t, u) ==
    /\ CanSignal(t)
    /\ Queued(cqueue, u)
    /\ cqueue' = Cancelled(cqueue, u)
    /\ csignaled' = csignaled \cup {u}
    /\ UNCHANGED <<vars, cpc, climit, coutcome>>

Broadcast(t) ==
    /\ CanSignal(t)
    /\ cqueue # <<>>
    /\ cqueue' = <<>>
    /\ csignaled' = csignaled \cup {u \in Threads : Queued(cqueue, u)}
    /\ UNCHANGED <<vars, cpc, climit, coutcome>>

-------------------------------------------------------------------------------
(***************************************************************************)
(* Faulty variant: the entry of a thread that ends stays queued.           *)
(***************************************************************************)
EndThreadKeepsEntry(t) ==
    /\ cpc[t] \in {"out", "asleep"}
    /\ ThreadExit(t)
    /\ csignaled' = csignaled \ {t}
    /\ cpc' = [cpc EXCEPT ![t] = "out"]
    /\ climit' = [climit EXCEPT ![t] = "none"]
    /\ UNCHANGED <<cqueue, coutcome>>

(***************************************************************************)
(* A thread ends, in guest code or in a handler delivered inside a wait    *)
(* slice (the handler faults or exits: the guest call is unwound and       *)
(* wait_core never resumes).  The worker's exit path releases its locks    *)
(* and discards its entries.                                               *)
(***************************************************************************)
EndThread(t) ==
    /\ cpc[t] \in {"out", "asleep"}
    /\ ThreadExit(t)
    /\ cqueue' = Cancelled(cqueue, t)
    /\ csignaled' = csignaled \ {t}
    /\ cpc' = [cpc EXCEPT ![t] = "out"]
    /\ climit' = [climit EXCEPT ![t] = "none"]
    /\ UNCHANGED coutcome

(***************************************************************************)
(* Mutex calls of threads that are not in a wait.                          *)
(***************************************************************************)
MutexCall(t) ==
    /\ cpc[t] = "out"
    /\ \/ Relock(t)
       \/ LockFree(t)
       \/ \E timed \in BOOLEAN : LockEnqueue(t, timed)
       \/ ObserveGrant(t)
       \/ SpinExhausted(t)
       \/ SliceEnds(t)
       \/ AbandonWait(t)
       \/ Unlock(t)
       \/ DeadlinePasses(t)
    /\ UNCHANGED condVars

LimitPasses(t) ==
    /\ climit[t] = "future"
    /\ climit' = [climit EXCEPT ![t] = "passed"]
    /\ UNCHANGED <<vars, cqueue, csignaled, cpc, coutcome>>

Terminate == BeginTermination /\ UNCHANGED condVars

CondNext ==
    \/ \E t \in Threads :
         \/ MutexCall(t)
         \/ \E timed \in BOOLEAN : WaitEnter(t, timed)
         \/ WaitUnlocks(t)
         \/ WaitUnlockFails(t)
         \/ WaitWoken(t)
         \/ WaitTimesOut(t)
         \/ WaitTerminates(t)
         \/ RelockAtOnce(t)
         \/ RelockQueues(t)
         \/ RelockContinues(t)
         \/ RelockDone(t)
         \/ RelockBusy(t)
         \/ Signal(t)
         \/ \E u \in Threads : SignalTo(t, u)
         \/ Broadcast(t)
         \/ EndThread(t)
         \/ LimitPasses(t)
    \/ Terminate

CondSpec == CondInit /\ [][CondNext]_allVars

(***************************************************************************)
(* Fairness of the host: a wait or lock call that can take its next step   *)
(* takes it.  CondGuestReleases is an assumption about the guests: their   *)
(* critical sections end.                                                  *)
(***************************************************************************)
WaitProgress(t) ==
    \/ WaitUnlocks(t)
    \/ WaitUnlockFails(t)
    \/ WaitWoken(t)
    \/ WaitTimesOut(t)
    \/ WaitTerminates(t)
    \/ RelockAtOnce(t)
    \/ RelockQueues(t)
    \/ RelockContinues(t)
    \/ RelockDone(t)
    \/ RelockBusy(t)
    \/ cpc[t] = "out" /\ CallProgress(t) /\ UNCHANGED condVars

CondHostFairness == \A t \in Threads : WF_allVars(WaitProgress(t))

CondGuestReleases ==
    \A t \in Threads :
      /\ WF_allVars(cpc[t] = "out" /\ Unlock(t) /\ UNCHANGED condVars)
      /\ SF_allVars(cpc[t] = "out" /\ recursion = 1 /\ Unlock(t)
                      /\ UNCHANGED condVars)

CondHostFairSpec == CondSpec /\ CondHostFairness

-------------------------------------------------------------------------------
(***************************************************************************)
(* From the moment a wait is published until it leaves the slice loop, it  *)
(* is either still in the FIFO or has been selected, never both and never  *)
(* neither: no signal falls into the gap between releasing the mutex and   *)
(* going to sleep, and none is delivered twice.  A thread that has left    *)
(* its wait, or has ended in it, has no entry left to absorb a signal.     *)
(***************************************************************************)
NoWakeGap ==
    \A t \in Threads :
      IF cpc[t] \in {"unlocking", "asleep"}
        THEN Queued(cqueue, t) <=> t \notin csignaled
        ELSE ~Queued(cqueue, t) /\ t \notin csignaled

(***************************************************************************)
(* The invariant of the condition variable: its types, no thread queued    *)
(* twice, and no wake lost between a wait's entry and its return.          *)
(***************************************************************************)
CondInv == CondTypeOK /\ NoWakeGap

(***************************************************************************)
(* A wait that returns from its relock while the process is not            *)
(* terminating returns with the mutex held by the caller.                  *)
(***************************************************************************)
WaitReturnsHolding ==
    [][ \A t \in Threads :
          (cpc[t] = "relock" /\ cpc'[t] = "out" /\ ~terminating)
            => held'[t] > 0 /\ owner' = t ]_allVars

(***************************************************************************)
(* A wait that a signal has selected never reports a timeout: the signal   *)
(* would be lost to the guest and to the waiters behind it.                *)
(***************************************************************************)
SignalBeatsTimeout ==
    [][ \A t \in Threads :
          (cpc[t] = "asleep" /\ t \in csignaled)
            => coutcome'[t] # "timedout" ]_allVars

(***************************************************************************)
(* Used through waits, the mutex still behaves as PthreadMutex specifies.  *)
(***************************************************************************)
MutexUnderCond == Spec

(***************************************************************************)
(* A selected waiter returns to its guest, provided critical sections end. *)
(***************************************************************************)
SignalledReturns ==
    CondGuestReleases =>
      \A t \in Threads : t \in csignaled ~> cpc[t] = "out"

(***************************************************************************)
(* Once the process terminates every wait ends, whatever the guests do.    *)
(***************************************************************************)
TerminationEndsWaits ==
    \A t \in Threads : (terminating /\ cpc[t] # "out") ~> cpc[t] = "out"
===============================================================================
