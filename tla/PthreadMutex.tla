----------------------------- MODULE PthreadMutex -----------------------------
(***************************************************************************)
(* One guest pthread mutex: scePthreadMutexLock / Trylock / Timedlock /    *)
(* Unlock (crates/raeen-hle/src/pthread_sync.rs) over the shared state     *)
(* object of crates/raeen-kernel/src/lib.rs, with the recovery of a dead   *)
(* owner and process termination.                                          *)
(*                                                                         *)
(* Everything a call does while it holds the host lock of the state object *)
(* is one atomic action.  A contended call is several actions: it joins    *)
(* the FIFO, drops the host lock, spins on its private wake bit, parks in  *)
(* bounded slices, and after a slice may decide to give up; ownership is   *)
(* handed to it by another thread somewhere in between.                    *)
(***************************************************************************)
EXTENDS WaiterFifo, GuestThreads

CONSTANTS Types,        \* mutex types a run explores
          MaxRecursion  \* bound on nested acquisitions

MutexTypes == {"errorcheck", "recursive", "normal", "adaptive"}

ASSUME TypesAssumption == Types \subseteq MutexTypes
ASSUME MaxRecursionAssumption == MaxRecursion \in Nat \ {0}

VARIABLES ty,          \* mutex type, fixed at creation
          owner,       \* owning thread
          recursion,   \* lock depth
          waiters,     \* acquisition FIFO
          woken,       \* threads whose private wake bit is set
          pc,          \* where each thread is
          deadline,    \* deadline of the call each thread is in
          held,        \* levels each guest has been told it holds
          terminating  \* GuestProcess::terminating

vars == <<ty, owner, recursion, waiters, woken, pc, deadline, held, terminating>>
mutexState == <<owner, recursion, waiters, woken>>

-------------------------------------------------------------------------------
(***************************************************************************)
(* guest:    in guest code (or in a call that returns in one action)       *)
(* spin:     queued, polling its wake bit                                  *)
(* park:     queued, in wait_for_signal slices                             *)
(* busy, late: a slice ended and termination / the deadline was seen; the  *)
(*           FIFO entry is not cancelled yet                               *)
(* dead:     the guest thread has ended                                    *)
(***************************************************************************)
Waiting == {"spin", "park", "busy", "late"}
Pcs == {"guest", "dead"} \cup Waiting

Lenient == {"normal", "adaptive"}

TypeOK ==
    /\ ty \in Types
    /\ owner \in Threads \cup {NoThread}
    /\ recursion \in 0..MaxRecursion
    /\ waiters \in Seq(Threads)
    /\ woken \subseteq Threads
    /\ pc \in [Threads -> Pcs]
    /\ deadline \in [Threads -> {"none", "future", "passed"}]
    /\ held \in [Threads -> 0..MaxRecursion]
    /\ terminating \in BOOLEAN

Init ==
    /\ ty \in Types
    /\ owner = NoThread
    /\ recursion = 0
    /\ waiters = <<>>
    /\ woken = {}
    /\ pc = [t \in Threads |-> "guest"]
    /\ deadline = [t \in Threads |-> "none"]
    /\ held = [t \in Threads |-> 0]
    /\ terminating = FALSE

(***************************************************************************)
(* Faulty variant: the wake goes to the head, the entry stays queued.      *)
(***************************************************************************)
GrantedStillQueued(o, r, q) ==
    IF o = NoThread /\ q # <<>>
      THEN /\ owner' = Head(q)
           /\ recursion' = 1
           /\ waiters' = q
           /\ woken' = woken \cup {Head(q)}
      ELSE /\ owner' = o
           /\ recursion' = r
           /\ waiters' = q
           /\ woken' = woken

(***************************************************************************)
(* Faulty variant: the newest waiter is granted.                           *)
(***************************************************************************)
GrantedLifo(o, r, q) ==
    IF o = NoThread /\ q # <<>>
      THEN /\ owner' = q[Len(q)]
           /\ recursion' = 1
           /\ waiters' = SubSeq(q, 1, Len(q) - 1)
           /\ woken' = woken \cup {q[Len(q)]}
      ELSE /\ owner' = o
           /\ recursion' = r
           /\ waiters' = q
           /\ woken' = woken

-------------------------------------------------------------------------------
(***************************************************************************)
(* try_grant_head on the state (o, r, q): a free mutex goes straight to    *)
(* the oldest waiter, whose wake bit is set.                               *)
(***************************************************************************)
Granted(o, r, q) ==
    IF o = NoThread /\ q # <<>>
      THEN /\ owner' = Head(q)
           /\ recursion' = 1
           /\ waiters' = Tail(q)
           /\ woken' = woken \cup {Head(q)}
      ELSE /\ owner' = o
           /\ recursion' = r
           /\ waiters' = q
           /\ woken' = woken

(***************************************************************************)
(* The call of t ends: its GuestWaiter is dropped with it.                 *)
(***************************************************************************)
Return(t) ==
    /\ pc' = [pc EXCEPT ![t] = "guest"]
    /\ deadline' = [deadline EXCEPT ![t] = "none"]

-------------------------------------------------------------------------------
(***************************************************************************)
(* The caller already owns the mutex.  Recursive mutexes nest; normal and  *)
(* adaptive ones nest too unless the call is a trylock (EBUSY); an         *)
(* error-checking mutex answers EBUSY or EDEADLK and nothing changes.      *)
(***************************************************************************)
Relock(t) ==
    /\ pc[t] = "guest"
    /\ owner = t
    /\ ty # "errorcheck"
    /\ recursion < MaxRecursion
    /\ recursion' = recursion + 1
    /\ held' = [held EXCEPT ![t] = @ + 1]
    /\ UNCHANGED <<ty, owner, waiters, woken, pc, deadline, terminating>>

(***************************************************************************)
(* Free and nobody queued: taken at once by lock, trylock or timedlock,    *)
(* even when the process is terminating or the deadline has passed.        *)
(***************************************************************************)
LockFree(t) ==
    /\ pc[t] = "guest"
    /\ owner = NoThread
    /\ waiters = <<>>
    /\ owner' = t
    /\ recursion' = 1
    /\ held' = [held EXCEPT ![t] = @ + 1]
    /\ UNCHANGED <<ty, waiters, woken, pc, deadline, terminating>>

(***************************************************************************)
(* Contended blocking call: trylock, a terminating process and an expired  *)
(* deadline have returned EBUSY / ETIMEDOUT before this point.  The caller *)
(* joins the FIFO and at once tries to hand a free mutex to the head; if   *)
(* that is the caller, the call is over.                                   *)
(***************************************************************************)
LockEnqueue(t, timed) ==
    /\ pc[t] = "guest"
    /\ owner # t
    /\ owner # NoThread \/ waiters # <<>>
    /\ ~terminating
    /\ LET q == Joined(waiters, t) IN
       IF owner = NoThread /\ Head(q) = t
         THEN /\ owner' = t
              /\ recursion' = 1
              /\ waiters' = Tail(q)
              /\ held' = [held EXCEPT ![t] = @ + 1]
              /\ UNCHANGED <<woken, pc, deadline>>
         ELSE /\ Granted(owner, recursion, q)
              /\ pc' = [pc EXCEPT ![t] = "spin"]
              /\ deadline' = [deadline EXCEPT ![t] =
                                IF timed THEN "future" ELSE "none"]
              /\ UNCHANGED held
    /\ UNCHANGED <<ty, terminating>>

(***************************************************************************)
(* The wake bit is observed, by the spin phase or by a park slice: the     *)
(* handoff already made the caller the owner, so the call returns OK.      *)
(***************************************************************************)
ObserveGrant(t) ==
    /\ pc[t] \in {"spin", "park"}
    /\ t \in woken
    /\ Return(t)
    /\ woken' = woken \ {t}
    /\ held' = [held EXCEPT ![t] = @ + 1]
    /\ UNCHANGED <<ty, owner, recursion, waiters, terminating>>

(***************************************************************************)
(* The spin budget is exhausted without a grant.                           *)
(***************************************************************************)
SpinExhausted(t) ==
    /\ pc[t] = "spin"
    /\ t \notin woken
    /\ pc' = [pc EXCEPT ![t] = "park"]
    /\ UNCHANGED <<ty, mutexState, deadline, held, terminating>>

(***************************************************************************)
(* Faulty variant: a slice looks at the deadline only.                     *)
(***************************************************************************)
SliceEndsIgnoresTermination(t) ==
    /\ pc[t] = "park"
    /\ t \notin woken
    /\ deadline[t] = "passed"
    /\ pc' = [pc EXCEPT ![t] = "late"]
    /\ UNCHANGED <<ty, mutexState, deadline, held, terminating>>

(***************************************************************************)
(* A 10 ms slice ends without a grant.  Termination is looked at first,    *)
(* then the deadline; the FIFO entry is cancelled by a later action, so a  *)
(* handoff can still win.  A slice that sees neither parks again.          *)
(***************************************************************************)
SliceEnds(t) ==
    /\ pc[t] = "park"
    /\ t \notin woken
    /\ terminating \/ deadline[t] = "passed"
    /\ pc' = [pc EXCEPT ![t] = IF terminating THEN "busy" ELSE "late"]
    /\ UNCHANGED <<ty, mutexState, deadline, held, terminating>>

(***************************************************************************)
(* abandon_mutex_wait.  No FIFO entry left means that a handoff won: the   *)
(* caller owns the mutex and reports OK.  Otherwise the entry goes, and a  *)
(* free mutex is passed on.                                                *)
(***************************************************************************)
AbandonWait(t) ==
    /\ pc[t] \in {"busy", "late"}
    /\ Return(t)
    /\ IF Queued(waiters, t)
         THEN /\ Granted(owner, recursion, Cancelled(waiters, t))
              /\ UNCHANGED held
         ELSE /\ woken' = woken \ {t}
              /\ held' = [held EXCEPT ![t] = @ + 1]
              /\ UNCHANGED <<owner, recursion, waiters>>
    /\ UNCHANGED <<ty, terminating>>

(***************************************************************************)
(* Faulty variant: the owner is cleared, nobody is granted.                *)
(***************************************************************************)
UnlockNoHandoff(t) ==
    /\ pc[t] = "guest"
    /\ recursion > 0
    /\ owner = t
    /\ recursion' = recursion - 1
    /\ owner' = IF recursion = 1 THEN NoThread ELSE t
    /\ held' = [held EXCEPT ![t] = @ - 1]
    /\ UNCHANGED <<ty, waiters, woken, pc, deadline, terminating>>

(***************************************************************************)
(* Faulty variant: the mutex is handed on at the first nested unlock.      *)
(***************************************************************************)
UnlockAllLevels(t) ==
    /\ pc[t] = "guest"
    /\ recursion > 0
    /\ owner = t
    /\ Granted(NoThread, 0, waiters)
    /\ held' = [held EXCEPT ![t] = @ - 1]
    /\ UNCHANGED <<ty, pc, deadline, terminating>>

(***************************************************************************)
(* hle_mutex_unlock by the owner.  Unlocking a free mutex, or one owned by *)
(* another thread, returns OK / EINVAL / EPERM and changes nothing.        *)
(***************************************************************************)
Unlock(t) ==
    /\ pc[t] = "guest"
    /\ recursion > 0
    /\ owner = t
    /\ IF recursion = 1
         THEN Granted(NoThread, 0, waiters)
         ELSE /\ recursion' = recursion - 1
              /\ UNCHANGED <<owner, waiters, woken>>
    /\ held' = [held EXCEPT ![t] = @ - 1]
    /\ UNCHANGED <<ty, pc, deadline, terminating>>

(***************************************************************************)
(* Faulty variant: a dying thread keeps what it owns.                      *)
(***************************************************************************)
ThreadExitKeepsLocks(t) ==
    /\ pc[t] = "guest"
    /\ pc' = [pc EXCEPT ![t] = "dead"]
    /\ held' = [held EXCEPT ![t] = 0]
    /\ UNCHANGED <<ty, mutexState, deadline, terminating>>

(***************************************************************************)
(* A guest thread ends (return, scePthreadExit, a fault, termination) and  *)
(* its worker runs release_locks_owned_by: whatever the depth, ownership   *)
(* is cleared and the mutex handed on.                                     *)
(***************************************************************************)
ThreadExit(t) ==
    /\ pc[t] = "guest"
    /\ pc' = [pc EXCEPT ![t] = "dead"]
    /\ IF owner = t
         THEN Granted(NoThread, 0, waiters)
         ELSE UNCHANGED mutexState
    /\ held' = [held EXCEPT ![t] = 0]
    /\ UNCHANGED <<ty, deadline, terminating>>

(***************************************************************************)
(* Time passes a deadline; the process is asked to terminate.              *)
(***************************************************************************)
DeadlinePasses(t) ==
    /\ deadline[t] = "future"
    /\ deadline' = [deadline EXCEPT ![t] = "passed"]
    /\ UNCHANGED <<ty, mutexState, pc, held, terminating>>

BeginTermination ==
    /\ ~terminating
    /\ terminating' = TRUE
    /\ UNCHANGED <<ty, mutexState, pc, deadline, held>>

Next ==
    \/ \E t \in Threads :
         \/ Relock(t)
         \/ LockFree(t)
         \/ \E timed \in BOOLEAN : LockEnqueue(t, timed)
         \/ ObserveGrant(t)
         \/ SpinExhausted(t)
         \/ SliceEnds(t)
         \/ AbandonWait(t)
         \/ Unlock(t)
         \/ ThreadExit(t)
         \/ DeadlinePasses(t)
    \/ BeginTermination

Spec == Init /\ [][Next]_vars

-------------------------------------------------------------------------------
(***************************************************************************)
(* Fairness.  Host threads are preemptively scheduled and every slice is   *)
(* bounded, so each step of a call that is enabled is taken, and time      *)
(* passes.  GuestReleases is an assumption about the guest: a critical     *)
(* section ends.  Only the property that needs it assumes it.              *)
(***************************************************************************)
CallProgress(t) ==
    \/ ObserveGrant(t)
    \/ SpinExhausted(t)
    \/ SliceEnds(t)
    \/ AbandonWait(t)

HostFairness ==
    \A t \in Threads : WF_vars(CallProgress(t)) /\ WF_vars(DeadlinePasses(t))

GuestReleases ==
    \A t \in Threads : /\ WF_vars(Unlock(t))
                       /\ SF_vars(recursion = 1 /\ Unlock(t))

HostFairSpec == Spec /\ HostFairness

-------------------------------------------------------------------------------
(***************************************************************************)
(* What a guest was told is what the kernel recorded: a thread that        *)
(* believes it holds n levels (n lock calls answered OK and not yet undone *)
(* by unlock) is the owner at depth n, whatever races between handoff,     *)
(* timeout, termination and owner death the calls went through.  Mutual    *)
(* exclusion is the special case of two believers.                         *)
(***************************************************************************)
HoldersAgree ==
    \A t \in Threads : held[t] > 0 => owner = t /\ recursion = held[t]

(***************************************************************************)
(* A free mutex has no waiter: no unlock, give-up or owner death leaves    *)
(* queued threads behind on a mutex nobody will ever unlock.               *)
(***************************************************************************)
FreeMeansNoWaiters == owner = NoThread => waiters = <<>> /\ recursion = 0

(***************************************************************************)
(* cancel_waiter returning false means ownership: a thread inside a        *)
(* contended call is in the FIFO exactly as long as it has not been        *)
(* granted the mutex, and once out of it, it is the owner at depth one     *)
(* with its wake bit set.  Threads outside lock_core are not in the FIFO.  *)
(***************************************************************************)
HandoffExact ==
    \A t \in Threads :
      IF Queued(waiters, t)
        THEN pc[t] \in Waiting /\ t \notin woken /\ owner # t
        ELSE pc[t] \in Waiting => owner = t /\ recursion = 1 /\ t \in woken

(***************************************************************************)
(* A thread that has ended neither owns the mutex nor waits for it, so     *)
(* that no other thread can be blocked behind it.                          *)
(***************************************************************************)
DeadOwnsNothing ==
    \A t \in Threads : pc[t] = "dead" => owner # t /\ ~Queued(waiters, t)

(***************************************************************************)
(* The mutex word, its queue and the threads agree at every step of every  *)
(* call: who holds it is who owns it, a free mutex has nobody queued, and  *)
(* the dead are neither owner nor waiter.                                  *)
(***************************************************************************)
MutexInv == TypeOK /\ HoldersAgree /\ FreeMeansNoWaiters /\ DeadOwnsNothing

(***************************************************************************)
(* No barging: while threads are queued, ownership only ever moves to the  *)
(* oldest of them, never to a newcomer's lock or trylock.                  *)
(***************************************************************************)
HandoffIsFifo ==
    [][ (owner' \notin {owner, NoThread} /\ waiters # <<>>)
          => owner' = Head(waiters) ]_vars

(***************************************************************************)
(* No starvation: when critical sections end, every contended lock call    *)
(* returns.                                                                *)
(***************************************************************************)
EveryLockReturns ==
    GuestReleases =>
      \A t \in Threads : pc[t] \in Waiting ~> pc[t] \notin Waiting

(***************************************************************************)
(* Termination and deadlines are honoured although no unlock ever comes:   *)
(* no fairness of the guest is assumed.                                    *)
(***************************************************************************)
HostUnblocks ==
    \A t \in Threads :
      (pc[t] \in Waiting /\ (terminating \/ deadline[t] = "passed"))
        ~> pc[t] \notin Waiting

-------------------------------------------------------------------------------
Lock == INSTANCE ReentrantLock WITH Threads <- Threads, held <- held

(***************************************************************************)
(* The guest-visible behaviour is that of a reentrant lock: only the       *)
(* answers of the calls count, and an OK is given only while no other      *)
(* guest holds the mutex.                                                  *)
(***************************************************************************)
ImplementsReentrantLock == Lock!Spec
===============================================================================
