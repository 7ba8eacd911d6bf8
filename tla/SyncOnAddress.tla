----------------------------- MODULE SyncOnAddress -----------------------------
(***************************************************************************)
(* The address futex: sceKernelSyncOnAddressWait / Wait32 / Wait64 / Wake  *)
(* (crates/raeen-hle/src/libkernel.rs) over the SyncAddressTable of        *)
(* crates/raeen-kernel/src/lib.rs, for one watched address.                *)
(*                                                                         *)
(* A wait joins the address's FIFO, then reads the watched word, then      *)
(* spins, then parks in bounded slices.  The word is ordinary guest        *)
(* memory: a guest stores to it and calls wake as two separate steps.      *)
(* A handler delivered between two slices runs guest code on the waiting   *)
(* thread and may end it; waits made by a handler are not modelled.        *)
(***************************************************************************)
EXTENDS WaiterFifo, FiniteSets

CONSTANTS Threads, \* guest threads
          Values,  \* values of the watched word
          Counts,  \* how many waiters one wake may release
          Kinds    \* whether waits carry a deadline or only the self-heal bound

ASSUME CountsPositive == Counts \subseteq Nat \ {0}
ASSUME KindsAssumption == Kinds \subseteq {"selfheal", "deadline"}

VARIABLES word,        \* the watched word
          queue,       \* the FIFO of the address
          signaled,    \* threads whose private wake bit is set
          pc,          \* where each thread is
          expected,    \* the value each waiting thread compares with
          compares,    \* threads whose wait is one of the comparing variants
          limit,       \* deadline of a timed wait, self-heal bound of others
          result,      \* what the last wait of each thread returned
          owing,       \* guests that have stored and not woken everybody yet
          terminating  \* process_is_terminating

vars == <<word, queue, signaled, pc, expected, compares, limit, result, owing,
          terminating>>

(***************************************************************************)
(* guest: in guest code; queued: in the FIFO, word not read; spinning;     *)
(* parked: in a slice; handler: in an exception handler between slices;    *)
(* dead: the thread has ended.                                             *)
(***************************************************************************)
Pcs == {"guest", "queued", "spinning", "parked", "handler", "dead"}
Limits == {"selfheal", "deadline"} \X {"ahead", "passed"}
Results == {"none", "OK", "EAGAIN", "EFAULT", "ETIMEDOUT"}

(***************************************************************************)
(* Type invariant; a thread has at most one entry in the FIFO.             *)
(***************************************************************************)
SyncTypeOK ==
    /\ word \in Values
    /\ queue \in Seq(Threads)
    /\ NoDuplicates(queue)
    /\ signaled \subseteq Threads
    /\ pc \in [Threads -> Pcs]
    /\ expected \in [Threads -> Values]
    /\ compares \subseteq Threads
    /\ limit \in [Threads -> Limits]
    /\ result \in [Threads -> Results]
    /\ owing \subseteq Threads
    /\ terminating \in BOOLEAN

Init ==
    /\ word \in Values
    /\ queue = <<>>
    /\ signaled = {}
    /\ pc = [t \in Threads |-> "guest"]
    /\ expected = [t \in Threads |-> word]
    /\ compares = {}
    /\ limit = [t \in Threads |-> <<"selfheal", "ahead">>]
    /\ result = [t \in Threads |-> "none"]
    /\ owing = {}
    /\ terminating = FALSE

-------------------------------------------------------------------------------
(***************************************************************************)
(* sync_on_address_wait, entry: the waiter is published before the word is *)
(* read.  The generic variant has no compare and goes straight to the      *)
(* spin.                                                                   *)
(***************************************************************************)
WaitEnter(t, v, comparing, kind) ==
    /\ pc[t] = "guest"
    /\ t \notin owing
    /\ queue' = Append(queue, t)
    /\ signaled' = signaled \ {t}
    /\ pc' = [pc EXCEPT ![t] = IF comparing THEN "queued" ELSE "spinning"]
    /\ expected' = [expected EXCEPT ![t] = v]
    /\ compares' = IF comparing THEN compares \cup {t} ELSE compares \ {t}
    /\ limit' = [limit EXCEPT ![t] = <<kind, "ahead">>]
    /\ result' = [result EXCEPT ![t] = "none"]
    /\ UNCHANGED <<word, owing, terminating>>

(***************************************************************************)
(* The wait of t returns r; its data dies with the call.                   *)
(***************************************************************************)
Return(t, r) ==
    /\ pc' = [pc EXCEPT ![t] = "guest"]
    /\ signaled' = signaled \ {t}
    /\ expected' = [expected EXCEPT ![t] = CHOOSE v \in Values : TRUE]
    /\ compares' = compares \ {t}
    /\ limit' = [limit EXCEPT ![t] = <<"selfheal", "ahead">>]
    /\ result' = [result EXCEPT ![t] = r]
    /\ UNCHANGED <<word, owing, terminating>>

(***************************************************************************)
(* Faulty variant: the answer of cancel_waiter is ignored.                 *)
(***************************************************************************)
CancelBlindly(t, r) ==
    /\ queue' = Cancelled(queue, t)
    /\ Return(t, r)

(***************************************************************************)
(* Give up with r, unless a waker has already taken the entry: then the    *)
(* wait succeeded.                                                         *)
(***************************************************************************)
CancelOr(t, r) ==
    /\ queue' = Cancelled(queue, t)
    /\ Return(t, IF Queued(queue, t) THEN r ELSE "OK")

(***************************************************************************)
(* Faulty variant: the wait parks whatever the word holds.                 *)
(***************************************************************************)
CompareIgnored(t) ==
    /\ pc[t] = "queued"
    /\ pc' = [pc EXCEPT ![t] = "spinning"]
    /\ UNCHANGED <<word, queue, signaled, expected, compares, limit, result,
                   owing, terminating>>

(***************************************************************************)
(* The word still has the expected value: go on to the spin.               *)
(***************************************************************************)
ComparePasses(t) ==
    /\ pc[t] = "queued"
    /\ word = expected[t]
    /\ pc' = [pc EXCEPT ![t] = "spinning"]
    /\ UNCHANGED <<word, queue, signaled, expected, compares, limit, result,
                   owing, terminating>>

CompareFails(t) ==
    /\ pc[t] = "queued"
    /\ word # expected[t]
    /\ CancelOr(t, "EAGAIN")

(***************************************************************************)
(* The guest has unmapped the word.                                        *)
(***************************************************************************)
CompareFaults(t) ==
    /\ pc[t] = "queued"
    /\ CancelOr(t, "EFAULT")

(***************************************************************************)
(* The wake bit is seen, by the spin or by a slice.                        *)
(***************************************************************************)
ObserveWake(t) ==
    /\ pc[t] \in {"spinning", "parked"}
    /\ t \in signaled
    /\ Return(t, "OK")
    /\ UNCHANGED queue

SpinExhausted(t) ==
    /\ pc[t] = "spinning"
    /\ t \notin signaled
    /\ pc' = [pc EXCEPT ![t] = "parked"]
    /\ UNCHANGED <<word, queue, signaled, expected, compares, limit, result,
                   owing, terminating>>

(***************************************************************************)
(* A slice ends without a wake and the process is terminating.  The result *)
(* of the cancellation is not looked at.                                   *)
(***************************************************************************)
SliceTerminates(t) ==
    /\ pc[t] = "parked"
    /\ terminating
    /\ queue' = Cancelled(queue, t)
    /\ Return(t, "OK")

(***************************************************************************)
(* A slice ends without a wake and an exception is pending: its handler    *)
(* runs here, on the entry's own thread, while the entry keeps its place.  *)
(***************************************************************************)
SliceDelivers(t) ==
    /\ pc[t] = "parked"
    /\ ~terminating
    /\ pc' = [pc EXCEPT ![t] = "handler"]
    /\ UNCHANGED <<word, queue, signaled, expected, compares, limit, result,
                   owing, terminating>>

HandlerReturns(t) ==
    /\ pc[t] = "handler"
    /\ t \notin owing
    /\ pc' = [pc EXCEPT ![t] = "parked"]
    /\ UNCHANGED <<word, queue, signaled, expected, compares, limit, result,
                   owing, terminating>>

(***************************************************************************)
(* Faulty variant: only a wait with a deadline is bounded.                 *)
(***************************************************************************)
SliceExpiresIfTimed(t) ==
    /\ pc[t] = "parked"
    /\ limit[t] = <<"deadline", "passed">>
    /\ CancelOr(t, "ETIMEDOUT")

(***************************************************************************)
(* A slice ends without a wake after the deadline: a timeout; after the    *)
(* self-heal bound of an untimed wait: a spurious success.                 *)
(***************************************************************************)
SliceExpires(t) ==
    /\ pc[t] = "parked"
    /\ limit[t][2] = "passed"
    /\ CancelOr(t, IF limit[t][1] = "deadline" THEN "ETIMEDOUT" ELSE "OK")

-------------------------------------------------------------------------------
(***************************************************************************)
(* Guest code, in a thread's own code or in a handler: store a new value.  *)
(***************************************************************************)
InGuestCode(t) == pc[t] \in {"guest", "handler"}

Store(t, v) ==
    /\ InGuestCode(t)
    /\ t \notin owing
    /\ word # v
    /\ word' = v
    /\ owing' = owing \cup {t}
    /\ UNCHANGED <<queue, signaled, pc, expected, compares, limit, result,
                   terminating>>

(***************************************************************************)
(* Wake: the n oldest entries leave the FIFO and their wake bits are set.  *)
(***************************************************************************)
Wake(t, n) ==
    LET k == IF n < Len(queue) THEN n ELSE Len(queue) IN
    /\ InGuestCode(t)
    /\ t \in owing \/ k > 0
    /\ owing' = IF n < Len(queue) THEN owing ELSE owing \ {t}
    /\ signaled' = signaled \cup {queue[i] : i \in 1..k}
    /\ queue' = SubSeq(queue, k + 1, Len(queue))
    /\ UNCHANGED <<word, pc, expected, compares, limit, result, terminating>>

(***************************************************************************)
(* A thread ends in guest code or inside a handler; in the latter case the *)
(* wait is unwound and never resumes.  release_locks_owned_by does not     *)
(* visit the address table, so the entry of such a wait stays.             *)
(***************************************************************************)
ThreadExit(t) ==
    /\ InGuestCode(t)
    /\ t \notin owing
    /\ pc' = [pc EXCEPT ![t] = "dead"]
    /\ signaled' = signaled \ {t}
    /\ compares' = compares \ {t}
    /\ limit' = [limit EXCEPT ![t] = <<"selfheal", "ahead">>]
    /\ UNCHANGED <<word, queue, expected, result, owing, terminating>>

LimitPasses(t) ==
    /\ limit[t][2] = "ahead"
    /\ pc[t] \in {"queued", "spinning", "parked", "handler"}
    /\ limit' = [limit EXCEPT ![t][2] = "passed"]
    /\ UNCHANGED <<word, queue, signaled, pc, expected, compares, result,
                   owing, terminating>>

BeginTermination ==
    /\ ~terminating
    /\ terminating' = TRUE
    /\ UNCHANGED <<word, queue, signaled, pc, expected, compares, limit,
                   result, owing>>

Progress(t) ==
    \/ ComparePasses(t)
    \/ CompareFails(t)
    \/ CompareFaults(t)
    \/ ObserveWake(t)
    \/ SpinExhausted(t)
    \/ SliceTerminates(t)
    \/ SliceExpires(t)

Next ==
    \/ \E t \in Threads :
         \/ \E v \in Values, comparing \in BOOLEAN, kind \in Kinds :
              WaitEnter(t, v, comparing, kind)
         \/ Progress(t)
         \/ SliceDelivers(t)
         \/ HandlerReturns(t)
         \/ \E v \in Values : Store(t, v)
         \/ \E n \in Counts : Wake(t, n)
         \/ ThreadExit(t)
         \/ LimitPasses(t)
    \/ BeginTermination

Spec == Init /\ [][Next]_vars

(***************************************************************************)
(* Fairness of the host: clocks advance, a wait that can take a step takes *)
(* it, a handler returns however often it stores and wakes, and a guest    *)
(* that has stored calls wake.  A slice of a thread bombarded by           *)
(* exceptions still reaches its deadline check, which follows the delivery *)
(* in the same pass of the loop: strong fairness.                          *)
(***************************************************************************)
HostFairness ==
    \A t \in Threads :
      /\ SF_vars(Progress(t))
      /\ WF_vars(LimitPasses(t))
      /\ SF_vars(HandlerReturns(t))
      /\ WF_vars(t \in owing /\ \E n \in Counts : Wake(t, n))

FairSpec == Spec /\ HostFairness

-------------------------------------------------------------------------------
(***************************************************************************)
(* No lost wake.  When every store is followed by wakes of all waiters, a  *)
(* comparing wait that has passed its compare and has not been woken is    *)
(* never left behind: if the word has moved away from what it expects,     *)
(* some guest is still on its way to the wake.                             *)
(***************************************************************************)
NoLostWake ==
    \A t \in compares :
      (pc[t] \in {"spinning", "parked", "handler"} /\ t \notin signaled
         /\ word # expected[t]) => owing # {}

(***************************************************************************)
(* A live wait is in the FIFO or has been taken by a waker, never both and *)
(* never neither, wherever it is between entry and return; a thread back   *)
(* in guest code has left nothing behind.                                  *)
(***************************************************************************)
QueuedOrTaken ==
    \A t \in Threads :
      IF pc[t] \in {"queued", "spinning", "parked", "handler"}
        THEN Queued(queue, t) <=> t \notin signaled
        ELSE pc[t] = "guest" => ~Queued(queue, t) /\ t \notin signaled

(***************************************************************************)
(* The invariant of the address queue: its types, no thread in it twice,   *)
(* every live wait either queued or taken by a waker, and no wake lost     *)
(* between a waiter's compare and its sleep.                               *)
(***************************************************************************)
SyncInv == SyncTypeOK /\ QueuedOrTaken /\ NoLostWake

(***************************************************************************)
(* A wake spent on a thread is reported to it: a wait taken by a waker     *)
(* never answers EAGAIN, EFAULT or ETIMEDOUT, whichever check it is at.    *)
(***************************************************************************)
WakeIsReported ==
    [][ \A t \in signaled :
          pc'[t] = "guest" => result'[t] = "OK" ]_vars

(***************************************************************************)
(* Waiters are released in the order in which they joined.                 *)
(***************************************************************************)
WakeIsFifo ==
    [][ \A t, u \in Threads :
          (/\ t \in signaled' \ signaled
           /\ Queued(queue, u) /\ Queued(queue, t)
           /\ PositionOf(queue, u) < PositionOf(queue, t))
            => u \in signaled' ]_vars

(***************************************************************************)
(* Wakes are spent well: each is reported by the wait it took, and the     *)
(* oldest wait is taken first.                                             *)
(***************************************************************************)
WakesSpentWell == WakeIsReported /\ WakeIsFifo

(***************************************************************************)
(* Every wait ends: woken, timed out, self-healed, or with its thread.     *)
(***************************************************************************)
EveryWaitEnds ==
    \A t \in Threads : pc[t] = "queued" ~> pc[t] \in {"guest", "dead"}
===============================================================================
