----------------------------- MODULE PthreadRwlock -----------------------------
(***************************************************************************)
(* One guest rwlock: scePthreadRwlock{Rd,Wr,Tryrd,Trywr,Timedrd,Timedwr}-  *)
(* lock and Unlock (crates/raeen-hle/src/pthread_sync.rs) and the release  *)
(* of a dead thread's holds (crates/raeen-kernel/src/lib.rs).              *)
(*                                                                         *)
(* The reader count lives under the lock's own host mutex, the per-thread  *)
(* read depth in a separate map: every read acquisition and release is two *)
(* steps, and so is the recovery of a dead reader.                         *)
(***************************************************************************)
EXTENDS Integers, FiniteSets, GuestThreads

CONSTANT MaxDepth   \* bound on read depth and on write recursion

ASSUME MaxDepthAssumption == MaxDepth \in Nat \ {0}

VARIABLES readers,     \* outstanding read holds, all threads
          writer,      \* writing thread, or NoThread
          wrec,        \* writer_recursion
          holds,       \* pthread_rwlock_read_holds: read depth per thread
          owed,        \* read depth collected from a dying thread
          rpc,         \* where each thread is in its call
          limit,       \* deadline of the call each thread is in
          notifying,   \* threads about to call released.notify_all
          stopping     \* process_is_terminating

rwVars == <<readers, writer, wrec, holds, owed, rpc, limit, notifying,
            stopping>>

(***************************************************************************)
(* rcounted: counted as reader, depth not recorded.  rdropped: depth       *)
(* dropped, still counted.  rpark, wpark: in wait_for; rcheck, wcheck:     *)
(* woken.  dying: holds collected; ending: reader count given back.        *)
(***************************************************************************)
RwPcs == {"guest", "rcounted", "rdropped", "rpark", "rcheck", "wpark", "wcheck",
          "dying", "ending", "dead"}
Limits == {"none", "future", "passed"}

(***************************************************************************)
(* Type invariant; the reader count is never driven below zero.            *)
(***************************************************************************)
RwTypeOK ==
    /\ readers \in Nat
    /\ writer \in Threads \cup {NoThread}
    /\ wrec \in Nat
    /\ writer = NoThread <=> wrec = 0
    /\ holds \in [Threads -> Nat]
    /\ owed \in [Threads -> Nat]
    /\ rpc \in [Threads -> RwPcs]
    /\ limit \in [Threads -> Limits]
    /\ notifying \subseteq Threads
    /\ stopping \in BOOLEAN

RwInit ==
    /\ readers = 0
    /\ writer = NoThread
    /\ wrec = 0
    /\ holds = [t \in Threads |-> 0]
    /\ owed = [t \in Threads |-> 0]
    /\ rpc = [t \in Threads |-> "guest"]
    /\ limit = [t \in Threads |-> "none"]
    /\ notifying = {}
    /\ stopping = FALSE

At(t, place) == rpc' = [rpc EXCEPT ![t] = place]

Idle(t) == rpc[t] = "guest" /\ t \notin notifying

Returned(t, place) == At(t, place) /\ limit' = [limit EXCEPT ![t] = "none"]

-------------------------------------------------------------------------------
(***************************************************************************)
(* rwlock_rdlock_deadline.                                                 *)
(***************************************************************************)
MayRead(t) == writer \in {NoThread, t}

RdTake(t) ==
    /\ Idle(t) \/ rpc[t] = "rcheck"
    /\ holds[t] < MaxDepth
    /\ MayRead(t)
    /\ readers' = readers + 1
    /\ At(t, "rcounted")
    /\ UNCHANGED <<writer, wrec, holds, owed, limit, notifying, stopping>>

RdRecord(t) ==
    /\ rpc[t] = "rcounted"
    /\ holds' = [holds EXCEPT ![t] = @ + 1]
    /\ Returned(t, "guest")
    /\ UNCHANGED <<readers, writer, wrec, owed, notifying, stopping>>

(***************************************************************************)
(* rwlock_wrlock_deadline.                                                 *)
(***************************************************************************)
MayWrite(t) == writer = t \/ (writer = NoThread /\ readers = 0)

WrTake(t) ==
    /\ Idle(t) \/ rpc[t] = "wcheck"
    /\ MayWrite(t)
    /\ wrec < MaxDepth
    /\ writer' = t
    /\ wrec' = wrec + 1
    /\ Returned(t, "guest")
    /\ UNCHANGED <<readers, holds, owed, notifying, stopping>>

(***************************************************************************)
(* A call that cannot be served parks unless it is a try call, the process *)
(* terminates or the deadline has passed; a woken call looks again.        *)
(***************************************************************************)
Park(t, lim) ==
    /\ Idle(t)
    /\ ~stopping
    /\ limit' = [limit EXCEPT ![t] = lim]
    /\ \/ ~MayRead(t) /\ At(t, "rpark")
       \/ ~MayWrite(t) /\ At(t, "wpark")
    /\ UNCHANGED <<readers, writer, wrec, holds, owed, notifying, stopping>>

(***************************************************************************)
(* Faulty variant: a woken call does not look at termination.              *)
(***************************************************************************)
GivesUpOnDeadline(t) == limit[t] = "passed"

GivesUp(t) == stopping \/ limit[t] = "passed"

LookAgain(t) ==
    /\ \/ rpc[t] = "rcheck" /\ ~MayRead(t)
       \/ rpc[t] = "wcheck" /\ ~MayWrite(t)
    /\ \/ GivesUp(t) /\ Returned(t, "guest")
       \/ ~GivesUp(t) /\ At(t, IF rpc[t] = "rcheck" THEN "rpark" ELSE "wpark")
            /\ UNCHANGED limit
    /\ UNCHANGED <<readers, writer, wrec, holds, owed, notifying, stopping>>

RwSliceEnds(t) ==
    /\ \/ rpc[t] = "rpark" /\ At(t, "rcheck")
       \/ rpc[t] = "wpark" /\ At(t, "wcheck")
    /\ UNCHANGED <<readers, writer, wrec, holds, owed, limit, notifying,
                   stopping>>

-------------------------------------------------------------------------------
(***************************************************************************)
(* hle_rwlock_unlock: a read hold, if any, goes first.                     *)
(***************************************************************************)
UnlockRead(t) ==
    /\ Idle(t)
    /\ holds[t] > 0
    /\ holds' = [holds EXCEPT ![t] = @ - 1]
    /\ At(t, "rdropped")
    /\ UNCHANGED <<readers, writer, wrec, owed, limit, notifying, stopping>>

NotifyIf(t, cond) == notifying' = IF cond THEN notifying \cup {t} ELSE notifying

Uncount(t) ==
    /\ rpc[t] = "rdropped"
    /\ readers' = IF readers > 0 THEN readers - 1 ELSE readers
    /\ NotifyIf(t, readers' = 0)
    /\ At(t, "guest")
    /\ UNCHANGED <<writer, wrec, holds, owed, limit, stopping>>

UnlockWrite(t) ==
    /\ Idle(t)
    /\ holds[t] = 0
    /\ writer = t
    /\ wrec' = wrec - 1
    /\ writer' = IF wrec' = 0 THEN NoThread ELSE t
    /\ NotifyIf(t, wrec' = 0)
    /\ UNCHANGED <<readers, holds, owed, rpc, limit, stopping>>

Notify(t) ==
    /\ t \in notifying
    /\ notifying' = notifying \ {t}
    /\ rpc' = [u \in Threads |-> CASE rpc[u] = "rpark" -> "rcheck"
                                   [] rpc[u] = "wpark" -> "wcheck"
                                   [] OTHER -> rpc[u]]
    /\ UNCHANGED <<readers, writer, wrec, holds, owed, limit, stopping>>

-------------------------------------------------------------------------------
(***************************************************************************)
(* release_locks_owned_by: the dead thread's read holds are collected,     *)
(* then given back to the reader count, then its write hold is cleared.    *)
(***************************************************************************)
DieCollect(t) ==
    /\ Idle(t)
    /\ owed' = [owed EXCEPT ![t] = holds[t]]
    /\ holds' = [holds EXCEPT ![t] = 0]
    /\ At(t, "dying")
    /\ UNCHANGED <<readers, writer, wrec, limit, notifying, stopping>>

(***************************************************************************)
(* Faulty variant: one hold is given back, whatever the depth was.         *)
(***************************************************************************)
DieUncountOne(t) ==
    /\ rpc[t] = "dying"
    /\ readers' = IF owed[t] > 0 THEN readers - 1 ELSE readers
    /\ owed' = [owed EXCEPT ![t] = 0]
    /\ NotifyIf(t, owed[t] > 0 /\ readers' = 0)
    /\ At(t, "ending")
    /\ UNCHANGED <<writer, wrec, holds, limit, stopping>>

DieUncount(t) ==
    /\ rpc[t] = "dying"
    /\ readers' = IF readers > owed[t] THEN readers - owed[t] ELSE 0
    /\ owed' = [owed EXCEPT ![t] = 0]
    /\ NotifyIf(t, owed[t] > 0 /\ readers' = 0)
    /\ At(t, "ending")
    /\ UNCHANGED <<writer, wrec, holds, limit, stopping>>

DieClear(t) ==
    /\ rpc[t] = "ending"
    /\ t \notin notifying
    /\ IF writer = t THEN writer' = NoThread /\ wrec' = 0
                     ELSE UNCHANGED <<writer, wrec>>
    /\ NotifyIf(t, writer = t)
    /\ At(t, "dead")
    /\ UNCHANGED <<readers, holds, owed, limit, stopping>>

RwDeadlinePasses(t) ==
    /\ limit[t] = "future"
    /\ limit' = [limit EXCEPT ![t] = "passed"]
    /\ UNCHANGED <<readers, writer, wrec, holds, owed, rpc, notifying,
                   stopping>>

RwBeginTermination ==
    /\ ~stopping
    /\ stopping' = TRUE
    /\ UNCHANGED <<readers, writer, wrec, holds, owed, rpc, limit, notifying>>

RwNext ==
    \/ \E t \in Threads :
         \/ RdTake(t)
         \/ RdRecord(t)
         \/ WrTake(t)
         \/ \E lim \in {"none", "future"} : Park(t, lim)
         \/ LookAgain(t)
         \/ RwSliceEnds(t)
         \/ UnlockRead(t)
         \/ Uncount(t)
         \/ UnlockWrite(t)
         \/ Notify(t)
         \/ DieCollect(t)
         \/ DieUncount(t)
         \/ DieClear(t)
         \/ RwDeadlinePasses(t)
    \/ RwBeginTermination

RwSpec == RwInit /\ [][RwNext]_rwVars

(***************************************************************************)
(* Fairness of the host: a call in progress goes on, a slice runs out.     *)
(* The guest guarantees nothing.                                           *)
(***************************************************************************)
RwCallProgress(t) ==
    \/ rpc[t] # "guest" /\ (RdTake(t) \/ WrTake(t))
    \/ RdRecord(t)
    \/ LookAgain(t)
    \/ RwSliceEnds(t)
    \/ Uncount(t)
    \/ Notify(t)

RwFairSpec == RwSpec /\ \A t \in Threads : WF_rwVars(RwCallProgress(t))

-------------------------------------------------------------------------------
(***************************************************************************)
(* What thread t contributes to the reader count.                          *)
(***************************************************************************)
Share(t) ==
    holds[t] + owed[t] + (IF rpc[t] \in {"rcounted", "rdropped"} THEN 1 ELSE 0)

(***************************************************************************)
(* The read holds there are: those of t are numbered 1 .. Share(t).        *)
(***************************************************************************)
Shares == UNION {{<<t, i>> : i \in 1..Share(t)} : t \in Threads}

(***************************************************************************)
(* The shared reader count is the number of the holds the threads have,    *)
(* count or still have to give back: no acquisition, release or death      *)
(* loses a hold or releases one twice.                                     *)
(***************************************************************************)
ReadersExact == readers = Cardinality(Shares)

(***************************************************************************)
(* While a thread holds the lock for writing no other thread is, or is     *)
(* being admitted as, a reader.                                            *)
(***************************************************************************)
WriterExcludesReaders ==
    \A t, u \in Threads : writer = t /\ u # t => Share(u) = 0

(***************************************************************************)
(* No release is missed: a parked call that could be served has a release  *)
(* about to notify it.                                                     *)
(***************************************************************************)
NoMissedRelease ==
    \A t \in Threads :
      \/ rpc[t] = "rpark" /\ MayRead(t)
      \/ rpc[t] = "wpark" /\ MayWrite(t)
      => notifying # {}

(***************************************************************************)
(* A dead thread holds nothing: neither the write hold nor a share of the  *)
(* reader count keeps anybody out.                                         *)
(***************************************************************************)
DeadHoldsNothing ==
    \A t \in Threads : rpc[t] = "dead" => writer # t /\ Share(t) = 0

(***************************************************************************)
(* The counts of the lock stay exact although each call and each death     *)
(* updates them in several steps: the reader count is the sum of what      *)
(* threads hold, a writer shares the lock with nobody, the dead hold       *)
(* nothing, and no parked call misses the release that would serve it.     *)
(***************************************************************************)
RwInv ==
    /\ RwTypeOK
    /\ ReadersExact
    /\ WriterExcludesReaders
    /\ DeadHoldsNothing
    /\ NoMissedRelease

(***************************************************************************)
(* Once the process terminates, no thread stays parked.                    *)
(***************************************************************************)
RwTerminationUnblocks ==
    \A t \in Threads :
      stopping /\ rpc[t] \in {"rpark", "rcheck", "wpark", "wcheck"}
        ~> rpc[t] = "guest"
===============================================================================
