--------------------------- MODULE ExceptionDelivery ---------------------------
(***************************************************************************)
(* Orbis exceptions: sceKernelRaiseException queues one for a target       *)
(* thread, which runs the guest handler at its own next safe point (the    *)
(* end of an HLE call, or a slice of a blocking wait).                     *)
(* crates/raeen-hle/src/exception.rs, hle_raise_exception of libkernel.rs, *)
(* and the pending_exceptions table of crates/raeen-kernel/src/lib.rs.     *)
(*                                                                         *)
(* The number of pending entries is cached in an atomic that every safe    *)
(* point reads first.  Each update of the table is followed by             *)
(* sync_pending_exception_count: a read of the table's length and a store  *)
(* of the atomic, two steps that other threads may come between.           *)
(***************************************************************************)
EXTENDS Naturals, FiniteSets

CONSTANTS Threads,   \* guest threads
          MaxRaises  \* bound: number of raises in a behaviour

ASSUME ThreadsFinite == IsFiniteSet(Threads)
ASSUME MaxRaisesAssumption == MaxRaises \in Nat

VARIABLES pending,     \* the entry of each thread: number of its raise, or 0
          count,       \* pending_exception_count
          active,      \* exception_delivery_active
          pc,          \* where each thread is
          sync,        \* progress of its sync_pending_exception_count
          seen,        \* the length it has read
          claimed,     \* the raise it has claimed, or 0
          depth,       \* handler frames on its guest stack
          raises,      \* raises so far
          latest,      \* the newest raise at each thread
          settled,     \* the newest raise each thread has handled or dropped
          terminating  \* process_is_terminating

vars == <<pending, count, active, pc, sync, seen, claimed, depth, raises,
          latest, settled, terminating>>

(***************************************************************************)
(* checked: the count was seen non-zero; claiming, requeueing, exiting: in *)
(* the table operation of that name; delivering: between the claim and the *)
(* handler.  A raise keeps the pc of the code that makes it.               *)
(***************************************************************************)
Pcs == {"guest", "handler", "checked", "claiming", "delivering", "requeueing",
        "exiting", "dead"}
Raises == 0..MaxRaises

(***************************************************************************)
(* Type invariant.                                                         *)
(***************************************************************************)
ExceptionTypeOK ==
    /\ pending \in [Threads -> Raises]
    /\ count \in 0..Cardinality(Threads)
    /\ active \subseteq Threads
    /\ pc \in [Threads -> Pcs]
    /\ sync \in [Threads -> {"idle", "length", "store"}]
    /\ seen \in [Threads -> 0..Cardinality(Threads)]
    /\ claimed \in [Threads -> Raises]
    /\ depth \in [Threads -> 0..1]
    /\ raises \in Raises
    /\ latest \in [Threads -> Raises]
    /\ settled \in [Threads -> Raises]
    /\ terminating \in BOOLEAN

Init ==
    /\ pending = [t \in Threads |-> 0]
    /\ count = 0
    /\ active = {}
    /\ pc = [t \in Threads |-> "guest"]
    /\ sync = [t \in Threads |-> "idle"]
    /\ seen = [t \in Threads |-> 0]
    /\ claimed = [t \in Threads |-> 0]
    /\ depth = [t \in Threads |-> 0]
    /\ raises = 0
    /\ latest = [t \in Threads |-> 0]
    /\ settled = [t \in Threads |-> 0]
    /\ terminating = FALSE

-------------------------------------------------------------------------------
InGuestCode(t) == pc[t] \in {"guest", "handler"} /\ sync[t] = "idle"

(***************************************************************************)
(* The guest code t returns to when its HLE call ends.                     *)
(***************************************************************************)
Resumed(t) == IF depth[t] > 0 THEN "handler" ELSE "guest"

StartSync(t) == sync' = [sync EXCEPT ![t] = "length"]

(***************************************************************************)
(* hle_raise_exception: the newest raise replaces an undelivered one.  The *)
(* target is not looked up, so it may be a thread that has ended.          *)
(***************************************************************************)
Raise(t, u) ==
    /\ InGuestCode(t)
    /\ raises < MaxRaises
    /\ raises' = raises + 1
    /\ pending' = [pending EXCEPT ![u] = raises']
    /\ latest' = [latest EXCEPT ![u] = raises']
    /\ StartSync(t)
    /\ UNCHANGED <<count, active, pc, seen, claimed, depth, settled,
                   terminating>>

SyncReads(t) ==
    /\ sync[t] = "length"
    /\ seen' = [seen EXCEPT ![t] = Cardinality({u \in Threads : pending[u] # 0})]
    /\ sync' = [sync EXCEPT ![t] = "store"]
    /\ UNCHANGED <<pending, count, active, pc, claimed, depth, raises, latest,
                   settled, terminating>>

(***************************************************************************)
(* The store, and what the calling operation does after it: a claim marks  *)
(* the thread as delivering, a requeue and a discard take the mark away.   *)
(***************************************************************************)
SyncStores(t) ==
    /\ sync[t] = "store"
    /\ count' = seen[t]
    /\ seen' = [seen EXCEPT ![t] = 0]
    /\ sync' = [sync EXCEPT ![t] = "idle"]
    /\ active' = CASE pc[t] = "claiming" -> active \cup {t}
                   [] pc[t] \in {"requeueing", "exiting"} -> active \ {t}
                   [] OTHER -> active
    /\ pc' = [pc EXCEPT ![t] =
                CASE @ = "claiming" -> "delivering"
                  [] @ = "requeueing" -> Resumed(t)
                  [] @ = "exiting" -> "dead"
                  [] OTHER -> @]
    /\ UNCHANGED <<pending, claimed, depth, raises, latest, settled,
                   terminating>>

-------------------------------------------------------------------------------
(***************************************************************************)
(* deliver_pending at a safe point: the count is not zero and the process  *)
(* is not terminating.                                                     *)
(***************************************************************************)
SafePoint(t) ==
    /\ InGuestCode(t)
    /\ count # 0
    /\ ~terminating
    /\ pc' = [pc EXCEPT ![t] = "checked"]
    /\ UNCHANGED <<pending, count, active, sync, seen, claimed, depth, raises,
                   latest, settled, terminating>>

(***************************************************************************)
(* claim_pending_exception takes the thread's entry.  It reads the count   *)
(* once more first; a zero ends the call (NothingToClaim).                 *)
(***************************************************************************)
Claim(t) ==
    /\ pc[t] = "checked"
    /\ t \notin active
    /\ pending[t] # 0
    /\ claimed' = [claimed EXCEPT ![t] = pending[t]]
    /\ pending' = [pending EXCEPT ![t] = 0]
    /\ pc' = [pc EXCEPT ![t] = "claiming"]
    /\ StartSync(t)
    /\ UNCHANGED <<count, active, seen, depth, raises, latest, settled,
                   terminating>>

(***************************************************************************)
(* The count has dropped to zero, nothing is queued for this thread, or it *)
(* is inside a handler already.                                            *)
(***************************************************************************)
NothingToClaim(t) ==
    /\ pc[t] = "checked"
    /\ count = 0 \/ t \in active \/ pending[t] = 0
    /\ pc' = [pc EXCEPT ![t] = Resumed(t)]
    /\ UNCHANGED <<pending, count, active, sync, seen, claimed, depth, raises,
                   latest, settled, terminating>>

(***************************************************************************)
(* Faulty variant: the claimed raise is put back over a newer one.         *)
(***************************************************************************)
DeferOverwrites(t) ==
    /\ pc[t] = "delivering"
    /\ pending' = [pending EXCEPT ![t] = claimed[t]]
    /\ claimed' = [claimed EXCEPT ![t] = 0]
    /\ pc' = [pc EXCEPT ![t] = "requeueing"]
    /\ StartSync(t)
    /\ UNCHANGED <<count, active, seen, depth, raises, latest, settled,
                   terminating>>

(***************************************************************************)
(* The handler cannot be called from here (no guest memory for its         *)
(* context, or a gateway that cannot re-enter guest code): the claimed     *)
(* raise goes back unless a newer one has arrived.  The gateway case drops *)
(* the mark of t before the table is touched, which only t could see.      *)
(***************************************************************************)
Defer(t) ==
    /\ pc[t] = "delivering"
    /\ pending' = [pending EXCEPT ![t] = IF @ = 0 THEN claimed[t] ELSE @]
    /\ claimed' = [claimed EXCEPT ![t] = 0]
    /\ pc' = [pc EXCEPT ![t] = "requeueing"]
    /\ StartSync(t)
    /\ UNCHANGED <<count, active, seen, depth, raises, latest, settled,
                   terminating>>

(***************************************************************************)
(* Faulty variant: the delivering mark stays on.                           *)
(***************************************************************************)
AbandonKeepsMark(t) ==
    /\ pc[t] = "delivering"
    /\ settled' = [settled EXCEPT ![t] = claimed[t]]
    /\ claimed' = [claimed EXCEPT ![t] = 0]
    /\ pc' = [pc EXCEPT ![t] = Resumed(t)]
    /\ UNCHANGED <<pending, count, active, sync, seen, depth, raises, latest,
                   terminating>>

(***************************************************************************)
(* The context is not writable, or the handler is null: dropped.           *)
(***************************************************************************)
Abandon(t) ==
    /\ pc[t] = "delivering"
    /\ active' = active \ {t}
    /\ settled' = [settled EXCEPT ![t] = claimed[t]]
    /\ claimed' = [claimed EXCEPT ![t] = 0]
    /\ pc' = [pc EXCEPT ![t] = Resumed(t)]
    /\ UNCHANGED <<pending, count, sync, seen, depth, raises, latest,
                   terminating>>

RunHandler(t) ==
    /\ pc[t] = "delivering"
    /\ depth' = [depth EXCEPT ![t] = @ + 1]
    /\ settled' = [settled EXCEPT ![t] = claimed[t]]
    /\ claimed' = [claimed EXCEPT ![t] = 0]
    /\ pc' = [pc EXCEPT ![t] = "handler"]
    /\ UNCHANGED <<pending, count, active, sync, seen, raises, latest,
                   terminating>>

HandlerReturns(t) ==
    /\ pc[t] = "handler"
    /\ sync[t] = "idle"
    /\ depth' = [depth EXCEPT ![t] = @ - 1]
    /\ active' = active \ {t}
    /\ pc' = [pc EXCEPT ![t] = IF depth[t] > 1 THEN "handler" ELSE "guest"]
    /\ UNCHANGED <<pending, count, sync, seen, claimed, raises, latest,
                   settled, terminating>>

(***************************************************************************)
(* The thread ends, in guest code or inside its handler; the worker's exit *)
(* path discards what is queued for it.                                    *)
(***************************************************************************)
ThreadExit(t) ==
    /\ InGuestCode(t)
    /\ pending' = [pending EXCEPT ![t] = 0]
    /\ depth' = [depth EXCEPT ![t] = 0]
    /\ pc' = [pc EXCEPT ![t] = "exiting"]
    /\ StartSync(t)
    /\ UNCHANGED <<count, active, seen, claimed, raises, latest, settled,
                   terminating>>

BeginTermination ==
    /\ ~terminating
    /\ terminating' = TRUE
    /\ UNCHANGED <<pending, count, active, pc, sync, seen, claimed, depth,
                   raises, latest, settled>>

Next ==
    \/ \E t \in Threads :
         \/ \E u \in Threads : Raise(t, u)
         \/ SyncReads(t)
         \/ SyncStores(t)
         \/ SafePoint(t)
         \/ Claim(t)
         \/ NothingToClaim(t)
         \/ Defer(t)
         \/ Abandon(t)
         \/ RunHandler(t)
         \/ HandlerReturns(t)
         \/ ThreadExit(t)
    \/ BeginTermination

Spec == Init /\ [][Next]_vars

-------------------------------------------------------------------------------
(***************************************************************************)
(* The newest raise at a thread that has not ended is queued, claimed or   *)
(* settled: neither a concurrent raise nor a deferred delivery loses it.   *)
(***************************************************************************)
NewestRaiseKept ==
    \A u \in Threads :
      (pc[u] \notin {"exiting", "dead"} /\ latest[u] > settled[u])
        => latest[u] \in {pending[u], claimed[u]}

(***************************************************************************)
(* Deliveries never nest: a handler's own HLE calls are safe points too,   *)
(* and a raise that arrives while it runs waits for it to return.  The     *)
(* mark that sees to this is on a thread exactly while it is delivering:   *)
(* one left behind would refuse every later exception of that thread.      *)
(***************************************************************************)
DeliveriesExclusive ==
    \A t \in Threads :
      /\ depth[t] <= 1
      /\ depth[t] = 1 => pc[t] \notin {"claiming", "delivering", "requeueing"}
      /\ pc[t] \in {"guest", "claiming", "dead"} => t \notin active
      /\ pc[t] \in {"delivering", "handler"} => t \in active
===============================================================================
