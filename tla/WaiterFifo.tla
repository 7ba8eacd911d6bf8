------------------------------ MODULE WaiterFifo ------------------------------
(***************************************************************************)
(* The FIFO of parked guest threads behind every blocking object of the    *)
(* kernel: the acquisition queue of PthreadMutex and the GuestWaitQueue of *)
(* condition variables and of sync-on-address waits                        *)
(* (crates/raeen-kernel/src/lib.rs).                                       *)
(*                                                                         *)
(* A queue is the sequence of the threads that own its GuestWaiter         *)
(* entries, oldest first.  A GuestWaiter is allocated by one call of one   *)
(* thread and a thread is inside one call at a time, so the thread         *)
(* identifies the entry.                                                   *)
(***************************************************************************)
EXTENDS Naturals, Sequences, SequencesExt

(***************************************************************************)
(* Position of t's entry, and whether it has one.                          *)
(***************************************************************************)
Queued(q, t) == \E i \in 1..Len(q) : q[i] = t

PositionOf(q, t) == CHOOSE i \in 1..Len(q) : q[i] = t

(***************************************************************************)
(* Remove t's entry, if any (VecDeque::position followed by remove).       *)
(***************************************************************************)
Cancelled(q, t) == IF Queued(q, t) THEN RemoveAt(q, PositionOf(q, t)) ELSE q

(***************************************************************************)
(* Join the queue at the tail.  An older entry of the same thread is       *)
(* dropped first.                                                          *)
(***************************************************************************)
Joined(q, t) == Append(Cancelled(q, t), t)

(***************************************************************************)
(* No thread has two entries.                                              *)
(***************************************************************************)
NoDuplicates(q) == \A i, j \in 1..Len(q) : q[i] = q[j] => i = j
===============================================================================
