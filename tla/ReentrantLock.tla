----------------------------- MODULE ReentrantLock -----------------------------
(***************************************************************************)
(* What a guest is promised by a pthread mutex, without queues, handoff or *)
(* host parking: a lock that one thread at a time holds, to some depth.    *)
(***************************************************************************)
EXTENDS Naturals

CONSTANT Threads

VARIABLE held   \* lock levels each thread holds

Init == held = [t \in Threads |-> 0]

(***************************************************************************)
(* A lock call of t returns OK: nobody else holds the lock.                *)
(***************************************************************************)
Acquire(t) ==
    /\ \A u \in Threads \ {t} : held[u] = 0
    /\ held' = [held EXCEPT ![t] = @ + 1]

(***************************************************************************)
(* An unlock call of a holder.                                             *)
(***************************************************************************)
Release(t) ==
    /\ held[t] > 0
    /\ held' = [held EXCEPT ![t] = @ - 1]

(***************************************************************************)
(* A holder dies: all its levels are gone.                                 *)
(***************************************************************************)
Abandon(t) ==
    /\ held[t] > 0
    /\ held' = [held EXCEPT ![t] = 0]

Next == \E t \in Threads : Acquire(t) \/ Release(t) \/ Abandon(t)

Spec == Init /\ [][Next]_held
===============================================================================
