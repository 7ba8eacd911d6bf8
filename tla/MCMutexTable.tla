----------------------------- MODULE MCMutexTable -----------------------------
(***************************************************************************)
(* Model of MutexTable for TLC.                                            *)
(***************************************************************************)
EXTENDS MutexTable, TLC

Symmetry == Permutations(Threads) \cup Permutations(Handles)
===============================================================================
