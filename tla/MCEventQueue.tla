------------------------------ MODULE MCEventQueue -----------------------------
(***************************************************************************)
(* Model of EventQueue for TLC.                                            *)
(***************************************************************************)
EXTENDS EventQueue, TLC

Symmetry == Permutations(Guests) \cup Permutations(Events)
===============================================================================
