------------------------------ MODULE MCEventFlag ------------------------------
(***************************************************************************)
(* Model of EventFlag for TLC.                                             *)
(***************************************************************************)
EXTENDS EventFlag

OneMode == {<<"and", "clear_pattern">>}
===============================================================================
