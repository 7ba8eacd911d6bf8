---------------------------- MODULE MCPthreadRwlock ----------------------------
(***************************************************************************)
(* Model of PthreadRwlock for TLC.                                         *)
(***************************************************************************)
EXTENDS PthreadRwlock
===============================================================================
