----------------------------- MODULE MCPthreadCond -----------------------------
(***************************************************************************)
(* Model of PthreadCond for TLC.                                           *)
(***************************************************************************)
EXTENDS PthreadCond
===============================================================================
