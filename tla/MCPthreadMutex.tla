---------------------------- MODULE MCPthreadMutex ----------------------------
(***************************************************************************)
(* Model of PthreadMutex for TLC.                                          *)
(***************************************************************************)
EXTENDS PthreadMutex
===============================================================================
