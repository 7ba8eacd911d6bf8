---------------------------- MODULE MCSyncOnAddress ----------------------------
(***************************************************************************)
(* Model of SyncOnAddress for TLC.                                         *)
(***************************************************************************)
EXTENDS SyncOnAddress
===============================================================================
