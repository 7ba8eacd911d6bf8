------------------------------ MODULE MCPosixSem ------------------------------
(***************************************************************************)
(* Model of PosixSem, with ExceptionDelivery inside it, for TLC.           *)
(***************************************************************************)
EXTENDS PosixSem
===============================================================================
