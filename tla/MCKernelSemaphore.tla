--------------------------- MODULE MCKernelSemaphore ---------------------------
(***************************************************************************)
(* Model of KernelSemaphore for TLC.                                       *)
(***************************************************************************)
EXTENDS KernelSemaphore
===============================================================================
