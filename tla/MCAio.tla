-------------------------------- MODULE MCAio --------------------------------
(***************************************************************************)
(* Two guest threads, two host workers, a batch of up to two requests.     *)
(***************************************************************************)
EXTENDS Aio
===============================================================================
