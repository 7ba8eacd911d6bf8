-------------------------- MODULE MCThreadLifecycle --------------------------
(***************************************************************************)
(* Model checking instance of ThreadLifecycle.                             *)
(***************************************************************************)
EXTENDS ThreadLifecycle
===============================================================================
