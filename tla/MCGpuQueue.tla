------------------------------ MODULE MCGpuQueue ------------------------------
(***************************************************************************)
(* Two guest threads; the graphics ring waits for a label the compute ring *)
(* writes and has a buffer to park behind the wait.                        *)
(***************************************************************************)
EXTENDS GpuQueue

CONSTANTS a, b, t1, t2

Wait(l) == [op |-> "wait", label |-> l]
Release(l) == [op |-> "release", label |-> l]
Dispatch(l) == [op |-> "dispatch", label |-> l]

MCMakes == (t1 :> {"submit", "store"}) @@ (t2 :> {"submit", "flip", "idle"})

MCPrograms == [dcb |-> << <<Wait(a)>>, <<Dispatch(b)>> >>,
               acb |-> << <<Wait(b), Release(a)>> >>]
===============================================================================
