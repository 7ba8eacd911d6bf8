------------------------------ MODULE GuestThreads ------------------------------
(***************************************************************************)
(* The threads of the guest process, and the value that stands for none of *)
(* them: the owner 0 of a lock, the holder of a free host lock.            *)
(***************************************************************************)
CONSTANTS Threads,   \* guest threads, and host threads that act on their behalf
          NoThread

ASSUME NoThreadAssumption == NoThread \notin Threads
===============================================================================
