------------------------------- MODULE MCPoll -------------------------------
(***************************************************************************)
(* Small instances of Poll: an event loop that keeps the table and waits,  *)
(* another thread that waits as well, and threads that flush.              *)
(***************************************************************************)
EXTENDS Poll, TLC

CONSTANTS loop, other, f1, f2

MCRoles ==
  (loop :> {"addFd", "removeFd", "setFdReadable", "wait"}) @@ (other :> {"wait"}) @@
  (f1 :> {"setFlushing"}) @@ (f2 :> {"setFlushing"})

MCMayCall == [t \in Threads |-> MCRoles[t]]
=============================================================================
