------------------------------ MODULE MCThread ------------------------------
(***************************************************************************)
(* Small instances of Thread: two clients that may call anything and the   *)
(* worker that calls its own object from threadLoop.                       *)
(***************************************************************************)
EXTENDS Thread, TLC

CONSTANTS c1, c2, w1, w2

MCMayCall ==
  [t \in Threads |-> IF t \in Clients THEN Calls ELSE JoinOps \cup {"requestExit"}]

(* What it takes to lose a thread: run() and one way to wait for it.       *)
RunAndStop ==
  [t \in Threads |-> IF t \in Clients THEN {"run", "requestExitAndWait"} ELSE {}]
RunAndJoin ==
  [t \in Threads |-> IF t \in Clients THEN {"run", "join"} ELSE {}]
=============================================================================
