--------------------------- MODULE MCQueueSimple ---------------------------
(***************************************************************************)
(* A small instance of QueueSimple: the numbers are given by the cfg.       *)
(***************************************************************************)
EXTENDS QueueSimple

(* The bound on late workers: when main has called run() of all, one may   *)
(* have yet to set mRunning, the one that main asks first.                 *)
OneIsLate ==
  pc # "running" => {w \in Workers : phase[w] = "born"} \subseteq {Nth(1, "producer")}
=============================================================================
