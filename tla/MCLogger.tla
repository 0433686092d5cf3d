------------------------------ MODULE MCLogger ------------------------------
(***************************************************************************)
(* A small instance of Logger: a tag that fits into a slot and the longest *)
(* that does.                                                              *)
(***************************************************************************)
EXTENDS Logger, TLC

CONSTANTS t1, t2, f, g, short, other

MCTagLength == (short :> 3) @@ (other :> 63)

MCLevels == {0, 3}

MCSetLevels == {-1, 2, 7}

(* Threads and files are told apart by nothing but their names.            *)
Alike == Permutations({t1, t2}) \cup Permutations({f, g})
=============================================================================
