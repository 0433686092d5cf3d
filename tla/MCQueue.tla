------------------------------ MODULE MCQueue ------------------------------
(***************************************************************************)
(* Small instances of Queue: who calls what, and what the comparator sees. *)
(***************************************************************************)
EXTENDS Queue, TLC

CONSTANTS p1, c1, c2, o, a, b, d

(* a and d are equal to the comparator.                                    *)
MCValue == (a :> 1) @@ (b :> 2) @@ (d :> 1)

(* A producer, which may reopen a closed queue, two consumers and the      *)
(* owner, who may do anything else.                                        *)
MCRoles ==
  (p1 :> PushOps \cup {"allow"}) @@ (c1 :> {"popAndWait", "pop"}) @@ (c2 :> {"popAndWait", "peek"}) @@
  (o :> FlushOps \cup QueryOps \cup SetOps)

MCMayCall == [t \in Threads |-> MCRoles[t]]
=============================================================================
