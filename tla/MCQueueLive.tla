---------------------------- MODULE MCQueueLive ----------------------------
(***************************************************************************)
(* Small instances of QueueLive: blocking producers and consumers of an    *)
(* unsorted queue, and an owner that closes or deletes it, or flushes it.   *)
(***************************************************************************)
EXTENDS QueueLive, TLC

CONSTANTS p1, p2, c1, c2, o, a

MCValue == a :> 0

Blocking ==
  (p1 :> {"pushAndWait"}) @@ (p2 :> {"pushAndWait"}) @@
  (c1 :> {"popAndWait"}) @@ (c2 :> {"popAndWait"})

Only(f) == [t \in Threads |-> f[t]]

ClosingOwner  == Only(Blocking @@ (o :> {"close", "release"}))
FlushingOwner == Only(Blocking @@ (o :> {"flush"}))
=============================================================================
