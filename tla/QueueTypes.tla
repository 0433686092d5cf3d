----------------------------- MODULE QueueTypes -----------------------------
(***************************************************************************)
(* What Queue and QueueSpec share: the parameters of one Tls::Queue and of *)
(* the threads that use it, the operations of Queue.h and their return     *)
(* codes.                                                                  *)
(***************************************************************************)
EXTENDS Integers, Sequences, FiniteSets, SequencesExt

CONSTANTS
  Threads,          (* the threads that hold a pointer to the queue            *)
  NoThread,         (* the owner of a free mutex                               *)
  Elements,         (* the void* a caller may enqueue                          *)
  Value,            (* what the comparator looks at: an integer per element    *)
  Capability,       (* mCapability: the largest number of queued elements      *)
  mSort,            (* the queue was built with a comparator                   *)
  mAscendingOrder,  (* ... and sorts in ascending order                        *)
  MayCall,          (* the operations each thread calls                        *)
  AllocMayFail,     (* whether calloc may return NULL                          *)
  OwnerJoins        (* whether the owner deletes the queue only when every     *)
                    (* other thread has returned from its last call            *)

Q_OK                  == 0
Q_ERR_MEM             == -3
Q_ERR_NONEWDATA       == -4
Q_ERR_INVALID_ELEMENT == -5
Q_ERR_NUM_ELEMENTS    == -7

(* close and allow are setAllowedNewData(false) and (true); release is the *)
(* destructor.                                                             *)
PushOps   == {"push", "pushAndWait"}
PopOps    == {"pop", "popAndWait"}
FlushOps  == {"flush", "flushAndCallback"}
QueryOps  == {"getCnt", "isEmpty", "isAllowedNewData"}
SetOps    == {"close", "allow", "release"}
Ops       == PushOps \cup PopOps \cup {"peek"} \cup FlushOps \cup QueryOps \cup SetOps

ASSUME QueueAssumption ==
  /\ IsFiniteSet(Threads)
  /\ NoThread \notin Threads
  /\ Value \in [Elements -> Int]
  /\ Capability \in Nat \ {0}
  /\ mSort \in BOOLEAN
  /\ mAscendingOrder \in BOOLEAN
  /\ MayCall \in [Threads -> SUBSET Ops]
  /\ AllocMayFail \in BOOLEAN
  /\ OwnerJoins \in BOOLEAN

(* The comparator: 0 for equal elements, negative when the first is the    *)
(* smaller one, positive when the second is.                               *)
cmpEleFun(a, b) == Value[a] - Value[b]

(* a has to be queued strictly before b in a sorted queue.                 *)
Precedes(a, b) ==
  IF mAscendingOrder THEN cmpEleFun(a, b) < 0 ELSE cmpEleFun(a, b) > 0

(* No element is queued behind one that it has to precede.                 *)
IsOrdered(s) == \A i, j \in 1..Len(s) : i < j => ~Precedes(s[j], s[i])

(* What the caller's pointer holds when it enters an operation: the        *)
(* element to enqueue; NULL where the operation clears it before it locks; *)
(* anything when pop is called, which leaves it alone until it has locked. *)
Argument(o) ==
  CASE o \in PushOps -> {<<e>> : e \in Elements}
    [] o = "pop"     -> {<<>>} \cup {<<e>> : e \in Elements}
    [] OTHER         -> {<<>>}
=============================================================================
