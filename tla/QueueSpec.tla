----------------------------- MODULE QueueSpec -----------------------------
(***************************************************************************)
(* What Queue.h promises to the threads that call it, without the mutex,   *)
(* the condition variables and the counter: every call takes effect in one *)
(* step between its invocation and its return, on a sequence of elements   *)
(* and a flag, and a blocking call takes effect only when it can.          *)
(***************************************************************************)
EXTENDS QueueTypes

VARIABLES
  content,  (* the queued elements, first to last            *)
  open,     (* new elements are accepted                     *)
  life,     (* the object: "live", "dying" or "dead"         *)
  stage,    (* of each thread: "idle", "called" or "done"    *)
  op, ele, ret

vars == <<content, open, life, stage, op, ele, ret>>

Init ==
  /\ content = <<>>
  /\ open = TRUE
  /\ life = "live"
  /\ stage = [t \in Threads |-> "idle"]
  /\ op = [t \in Threads |-> "none"]
  /\ ele = [t \in Threads |-> <<>>]
  /\ ret = [t \in Threads |-> Q_OK]

IsFull  == Len(content) = Capability
IsEmpty == content = <<>>

Calling(t, ops) == stage[t] = "called" /\ op[t] \in ops

TakesEffect(t, code, pointer) ==
  /\ stage' = [stage EXCEPT ![t] = "done"]
  /\ ret' = [ret EXCEPT ![t] = code]
  /\ ele' = [ele EXCEPT ![t] = pointer]
  /\ UNCHANGED <<life, op>>

(* The sequences that s may become when e is queued: at the end of an      *)
(* unsorted queue; in a sorted one behind the elements that precede e      *)
(* strictly and before all others, its equals included.                    *)
Queued(s, e) ==
  {InsertAt(s, i, e) : i \in {k \in 1..(Len(s) + 1) :
     IF mSort THEN /\ \A j \in 1..(k-1) : Precedes(s[j], e)
                   /\ \A j \in k..Len(s) : ~Precedes(s[j], e)
              ELSE k = Len(s) + 1}}

Invoke(t) ==
  /\ stage[t] = "idle"
  /\ life = "live"
  /\ \E o \in MayCall[t] :
       /\ o = "release" /\ OwnerJoins => \A u \in Threads \ {t} : stage[u] = "idle"
       /\ op' = [op EXCEPT ![t] = o]
       /\ \E x \in Argument(o) : ele' = [ele EXCEPT ![t] = x]
       /\ life' = IF o = "release" THEN "dying" ELSE life
  /\ stage' = [stage EXCEPT ![t] = "called"]
  /\ UNCHANGED <<content, open, ret>>

Enqueue(t) ==
  /\ Calling(t, PushOps)
  /\ open /\ ~IsFull
  /\ content' \in Queued(content, ele[t][1])
  /\ TakesEffect(t, Q_OK, ele[t])
  /\ UNCHANGED open

Dequeue(t) ==
  /\ Calling(t, PopOps)
  /\ ~IsEmpty
  /\ content' = Tail(content)
  /\ TakesEffect(t, Q_OK, <<Head(content)>>)
  /\ UNCHANGED open

(* Only a closed queue refuses a blocking call (or one that cannot get     *)
(* memory); a full or an empty one refuses those that do not wait.         *)
Refuse(t) ==
  /\ \/ Calling(t, PushOps) /\ ~open /\ TakesEffect(t, Q_ERR_NONEWDATA, ele[t])
     \/ Calling(t, {"push"}) /\ IsFull /\ open /\ TakesEffect(t, Q_ERR_NUM_ELEMENTS, ele[t])
     \/ /\ Calling(t, PushOps)
        /\ AllocMayFail /\ open /\ ~IsFull
        /\ TakesEffect(t, Q_ERR_MEM, ele[t])
     \/ Calling(t, {"pop"}) /\ IsEmpty /\ TakesEffect(t, Q_ERR_NUM_ELEMENTS, <<>>)
     \/ /\ Calling(t, {"popAndWait"})
        /\ IsEmpty /\ ~open
        /\ TakesEffect(t, Q_ERR_NONEWDATA, <<>>)
     \/ Calling(t, {"peek"}) /\ TakesEffect(t, Q_ERR_INVALID_ELEMENT, <<>>)
  /\ UNCHANGED <<content, open>>

Look(t) ==
  /\ \/ /\ Calling(t, {"peek"})
        /\ \E i \in DOMAIN content : TakesEffect(t, Q_OK, <<content[i]>>)
     \/ Calling(t, {"getCnt"}) /\ TakesEffect(t, Len(content), ele[t])
     \/ Calling(t, {"isEmpty"}) /\ TakesEffect(t, IF IsEmpty THEN 1 ELSE 0, ele[t])
     \/ Calling(t, {"isAllowedNewData"}) /\ TakesEffect(t, IF open THEN 1 ELSE 0, ele[t])
  /\ UNCHANGED <<content, open>>

(* flushAndCallback hands every element over; flush drops them.            *)
Clear(t) ==
  /\ \/ Calling(t, {"flush"}) /\ TakesEffect(t, Q_OK, <<>>)
     \/ Calling(t, {"flushAndCallback"}) /\ TakesEffect(t, Q_OK, content)
  /\ content' = <<>>
  /\ UNCHANGED open

OpenOrClose(t) ==
  /\ Calling(t, SetOps)
  /\ open' = (op[t] = "allow")
  /\ TakesEffect(t, Q_OK, ele[t])
  /\ UNCHANGED content

Return(t) ==
  /\ stage[t] = "done"
  /\ stage' = [stage EXCEPT ![t] = "idle"]
  /\ op' = [op EXCEPT ![t] = "none"]
  /\ ele' = [ele EXCEPT ![t] = <<>>]
  /\ ret' = [ret EXCEPT ![t] = Q_OK]
  /\ life' = IF op[t] = "release" THEN "dead" ELSE life
  /\ UNCHANGED <<content, open>>

(* What the destructor does after it has closed the queue, before it       *)
(* returns.                                                                *)
Empty(t) ==
  /\ stage[t] = "done" /\ op[t] = "release"
  /\ content' = <<>>
  /\ UNCHANGED <<open, life, stage, op, ele, ret>>

Renew ==
  /\ life = "dead"
  /\ life' = "live"
  /\ content' = <<>>
  /\ open' = TRUE
  /\ UNCHANGED <<stage, op, ele, ret>>

Next ==
  \/ Renew
  \/ \E t \in Threads :
       \/ Invoke(t) \/ Return(t)
       \/ Enqueue(t) \/ Dequeue(t) \/ Refuse(t) \/ Look(t) \/ Clear(t)
       \/ OpenOrClose(t) \/ Empty(t)

Spec == Init /\ [][Next]_vars
=============================================================================
