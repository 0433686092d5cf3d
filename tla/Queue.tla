------------------------------- MODULE Queue -------------------------------
(***************************************************************************)
(* Tls::Queue (Queue.h, Queue.cpp): a bounded queue, optionally sorted,    *)
(* that threads share under one mutex and two condition variables.         *)
(*                                                                         *)
(* A call is a few steps of its thread: it takes mMutex, runs the body of  *)
(* the operation, which reads and writes the queue only while it holds     *)
(* mMutex and is therefore one step, and unlocks.  pthread_cond_wait       *)
(* splits the body of a blocking call: it gives mMutex up and takes it     *)
(* again before the loop around it looks at the queue once more.           *)
(* setAllowedNewData reads its flag and broadcasts after the unlock, and   *)
(* the destructor goes on after it.                                        *)
(*                                                                         *)
(* The linked list is a sequence here: mUsedFirstElement is its head,      *)
(* mUsedLastElement its last cell, both NULL when it is empty.  A caller's *)
(* pointer is a sequence as well: <<>> is NULL, <<e>> points to e, and     *)
(* after flushAndCallback it lists the elements the callback was given.    *)
(***************************************************************************)
EXTENDS QueueTypes

VARIABLES
  list,              (* the elements from mUsedFirstElement on               *)
  mUsedElementCnts,  (* the counter kept beside the list                     *)
  mAllowedNewData,   (* cleared by setAllowedNewData(false)                  *)
  mMutex,            (* the thread that holds mMutex, or NoThread            *)
  life,              (* the C++ object: "live", "dying" in ~Queue, "dead"    *)
  pc,                (* where each thread is                                 *)
  op,                (* the operation it is in                               *)
  ele,               (* its element argument or *e                           *)
  ret                (* the value the operation is about to return           *)

vars == <<list, mUsedElementCnts, mAllowedNewData, mMutex, life, pc, op, ele, ret>>
data == <<list, mUsedElementCnts>>

PCs == {"idle", "lock", "body", "waitGet", "waitPut", "woken", "unlock",
        "check", "bcastGet", "bcastPut",
        "relLock", "relFlush", "relConds", "relUnlock", "relMutex"}

TypeOK ==
  /\ list \in Seq(Elements)
  /\ mUsedElementCnts \in 0..Capability
  /\ mAllowedNewData \in BOOLEAN
  /\ mMutex \in Threads \cup {NoThread}
  /\ life \in {"live", "dying", "dead"}
  /\ pc \in [Threads -> PCs]
  /\ op \in [Threads -> Ops \cup {"none"}]
  /\ ele \in [Threads -> Seq(Elements)]
  /\ ret \in [Threads -> Int]

Init ==
  /\ list = <<>>
  /\ mUsedElementCnts = 0
  /\ mAllowedNewData = TRUE
  /\ mMutex = NoThread
  /\ life = "live"
  /\ pc = [t \in Threads |-> "idle"]
  /\ op = [t \in Threads |-> "none"]
  /\ ele = [t \in Threads |-> <<>>]
  /\ ret = [t \in Threads |-> Q_OK]
-----------------------------------------------------------------------------
(***************************************************************************)
(* Variants with one slip each, next to what they vary: every property     *)
(* below fails for one of them.  No specification uses them.               *)
(***************************************************************************)
IsFullTooLate == mUsedElementCnts = Capability + 1

FlushedKeepsCounter == list' = <<>> /\ UNCHANGED mUsedElementCnts

(* The signal is forgotten, or always goes to mCondGet.                    *)
SignalNobody(t, next, cond) == pc' = [pc EXCEPT ![t] = next]

SignalGetters(t, next, cond) ==
  \/ \E w \in Threads : pc[w] = "waitGet" /\ pc' = [pc EXCEPT ![t] = next, ![w] = "woken"]
  \/ (\A w \in Threads : pc[w] # "waitGet") /\ pc' = [pc EXCEPT ![t] = next]

(* pthread_cond_signal instead of pthread_cond_broadcast.                  *)
BroadcastToOne(t, next, cond) ==
  \/ \E w \in Threads : pc[w] = cond /\ pc' = [pc EXCEPT ![t] = next, ![w] = "woken"]
  \/ (\A w \in Threads : pc[w] # cond) /\ pc' = [pc EXCEPT ![t] = next]

(* The search forgets to compare with the first element.                   *)
StopsPastFirst(s, e, i) ==
  i = Len(s) + 1 \/ (i > 1 /\ ~Precedes(e, s[i-1]) /\ ~Precedes(s[i], e))
-----------------------------------------------------------------------------
(***************************************************************************)
(* Helpers                                                                 *)
(***************************************************************************)
(* max_elements is reached.                                                *)
IsFull == mUsedElementCnts = Capability

(* _flushElements.                                                         *)
Flushed == list' = <<>> /\ mUsedElementCnts' = 0

At(t, label, ops) == pc[t] = label /\ op[t] \in ops

(* The threads blocked on mCondGet or on mCondPut, not signalled yet.      *)
Waiting(cond) == {t \in Threads : pc[t] = cond}

(* pthread_cond_signal before t goes on to next: one waiter, if any.       *)
Signal(t, next, cond) ==
  \/ \E w \in Waiting(cond) : pc' = [pc EXCEPT ![t] = next, ![w] = "woken"]
  \/ Waiting(cond) = {} /\ pc' = [pc EXCEPT ![t] = next]

(* pthread_cond_broadcast before t goes on to next.                        *)
Broadcast(t, next, cond) ==
  pc' = [u \in Threads |-> IF u = t THEN next
                           ELSE IF pc[u] = cond THEN "woken" ELSE pc[u]]

(* What the operation will return: its code and its pointer.               *)
Result(t, code, pointer) ==
  /\ ret' = [ret EXCEPT ![t] = code]
  /\ ele' = [ele EXCEPT ![t] = pointer]
  /\ UNCHANGED <<mMutex, life, op>>

(* The operation ends without having changed the queue.                    *)
Answer(t, code, pointer) ==
  /\ Result(t, code, pointer)
  /\ pc' = [pc EXCEPT ![t] = "unlock"]
  /\ UNCHANGED <<data, mAllowedNewData>>

(* pthread_cond_wait: blocked and the mutex released in one step.          *)
CondWait(t, cond) ==
  /\ pc' = [pc EXCEPT ![t] = cond]
  /\ mMutex' = NoThread
  /\ UNCHANGED <<data, mAllowedNewData, life, op, ele, ret>>

(* Back in the caller.                                                     *)
Return(t) ==
  /\ op' = [op EXCEPT ![t] = "none"]
  /\ ele' = [ele EXCEPT ![t] = <<>>]
  /\ ret' = [ret EXCEPT ![t] = Q_OK]

(* Where _pushElement links the new cell: the search of the sorted queue   *)
(* stops in front of the first cell if that one need not precede e, else   *)
(* between the first two neighbours s, t with s <= e <= t, else at the     *)
(* end.                                                                    *)
StopsAt(s, e, i) ==
  \/ i = Len(s) + 1
  \/ i = 1 /\ ~Precedes(s[1], e)
  \/ i > 1 /\ ~Precedes(e, s[i-1]) /\ ~Precedes(s[i], e)

InsertPos(s, e) ==
  IF ~mSort \/ s = <<>>
    THEN Len(s) + 1
    ELSE CHOOSE i \in 1..(Len(s) + 1) :
           StopsAt(s, e, i) /\ \A j \in 1..(i-1) : ~StopsAt(s, e, j)
-----------------------------------------------------------------------------
(***************************************************************************)
(* Calls: entering an operation, the mutex, leaving it                     *)
(***************************************************************************)

(* No thread enters a queue whose destructor has begun.                    *)
Call(t) ==
  /\ pc[t] = "idle"
  /\ life = "live"
  /\ \E o \in MayCall[t] :
       /\ o = "release" /\ OwnerJoins => \A u \in Threads \ {t} : pc[u] = "idle"
       /\ op' = [op EXCEPT ![t] = o]
       /\ \E x \in Argument(o) : ele' = [ele EXCEPT ![t] = x]
       /\ life' = IF o = "release" THEN "dying" ELSE life
  /\ pc' = [pc EXCEPT ![t] = "lock"]
  /\ UNCHANGED <<data, mAllowedNewData, mMutex, ret>>

(* A thread that calls _lock, and one that was woken inside                *)
(* pthread_cond_wait, go on with the body when they get the mutex.         *)
Lock(t) ==
  /\ pc[t] \in {"lock", "woken"}
  /\ mMutex = NoThread
  /\ life # "dead"
  /\ mMutex' = t
  /\ pc' = [pc EXCEPT ![t] = "body"]
  /\ UNCHANGED <<data, mAllowedNewData, life, op, ele, ret>>

(* POSIX lets pthread_cond_wait return without a signal.                   *)
SpuriousWakeup(t) ==
  /\ pc[t] \in {"waitGet", "waitPut"}
  /\ pc' = [pc EXCEPT ![t] = "woken"]
  /\ UNCHANGED <<data, mAllowedNewData, mMutex, life, op, ele, ret>>

Unlock(t) ==
  /\ pc[t] = "unlock"
  /\ mMutex' = NoThread
  /\ IF op[t] \in SetOps
       THEN /\ pc' = [pc EXCEPT ![t] = "check"]
            /\ UNCHANGED <<op, ele, ret>>
       ELSE /\ pc' = [pc EXCEPT ![t] = "idle"]
            /\ Return(t)
  /\ UNCHANGED <<data, mAllowedNewData, life>>
-----------------------------------------------------------------------------
(***************************************************************************)
(* _pushElement                                                            *)
(***************************************************************************)
PushRefused(t) ==
  /\ At(t, "body", PushOps)
  /\ \/ ~mAllowedNewData /\ Answer(t, Q_ERR_NONEWDATA, ele[t])
     \/ /\ mAllowedNewData
        /\ IsFull
        /\ op[t] = "push"
        /\ Answer(t, Q_ERR_NUM_ELEMENTS, ele[t])
     \/ /\ mAllowedNewData
        /\ ~IsFull
        /\ AllocMayFail
        /\ Answer(t, Q_ERR_MEM, ele[t])

PushWait(t) ==
  /\ At(t, "body", {"pushAndWait"})
  /\ mAllowedNewData
  /\ IsFull
  /\ CondWait(t, "waitPut")

PushInsert(t) ==
  /\ At(t, "body", PushOps)
  /\ mAllowedNewData
  /\ ~IsFull
  /\ LET e == ele[t][1] IN list' = InsertAt(list, InsertPos(list, e), e)
  /\ mUsedElementCnts' = mUsedElementCnts + 1
  /\ Signal(t, "unlock", "waitGet")
  /\ Result(t, Q_OK, ele[t])
  /\ UNCHANGED mAllowedNewData
-----------------------------------------------------------------------------
(***************************************************************************)
(* _popElement.  pop and popAndWait pass no comparator, so it takes the    *)
(* first element.                                                          *)
(***************************************************************************)
(* A slip: a closed queue is refused before its elements are handed out.   *)
PopRefusedWhenClosed(t) ==
  \/ /\ mUsedElementCnts = 0
     /\ At(t, "body", {"pop"})
     /\ Answer(t, Q_ERR_NUM_ELEMENTS, <<>>)
  \/ /\ At(t, "body", {"popAndWait"})
     /\ ~mAllowedNewData
     /\ Answer(t, Q_ERR_NONEWDATA, ele[t])

PopRefused(t) ==
  /\ mUsedElementCnts = 0
  /\ \/ At(t, "body", {"pop"}) /\ Answer(t, Q_ERR_NUM_ELEMENTS, <<>>)
     \/ /\ At(t, "body", {"popAndWait"})
        /\ ~mAllowedNewData
        /\ Answer(t, Q_ERR_NONEWDATA, ele[t])

PopWait(t) ==
  /\ At(t, "body", {"popAndWait"})
  /\ mUsedElementCnts = 0
  /\ mAllowedNewData
  /\ CondWait(t, "waitGet")

PopTake(t) ==
  /\ At(t, "body", PopOps)
  /\ mUsedElementCnts # 0
  /\ list' = Tail(list)
  /\ mUsedElementCnts' = mUsedElementCnts - 1
  /\ Signal(t, "unlock", "waitPut")
  /\ Result(t, Q_OK, <<Head(list)>>)
  /\ UNCHANGED mAllowedNewData
-----------------------------------------------------------------------------
(***************************************************************************)
(* The operations that never block                                         *)
(***************************************************************************)

(* _peekElement: pos is the caller's index; a negative one stops the walk  *)
(* at the first element.  Indices past the capability act like it.         *)
Peek(t) ==
  /\ At(t, "body", {"peek"})
  /\ \E pos \in -1..Capability :
       LET i == IF pos < 0 THEN 1 ELSE pos + 1
       IN IF mUsedElementCnts = 0 \/ i > Len(list)
            THEN Answer(t, Q_ERR_INVALID_ELEMENT, ele[t])
            ELSE Answer(t, Q_OK, <<list[i]>>)

(* The callback is given every element, first to last.                     *)
Flush(t) ==
  /\ At(t, "body", FlushOps)
  /\ Flushed
  /\ Result(t, Q_OK, IF op[t] = "flushAndCallback" THEN list ELSE ele[t])
  /\ pc' = [pc EXCEPT ![t] = "unlock"]
  /\ UNCHANGED mAllowedNewData

Query(t) ==
  /\ At(t, "body", QueryOps)
  /\ LET bool(b) == IF b THEN 1 ELSE 0
         answer == CASE op[t] = "getCnt"  -> mUsedElementCnts
                     [] op[t] = "isEmpty" -> bool(list = <<>>)
                     [] OTHER             -> bool(mAllowedNewData)
     IN Answer(t, answer, ele[t])

(* setAllowedNewData, which the destructor calls first, with false.        *)
SetAllowed(t) ==
  /\ At(t, "body", SetOps)
  /\ mAllowedNewData' = (op[t] = "allow")
  /\ Result(t, Q_OK, ele[t])
  /\ pc' = [pc EXCEPT ![t] = "unlock"]
  /\ UNCHANGED data

(* After its unlock setAllowedNewData reads the flag again, without the    *)
(* mutex: another thread may have set it meanwhile.                        *)
SetDone(t) ==
  /\ UNCHANGED <<data, mAllowedNewData, mMutex, life>>
  /\ IF op[t] = "release" THEN UNCHANGED <<op, ele, ret>> ELSE Return(t)

AfterSet(t) == IF op[t] = "release" THEN "relLock" ELSE "idle"

CheckAllowed(t) ==
  /\ pc[t] = "check"
  /\ \/ /\ mAllowedNewData
        /\ pc' = [pc EXCEPT ![t] = AfterSet(t)]
        /\ SetDone(t)
     \/ /\ ~mAllowedNewData
        /\ pc' = [pc EXCEPT ![t] = "bcastGet"]
        /\ UNCHANGED <<data, mAllowedNewData, mMutex, life, op, ele, ret>>

BroadcastGet(t) ==
  /\ pc[t] = "bcastGet"
  /\ Broadcast(t, "bcastPut", "waitGet")
  /\ UNCHANGED <<data, mAllowedNewData, mMutex, life, op, ele, ret>>

BroadcastPut(t) ==
  /\ pc[t] = "bcastPut"
  /\ Broadcast(t, AfterSet(t), "waitPut")
  /\ SetDone(t)
-----------------------------------------------------------------------------
(***************************************************************************)
(* _release after setAllowedNewData(false), and the constructor            *)
(***************************************************************************)
ReleaseLock(t) ==
  /\ pc[t] = "relLock"
  /\ mMutex = NoThread
  /\ mMutex' = t
  /\ pc' = [pc EXCEPT ![t] = "relFlush"]
  /\ UNCHANGED <<data, mAllowedNewData, life, op, ele, ret>>

ReleaseFlush(t) ==
  /\ pc[t] = "relFlush"
  /\ Flushed
  /\ pc' = [pc EXCEPT ![t] = "relConds"]
  /\ UNCHANGED <<mAllowedNewData, mMutex, life, op, ele, ret>>

(* pthread_cond_destroy returns once no thread is blocked on the condition *)
(* variable: it waits for the woken ones to have left it, and POSIX leaves *)
(* it undefined to destroy one that still blocks threads.                  *)
ReleaseConds(t) ==
  /\ pc[t] = "relConds"
  /\ Waiting("waitGet") = {} /\ Waiting("waitPut") = {}
  /\ pc' = [pc EXCEPT ![t] = "relUnlock"]
  /\ UNCHANGED <<data, mAllowedNewData, mMutex, life, op, ele, ret>>

ReleaseUnlock(t) ==
  /\ pc[t] = "relUnlock"
  /\ mMutex' = NoThread
  /\ pc' = [pc EXCEPT ![t] = "relMutex"]
  /\ UNCHANGED <<data, mAllowedNewData, life, op, ele, ret>>

(* What pthread_mutex_destroy answers EBUSY to: a mutex that a thread      *)
(* holds or gave to pthread_cond_wait and has yet to take back.  A thread  *)
(* still on its way into _lock uses the mutex too, and it does not show.   *)
InUse == mMutex # NoThread \/ \E t \in Threads : pc[t] \in {"waitGet", "waitPut", "woken"}

(* It is retried while it says so.                                         *)
ReleaseMutex(t) ==
  /\ pc[t] = "relMutex"
  /\ ~InUse
  /\ life' = "dead"
  /\ pc' = [pc EXCEPT ![t] = "idle"]
  /\ Return(t)
  /\ UNCHANGED <<data, mAllowedNewData, mMutex>>

(* The owner builds the next queue, as QueueSimple's loop does.            *)
Construct(t) ==
  /\ pc[t] = "idle"
  /\ life = "dead"
  /\ "release" \in MayCall[t]
  /\ list' = <<>>
  /\ mUsedElementCnts' = 0
  /\ mAllowedNewData' = TRUE
  /\ life' = "live"
  /\ UNCHANGED <<mMutex, pc, op, ele, ret>>
-----------------------------------------------------------------------------
(* The steps of a thread that is inside an operation, but for the wakeups  *)
(* nobody caused.                                                          *)
Step(t) ==
  \/ Lock(t) \/ Unlock(t)
  \/ PushRefused(t) \/ PushWait(t) \/ PushInsert(t)
  \/ PopRefused(t) \/ PopWait(t) \/ PopTake(t)
  \/ Peek(t) \/ Flush(t) \/ Query(t)
  \/ SetAllowed(t) \/ CheckAllowed(t) \/ BroadcastGet(t) \/ BroadcastPut(t)
  \/ ReleaseLock(t) \/ ReleaseFlush(t) \/ ReleaseConds(t)
  \/ ReleaseUnlock(t) \/ ReleaseMutex(t)

Next == \E t \in Threads : Call(t) \/ Step(t) \/ SpuriousWakeup(t) \/ Construct(t)

Spec == Init /\ [][Next]_vars
-----------------------------------------------------------------------------
(***************************************************************************)
(* Safety                                                                  *)
(***************************************************************************)

(* The counter _pushElement and _popElement test is the length of the list *)
(* they then work on, whatever was flushed, refused or waited for.         *)
CountIsLength == mUsedElementCnts = Len(list)

(* A sorted queue is in order at every moment, so pop takes a smallest     *)
(* (largest) element, whichever threads insert and with whatever ties: the *)
(* search of _pushElement finds the place although it tests only           *)
(* neighbours.                                                             *)
Sorted == mSort => IsOrdered(list)

(* The threads that will look at the list again before they block.         *)
Coming(o) == {t \in Threads : op[t] = o /\ pc[t] \in {"woken", "body"}}

(* No lost wakeup in popAndWait.  The push that finds a thread blocked on  *)
(* mCondGet signals one, and that thread may find its element gone: still, *)
(* while any thread is blocked there, every queued element has a getter of *)
(* its own on the way to it.                                               *)
NoLostGet ==
  Waiting("waitGet") # {} =>
    mUsedElementCnts <= Cardinality(Coming("popAndWait"))

(* A closed queue leaves nobody blocked: while mAllowedNewData is false, a *)
(* thread blocked on mCondGet or mCondPut has a setAllowedNewData(false)   *)
(* that has yet to broadcast to it, although that broadcast is sent after  *)
(* the unlock and is skipped when the flag reads true by then.             *)
CloseReachesWaiters ==
  ~mAllowedNewData =>
    /\ Waiting("waitGet") # {} =>
         \E t \in Threads : At(t, "unlock", {"close", "release"})
                            \/ pc[t] \in {"check", "bcastGet"}
    /\ Waiting("waitPut") # {} =>
         \E t \in Threads : At(t, "unlock", {"close", "release"})
                            \/ pc[t] \in {"check", "bcastGet", "bcastPut"}
-----------------------------------------------------------------------------
(***************************************************************************)
(* Refinement: a call takes effect when its body ends.                     *)
(***************************************************************************)
Stage ==
  [t \in Threads |->
    CASE pc[t] = "idle" -> "idle"
      [] pc[t] \in {"lock", "body", "waitGet", "waitPut", "woken"} -> "called"
      [] OTHER -> "done"]

Promise == INSTANCE QueueSpec
  WITH content <- list, open <- mAllowedNewData, stage <- Stage

(* Every call on a Queue, blocking or not, is atomic between its           *)
(* invocation and its return, as QueueSpec says: what the mutex, the       *)
(* condition variables and the loops around the waits are there for.       *)
ImplementsPromise == Promise!Spec
=============================================================================
