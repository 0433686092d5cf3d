------------------------ MODULE QueueRefinementProofs ------------------------
(***************************************************************************)
(* Queue implements QueueSpec: every call of Tls::Queue is atomic between  *)
(* its invocation and its return, for every number of threads, every set   *)
(* of elements, every capability and comparator, whichever allocations     *)
(* fail and whether or not the owner joins before it deletes.              *)
(***************************************************************************)
EXTENDS QueueProofs

(* Where a call has been invoked and has not taken effect yet, and where   *)
(* it has and has not returned.                                            *)
CalledPCs  == {"lock", "body", "waitGet", "waitPut", "woken"}
DonePCs    == {"unlock", "check", "bcastGet", "bcastPut"} \cup ReleasePCs

(* The operations that clear *e before they lock.                          *)
ClearsFirst == {"popAndWait", "peek", "flush"}

(* What the mapping needs besides IInv, Sorted and Releasing: nothing is    *)
(* written to *e before a call takes effect, so that one which is refused  *)
(* returns the NULL it stored first.                                       *)
Arguments ==
  \A t \in Threads : pc[t] \in CalledPCs /\ op[t] \in ClearsFirst => ele[t] = <<>>

RInv == IInv /\ Sorted /\ Releasing /\ Arguments
-----------------------------------------------------------------------------
(***************************************************************************)
(* The stages of a call                                                    *)
(***************************************************************************)
StageOf(label) ==
  IF label = "idle" THEN "idle" ELSE IF label \in CalledPCs THEN "called" ELSE "done"

(* The refinement's stage is a function of the label alone.                *)
LEMMA StageIs == Stage = [t \in Threads |-> StageOf(pc[t])]
BY DEF Stage, StageOf, CalledPCs

(* A step that moves one thread and wakes others is a step of that thread  *)
(* in the abstraction, since a thread that waits and one that is woken are *)
(* in the same stage.                                                      *)
LEMMA StageMoves ==
  ASSUME NEW t \in Threads, NEW s, StageOf(pc'[t]) = s,
         \A u \in Threads \ {t} :
           pc'[u] = pc[u] \/ (pc[u] \in {"waitGet", "waitPut"} /\ pc'[u] = "woken")
  PROVE  /\ Stage' = [Stage EXCEPT ![t] = s]
         /\ Stage[t] = s => Stage' = Stage
<1>1. Stage' = [u \in Threads |-> StageOf(pc'[u])]
  BY DEF Stage, StageOf, CalledPCs
<1>2. \A u \in Threads \ {t} : StageOf(pc'[u]) = StageOf(pc[u])
  BY DEF StageOf, CalledPCs
<1>3. Stage = [u \in Threads |-> StageOf(pc[u])]
  BY StageIs
<1>4. Stage' = [Stage EXCEPT ![t] = s]
  BY <1>1, <1>2, <1>3
<1>5. Stage[t] = s => Stage' = Stage
  BY <1>1, <1>2, <1>3
<1> QED
  BY <1>4, <1>5

(* The same for a thread that moves alone.                                 *)
LEMMA StageMovesAlone ==
  ASSUME TypeOK, NEW t \in Threads, NEW label, pc' = [pc EXCEPT ![t] = label]
  PROVE  /\ Stage' = [Stage EXCEPT ![t] = StageOf(label)]
         /\ StageOf(pc[t]) = StageOf(label) => Stage' = Stage
<1>1. pc'[t] = label /\ \A u \in Threads \ {t} : pc'[u] = pc[u]
  BY DEF TypeOK
<1>2. Stage[t] = StageOf(pc[t])
  BY StageIs
<1> QED
  BY <1>1, <1>2, StageMoves

(* A signal or a broadcast is a step of its sender alone in the            *)
(* abstraction.                                                            *)
LEMMA StageMovesWaking ==
  ASSUME TypeOK, NEW t \in Threads, NEW next, NEW cond \in {"waitGet", "waitPut"},
         pc[t] # cond, Signal(t, next, cond) \/ Broadcast(t, next, cond)
  PROVE  /\ Stage' = [Stage EXCEPT ![t] = StageOf(next)]
         /\ StageOf(pc[t]) = StageOf(next) => Stage' = Stage
<1>1. /\ pc'[t] = next
      /\ \A u \in Threads \ {t} : pc'[u] = pc[u] \/ (pc[u] = cond /\ pc'[u] = "woken")
  <2>1. CASE Signal(t, next, cond)
    BY <2>1 DEF Signal, Waiting, TypeOK
  <2>2. CASE Broadcast(t, next, cond)
    BY <2>2 DEF Broadcast, TypeOK
  <2> QED
    BY <2>1, <2>2
<1>2. Stage[t] = StageOf(pc[t])
  BY StageIs
<1> QED
  BY <1>1, <1>2, StageMoves
-----------------------------------------------------------------------------
(***************************************************************************)
(* Arguments                                                               *)
(***************************************************************************)

(* A step concerns the arguments of the thread that takes it only.         *)
LEMMA ArgumentsFrame ==
  ASSUME Arguments, NEW t \in Threads,
         \A u \in Threads \ {t} :
           /\ op'[u] = op[u] /\ ele'[u] = ele[u]
           /\ pc'[u] = pc[u] \/ (pc[u] \in {"waitGet", "waitPut"} /\ pc'[u] = "woken"),
         pc'[t] \in CalledPCs /\ op'[t] \in ClearsFirst => ele'[t] = <<>>
  PROVE  Arguments'
BY DEF Arguments, CalledPCs

(* Calls that clear *e begin with NULL and keep it until they take effect. *)
LEMMA ArgumentsStep == IInv /\ Arguments /\ [Next]_vars => Arguments'
<1> SUFFICES ASSUME IInv, Arguments, [Next]_vars PROVE Arguments'
  OBVIOUS
<1> USE DEF IInv, TypeOK
<1>1. CASE UNCHANGED vars
  BY <1>1 DEF vars, Arguments
<1>2. ASSUME NEW t \in Threads, Call(t) PROVE Arguments'
  <2>1. PICK o \in MayCall[t] :
          /\ op' = [op EXCEPT ![t] = o]
          /\ \E x \in Argument(o) : ele' = [ele EXCEPT ![t] = x]
    BY <1>2 DEF Call
  <2>2. PICK x \in Argument(o) : ele' = [ele EXCEPT ![t] = x]
    BY <2>1
  <2>3. o \in ClearsFirst => x = <<>>
    <3>1. o \in ClearsFirst => Argument(o) = {<<>>}
      BY DEF Argument, ClearsFirst, PushOps
    <3> QED
      BY <3>1, <2>2
  <2> QED
    BY <1>2, <2>1, <2>2, <2>3, ArgumentsFrame DEF Call
<1>3. ASSUME NEW t \in Threads, Lock(t) \/ SpuriousWakeup(t) \/ PushWait(t) \/ PopWait(t)
      PROVE  Arguments'
  <2>1. /\ pc[t] \in CalledPCs /\ pc'[t] \in CalledPCs
        /\ UNCHANGED <<op, ele>>
        /\ \A u \in Threads \ {t} : pc'[u] = pc[u]
    BY <1>3 DEF Lock, SpuriousWakeup, PushWait, PopWait, CondWait, At, CalledPCs
  <2> QED
    BY <2>1, ArgumentsFrame DEF Arguments
<1>4. ASSUME NEW t \in Threads, Unlock(t) PROVE Arguments'
  BY <1>4, ArgumentsFrame DEF Unlock, Return, CalledPCs
<1>5. ASSUME NEW t \in Threads, NEW code, NEW pointer, Result(t, code, pointer),
             pc[t] = "body",
             \/ pc' = [pc EXCEPT ![t] = "unlock"]
             \/ Signal(t, "unlock", "waitGet")
             \/ Signal(t, "unlock", "waitPut")
      PROVE  Arguments'
  <2>1. /\ \A u \in Threads \ {t} :
             pc'[u] = pc[u] \/ (pc[u] \in {"waitGet", "waitPut"} /\ pc'[u] = "woken")
        /\ pc'[t] = "unlock"
    BY <1>5 DEF Signal, Waiting
  <2> QED
    BY <1>5, <2>1, ArgumentsFrame DEF Result, CalledPCs
<1>6. ASSUME NEW t \in Threads, PushRefused(t) \/ PopRefused(t) \/ Query(t) PROVE Arguments'
  BY <1>5, <1>6 DEF PushRefused, PopRefused, Query, At, Answer
<1>7. ASSUME NEW t \in Threads, Peek(t) PROVE Arguments'
  BY <1>5, <1>7 DEF Peek, At, Answer
<1>8. ASSUME NEW t \in Threads, PushInsert(t) \/ PopTake(t) \/ Flush(t) \/ SetAllowed(t)
      PROVE  Arguments'
  BY <1>5, <1>8 DEF PushInsert, PopTake, Flush, SetAllowed, At
<1>9. ASSUME NEW t \in Threads, CheckAllowed(t) PROVE Arguments'
  BY <1>9, ArgumentsFrame DEF CheckAllowed, AfterSet, SetDone, Return, CalledPCs
<1>10. ASSUME NEW t \in Threads, NEW next \in {"bcastPut", "relLock", "idle"},
              NEW cond \in {"waitGet", "waitPut"}, pc[t] \in {"bcastGet", "bcastPut"},
              Broadcast(t, next, cond), UNCHANGED <<op, ele, ret>> \/ Return(t)
      PROVE   Arguments'
  <2>1. /\ pc'[t] = next
        /\ \A u \in Threads \ {t} :
             pc'[u] = pc[u] \/ (pc[u] \in {"waitGet", "waitPut"} /\ pc'[u] = "woken")
    BY <1>10 DEF Broadcast
  <2>2. \A u \in Threads \ {t} : op'[u] = op[u] /\ ele'[u] = ele[u]
    BY <1>10 DEF Return
  <2> QED
    BY <2>1, <2>2, ArgumentsFrame DEF CalledPCs
<1>11. ASSUME NEW t \in Threads, BroadcastGet(t) PROVE Arguments'
  BY <1>10, <1>11 DEF BroadcastGet
<1>12. ASSUME NEW t \in Threads, BroadcastPut(t) PROVE Arguments'
  BY <1>10, <1>12 DEF BroadcastPut, AfterSet, SetDone
<1>13. ASSUME NEW t \in Threads,
              \/ ReleaseLock(t) \/ ReleaseFlush(t) \/ ReleaseConds(t)
              \/ ReleaseUnlock(t) \/ ReleaseMutex(t)
       PROVE  Arguments'
  <2>1. /\ pc'[t] \notin CalledPCs
        /\ \A u \in Threads \ {t} : op'[u] = op[u] /\ ele'[u] = ele[u] /\ pc'[u] = pc[u]
    BY <1>13 DEF ReleaseLock, ReleaseFlush, ReleaseConds, ReleaseUnlock, ReleaseMutex,
                 Return, CalledPCs
  <2> QED
    BY <2>1, ArgumentsFrame
<1>14. ASSUME NEW t \in Threads, Construct(t) PROVE Arguments'
  BY <1>14 DEF Construct, Arguments
<1> QED
  BY <1>1, <1>2, <1>3, <1>4, <1>6, <1>7, <1>8, <1>9, <1>11, <1>12, <1>13, <1>14
  DEF Next, Step

(* The invariant under which every step of Queue is one of QueueSpec.      *)
LEMMA RefinementInvariant == Spec => []RInv
<1>1. Init => Sorted /\ Arguments
  BY DEF Init, Sorted, IsOrdered, Arguments, CalledPCs
<1>2. IInv /\ Sorted /\ Arguments /\ [Next]_vars => Sorted' /\ Arguments'
  BY SortedStep, ArgumentsStep
<1> QED
  BY <1>1, <1>2, Invariant, OneReleases, PTL DEF Spec, RInv
-----------------------------------------------------------------------------
(***************************************************************************)
(* Every step of Queue is a step of QueueSpec, or none                     *)
(***************************************************************************)

(* A new queue is a new abstract one.                                      *)
LEMMA InitMaps == Init => Promise!Init
BY DEF Init, Promise!Init, Stage, Q_OK, Promise!Q_OK

(* Invoking an operation.                                                  *)
LEMMA CallMaps ==
  ASSUME RInv, NEW t \in Threads, Call(t)
  PROVE  Promise!Invoke(t)
<1>1. Stage' = [Stage EXCEPT ![t] = "called"]
  BY StageMovesAlone DEF Call, RInv, IInv, StageOf, CalledPCs
<1>2. \A u \in Threads : Stage[u] = "idle" <=> pc[u] = "idle"
  BY StageIs DEF StageOf
<1>3. \A o \in MayCall[t] : Promise!Argument(o) = Argument(o)
  BY DEF Promise!Argument, Argument, Promise!PushOps, PushOps
<1> QED
  BY <1>1, <1>2, <1>3 DEF Call, Promise!Invoke, data
(* An operation decides its result in one step of its body, whomever it    *)
(* wakes: there its call takes effect.                                     *)
LEMMA ResultMaps ==
  ASSUME RInv, NEW t \in Threads, pc[t] = "body",
         NEW code, NEW pointer, Result(t, code, pointer),
         \/ pc' = [pc EXCEPT ![t] = "unlock"]
         \/ Signal(t, "unlock", "waitGet")
         \/ Signal(t, "unlock", "waitPut")
  PROVE  /\ Promise!TakesEffect(t, code, pointer)
         /\ Stage[t] = "called"
<1>1. TypeOK
  BY DEF RInv, IInv
<1>2. StageOf("unlock") = "done" /\ StageOf("body") = "called"
  BY DEF StageOf, CalledPCs
<1>3. Stage' = [Stage EXCEPT ![t] = "done"]
  <2>1. CASE pc' = [pc EXCEPT ![t] = "unlock"]
    BY <1>1, <1>2, <2>1, StageMovesAlone
  <2>2. CASE Signal(t, "unlock", "waitGet") \/ Signal(t, "unlock", "waitPut")
    BY <1>1, <1>2, <2>2, StageMovesWaking
  <2> QED
    BY <2>1, <2>2
<1>4. Stage[t] = "called"
  BY <1>2, StageIs
<1> QED
  BY <1>3, <1>4 DEF Result, Promise!TakesEffect

(* The same for one that leaves the queue as it is.                        *)
LEMMA AnswerMaps ==
  ASSUME RInv, NEW t \in Threads, pc[t] = "body",
         NEW code, NEW pointer, Answer(t, code, pointer)
  PROVE  /\ Promise!TakesEffect(t, code, pointer)
         /\ Stage[t] = "called"
         /\ UNCHANGED <<list, mAllowedNewData>>
BY ResultMaps DEF Answer, data

(* The counter the code tests says what QueueSpec asks of the contents.    *)
LEMMA FullAndEmpty ==
  ASSUME RInv
  PROVE  /\ IsFull <=> Promise!IsFull
         /\ mUsedElementCnts = 0 <=> Promise!IsEmpty
         /\ mUsedElementCnts = Len(list)
<1>1. list \in Seq(Elements) /\ mUsedElementCnts = Len(list)
  BY DEF RInv, IInv, TypeOK, CountIsLength
<1> QED
  BY <1>1, EmptySeq DEF IsFull, Promise!IsFull, Promise!IsEmpty

(* A refused push.                                                         *)
LEMMA PushRefusedMaps ==
  ASSUME RInv, NEW t \in Threads, PushRefused(t)
  PROVE  Promise!Refuse(t)
<1>1. pc[t] = "body" /\ op[t] \in PushOps
  BY DEF PushRefused, At
<1>2. CASE ~mAllowedNewData /\ Answer(t, Q_ERR_NONEWDATA, ele[t])
  BY <1>1, <1>2, AnswerMaps DEF Promise!Refuse, Promise!Calling, PushOps, Promise!PushOps,
     Q_ERR_NONEWDATA, Promise!Q_ERR_NONEWDATA
<1>3. CASE mAllowedNewData /\ IsFull /\ op[t] = "push" /\ Answer(t, Q_ERR_NUM_ELEMENTS, ele[t])
  BY <1>1, <1>3, AnswerMaps, FullAndEmpty DEF Promise!Refuse, Promise!Calling,
     Q_ERR_NUM_ELEMENTS, Promise!Q_ERR_NUM_ELEMENTS
<1>4. CASE mAllowedNewData /\ ~IsFull /\ AllocMayFail /\ Answer(t, Q_ERR_MEM, ele[t])
  BY <1>1, <1>4, AnswerMaps, FullAndEmpty DEF Promise!Refuse, Promise!Calling, PushOps,
     Promise!PushOps, Q_ERR_MEM, Promise!Q_ERR_MEM
<1> QED
  BY <1>2, <1>3, <1>4 DEF PushRefused

(* The place _pushElement finds is the one QueueSpec asks for.             *)
LEMMA InsertMaps ==
  ASSUME NEW s \in Seq(Elements), NEW e \in Elements, mSort => IsOrdered(s)
  PROVE  InsertAt(s, InsertPos(s, e), e) \in Promise!Queued(s, e)
<1> DEFINE i == InsertPos(s, e)
<1>0. Len(s) \in Nat
  BY LenProperties
<1>1. i \in 1..(Len(s) + 1)
  BY InsertPosProperties
<1>2. \A x, y : Promise!Precedes(x, y) <=> Precedes(x, y)
  BY DEF Promise!Precedes, Precedes, Promise!cmpEleFun, cmpEleFun
<1>3. \A k : Promise!InsertAt(s, k, e) = InsertAt(s, k, e)
  BY DEF Promise!InsertAt, InsertAt
<1>4. CASE mSort
  <2>1. /\ \A j \in 1..(i - 1) : Precedes(s[j], e)
        /\ \A j \in i..Len(s) : ~Precedes(s[j], e)
    BY <1>4, InsertPosSplits
  <2> HIDE DEF i
  <2> QED
    BY <1>1, <1>2, <1>3, <1>4, <2>1 DEF Promise!Queued, i
<1>5. CASE ~mSort
  <2>1. i = Len(s) + 1
    BY <1>5 DEF InsertPos
  <2> HIDE DEF i
  <2> QED
    BY <1>1, <1>3, <1>5, <2>1 DEF Promise!Queued, i
<1> QED
  BY <1>4, <1>5
(* A push that is accepted.                                                *)
LEMMA PushInsertMaps ==
  ASSUME RInv, NEW t \in Threads, PushInsert(t)
  PROVE  Promise!Enqueue(t)
<1>1. /\ pc[t] = "body" /\ op[t] \in PushOps /\ mAllowedNewData /\ ~IsFull
      /\ list' = InsertAt(list, InsertPos(list, ele[t][1]), ele[t][1])
      /\ Result(t, Q_OK, ele[t]) /\ Signal(t, "unlock", "waitGet")
      /\ mAllowedNewData' = mAllowedNewData
  BY DEF PushInsert, At
<1>2. ele[t][1] \in Elements /\ list \in Seq(Elements) /\ (mSort => IsOrdered(list))
  BY <1>1 DEF RInv, IInv, TypeOK, Brought, Sorted
<1>3. list' \in Promise!Queued(list, ele[t][1])
  BY <1>1, <1>2, InsertMaps
<1>4. Promise!TakesEffect(t, Q_OK, ele[t]) /\ Stage[t] = "called"
  BY <1>1, ResultMaps
<1> QED
  BY <1>1, <1>3, <1>4, FullAndEmpty DEF Promise!Enqueue, Promise!Calling, PushOps,
     Promise!PushOps, Q_OK, Promise!Q_OK

(* A refused pop.                                                          *)
LEMMA PopRefusedMaps ==
  ASSUME RInv, NEW t \in Threads, PopRefused(t)
  PROVE  Promise!Refuse(t)
<1>1. pc[t] = "body" /\ mUsedElementCnts = 0
  BY DEF PopRefused, At
<1>2. CASE op[t] = "pop" /\ Answer(t, Q_ERR_NUM_ELEMENTS, <<>>)
  BY <1>1, <1>2, AnswerMaps, FullAndEmpty DEF Promise!Refuse, Promise!Calling,
     Q_ERR_NUM_ELEMENTS, Promise!Q_ERR_NUM_ELEMENTS
<1>3. CASE op[t] = "popAndWait" /\ ~mAllowedNewData /\ Answer(t, Q_ERR_NONEWDATA, ele[t])
  <2>1. ele[t] = <<>>
    BY <1>1, <1>3 DEF RInv, Arguments, CalledPCs, ClearsFirst
  <2> QED
    BY <1>1, <1>3, <2>1, AnswerMaps, FullAndEmpty DEF Promise!Refuse, Promise!Calling,
       Q_ERR_NONEWDATA, Promise!Q_ERR_NONEWDATA
<1> QED
  BY <1>2, <1>3 DEF PopRefused, At

(* A pop that gets an element.                                             *)
LEMMA PopTakeMaps ==
  ASSUME RInv, NEW t \in Threads, PopTake(t)
  PROVE  Promise!Dequeue(t)
<1>1. /\ pc[t] = "body" /\ op[t] \in PopOps /\ mUsedElementCnts # 0
      /\ list' = Tail(list)
      /\ Result(t, Q_OK, <<Head(list)>>) /\ Signal(t, "unlock", "waitPut")
      /\ mAllowedNewData' = mAllowedNewData
  BY DEF PopTake, At
<1>2. Promise!TakesEffect(t, Q_OK, <<Head(list)>>) /\ Stage[t] = "called"
  BY <1>1, ResultMaps
<1> QED
  BY <1>1, <1>2, FullAndEmpty DEF Promise!Dequeue, Promise!Calling, PopOps, Promise!PopOps,
     Q_OK, Promise!Q_OK

(* A peek, at a position of the queue or past its end.                     *)
LEMMA PeekMaps ==
  ASSUME RInv, NEW t \in Threads, Peek(t)
  PROVE  Promise!Refuse(t) \/ Promise!Look(t)
<1>1. pc[t] = "body" /\ op[t] = "peek"
  BY DEF Peek, At
<1>2. PICK pos \in -1..Capability :
        LET i == IF pos < 0 THEN 1 ELSE pos + 1
        IN IF mUsedElementCnts = 0 \/ i > Len(list)
             THEN Answer(t, Q_ERR_INVALID_ELEMENT, ele[t])
             ELSE Answer(t, Q_OK, <<list[i]>>)
  BY DEF Peek
<1> DEFINE i == IF pos < 0 THEN 1 ELSE pos + 1
<1>3. i \in Nat \ {0}
  OBVIOUS
<1>4. CASE mUsedElementCnts = 0 \/ i > Len(list)
  <2>1. Answer(t, Q_ERR_INVALID_ELEMENT, ele[t])
    BY <1>2, <1>4
  <2>2. ele[t] = <<>>
    BY <1>1 DEF RInv, Arguments, CalledPCs, ClearsFirst
  <2> QED
    BY <1>1, <2>1, <2>2, AnswerMaps DEF Promise!Refuse, Promise!Calling,
       Q_ERR_INVALID_ELEMENT, Promise!Q_ERR_INVALID_ELEMENT
<1>5. CASE ~(mUsedElementCnts = 0 \/ i > Len(list))
  <2>1. Answer(t, Q_OK, <<list[i]>>)
    BY <1>2, <1>5
  <2>2. list \in Seq(Elements)
    BY DEF RInv, IInv, TypeOK
  <2>3. i \in DOMAIN list
    BY <1>3, <1>5, <2>2, LenProperties
  <2> HIDE DEF i
  <2> QED
    BY <1>1, <2>1, <2>3, AnswerMaps DEF Promise!Look, Promise!Calling, Q_OK, Promise!Q_OK
<1> QED
  BY <1>4, <1>5

(* The flushes: one drops what it empties, one hands it over.              *)
LEMMA FlushMaps ==
  ASSUME RInv, NEW t \in Threads, Flush(t)
  PROVE  Promise!Clear(t)
<1>1. /\ pc[t] = "body" /\ op[t] \in FlushOps /\ list' = <<>>
      /\ Result(t, Q_OK, IF op[t] = "flushAndCallback" THEN list ELSE ele[t])
      /\ pc' = [pc EXCEPT ![t] = "unlock"] /\ mAllowedNewData' = mAllowedNewData
  BY DEF Flush, At, Flushed
<1>2. op[t] = "flush" => ele[t] = <<>>
  BY <1>1 DEF RInv, Arguments, CalledPCs, ClearsFirst
<1>3. CASE op[t] = "flush"
  <2>1. Promise!TakesEffect(t, Q_OK, <<>>) /\ Stage[t] = "called"
    BY <1>1, <1>2, <1>3, ResultMaps
  <2> QED
    BY <1>1, <1>3, <2>1 DEF Promise!Clear, Promise!Calling, Q_OK, Promise!Q_OK
<1>4. CASE op[t] = "flushAndCallback"
  <2>1. Promise!TakesEffect(t, Q_OK, list) /\ Stage[t] = "called"
    BY <1>1, <1>4, ResultMaps
  <2> QED
    BY <1>1, <1>4, <2>1 DEF Promise!Clear, Promise!Calling, Q_OK, Promise!Q_OK
<1> QED
  BY <1>1, <1>3, <1>4 DEF FlushOps

(* The three queries.                                                      *)
LEMMA QueryMaps ==
  ASSUME RInv, NEW t \in Threads, Query(t)
  PROVE  Promise!Look(t)
<1>1. pc[t] = "body" /\ op[t] \in QueryOps
  BY DEF Query, At
<1>2. CASE op[t] = "getCnt"
  <2>1. Answer(t, Len(list), ele[t])
    BY <1>2, FullAndEmpty DEF Query
  <2> QED
    BY <1>1, <1>2, <2>1, AnswerMaps DEF Promise!Look, Promise!Calling
<1>3. CASE op[t] = "isEmpty"
  <2>1. Answer(t, IF Promise!IsEmpty THEN 1 ELSE 0, ele[t])
    BY <1>3 DEF Query, Promise!IsEmpty
  <2> QED
    BY <1>1, <1>3, <2>1, AnswerMaps DEF Promise!Look, Promise!Calling
<1>4. CASE op[t] = "isAllowedNewData"
  <2>1. Answer(t, IF mAllowedNewData THEN 1 ELSE 0, ele[t])
    BY <1>4 DEF Query
  <2> QED
    BY <1>1, <1>4, <2>1, AnswerMaps DEF Promise!Look, Promise!Calling
<1> QED
  BY <1>1, <1>2, <1>3, <1>4 DEF QueryOps

(* setAllowedNewData, and the destructor's first step.                     *)
LEMMA SetAllowedMaps ==
  ASSUME RInv, NEW t \in Threads, SetAllowed(t)
  PROVE  Promise!OpenOrClose(t)
<1>1. /\ pc[t] = "body" /\ op[t] \in SetOps /\ mAllowedNewData' = (op[t] = "allow")
      /\ Result(t, Q_OK, ele[t]) /\ pc' = [pc EXCEPT ![t] = "unlock"] /\ list' = list
  BY DEF SetAllowed, At, data
<1>2. Promise!TakesEffect(t, Q_OK, ele[t]) /\ Stage[t] = "called"
  BY <1>1, ResultMaps
<1> QED
  BY <1>1, <1>2 DEF Promise!OpenOrClose, Promise!Calling, SetOps, Promise!SetOps,
     Q_OK, Promise!Q_OK
(* What happens inside a call before it takes effect is hidden: waiting    *)
(* for the mutex, or for an element or a place, and being woken.           *)
LEMMA WaitingIsHidden ==
  ASSUME RInv, NEW t \in Threads, Lock(t) \/ SpuriousWakeup(t) \/ PushWait(t) \/ PopWait(t)
  PROVE  UNCHANGED Promise!vars
<1>1. /\ \E label \in CalledPCs : pc' = [pc EXCEPT ![t] = label]
      /\ pc[t] \in CalledPCs
      /\ UNCHANGED <<list, mAllowedNewData, life, op, ele, ret>>
  BY DEF Lock, SpuriousWakeup, PushWait, PopWait, At, CondWait, CalledPCs, data
<1>2. Stage' = Stage
  BY <1>1, StageMovesAlone DEF RInv, IInv, StageOf, CalledPCs
<1> QED
  BY <1>1, <1>2 DEF Promise!vars

(* A call that has taken effect returns once, from wherever it does, with  *)
(* the object's life as it is unless it was the destructor.                *)
LEMMA ReturnMaps ==
  ASSUME RInv, NEW t \in Threads, pc[t] \in DonePCs, Stage' = [Stage EXCEPT ![t] = "idle"],
         Return(t), life' = IF op[t] = "release" THEN "dead" ELSE life,
         UNCHANGED <<list, mAllowedNewData>>
  PROVE  Promise!Return(t)
<1>1. Stage[t] = "done"
  BY StageIs DEF StageOf, DonePCs, CalledPCs, ReleasePCs
<1> QED
  BY <1>1 DEF Return, Promise!Return, Q_OK, Promise!Q_OK

(* The unlock ends every operation but setAllowedNewData.                  *)
LEMMA UnlockMaps ==
  ASSUME RInv, NEW t \in Threads, Unlock(t)
  PROVE  Promise!Return(t) \/ UNCHANGED Promise!vars
<1>1. TypeOK /\ pc[t] = "unlock"
  BY DEF RInv, IInv, Unlock
<1>2. CASE op[t] \in SetOps
  <2>1. /\ pc' = [pc EXCEPT ![t] = "check"]
        /\ UNCHANGED <<list, mAllowedNewData, life, op, ele, ret>>
    BY <1>2 DEF Unlock, data
  <2>2. StageOf("unlock") = StageOf("check")
    BY DEF StageOf, CalledPCs
  <2>3. Stage' = Stage
    BY <1>1, <2>1, <2>2, StageMovesAlone
  <2> QED
    BY <2>1, <2>3 DEF Promise!vars
<1>3. CASE op[t] \notin SetOps
  <2>1. /\ pc' = [pc EXCEPT ![t] = "idle"] /\ Return(t)
        /\ UNCHANGED <<list, mAllowedNewData, life>>
    BY <1>3 DEF Unlock, data
  <2>2. Stage' = [Stage EXCEPT ![t] = "idle"]
    BY <1>1, <2>1, StageMovesAlone DEF StageOf
  <2>3. op[t] # "release"
    BY <1>3 DEF SetOps
  <2> QED
    BY <1>1, <2>1, <2>2, <2>3, ReturnMaps DEF DonePCs
<1> QED
  BY <1>2, <1>3

(* The way on from setAllowedNewData: the destructor's next line, which is *)
(* hidden, or the return.                                                  *)
LEMMA SetDoneMaps ==
  ASSUME RInv, NEW t \in Threads, pc[t] \in DonePCs, SetDone(t),
         Stage' = [Stage EXCEPT ![t] = StageOf(AfterSet(t))],
         StageOf(pc[t]) = StageOf(AfterSet(t)) => Stage' = Stage
  PROVE  Promise!Return(t) \/ UNCHANGED Promise!vars
<1>1. UNCHANGED <<list, mAllowedNewData, life>>
  BY DEF SetDone, data
<1>2. CASE op[t] = "release"
  <2>1. StageOf(pc[t]) = StageOf(AfterSet(t))
    BY <1>2 DEF StageOf, AfterSet, DonePCs, CalledPCs, ReleasePCs
  <2>2. UNCHANGED <<op, ele, ret>>
    BY <1>2 DEF SetDone
  <2> QED
    BY <1>1, <2>1, <2>2 DEF Promise!vars
<1>3. CASE op[t] # "release"
  <2>1. Return(t) /\ StageOf(AfterSet(t)) = "idle"
    BY <1>3 DEF SetDone, AfterSet, StageOf
  <2> QED
    BY <1>1, <1>3, <2>1, ReturnMaps
<1> QED
  BY <1>2, <1>3

(* The second look at the flag, and the two broadcasts.                    *)
LEMMA BroadcastsMap ==
  ASSUME RInv, NEW t \in Threads, CheckAllowed(t) \/ BroadcastGet(t) \/ BroadcastPut(t)
  PROVE  Promise!Return(t) \/ UNCHANGED Promise!vars
<1>0. TypeOK
  BY DEF RInv, IInv
<1>1. CASE pc[t] = "check" /\ pc' = [pc EXCEPT ![t] = AfterSet(t)] /\ SetDone(t)
  BY <1>0, <1>1, StageMovesAlone, SetDoneMaps DEF DonePCs
<1>2. CASE BroadcastPut(t)
  BY <1>0, <1>2, StageMovesWaking, SetDoneMaps DEF BroadcastPut, DonePCs
<1>3. CASE /\ pc[t] = "check" /\ pc' = [pc EXCEPT ![t] = "bcastGet"]
           /\ UNCHANGED <<data, mAllowedNewData, mMutex, life, op, ele, ret>>
  <2>1. StageOf("check") = StageOf("bcastGet")
    BY DEF StageOf, CalledPCs
  <2>2. Stage' = Stage
    BY <1>0, <1>3, <2>1, StageMovesAlone
  <2> QED
    BY <1>3, <2>2 DEF Promise!vars, data
<1>4. CASE BroadcastGet(t)
  <2>1. Stage' = Stage
    BY <1>0, <1>4, StageMovesWaking DEF BroadcastGet, StageOf, CalledPCs
  <2> QED
    BY <1>4, <2>1 DEF BroadcastGet, Promise!vars, data
<1> QED
  BY <1>1, <1>2, <1>3, <1>4 DEF CheckAllowed

(* The rest of the destructor: it empties the queue, and when it returns   *)
(* the object is gone.                                                     *)
LEMMA ReleaseMaps ==
  ASSUME RInv, NEW t \in Threads,
         \/ ReleaseLock(t) \/ ReleaseFlush(t) \/ ReleaseConds(t)
         \/ ReleaseUnlock(t) \/ ReleaseMutex(t)
  PROVE  Promise!Empty(t) \/ Promise!Return(t) \/ UNCHANGED Promise!vars
<1>1. TypeOK /\ pc[t] \in ReleasePCs /\ pc[t] \in DonePCs
  BY DEF RInv, IInv, ReleasePCs, DonePCs, ReleaseLock, ReleaseFlush, ReleaseConds,
         ReleaseUnlock, ReleaseMutex
<1>2. op[t] = "release" /\ Stage[t] = "done" /\ StageOf(pc[t]) = "done"
  BY <1>1, StageIs DEF RInv, Releasing, StageOf, ReleasePCs, CalledPCs
<1>3. CASE ReleaseLock(t) \/ ReleaseFlush(t) \/ ReleaseConds(t) \/ ReleaseUnlock(t)
  <2>1. \E label \in ReleasePCs : pc' = [pc EXCEPT ![t] = label]
    BY <1>3 DEF ReleaseLock, ReleaseFlush, ReleaseConds, ReleaseUnlock, ReleasePCs
  <2>2. Stage' = Stage
    BY <1>1, <1>2, <2>1, StageMovesAlone DEF StageOf, CalledPCs, ReleasePCs
  <2>3. UNCHANGED <<mAllowedNewData, life, op, ele, ret>>
    BY <1>3 DEF ReleaseLock, ReleaseFlush, ReleaseConds, ReleaseUnlock
  <2>4. list' = <<>> \/ list' = list
    BY <1>3 DEF ReleaseLock, ReleaseFlush, ReleaseConds, ReleaseUnlock, Flushed, data
  <2> QED
    BY <1>2, <2>2, <2>3, <2>4 DEF Promise!Empty, Promise!vars
<1>4. CASE ReleaseMutex(t)
  <2>1. Stage' = [Stage EXCEPT ![t] = "idle"]
    BY <1>1, <1>4, StageMovesAlone DEF ReleaseMutex, StageOf
  <2> QED
    BY <1>1, <1>2, <1>4, <2>1, ReturnMaps DEF ReleaseMutex, data
<1> QED
  BY <1>3, <1>4

(* The next queue.                                                         *)
LEMMA ConstructMaps ==
  ASSUME NEW t \in Threads, Construct(t)
  PROVE  Promise!Renew
<1>1. Stage' = Stage
  BY DEF Construct, Stage
<1> QED
  BY <1>1 DEF Construct, Promise!Renew

(* Every step of Queue is one of QueueSpec or leaves what it shows alone.  *)
LEMMA StepMaps == RInv /\ [Next]_vars => [Promise!Next]_(Promise!vars)
<1> SUFFICES ASSUME RInv, [Next]_vars PROVE [Promise!Next]_(Promise!vars)
  OBVIOUS
<1>1. CASE UNCHANGED vars
  <2>1. Stage' = Stage
    BY <1>1 DEF vars, Stage
  <2> QED
    BY <1>1, <2>1 DEF vars, data, Promise!vars
<1>2. ASSUME NEW t \in Threads, Call(t) PROVE Promise!Next
  BY <1>2, CallMaps DEF Promise!Next
<1>3. ASSUME NEW t \in Threads, Lock(t) \/ SpuriousWakeup(t) \/ PushWait(t) \/ PopWait(t)
      PROVE  UNCHANGED Promise!vars
  BY <1>3, WaitingIsHidden
<1>4. ASSUME NEW t \in Threads, PushRefused(t) \/ PushInsert(t) \/ PopRefused(t) \/ PopTake(t)
      PROVE  Promise!Next
  BY <1>4, PushRefusedMaps, PushInsertMaps, PopRefusedMaps, PopTakeMaps DEF Promise!Next
<1>5. ASSUME NEW t \in Threads, Peek(t) \/ Flush(t) \/ Query(t) \/ SetAllowed(t)
      PROVE  Promise!Next
  BY <1>5, PeekMaps, FlushMaps, QueryMaps, SetAllowedMaps DEF Promise!Next
<1>6. ASSUME NEW t \in Threads,
             Unlock(t) \/ CheckAllowed(t) \/ BroadcastGet(t) \/ BroadcastPut(t)
      PROVE  [Promise!Next]_(Promise!vars)
  BY <1>6, UnlockMaps, BroadcastsMap DEF Promise!Next
<1>7. ASSUME NEW t \in Threads,
             \/ ReleaseLock(t) \/ ReleaseFlush(t) \/ ReleaseConds(t)
             \/ ReleaseUnlock(t) \/ ReleaseMutex(t)
      PROVE  [Promise!Next]_(Promise!vars)
  BY <1>7, ReleaseMaps DEF Promise!Next
<1>8. ASSUME NEW t \in Threads, Construct(t) PROVE Promise!Next
  BY <1>8, ConstructMaps DEF Promise!Next
<1> QED
  BY <1>1, <1>2, <1>3, <1>4, <1>5, <1>6, <1>7, <1>8 DEF Next, Step

(* Every call on a Queue, blocking or not, is atomic between its           *)
(* invocation and its return, as QueueSpec says: for any number of         *)
(* threads, any capability, sorted or not.                                 *)
THEOREM CallsAreAtomic == Spec => ImplementsPromise
<1>1. Init => Promise!Init
  BY InitMaps
<1>2. RInv /\ [Next]_vars => [Promise!Next]_(Promise!vars)
  BY StepMaps
<1> QED
  BY <1>1, <1>2, RefinementInvariant, PTL DEF Spec, ImplementsPromise, Promise!Spec
=============================================================================
