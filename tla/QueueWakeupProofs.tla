------------------------- MODULE QueueWakeupProofs -------------------------
(***************************************************************************)
(* No wakeup of a getter is lost, and closing the queue reaches everybody  *)
(* who waits in it: for every number of threads and every capability.      *)
(***************************************************************************)
EXTENDS QueueProofs, QueueLive

(* The getters that will look at the list again.                           *)
Getters == Coming("popAndWait")

(* Only popAndWait blocks on mCondGet and only pushAndWait on mCondPut: a  *)
(* signal to one of them never wakes a thread of the other kind.           *)
Roles ==
  \A t \in Threads :
    /\ pc[t] = "waitGet" => op[t] = "popAndWait"
    /\ pc[t] = "waitPut" => op[t] = "pushAndWait"

(* Only getters block on mCondGet, only putters on mCondPut.               *)
LEMMA RolesStep == IInv /\ Roles /\ [Next]_vars => Roles'
<1> SUFFICES ASSUME IInv, Roles, [Next]_vars PROVE Roles'
  OBVIOUS
<1>1. CASE UNCHANGED vars
  BY <1>1 DEF vars, Roles
<1>2. ASSUME NEW t \in Threads, Call(t) \/ Step(t) \/ SpuriousWakeup(t) \/ Construct(t)
      PROVE  Roles'
  BY <1>2, StepMoves DEF Roles
<1> QED
  BY <1>1, <1>2 DEF Next
-----------------------------------------------------------------------------
(***************************************************************************)
(* Closing the queue                                                       *)
(***************************************************************************)

(* A setAllowedNewData(false) that has yet to broadcast to mCondGet, and   *)
(* one that has yet to broadcast to mCondPut.                              *)
WillWakeGetters(t) == At(t, "unlock", {"close", "release"}) \/ pc[t] \in {"check", "bcastGet"}
WillWakePutters(t) == WillWakeGetters(t) \/ pc[t] = "bcastPut"

(* Whatever closes, reopens or blocks, a broadcast stays due.              *)
LEMMA CloseStep == IInv /\ CloseReachesWaiters /\ [Next]_vars => CloseReachesWaiters'
<1> SUFFICES ASSUME IInv, CloseReachesWaiters, [Next]_vars PROVE CloseReachesWaiters'
  OBVIOUS
<1>0. ASSUME \/ mAllowedNewData'
             \/ /\ Waiting("waitGet")' # {} => \E u \in Threads : WillWakeGetters(u)'
                /\ Waiting("waitPut")' # {} => \E u \in Threads : WillWakePutters(u)'
      PROVE  CloseReachesWaiters'
  BY <1>0 DEF CloseReachesWaiters, WillWakeGetters, WillWakePutters
<1>1. CASE UNCHANGED vars
  BY <1>1 DEF vars, CloseReachesWaiters, Waiting, At
<1>2. ASSUME NEW t \in Threads, Call(t) \/ Step(t) \/ SpuriousWakeup(t) \/ Construct(t),
             ~mAllowedNewData'
      PROVE  /\ Waiting("waitGet")' # {} => \E u \in Threads : WillWakeGetters(u)'
             /\ Waiting("waitPut")' # {} => \E u \in Threads : WillWakePutters(u)'
  <2> USE DEF IInv, TypeOK
  <2>1. CASE SetAllowed(t)
    <3>1. op'[t] \in {"close", "release"} /\ pc'[t] = "unlock"
      BY <1>2, <2>1 DEF SetAllowed, Result, At, SetOps
    <3> QED
      BY <3>1 DEF WillWakeGetters, WillWakePutters, At
  <2>2. CASE ~SetAllowed(t)
    <3>1. ~mAllowedNewData
      BY <1>2, <2>2 DEF Step, Call, Lock, Unlock, SpuriousWakeup, Construct, PushRefused,
         PushWait, PushInsert, PopRefused, PopWait, PopTake, Peek, Flush, Query, CheckAllowed,
         BroadcastGet, BroadcastPut, ReleaseLock, ReleaseFlush, ReleaseConds, ReleaseUnlock,
         ReleaseMutex, Answer, CondWait, SetDone
    <3>2. /\ Waiting("waitGet") # {} => \E u \in Threads : WillWakeGetters(u)
          /\ Waiting("waitPut") # {} => \E u \in Threads : WillWakePutters(u)
      BY <3>1 DEF CloseReachesWaiters, WillWakeGetters, WillWakePutters
    <3>3. /\ Waiting("waitGet")' \subseteq Waiting("waitGet")
          /\ Waiting("waitPut")' \subseteq Waiting("waitPut")
      <4>1. pc'[t] \in {"waitGet", "waitPut"} => pc'[t] = pc[t]
        BY <1>2, <3>1, StepMoves
      <4> QED
        BY <1>2, <4>1, StepMoves DEF Waiting
    <3>4. \A u \in Threads \ {t} :
            /\ WillWakeGetters(u) => WillWakeGetters(u)'
            /\ WillWakePutters(u) => WillWakePutters(u)'
      BY <1>2, StepMoves DEF WillWakeGetters, WillWakePutters, At
    <3>5. CASE ~WillWakePutters(t)
      BY <3>2, <3>3, <3>4, <3>5 DEF WillWakeGetters, WillWakePutters
    <3>6. CASE At(t, "unlock", {"close", "release"})
      <4>1. Unlock(t) /\ op[t] \in SetOps
        BY <1>2, <3>6, StepAt DEF At, SetOps
      <4>2. pc'[t] = "check"
        BY <4>1 DEF Unlock
      <4> QED
        BY <4>2 DEF WillWakeGetters, WillWakePutters
    <3>7. CASE pc[t] = "check"
      <4>1. pc'[t] = "bcastGet"
        BY <1>2, <3>1, <3>7, StepAt DEF CheckAllowed
      <4> QED
        BY <4>1 DEF WillWakeGetters, WillWakePutters
    <3>8. CASE pc[t] = "bcastGet"
      <4>1. BroadcastGet(t)
        BY <1>2, <3>8, StepAt
      <4>2. pc'[t] = "bcastPut" /\ Waiting("waitGet")' = {}
        BY <4>1 DEF BroadcastGet, Broadcast, Waiting
      <4> QED
        BY <4>2 DEF WillWakePutters
    <3>9. CASE pc[t] = "bcastPut"
      <4>1. BroadcastPut(t)
        BY <1>2, <3>9, StepAt
      <4>2. Waiting("waitPut")' = {}
        BY <4>1 DEF BroadcastPut, Broadcast, Waiting, AfterSet
      <4>3. ~WillWakeGetters(t)
        BY <3>9 DEF WillWakeGetters, At
      <4> QED
        BY <3>2, <3>3, <3>4, <4>2, <4>3
    <3> QED
      BY <3>5, <3>6, <3>7, <3>8, <3>9 DEF WillWakeGetters, WillWakePutters
  <2> QED
    BY <2>1, <2>2
<1> QED
  BY <1>0, <1>1, <1>2 DEF Next

(* While the queue is closed, every blocked thread has a broadcast coming: *)
(* for any number of threads that close, reopen, push and pop.             *)
THEOREM CloseReaches == Spec => []CloseReachesWaiters
<1>1. Init => CloseReachesWaiters
  BY DEF Init, CloseReachesWaiters
<1>2. IInv /\ CloseReachesWaiters /\ [Next]_vars => CloseReachesWaiters'
  BY CloseStep
<1> QED
  BY <1>1, <1>2, Invariant, PTL DEF Spec
-----------------------------------------------------------------------------
(***************************************************************************)
(* Getters and elements                                                    *)
(***************************************************************************)
LEMMA GettersFinite ==
  ASSUME NEW S, S \subseteq Threads
  PROVE  IsFiniteSet(S) /\ Cardinality(S) \in Nat
BY QueueAssumption, FS_Subset, FS_CardinalityType

(* NoLostGet survives a step that queues nothing, blocks no getter and     *)
(* turns none away.                                                        *)
LEMMA NoLostGetFrame ==
  ASSUME NoLostGet, mUsedElementCnts' = mUsedElementCnts, mUsedElementCnts \in Nat,
         Waiting("waitGet")' # {} => Waiting("waitGet") # {},
         Getters \subseteq Getters'
  PROVE  NoLostGet'
<1>1. Getters \subseteq Threads /\ Getters' \subseteq Threads
  BY DEF Getters, Coming
<1>2. Cardinality(Getters) <= Cardinality(Getters') /\ Cardinality(Getters) \in Nat
      /\ Cardinality(Getters') \in Nat
  BY <1>1, GettersFinite, FS_Subset
<1>3. Waiting("waitGet")' # {} => mUsedElementCnts' <= Cardinality(Getters')
  BY <1>2 DEF NoLostGet, Getters
<1> QED
  BY <1>3 DEF NoLostGet, Getters

(* A push adds an element and a getter, a pop takes one of each.           *)
LEMMA NoLostGetStep == IInv /\ Roles /\ NoLostGet /\ [Next]_vars => NoLostGet'
<1> SUFFICES ASSUME IInv, Roles, NoLostGet, [Next]_vars PROVE NoLostGet'
  OBVIOUS
<1> USE DEF IInv, TypeOK
<1>0. ASSUME Waiting("waitGet")' = {} \/ mUsedElementCnts' = 0
      PROVE  NoLostGet'
  <2>1. Getters' \subseteq Threads
    BY DEF Getters, Coming
  <2>2. Cardinality(Getters') \in Nat
    BY <2>1, GettersFinite
  <2>3. Waiting("waitGet")' # {} => mUsedElementCnts' <= Cardinality(Getters')
    BY <1>0, <2>2
  <2> QED
    BY <2>3 DEF NoLostGet, Getters
<1>1. CASE UNCHANGED vars
  BY <1>1 DEF vars, data, NoLostGet, Waiting, Coming
<1>2. ASSUME NEW t \in Threads, PushInsert(t) PROVE NoLostGet'
  <2>1. CASE Waiting("waitGet") = {}
    <3>1. Waiting("waitGet")' = {}
      BY <1>2, <2>1 DEF PushInsert, Signal, Waiting
    <3> QED
      BY <1>0, <3>1
  <2>2. CASE Waiting("waitGet") # {}
    <3>1. PICK w \in Waiting("waitGet") : pc' = [pc EXCEPT ![t] = "unlock", ![w] = "woken"]
      BY <1>2, <2>2 DEF PushInsert, Signal
    <3>2. w \in Threads /\ pc[w] = "waitGet" /\ op[w] = "popAndWait" /\ w # t
      BY <1>2, <3>1 DEF Waiting, Roles, PushInsert, At
    <3>3. op' = op /\ op[t] # "popAndWait"
      BY <1>2 DEF PushInsert, Result, At, PushOps
    <3>4. Getters' = Getters \cup {w} /\ w \notin Getters
      BY <3>1, <3>2, <3>3 DEF Getters, Coming
    <3>5. Getters \subseteq Threads
      BY DEF Getters, Coming
    <3>6. Cardinality(Getters') = Cardinality(Getters) + 1 /\ Cardinality(Getters) \in Nat
      BY <3>4, <3>5, GettersFinite, FS_AddElement
    <3>7. mUsedElementCnts' <= Cardinality(Getters')
      BY <1>2, <2>2, <3>6 DEF PushInsert, NoLostGet, Getters
    <3> QED
      BY <3>7 DEF NoLostGet, Getters
  <2> QED
    BY <2>1, <2>2
<1>3. ASSUME NEW t \in Threads, PopTake(t) PROVE NoLostGet'
  <2>1. op' = op /\ pc[t] = "body" /\ op[t] \in PopOps
    BY <1>3 DEF PopTake, Result, At
  <2>2. pc' \in [Threads -> PCs] /\ pc'[t] = "unlock"
        /\ \A u \in Threads \ {t} : pc'[u] = pc[u] \/ (pc[u] = "waitPut" /\ pc'[u] = "woken")
    BY <1>3, <2>1, WakeupEffect DEF PopTake, PCs
  <2>3. Getters' = Getters \ {t}
    BY <2>1, <2>2 DEF Getters, Coming, Roles
  <2>4. Waiting("waitGet")' # {} => Waiting("waitGet") # {}
    BY <2>2 DEF Waiting
  <2>5. Getters \subseteq Threads
    BY DEF Getters, Coming
  <2>6. /\ Cardinality(Getters') \in Nat /\ Cardinality(Getters) \in Nat
        /\ Cardinality(Getters') >= Cardinality(Getters) - 1
    <3>1. IsFiniteSet(Getters) /\ Cardinality(Getters) \in Nat
      BY <2>5, GettersFinite
    <3>2. Cardinality(Getters \ {t}) =
            IF t \in Getters THEN Cardinality(Getters) - 1 ELSE Cardinality(Getters)
      BY <3>1, FS_RemoveElement
    <3>3. Getters' \subseteq Threads
      BY DEF Getters, Coming
    <3>4. Cardinality(Getters') \in Nat
      BY <3>3, GettersFinite
    <3> QED
      BY <2>3, <3>1, <3>2, <3>4
  <2>7. Waiting("waitGet")' # {} => mUsedElementCnts' <= Cardinality(Getters')
    BY <1>3, <2>4, <2>6 DEF PopTake, NoLostGet, Getters
  <2> QED
    BY <2>7 DEF NoLostGet, Getters
<1>4. ASSUME NEW t \in Threads, Flush(t) \/ ReleaseFlush(t) \/ Construct(t) PROVE NoLostGet'
  BY <1>0, <1>4 DEF Flush, ReleaseFlush, Construct, Flushed
<1>5. ASSUME NEW t \in Threads, PopRefused(t) \/ PopWait(t) PROVE NoLostGet'
  <2>1. mUsedElementCnts' = 0
    BY <1>5 DEF PopRefused, PopWait, Answer, CondWait, data
  <2> QED
    BY <1>0, <2>1
<1>6. ASSUME NEW t \in Threads, BroadcastGet(t) PROVE NoLostGet'
  <2>1. Waiting("waitGet")' = {}
    BY <1>6 DEF BroadcastGet, Broadcast, Waiting
  <2> QED
    BY <1>0, <2>1
<1>7. ASSUME NEW t \in Threads, QuietStep(t),
             ~PopRefused(t), ~PopWait(t), ~BroadcastGet(t)
      PROVE  NoLostGet'
  <2>1. mUsedElementCnts' = mUsedElementCnts /\ mUsedElementCnts \in Nat
    BY <1>7, QuietKeepsData DEF data
  <2>2. /\ pc'[t] # "waitGet"
        /\ t \in Getters => t \in Getters'
    <3>1. CASE Call(t) \/ Lock(t) \/ Unlock(t) \/ SpuriousWakeup(t)
      BY <3>1 DEF Call, Lock, Unlock, SpuriousWakeup, Getters, Coming
    <3>2. CASE PushRefused(t) \/ PushWait(t) \/ Query(t) \/ SetAllowed(t)
      BY <3>2 DEF PushRefused, PushWait, Query, SetAllowed, At, Answer, CondWait,
                  PushOps, QueryOps, SetOps, Getters, Coming
    <3>3. CASE Peek(t)
      BY <3>3 DEF Peek, At, Answer, Getters, Coming
    <3>4. CASE CheckAllowed(t) \/ BroadcastPut(t)
      BY <3>4 DEF CheckAllowed, BroadcastPut, Broadcast, AfterSet, Getters, Coming
    <3>5. CASE ReleaseLock(t) \/ ReleaseConds(t) \/ ReleaseUnlock(t) \/ ReleaseMutex(t)
      BY <3>5 DEF ReleaseLock, ReleaseConds, ReleaseUnlock, ReleaseMutex, Getters, Coming
    <3> QED
      BY <1>7, <3>1, <3>2, <3>3, <3>4, <3>5 DEF QuietStep
  <2>3. \A u \in Threads \ {t} :
          /\ op'[u] = op[u]
          /\ pc'[u] = pc[u] \/ (pc[u] \in {"waitGet", "waitPut"} /\ pc'[u] = "woken")
    BY <1>7, StepMoves DEF QuietStep, Step
  <2>4. Waiting("waitGet")' # {} => Waiting("waitGet") # {}
    BY <2>2, <2>3 DEF Waiting
  <2>5. Getters \subseteq Getters'
    BY <2>2, <2>3 DEF Getters, Coming
  <2> QED
    BY <2>1, <2>4, <2>5, NoLostGetFrame
<1> QED
  BY <1>1, <1>2, <1>3, <1>4, <1>5, <1>6, <1>7, StepKinds

(* No lost wakeup in popAndWait, for any number of getters and putters:    *)
(* while one of them is blocked, every queued element has a getter of its  *)
(* own that will look at the list again.                                   *)
THEOREM NoGetLost == Spec => []NoLostGet
<1>1. Init => Roles /\ NoLostGet
  <2>1. ASSUME Init PROVE Waiting("waitGet") = {} /\ Roles
    BY <2>1 DEF Init, Waiting, Roles
  <2> QED
    BY <2>1 DEF NoLostGet
<1>2. IInv /\ Roles /\ NoLostGet /\ [Next]_vars => Roles' /\ NoLostGet'
  BY RolesStep, NoLostGetStep
<1> QED
  BY <1>1, <1>2, Invariant, PTL DEF Spec
-----------------------------------------------------------------------------
(***************************************************************************)
(* Putters and free places                                                 *)
(***************************************************************************)

(* The callers NoLostPut is about: nobody flushes, which empties the queue *)
(* without a signal; nobody reopens a queue, which would call off the      *)
(* broadcast due to those that wait in it; and no putter that was          *)
(* signalled gives up for want of memory.                                  *)
NobodyGivesUp ==
  /\ ~AllocMayFail
  /\ \A t \in Threads : MayCall[t] \cap (FlushOps \cup {"allow"}) = {}

(* A thread is in an operation it calls.                                   *)
CallsItsOwn == \A t \in Threads : op[t] # "none" => op[t] \in MayCall[t]

(* Once the destructor has closed the queue it is closed until the next    *)
(* one is built, and nobody is blocked on mCondPut when it destroys that.  *)
StaysClosed ==
  /\ \A t \in Threads :
       /\ op[t] = "release" /\ pc[t] \notin {"lock", "body"} => ~mAllowedNewData
       /\ pc[t] \in {"relUnlock", "relMutex"} => Waiting("waitPut") = {}
  /\ life = "dead" => ~mAllowedNewData /\ Waiting("waitPut") = {}

PInv == IInv /\ Releasing /\ Roles /\ CallsItsOwn /\ StaysClosed

(* Operations are entered by their calls only.                             *)
LEMMA CallsItsOwnStep ==
  IInv /\ Releasing /\ CallsItsOwn /\ [Next]_vars => CallsItsOwn'
<1> SUFFICES ASSUME IInv, Releasing, CallsItsOwn, [Next]_vars PROVE CallsItsOwn'
  OBVIOUS
<1> USE DEF IInv, TypeOK
<1>1. CASE op' = op
  BY <1>1 DEF CallsItsOwn
<1>2. ASSUME NEW t \in Threads, Call(t) PROVE CallsItsOwn'
  BY <1>2 DEF Call, CallsItsOwn
<1>3. ASSUME NEW t \in Threads, Step(t) \/ SpuriousWakeup(t) PROVE CallsItsOwn'
  <2>1. op' = op \/ op' = [op EXCEPT ![t] = "none"]
    BY <1>3, StepInside DEF ReleaseMutex, Return
  <2> QED
    BY <2>1 DEF CallsItsOwn
<1>4. ASSUME NEW t \in Threads, Construct(t) PROVE CallsItsOwn'
  BY <1>1, <1>4 DEF Construct
<1>5. CASE UNCHANGED vars
  BY <1>1, <1>5 DEF vars
<1> QED
  BY <1>2, <1>3, <1>4, <1>5 DEF Next

(* Only setAllowedNewData(true) reopens a queue.                           *)
LEMMA OnlyAllowReopens ==
  ASSUME NEW t \in Threads, Call(t) \/ Step(t) \/ SpuriousWakeup(t),
         ~mAllowedNewData, mAllowedNewData'
  PROVE  op[t] = "allow"
<1>1. CASE SetAllowed(t)
  BY <1>1 DEF SetAllowed
<1>2. CASE Peek(t)
  BY <1>2 DEF Peek, Answer
<1> QED
  BY <1>1, <1>2 DEF Step, Call, Lock, Unlock, SpuriousWakeup, PushRefused, PushWait,
     PushInsert, PopRefused, PopWait, PopTake, Flush, Query, CheckAllowed, BroadcastGet,
     BroadcastPut, ReleaseLock, ReleaseFlush, ReleaseConds, ReleaseUnlock, ReleaseMutex,
     Answer, CondWait, SetDone

(* What the destructor does in its body is to close the queue.             *)
LEMMA ReleaseCloses ==
  ASSUME TypeOK, NEW t \in Threads, Call(t) \/ Step(t) \/ SpuriousWakeup(t),
         op[t] = "release", pc[t] \in {"lock", "body"}
  PROVE  pc'[t] = "body" \/ ~mAllowedNewData'
<1>1. CASE SetAllowed(t)
  BY <1>1 DEF SetAllowed
<1>2. CASE Lock(t)
  BY <1>2 DEF Lock, TypeOK
<1> QED
  BY <1>1, <1>2 DEF Step, Call, At, Unlock, SpuriousWakeup, PushRefused, PushWait,
     PushInsert, PopRefused, PopWait, PopTake, Peek, Flush, Query, CheckAllowed, BroadcastGet,
     BroadcastPut, ReleaseLock, ReleaseFlush, ReleaseConds, ReleaseUnlock, ReleaseMutex,
     PushOps, PopOps, FlushOps, QueryOps

(* The destructor begins to destroy the condition variables when nobody is *)
(* blocked on them, and the mutex after that.                              *)
LEMMA ReleaseOrder ==
  ASSUME IInv, NEW t \in Threads, Step(t) \/ SpuriousWakeup(t)
  PROVE  /\ pc'[t] = "relUnlock" => pc[t] = "relConds" /\ Waiting("waitPut") = {}
         /\ pc'[t] = "relMutex" => pc[t] = "relUnlock"
         /\ life' = "dead" => life = "dead" \/ pc[t] = "relMutex"
<1> USE DEF IInv, TypeOK
<1>1. CASE Lock(t) \/ Unlock(t) \/ SpuriousWakeup(t) \/ PushWait(t) \/ PopWait(t)
  BY <1>1 DEF Lock, Unlock, SpuriousWakeup, PushWait, PopWait, CondWait
<1>2. CASE PushRefused(t) \/ PopRefused(t) \/ Query(t)
  BY <1>2 DEF PushRefused, PopRefused, Query, Answer, Result
<1>3. CASE Peek(t)
  BY <1>3 DEF Peek, Answer, Result
<1>4. CASE PushInsert(t)
  BY <1>4, WakeupEffect DEF PushInsert, Result, At, PCs
<1>5. CASE PopTake(t)
  BY <1>5, WakeupEffect DEF PopTake, Result, At, PCs
<1>6. CASE Flush(t) \/ SetAllowed(t)
  BY <1>6 DEF Flush, SetAllowed, Result
<1>7. CASE CheckAllowed(t)
  BY <1>7 DEF CheckAllowed, AfterSet, SetDone
<1>8. CASE BroadcastGet(t)
  BY <1>8, WakeupEffect DEF BroadcastGet, PCs
<1>9. CASE BroadcastPut(t)
  BY <1>9, WakeupEffect DEF BroadcastPut, AfterSet, SetDone, PCs
<1>10. CASE \/ ReleaseLock(t) \/ ReleaseFlush(t) \/ ReleaseConds(t)
            \/ ReleaseUnlock(t) \/ ReleaseMutex(t)
  BY <1>10 DEF ReleaseLock, ReleaseFlush, ReleaseConds, ReleaseUnlock, ReleaseMutex
<1> QED
  BY <1>1, <1>2, <1>3, <1>4, <1>5, <1>6, <1>7, <1>8, <1>9, <1>10 DEF Step

(* As nobody reopens the queue, what the destructor has closed stays so.   *)
LEMMA StaysClosedStep ==
  NobodyGivesUp /\ PInv /\ [Next]_vars => StaysClosed'
<1> SUFFICES ASSUME NobodyGivesUp, PInv, [Next]_vars PROVE StaysClosed'
  OBVIOUS
<1> USE DEF PInv, IInv, TypeOK
<1>0. life # "dying" => \A t \in Threads : op[t] # "release" /\ pc[t] \notin ReleasePCs
  BY DEF Releasing
<1>1. CASE UNCHANGED vars
  BY <1>1 DEF vars, StaysClosed, Waiting
<1>2. ASSUME NEW t \in Threads, Construct(t) PROVE StaysClosed'
  BY <1>0, <1>2 DEF Construct, StaysClosed, ReleasePCs
<1>3. ASSUME NEW t \in Threads, Call(t) PROVE StaysClosed'
  BY <1>0, <1>3 DEF Call, StaysClosed, ReleasePCs
<1>4. ASSUME NEW t \in Threads, Step(t) \/ SpuriousWakeup(t) PROVE StaysClosed'
  <2>1. ~mAllowedNewData => ~mAllowedNewData'
    <3>1. op[t] # "allow"
      BY DEF CallsItsOwn, NobodyGivesUp
    <3> QED
      BY <1>4, <3>1, OnlyAllowReopens
  <2>2. ~mAllowedNewData /\ Waiting("waitPut") = {} => Waiting("waitPut")' = {}
    BY <1>4, StepMoves DEF Waiting
  <2>3. op' = op \/ op' = [op EXCEPT ![t] = "none"]
    BY <1>4, StepInside DEF ReleaseMutex, Return
  <2>4. \A u \in Threads \ {t} :
          pc'[u] = pc[u] \/ (pc[u] \in {"waitGet", "waitPut"} /\ pc'[u] = "woken")
    BY <1>4, StepMoves
  <2>5. ASSUME NEW u \in Threads, op'[u] = "release", pc'[u] \notin {"lock", "body"}
        PROVE  ~mAllowedNewData'
    <3>1. op[u] = "release"
      BY <2>3, <2>5
    <3>2. CASE pc[u] \notin {"lock", "body"}
      BY <2>1, <3>1, <3>2 DEF StaysClosed
    <3>3. CASE pc[u] \in {"lock", "body"}
      <4>1. u = t
        BY <2>4, <2>5, <3>3
      <4> QED
        BY <1>4, <2>5, <3>1, <3>3, <4>1, ReleaseCloses
    <3> QED
      BY <3>2, <3>3
  <2>6. ASSUME NEW u \in Threads, pc'[u] \in {"relUnlock", "relMutex"}
        PROVE  Waiting("waitPut")' = {}
    <3>1. pc[u] \in {"relConds", "relUnlock", "relMutex"} /\ Waiting("waitPut") = {}
      <4>1. CASE u = t
        BY <1>4, <2>6, <4>1, ReleaseOrder DEF StaysClosed
      <4>2. CASE u # t
        BY <2>4, <2>6, <4>2 DEF StaysClosed
      <4> QED
        BY <4>1, <4>2
    <3>2. ~mAllowedNewData
      BY <3>1 DEF Releasing, ReleasePCs, StaysClosed
    <3> QED
      BY <2>2, <3>1, <3>2
  <2>7. ASSUME life' = "dead" PROVE ~mAllowedNewData' /\ Waiting("waitPut")' = {}
    <3>1. life = "dead" \/ pc[t] = "relMutex"
      BY <1>4, <2>7, ReleaseOrder
    <3>2. ~mAllowedNewData /\ Waiting("waitPut") = {}
      BY <3>1 DEF Releasing, ReleasePCs, StaysClosed
    <3> QED
      BY <2>1, <2>2, <3>2
  <2> QED
    BY <2>5, <2>6, <2>7 DEF StaysClosed
<1> QED
  BY <1>1, <1>2, <1>3, <1>4 DEF Next

(* The putters that will look at the list again, and the free places.      *)
Putters == Coming("pushAndWait")
Free == Capability - mUsedElementCnts

(* NoLostPut survives a step that frees no place, reopens nothing, blocks  *)
(* no putter and turns none away.                                          *)
LEMMA NoLostPutFrame ==
  ASSUME NoLostPut, mUsedElementCnts' = mUsedElementCnts, mUsedElementCnts \in Nat,
         mAllowedNewData' => mAllowedNewData,
         Waiting("waitPut")' # {} => Waiting("waitPut") # {},
         mAllowedNewData' => Putters \subseteq Putters'
  PROVE  NoLostPut'
<1> SUFFICES ASSUME Waiting("waitPut")' # {}, mAllowedNewData'
             PROVE  (Free <= Cardinality(Putters))'
  BY DEF NoLostPut, Putters, Free
<1>1. Putters \subseteq Threads /\ Putters' \subseteq Threads /\ Putters \subseteq Putters'
  BY DEF Putters, Coming
<1>2. Cardinality(Putters) <= Cardinality(Putters') /\ Cardinality(Putters) \in Nat
      /\ Cardinality(Putters') \in Nat
  BY <1>1, GettersFinite, FS_Subset
<1>3. Free <= Cardinality(Putters) /\ Free \in Int /\ Free' = Free
  BY QueueAssumption DEF NoLostPut, Putters, Free
<1> QED
  BY <1>2, <1>3

(* A pop frees a place and wakes a putter, a push takes one of each.       *)
LEMMA NoLostPutStep ==
  NobodyGivesUp /\ PInv /\ NoLostPut /\ [Next]_vars => NoLostPut'
<1> SUFFICES ASSUME NobodyGivesUp, PInv, NoLostPut, [Next]_vars PROVE NoLostPut'
  OBVIOUS
<1> USE QueueAssumption DEF PInv, IInv, TypeOK
<1>0. ASSUME Waiting("waitPut")' = {} \/ ~mAllowedNewData' PROVE NoLostPut'
  BY <1>0 DEF NoLostPut
<1>1. CASE UNCHANGED vars
  <2>1. NoLostPut' = NoLostPut
    BY <1>1 DEF vars, data, NoLostPut, Waiting, Coming
  <2> QED
    BY <2>1
<1>2. ASSUME NEW t \in Threads, PushInsert(t) PROVE NoLostPut'
  <2>1. op' = op /\ pc[t] = "body" /\ mAllowedNewData' = mAllowedNewData
    BY <1>2 DEF PushInsert, Result, At
  <2>2. /\ pc' \in [Threads -> PCs] /\ pc'[t] = "unlock"
        /\ \A u \in Threads \ {t} :
             pc'[u] = pc[u] \/ (pc[u] = "waitGet" /\ pc'[u] = "woken")
    BY <1>2, <2>1, WakeupEffect DEF PushInsert, PCs
  <2>3. Putters' = Putters \ {t}
    BY <2>1, <2>2 DEF Putters, Coming, Roles
  <2>4. Waiting("waitPut")' # {} => Waiting("waitPut") # {}
    BY <2>2 DEF Waiting
  <2>5. /\ Cardinality(Putters') \in Nat /\ Cardinality(Putters) \in Nat
        /\ Cardinality(Putters') >= Cardinality(Putters) - 1
    <3>1. Putters \subseteq Threads /\ Putters' \subseteq Threads
      BY DEF Putters, Coming
    <3>2. IsFiniteSet(Putters) /\ Cardinality(Putters) \in Nat /\ Cardinality(Putters') \in Nat
      BY <3>1, GettersFinite
    <3>3. Cardinality(Putters \ {t}) =
            IF t \in Putters THEN Cardinality(Putters) - 1 ELSE Cardinality(Putters)
      BY <3>2, FS_RemoveElement
    <3> QED
      BY <2>3, <3>2, <3>3
  <2>6. Free' = Free - 1 /\ Free \in Int
    BY <1>2 DEF PushInsert, Free
  <2>7. ASSUME Waiting("waitPut")' # {}, mAllowedNewData'
        PROVE  Free' <= Cardinality(Putters')
    <3>1. Free <= Cardinality(Putters)
      BY <2>1, <2>4, <2>7 DEF NoLostPut, Free, Putters
    <3> QED
      BY <2>5, <2>6, <3>1
  <2> QED
    BY <2>7 DEF NoLostPut, Putters, Free
<1>3. ASSUME NEW t \in Threads, PopTake(t) PROVE NoLostPut'
  <2>1. CASE Waiting("waitPut") = {}
    <3>1. Waiting("waitPut")' = {}
      BY <1>3, <2>1 DEF PopTake, Signal, Waiting
    <3> QED
      BY <1>0, <3>1
  <2>2. CASE Waiting("waitPut") # {}
    <3>1. PICK w \in Waiting("waitPut") : pc' = [pc EXCEPT ![t] = "unlock", ![w] = "woken"]
      BY <1>3, <2>2 DEF PopTake, Signal
    <3>2. w \in Threads /\ pc[w] = "waitPut" /\ op[w] = "pushAndWait" /\ w # t
      BY <1>3, <3>1 DEF Waiting, Roles, PopTake, At
    <3>3. op' = op /\ op[t] # "pushAndWait" /\ mAllowedNewData' = mAllowedNewData
      BY <1>3 DEF PopTake, Result, At, PopOps
    <3>4. Putters' = Putters \cup {w} /\ w \notin Putters
      BY <3>1, <3>2, <3>3 DEF Putters, Coming
    <3>5. Putters \subseteq Threads
      BY DEF Putters, Coming
    <3>6. Cardinality(Putters') = Cardinality(Putters) + 1 /\ Cardinality(Putters) \in Nat
      BY <3>4, <3>5, GettersFinite, FS_AddElement
    <3>7. Free' = Free + 1 /\ Free \in Int
      BY <1>3 DEF PopTake, Free
    <3>8. mAllowedNewData' => Free <= Cardinality(Putters)
      BY <2>2, <3>3 DEF NoLostPut, Putters, Free
    <3>9. mAllowedNewData' => Free' <= Cardinality(Putters')
      BY <3>6, <3>7, <3>8
    <3> QED
      BY <3>9 DEF NoLostPut, Putters, Free
  <2> QED
    BY <2>1, <2>2
<1>4. ASSUME NEW t \in Threads, Flush(t) PROVE NoLostPut'
  BY <1>4 DEF Flush, At, CallsItsOwn, NobodyGivesUp, FlushOps
<1>5. ASSUME NEW t \in Threads, ReleaseFlush(t) PROVE NoLostPut'
  <2>1. ~mAllowedNewData
    BY <1>5 DEF ReleaseFlush, Releasing, ReleasePCs, StaysClosed
  <2>2. ~mAllowedNewData'
    BY <1>5, <2>1 DEF ReleaseFlush
  <2> QED
    BY <1>0, <2>2
<1>6. ASSUME NEW t \in Threads, Construct(t) PROVE NoLostPut'
  <2>1. Waiting("waitPut")' = {}
    BY <1>6 DEF Construct, StaysClosed, Waiting
  <2> QED
    BY <1>0, <2>1
<1>7. ASSUME NEW t \in Threads, PushWait(t) PROVE NoLostPut'
  <2>1. Free' = 0
    BY <1>7 DEF PushWait, IsFull, CondWait, data, Free
  <2>2. Putters' \subseteq Threads
    BY DEF Putters, Coming
  <2>3. Cardinality(Putters') \in Nat
    BY <2>2, GettersFinite
  <2>4. Free' <= Cardinality(Putters')
    BY <2>1, <2>3
  <2> QED
    BY <2>4 DEF NoLostPut, Putters, Free
<1>8. ASSUME NEW t \in Threads, BroadcastPut(t) PROVE NoLostPut'
  <2>1. Waiting("waitPut")' = {}
    BY <1>8 DEF BroadcastPut, Broadcast, Waiting, AfterSet
  <2> QED
    BY <1>0, <2>1
<1>9. ASSUME NEW t \in Threads, QuietStep(t), ~PushWait(t), ~BroadcastPut(t)
      PROVE  NoLostPut'
  <2>1. mUsedElementCnts' = mUsedElementCnts /\ mUsedElementCnts \in Nat
    BY <1>9, QuietKeepsData DEF data
  <2>2. mAllowedNewData' => mAllowedNewData
    <3>1. op[t] # "allow"
      BY DEF CallsItsOwn, NobodyGivesUp
    <3> QED
      BY <1>9, <3>1, OnlyAllowReopens DEF QuietStep, Step
  <2>3. /\ pc'[t] # "waitPut"
        /\ mAllowedNewData' /\ t \in Putters => t \in Putters'
    <3>1. CASE Call(t) \/ Lock(t) \/ Unlock(t) \/ SpuriousWakeup(t)
      BY <3>1 DEF Call, Lock, Unlock, SpuriousWakeup, Putters, Coming
    <3>2. CASE PushRefused(t)
      BY <3>2 DEF PushRefused, Answer, NobodyGivesUp, Putters, Coming
    <3>3. CASE PopRefused(t) \/ PopWait(t) \/ Query(t) \/ SetAllowed(t)
      BY <3>3 DEF PopRefused, PopWait, Query, SetAllowed, At, Answer, CondWait,
                  QueryOps, SetOps, Putters, Coming
    <3>4. CASE Peek(t)
      BY <3>4 DEF Peek, At, Answer, Putters, Coming
    <3>5. CASE CheckAllowed(t) \/ BroadcastGet(t)
      BY <3>5 DEF CheckAllowed, BroadcastGet, Broadcast, AfterSet, Putters, Coming
    <3>6. CASE ReleaseLock(t) \/ ReleaseConds(t) \/ ReleaseUnlock(t) \/ ReleaseMutex(t)
      BY <3>6 DEF ReleaseLock, ReleaseConds, ReleaseUnlock, ReleaseMutex, Putters, Coming
    <3> QED
      BY <1>9, <3>1, <3>2, <3>3, <3>4, <3>5, <3>6 DEF QuietStep
  <2>4. \A u \in Threads \ {t} :
          /\ op'[u] = op[u]
          /\ pc'[u] = pc[u] \/ (pc[u] \in {"waitGet", "waitPut"} /\ pc'[u] = "woken")
    BY <1>9, StepMoves DEF QuietStep, Step
  <2>5. Waiting("waitPut")' # {} => Waiting("waitPut") # {}
    BY <2>3, <2>4 DEF Waiting
  <2>6. mAllowedNewData' => Putters \subseteq Putters'
    BY <2>3, <2>4 DEF Putters, Coming
  <2> QED
    BY <2>1, <2>2, <2>5, <2>6, NoLostPutFrame
<1> QED
  BY <1>1, <1>2, <1>3, <1>4, <1>5, <1>6, <1>7, <1>8, <1>9, StepKinds

(* All of it, from the first state on.                                     *)
LEMMA PutInit == Init => PInv /\ NoLostPut
<1> SUFFICES ASSUME Init PROVE PInv /\ NoLostPut
  OBVIOUS
<1>1. IInv
  BY InitIInv
<1>2. Waiting("waitPut") = {} /\ Roles /\ Releasing /\ CallsItsOwn /\ StaysClosed
  BY DEF Init, Waiting, Roles, Releasing, ReleasePCs, CallsItsOwn, StaysClosed
<1> QED
  BY <1>1, <1>2 DEF PInv, NoLostPut

LEMMA PutStep == NobodyGivesUp /\ PInv /\ NoLostPut /\ [Next]_vars => PInv' /\ NoLostPut'
<1> SUFFICES ASSUME NobodyGivesUp, PInv, NoLostPut, [Next]_vars PROVE PInv' /\ NoLostPut'
  OBVIOUS
<1>1. IInv' /\ Releasing' /\ Roles' /\ CallsItsOwn'
  BY IInvStep, ReleasingStep, RolesStep, CallsItsOwnStep DEF PInv
<1>2. StaysClosed' /\ NoLostPut'
  BY StaysClosedStep, NoLostPutStep
<1> QED
  BY <1>1, <1>2 DEF PInv

(* No lost wakeup in pushAndWait, for any number of threads, when nobody   *)
(* flushes, reopens or runs out of memory: while the queue is open and a   *)
(* putter is blocked, every free place has a putter of its own that will   *)
(* look at the list again.                                                 *)
THEOREM NoPutLost == NobodyGivesUp => (Spec => []NoLostPut)
<1> SUFFICES ASSUME NobodyGivesUp PROVE Spec => []NoLostPut
  OBVIOUS
<1>1. Init => PInv /\ NoLostPut
  BY PutInit
<1>2. PInv /\ NoLostPut /\ [Next]_vars => PInv' /\ NoLostPut'
  BY PutStep
<1> QED
  BY <1>1, <1>2, PTL DEF Spec

(* So it is under the scheduling of QueueLive, for any number of calls.    *)
THEOREM NoPutLostLive == NobodyGivesUp => (LiveSpec => []NoLostPut)
<1> SUFFICES ASSUME NobodyGivesUp PROVE LiveSpec => []NoLostPut
  OBVIOUS
<1>1. LiveInit => PInv /\ NoLostPut
  BY PutInit DEF LiveInit
<1>2. PInv /\ NoLostPut /\ [LiveNext]_liveVars => PInv' /\ NoLostPut'
  <2>1. [LiveNext]_liveVars => [Next]_vars
    BY DEF LiveNext, liveVars, Begin, Run, Next
  <2> QED
    BY <2>1, PutStep
<1> QED
  BY <1>1, <1>2, PTL DEF LiveSpec
=============================================================================
