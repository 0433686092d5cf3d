---------------------------- MODULE QueueProofs ----------------------------
(***************************************************************************)
(* Theorems about Queue for every number of threads, every set of elements *)
(* and every capability.                                                   *)
(***************************************************************************)
EXTENDS Queue, FiniteSetTheorems, SequenceTheorems, WellFoundedInduction, TLAPS

(***************************************************************************)
(* The sequence operators of _pushElement                                  *)
(***************************************************************************)

(* Linking a cell in keeps the queue a sequence, makes it one longer and   *)
(* keeps the order of the others.                                          *)
LEMMA InsertAtProperties ==
  ASSUME NEW S, NEW s \in Seq(S), NEW e \in S, NEW i \in 1..(Len(s) + 1)
  PROVE  /\ InsertAt(s, i, e) \in Seq(S)
         /\ Len(InsertAt(s, i, e)) = Len(s) + 1
         /\ \A k \in 1..(Len(s) + 1) :
              InsertAt(s, i, e)[k] = IF k < i THEN s[k] ELSE IF k = i THEN e ELSE s[k-1]
<1> DEFINE left == SubSeq(s, 1, i-1)
           right == SubSeq(s, i, Len(s))
<1>0. Len(s) \in Nat
  BY LenProperties
<1>1. \A k \in 1..Len(s) : s[k] \in S
  BY ElementOfSeq
<1>2. /\ left \in Seq(S)
      /\ Len(left) = i - 1
      /\ \A k \in 1..(i-1) : left[k] = s[k]
  <2>1. \A k \in 1..(i-1) : s[k] \in S
    BY <1>0, <1>1
  <2>2. /\ left \in Seq(S)
        /\ Len(left) = IF 1 <= i-1 THEN (i-1) - 1 + 1 ELSE 0
        /\ \A k \in 1..((i-1) - 1 + 1) : left[k] = s[1+k-1]
    BY <2>1, SubSeqProperties
  <2> QED
    BY <1>0, <2>2
<1>3. /\ right \in Seq(S)
      /\ Len(right) = Len(s) - i + 1
      /\ \A k \in 1..(Len(s) - i + 1) : right[k] = s[i+k-1]
  <2>1. \A k \in i..Len(s) : s[k] \in S
    BY <1>0, <1>1
  <2>2. /\ right \in Seq(S)
        /\ Len(right) = IF i <= Len(s) THEN Len(s) - i + 1 ELSE 0
        /\ \A k \in 1..(Len(s) - i + 1) : right[k] = s[i+k-1]
    BY <1>0, <2>1, SubSeqProperties
  <2> QED
    BY <1>0, <2>2
<1> HIDE DEF left, right
<1>4. <<e>> \in Seq(S) /\ Len(<<e>>) = 1 /\ <<e>>[1] = e
  OBVIOUS
<1>5. /\ left \o <<e>> \in Seq(S)
      /\ Len(left \o <<e>>) = i
      /\ \A k \in 1..i : (left \o <<e>>)[k] = IF k < i THEN s[k] ELSE e
  <2>1. /\ left \o <<e>> \in Seq(S)
        /\ Len(left \o <<e>>) = Len(left) + Len(<<e>>)
        /\ \A k \in 1..(Len(left) + Len(<<e>>)) :
             (left \o <<e>>)[k] = IF k <= Len(left) THEN left[k] ELSE <<e>>[k - Len(left)]
    BY <1>2, <1>4, ConcatProperties
  <2>2. ASSUME NEW k \in 1..i PROVE k - (i - 1) = 1 \/ k \in 1..(i-1)
    BY <1>0
  <2> QED
    BY <1>0, <1>2, <1>4, <2>1, <2>2
<1>6. InsertAt(s, i, e) = (left \o <<e>>) \o right
  BY DEF InsertAt, left, right
<1>7. /\ InsertAt(s, i, e) \in Seq(S)
      /\ Len(InsertAt(s, i, e)) = i + Len(right)
      /\ \A k \in 1..(i + Len(right)) :
           InsertAt(s, i, e)[k] = IF k <= i THEN (left \o <<e>>)[k] ELSE right[k - i]
  <2>1. /\ (left \o <<e>>) \o right \in Seq(S)
        /\ Len((left \o <<e>>) \o right) = Len(left \o <<e>>) + Len(right)
        /\ \A k \in 1..(Len(left \o <<e>>) + Len(right)) :
             ((left \o <<e>>) \o right)[k] =
               IF k <= Len(left \o <<e>>) THEN (left \o <<e>>)[k]
                                         ELSE right[k - Len(left \o <<e>>)]
    <3> DEFINE l == left \o <<e>>
    <3>1. l \in Seq(S)
      BY <1>5
    <3> HIDE DEF l
    <3>2. /\ l \o right \in Seq(S)
          /\ Len(l \o right) = Len(l) + Len(right)
          /\ \A k \in 1..(Len(l) + Len(right)) :
               (l \o right)[k] = IF k <= Len(l) THEN l[k] ELSE right[k - Len(l)]
      BY <1>3, <3>1, ConcatProperties
    <3> QED
      BY <3>2 DEF l
  <2> QED
    BY <1>5, <1>6, <2>1
<1>8. ASSUME NEW k \in 1..(Len(s) + 1)
      PROVE  InsertAt(s, i, e)[k] = IF k < i THEN s[k] ELSE IF k = i THEN e ELSE s[k-1]
  <2>1. CASE k <= i
    BY <1>0, <1>3, <1>5, <1>7, <2>1
  <2>2. CASE k > i
    <3>1. k - i \in 1..(Len(s) - i + 1) /\ i + (k - i) - 1 = k - 1
      BY <1>0, <2>2
    <3>2. right[k - i] = s[k - 1]
      BY <1>3, <3>1
    <3> QED
      BY <1>0, <1>3, <1>7, <2>2, <3>2
  <2> QED
    BY <1>0, <2>1, <2>2
<1> QED
  BY <1>0, <1>3, <1>7, <1>8

(* A set of naturals that is not empty has a least member.                 *)
LEMMA LeastNatural ==
  ASSUME NEW T \in SUBSET Nat, T # {}
  PROVE  \E n \in T : \A m \in T : n <= m
<1>1. PICK n \in T : \A m \in T : ~(<<m, n>> \in OpToRel(<, Nat))
  BY NatLessThanWellFounded, WFMin
<1>2. ASSUME NEW m \in T PROVE n <= m
  <2>1. ~(m < n)
    BY <1>1 DEF OpToRel
  <2> QED
    BY <2>1
<1> QED
  BY <1>2

(* The search of _pushElement always ends, at a place of the list or       *)
(* behind it; in a sorted queue that is the first place where it may stop. *)
LEMMA InsertPosProperties ==
  ASSUME NEW s \in Seq(Elements), NEW e \in Elements
  PROVE  /\ InsertPos(s, e) \in 1..(Len(s) + 1)
         /\ mSort /\ s # <<>> =>
              /\ StopsAt(s, e, InsertPos(s, e))
              /\ \A j \in 1..(InsertPos(s, e) - 1) : ~StopsAt(s, e, j)
<1>0. Len(s) \in Nat
  BY LenProperties
<1>1. CASE ~(mSort /\ s # <<>>)
  BY <1>0, <1>1 DEF InsertPos
<1>2. CASE mSort /\ s # <<>>
  <2> DEFINE P(i) == StopsAt(s, e, i) /\ \A j \in 1..(i-1) : ~StopsAt(s, e, j)
             T == {i \in 1..(Len(s) + 1) : StopsAt(s, e, i)}
  <2>1. T \in SUBSET Nat /\ T # {}
    <3>1. Len(s) + 1 \in T
      BY <1>0 DEF StopsAt
    <3> QED
      BY <1>0, <3>1
  <2>2. PICK n \in T : \A m \in T : n <= m
    BY <2>1, LeastNatural
  <2>3. n \in 1..(Len(s) + 1) /\ P(n)
    BY <1>0, <2>2
  <2>4. InsertPos(s, e) = CHOOSE i \in 1..(Len(s) + 1) : P(i)
    BY <1>2 DEF InsertPos
  <2> HIDE DEF P
  <2>5. InsertPos(s, e) \in 1..(Len(s) + 1) /\ P(InsertPos(s, e))
    BY <2>3, <2>4
  <2> QED
    BY <2>5 DEF P
<1> QED
  BY <1>1, <1>2

(* Precedes is a strict weak order, whatever the comparator sees.          *)
LEMMA PrecedesOrder ==
  ASSUME NEW x \in Elements, NEW y \in Elements, NEW z \in Elements
  PROVE  /\ Precedes(x, y) => ~Precedes(y, x)
         /\ ~Precedes(x, y) /\ ~Precedes(z, x) => ~Precedes(z, y)
<1>1. Value[x] \in Int /\ Value[y] \in Int /\ Value[z] \in Int
  BY QueueAssumption
<1>2. CASE mAscendingOrder
  BY <1>1, <1>2 DEF Precedes, cmpEleFun
<1>3. CASE ~mAscendingOrder
  BY <1>1, <1>3 DEF Precedes, cmpEleFun
<1> QED
  BY <1>2, <1>3

(* In an ordered queue the search, which tests only the first cell and     *)
(* then pairs of neighbours, stops at the one place that has every         *)
(* strictly smaller (larger) element before it and no other.               *)
LEMMA InsertPosSplits ==
  ASSUME NEW s \in Seq(Elements), NEW e \in Elements, mSort, IsOrdered(s)
  PROVE  /\ \A j \in 1..(InsertPos(s, e) - 1) : Precedes(s[j], e)
         /\ \A j \in InsertPos(s, e)..Len(s) : ~Precedes(s[j], e)
<1> DEFINE i == InsertPos(s, e)
<1>0. Len(s) \in Nat /\ \A j \in 1..Len(s) : s[j] \in Elements
  BY LenProperties, ElementOfSeq
<1>1. i \in 1..(Len(s) + 1)
  BY InsertPosProperties
<1>2. CASE s = <<>>
  BY <1>1, <1>2
<1>3. CASE s # <<>>
  <2>1. StopsAt(s, e, i) /\ \A j \in 1..(i-1) : ~StopsAt(s, e, j)
    BY <1>3, InsertPosProperties
  <2> HIDE DEF i
  <2>2. \A j \in 1..(i-1) : Precedes(s[j], e)
    <3> DEFINE T == {j \in 1..(i-1) : ~Precedes(s[j], e)}
    <3>1. SUFFICES ASSUME T # {} PROVE FALSE
      OBVIOUS
    <3>2. PICK k \in T : \A m \in T : k <= m
      <4>1. T \in SUBSET Nat
        BY <1>0, <1>1
      <4> HIDE DEF T
      <4> QED
        BY <3>1, <4>1, LeastNatural
    <3>3. k \in 1..(i-1) /\ k \in 1..Len(s) /\ ~Precedes(s[k], e) /\ ~StopsAt(s, e, k)
      BY <1>0, <1>1, <2>1, <3>2
    <3>4. k # 1
      BY <3>3 DEF StopsAt
    <3>5. k - 1 \in 1..(i-1) /\ k - 1 \in 1..Len(s) /\ k - 1 \notin T
      BY <1>0, <1>1, <3>2, <3>3, <3>4
    <3>6. Precedes(s[k-1], e)
      BY <3>5
    <3>7. ~Precedes(e, s[k-1])
      BY <1>0, <3>5, <3>6, PrecedesOrder
    <3>8. StopsAt(s, e, k)
      BY <3>3, <3>4, <3>7 DEF StopsAt
    <3> QED
      BY <3>3, <3>8
  <2>3. ASSUME NEW j \in i..Len(s) PROVE ~Precedes(s[j], e)
    <3>1. i \in 1..Len(s) /\ j \in 1..Len(s) /\ i <= j
      BY <1>0, <1>1
    <3>2. ~Precedes(s[i], e)
      BY <1>0, <2>1, <3>1 DEF StopsAt
    <3>3. CASE j = i
      BY <3>2, <3>3
    <3>4. CASE i < j
      <4>1. ~Precedes(s[j], s[i])
        BY <3>1, <3>4 DEF IsOrdered
      <4> QED
        BY <1>0, <3>1, <3>2, <4>1, PrecedesOrder
    <3> QED
      BY <3>1, <3>3, <3>4
  <2> QED
    BY <2>2, <2>3 DEF i
<1> QED
  BY <1>2, <1>3

(* Inserting there keeps the queue in order.                               *)
LEMMA InsertKeepsOrder ==
  ASSUME NEW s \in Seq(Elements), NEW e \in Elements, mSort, IsOrdered(s)
  PROVE  IsOrdered(InsertAt(s, InsertPos(s, e), e))
<1> DEFINE i == InsertPos(s, e)
           t == InsertAt(s, i, e)
<1>0. Len(s) \in Nat /\ \A j \in 1..Len(s) : s[j] \in Elements
  BY LenProperties, ElementOfSeq
<1>1. i \in 1..(Len(s) + 1)
  BY InsertPosProperties
<1>2. /\ \A j \in 1..(i-1) : Precedes(s[j], e)
      /\ \A j \in i..Len(s) : ~Precedes(s[j], e)
  BY InsertPosSplits
<1> HIDE DEF i
<1>3. /\ Len(t) = Len(s) + 1
      /\ \A k \in 1..(Len(s) + 1) : t[k] = IF k < i THEN s[k] ELSE IF k = i THEN e ELSE s[k-1]
  BY <1>1, InsertAtProperties
<1> HIDE DEF t
<1>4. ASSUME NEW j \in 1..Len(t), NEW k \in 1..Len(t), j < k
      PROVE  ~Precedes(t[k], t[j])
  <2>0. j \in 1..(Len(s) + 1) /\ k \in 1..(Len(s) + 1)
    BY <1>3
  <2>1. CASE k < i
    <3>1. t[k] = s[k] /\ t[j] = s[j] /\ j \in 1..Len(s) /\ k \in 1..Len(s)
      BY <1>0, <1>1, <1>3, <1>4, <2>0, <2>1
    <3> QED
      BY <1>4, <3>1 DEF IsOrdered
  <2>2. CASE k = i
    <3>1. t[k] = e /\ t[j] = s[j] /\ j \in 1..(i-1) /\ j \in 1..Len(s)
      BY <1>0, <1>1, <1>3, <1>4, <2>0, <2>2
    <3> QED
      BY <1>0, <1>2, <3>1, PrecedesOrder
  <2>3. CASE k > i
    <3>0. t[k] = s[k-1] /\ k - 1 \in i..Len(s) /\ k - 1 \in 1..Len(s)
      BY <1>0, <1>1, <1>3, <2>0, <2>3
    <3>1. CASE j < i
      <4>1. t[j] = s[j] /\ j \in 1..Len(s) /\ j < k - 1
        BY <1>0, <1>1, <1>3, <2>0, <2>3, <3>1
      <4> QED
        BY <3>0, <4>1 DEF IsOrdered
    <3>2. CASE j = i
      <4>1. t[j] = e
        BY <1>3, <2>0, <3>2
      <4> QED
        BY <1>2, <3>0, <4>1
    <3>3. CASE j > i
      <4>1. t[j] = s[j-1] /\ j - 1 \in 1..Len(s) /\ j - 1 < k - 1
        BY <1>0, <1>1, <1>3, <1>4, <2>0, <3>3
      <4> QED
        BY <3>0, <4>1 DEF IsOrdered
    <3> QED
      BY <1>1, <2>0, <3>1, <3>2, <3>3
  <2> QED
    BY <1>1, <2>0, <2>1, <2>2, <2>3
<1>5. IsOrdered(t)
  BY <1>4 DEF IsOrdered
<1> QED
  BY <1>5 DEF t, i

(* Taking the first element away keeps it too.                             *)
LEMMA TailKeepsOrder ==
  ASSUME NEW s \in Seq(Elements), s # <<>>, IsOrdered(s)
  PROVE  IsOrdered(Tail(s))
<1>0. Len(s) \in Nat
  BY LenProperties
<1>1. Len(Tail(s)) = Len(s) - 1 /\ \A k \in 1..Len(Tail(s)) : Tail(s)[k] = s[k+1]
  BY HeadTailProperties
<1>2. ASSUME NEW j \in 1..Len(Tail(s)), NEW k \in 1..Len(Tail(s)), j < k
      PROVE  ~Precedes(Tail(s)[k], Tail(s)[j])
  <2>1. j + 1 \in 1..Len(s) /\ k + 1 \in 1..Len(s) /\ j + 1 < k + 1
    BY <1>0, <1>1, <1>2
  <2> QED
    BY <1>1, <2>1 DEF IsOrdered
<1> QED
  BY <1>2 DEF IsOrdered
-----------------------------------------------------------------------------
(***************************************************************************)
(* Types, the counter and the order                                        *)
(***************************************************************************)

(* A thread in push or pushAndWait still holds the element it brought.     *)
Brought ==
  \A t \in Threads : op[t] \in PushOps => \E e \in Elements : ele[t] = <<e>>

(* TypeOK is not inductive alone: what push links in has to be an element, *)
(* and what pop takes has to be there, which the counter only says when it *)
(* is the length of the list.                                              *)
IInv == TypeOK /\ CountIsLength /\ Brought

(* What a caller brings is a sequence of elements, of one if it pushes.    *)
LEMMA ArgumentType ==
  ASSUME NEW o \in Ops, NEW x \in Argument(o)
  PROVE  x \in Seq(Elements) /\ (o \in PushOps => \E e \in Elements : x = <<e>>)
<1>1. CASE o \in PushOps
  <2>1. PICK e \in Elements : x = <<e>>
    <3>1. o # "pop"
      BY <1>1 DEF PushOps
    <3>2. Argument(o) = {<<e>> : e \in Elements}
      BY <1>1, <3>1 DEF Argument
    <3> QED
      BY <3>2
  <2>2. x \in Seq(Elements)
    BY <2>1
  <2> QED
    BY <2>1, <2>2
<1>2. CASE o = "pop"
  <2>1. x = <<>> \/ \E e \in Elements : x = <<e>>
    BY <1>2 DEF Argument, PushOps
  <2>2. x \in Seq(Elements)
    <3>1. CASE x = <<>>
      BY <3>1, EmptySeq
    <3>2. ASSUME NEW e \in Elements, x = <<e>> PROVE x \in Seq(Elements)
      BY <3>2
    <3> QED
      BY <2>1, <3>1, <3>2
  <2>3. o \notin PushOps
    BY <1>2 DEF PushOps
  <2> QED
    BY <2>2, <2>3
<1>3. CASE o \notin PushOps /\ o # "pop"
  BY <1>3 DEF Argument
<1> QED
  BY <1>1, <1>2, <1>3

(* A new queue is empty, and its counter says so.                          *)
LEMMA InitIInv == Init => IInv
BY QueueAssumption, EmptySeq DEF Init, IInv, TypeOK, CountIsLength, Brought, PCs, PushOps, Q_OK

(* What a thread keeps on its own stack while it is inside a call.         *)
CallsOK ==
  /\ op \in [Threads -> Ops \cup {"none"}]
  /\ ele \in [Threads -> Seq(Elements)]
  /\ ret \in [Threads -> Int]
  /\ Brought

(* Returning from an operation forgets its pointer and its code.           *)
LEMMA ReturnKeeps ==
  ASSUME IInv, NEW t \in Threads, Return(t)
  PROVE  CallsOK'
<1> USE DEF IInv, TypeOK
<1>1. /\ op' \in [Threads -> Ops \cup {"none"}]
      /\ ele' \in [Threads -> Seq(Elements)]
      /\ ret' \in [Threads -> Int]
  BY EmptySeq DEF Return, Q_OK
<1>2. Brought'
  BY DEF Return, Brought, PushOps
<1> QED
  BY <1>1, <1>2 DEF CallsOK

(* Deciding the result of an operation keeps the calls well formed.        *)
LEMMA ResultKeeps ==
  ASSUME IInv, NEW t \in Threads, NEW code \in Int, NEW pointer \in Seq(Elements),
         op[t] \in PushOps => pointer = ele[t],
         Result(t, code, pointer)
  PROVE  CallsOK' /\ UNCHANGED <<mMutex, life>>
<1> USE DEF IInv, TypeOK
<1>1. /\ op' \in [Threads -> Ops \cup {"none"}]
      /\ ele' \in [Threads -> Seq(Elements)]
      /\ ret' \in [Threads -> Int]
      /\ UNCHANGED <<mMutex, life>>
  BY DEF Result
<1>2. Brought'
  BY DEF Result, Brought
<1> QED
  BY <1>1, <1>2 DEF CallsOK

(* An operation that ends without touching the list keeps all of IInv.     *)
LEMMA AnswerKeeps ==
  ASSUME IInv, NEW t \in Threads, NEW code \in Int, NEW pointer \in Seq(Elements),
         op[t] \in PushOps => pointer = ele[t],
         Answer(t, code, pointer)
  PROVE  IInv'
<1>1. CallsOK' /\ UNCHANGED <<mMutex, life>>
  BY ResultKeeps DEF Answer
<1>2. pc' \in [Threads -> PCs] /\ UNCHANGED <<data, mAllowedNewData>>
  BY DEF Answer, IInv, TypeOK, PCs
<1> QED
  BY <1>1, <1>2 DEF IInv, TypeOK, CountIsLength, CallsOK, data

(* Signals and broadcasts move threads from label to label.                *)
LEMMA WakeupType ==
  ASSUME TypeOK, NEW t \in Threads, NEW next \in PCs, NEW cond,
         Signal(t, next, cond) \/ Broadcast(t, next, cond)
  PROVE  pc' \in [Threads -> PCs]
BY DEF TypeOK, Signal, Broadcast, PCs

(* The steps that leave the list and its counter alone, and the others.    *)
QuietStep(t) ==
  \/ Call(t) \/ Lock(t) \/ Unlock(t) \/ SpuriousWakeup(t)
  \/ PushRefused(t) \/ PushWait(t) \/ PopRefused(t) \/ PopWait(t)
  \/ Peek(t) \/ Query(t) \/ SetAllowed(t) \/ CheckAllowed(t)
  \/ BroadcastGet(t) \/ BroadcastPut(t)
  \/ ReleaseLock(t) \/ ReleaseConds(t) \/ ReleaseUnlock(t) \/ ReleaseMutex(t)

(* Only five actions write the list; the others leave it as it is.         *)
LEMMA QuietKeepsData ==
  ASSUME NEW t \in Threads, QuietStep(t)
  PROVE  UNCHANGED data
<1>1. CASE Peek(t)
  BY <1>1 DEF Peek, Answer
<1> QED
  BY <1>1 DEF QuietStep, Call, Lock, Unlock, SpuriousWakeup, PushRefused, PushWait,
       PopRefused, PopWait, Query, SetAllowed, CheckAllowed, BroadcastGet,
       BroadcastPut, ReleaseLock, ReleaseConds, ReleaseUnlock, ReleaseMutex, Answer,
       CondWait, SetDone, data

(* Every step is one of those five or a quiet one.                         *)
LEMMA StepKinds ==
  ASSUME [Next]_vars
  PROVE  \/ UNCHANGED vars
         \/ \E t \in Threads : \/ QuietStep(t)
                               \/ PushInsert(t) \/ PopTake(t)
                               \/ Flush(t) \/ ReleaseFlush(t) \/ Construct(t)
BY DEF Next, Step, QuietStep

(* Every action keeps the type, the counter and what the callers brought.  *)
LEMMA IInvStep == IInv /\ [Next]_vars => IInv'
<1> SUFFICES ASSUME IInv, [Next]_vars PROVE IInv'
  OBVIOUS
<1> USE QueueAssumption DEF IInv
<1>1. CASE UNCHANGED vars
  BY <1>1 DEF vars, data, TypeOK, CountIsLength, Brought
<1>2. ASSUME NEW t \in Threads, Call(t) PROVE IInv'
  <2>1. PICK o \in MayCall[t] :
          /\ op' = [op EXCEPT ![t] = o]
          /\ \E x \in Argument(o) : ele' = [ele EXCEPT ![t] = x]
          /\ life' = IF o = "release" THEN "dying" ELSE life
    BY <1>2 DEF Call
  <2>2. PICK x \in Argument(o) : ele' = [ele EXCEPT ![t] = x]
    BY <2>1
  <2>3. o \in Ops
    OBVIOUS
  <2>4. x \in Seq(Elements) /\ (o \in PushOps => \E e \in Elements : x = <<e>>)
    BY <2>3, ArgumentType
  <2>5. /\ pc' = [pc EXCEPT ![t] = "lock"]
        /\ UNCHANGED <<data, mAllowedNewData, mMutex, ret>>
    BY <1>2 DEF Call
  <2>6. TypeOK'
    BY <2>1, <2>2, <2>3, <2>4, <2>5 DEF TypeOK, data, PCs
  <2>7. Brought'
    BY <2>1, <2>2, <2>4 DEF Brought, TypeOK
  <2> QED
    BY <2>5, <2>6, <2>7 DEF CountIsLength, data
<1>3. ASSUME NEW t \in Threads, Lock(t) PROVE IInv'
  BY <1>3 DEF Lock, TypeOK, CountIsLength, Brought, data, PCs
<1>4. ASSUME NEW t \in Threads, SpuriousWakeup(t) PROVE IInv'
  BY <1>4 DEF SpuriousWakeup, TypeOK, CountIsLength, Brought, data, PCs
<1>5. ASSUME NEW t \in Threads, Unlock(t) PROVE IInv'
  <2>1. /\ mMutex' \in Threads \cup {NoThread} /\ pc' \in [Threads -> PCs]
        /\ UNCHANGED <<data, mAllowedNewData, life>>
        /\ Return(t) \/ UNCHANGED <<op, ele, ret>>
    BY <1>5 DEF Unlock, TypeOK, PCs
  <2>2. CallsOK'
    BY <2>1, ReturnKeeps DEF CallsOK, TypeOK, Brought
  <2> QED
    BY <2>1, <2>2 DEF TypeOK, CountIsLength, CallsOK, data
<1>6. ASSUME NEW t \in Threads, PushRefused(t) PROVE IInv'
  <2>1. PICK code \in {Q_ERR_NONEWDATA, Q_ERR_NUM_ELEMENTS, Q_ERR_MEM} : Answer(t, code, ele[t])
    BY <1>6 DEF PushRefused
  <2> QED
    BY <2>1, AnswerKeeps DEF TypeOK, Q_ERR_NONEWDATA, Q_ERR_NUM_ELEMENTS, Q_ERR_MEM
<1>7. ASSUME NEW t \in Threads, PushWait(t) PROVE IInv'
  BY <1>7 DEF PushWait, CondWait, TypeOK, CountIsLength, Brought, data, PCs
<1>8. ASSUME NEW t \in Threads, PushInsert(t) PROVE IInv'
  <2> DEFINE e == ele[t][1]
  <2>1. list \in Seq(Elements) /\ e \in Elements /\ ele[t] \in Seq(Elements)
    BY <1>8 DEF PushInsert, At, Brought, TypeOK
  <2>2. InsertPos(list, e) \in 1..(Len(list) + 1)
    BY <2>1, InsertPosProperties
  <2>3. list' \in Seq(Elements) /\ Len(list') = Len(list) + 1
    BY <1>8, <2>1, <2>2, InsertAtProperties DEF PushInsert
  <2>4. mUsedElementCnts' \in 0..Capability /\ mUsedElementCnts' = mUsedElementCnts + 1
    BY <1>8 DEF PushInsert, IsFull, TypeOK
  <2>5. CallsOK' /\ UNCHANGED <<mMutex, life>>
    BY <1>8, <2>1, ResultKeeps DEF PushInsert, Q_OK
  <2>6. pc' \in [Threads -> PCs]
    <3>1. Signal(t, "unlock", "waitGet") /\ "unlock" \in PCs
      BY <1>8 DEF PushInsert, PCs
    <3> QED
      BY <3>1, WakeupType
  <2> QED
    BY <1>8, <2>3, <2>4, <2>5, <2>6 DEF PushInsert, TypeOK, CountIsLength, CallsOK
<1>9. ASSUME NEW t \in Threads, PopRefused(t) PROVE IInv'
  <2>1. \/ op[t] = "pop" /\ Answer(t, Q_ERR_NUM_ELEMENTS, <<>>)
        \/ op[t] = "popAndWait" /\ Answer(t, Q_ERR_NONEWDATA, ele[t])
    BY <1>9 DEF PopRefused, At
  <2>2. op[t] \notin PushOps /\ ele[t] \in Seq(Elements) /\ <<>> \in Seq(Elements)
    BY <2>1 DEF PushOps, TypeOK
  <2>3. Q_ERR_NUM_ELEMENTS \in Int /\ Q_ERR_NONEWDATA \in Int
    BY DEF Q_ERR_NONEWDATA, Q_ERR_NUM_ELEMENTS
  <2> QED
    BY <2>1, <2>2, <2>3, AnswerKeeps
<1>10. ASSUME NEW t \in Threads, PopWait(t) PROVE IInv'
  BY <1>10 DEF PopWait, CondWait, TypeOK, CountIsLength, Brought, data, PCs
<1>11. ASSUME NEW t \in Threads, PopTake(t) PROVE IInv'
  <2>1. list \in Seq(Elements) /\ list # <<>>
    BY <1>11, EmptySeq DEF PopTake, TypeOK, CountIsLength
  <2>2. list' \in Seq(Elements) /\ Len(list') = Len(list) - 1 /\ Head(list) \in Elements
    BY <1>11, <2>1, HeadTailProperties DEF PopTake
  <2>3. mUsedElementCnts' \in 0..Capability /\ mUsedElementCnts' = mUsedElementCnts - 1
    BY <1>11 DEF PopTake, TypeOK
  <2>4. CallsOK' /\ UNCHANGED <<mMutex, life>>
    <3>1. op[t] \notin PushOps /\ <<Head(list)>> \in Seq(Elements)
      BY <1>11, <2>2 DEF PopTake, At, PopOps, PushOps
    <3>2. Result(t, Q_OK, <<Head(list)>>) /\ Q_OK \in Int
      BY <1>11 DEF PopTake, Q_OK
    <3> QED
      BY <3>1, <3>2, ResultKeeps
  <2>5. pc' \in [Threads -> PCs]
    <3>1. Signal(t, "unlock", "waitPut") /\ "unlock" \in PCs
      BY <1>11 DEF PopTake, PCs
    <3> QED
      BY <3>1, WakeupType
  <2> QED
    BY <1>11, <2>2, <2>3, <2>4, <2>5 DEF PopTake, TypeOK, CountIsLength, CallsOK
<1>12. ASSUME NEW t \in Threads, Peek(t) PROVE IInv'
  <2>1. PICK pos \in -1..Capability :
          LET i == IF pos < 0 THEN 1 ELSE pos + 1
          IN IF mUsedElementCnts = 0 \/ i > Len(list)
               THEN Answer(t, Q_ERR_INVALID_ELEMENT, ele[t])
               ELSE Answer(t, Q_OK, <<list[i]>>)
    BY <1>12 DEF Peek
  <2> DEFINE i == IF pos < 0 THEN 1 ELSE pos + 1
  <2>2. op[t] \notin PushOps /\ ele[t] \in Seq(Elements)
    BY <1>12 DEF Peek, At, PushOps, TypeOK
  <2>3. i \in Nat \ {0}
    OBVIOUS
  <2>4. CASE mUsedElementCnts = 0 \/ i > Len(list)
    <3>1. Answer(t, Q_ERR_INVALID_ELEMENT, ele[t]) /\ Q_ERR_INVALID_ELEMENT \in Int
      BY <2>1, <2>4 DEF Q_ERR_INVALID_ELEMENT
    <3> QED
      BY <2>2, <3>1, AnswerKeeps
  <2>5. CASE ~(mUsedElementCnts = 0 \/ i > Len(list))
    <3>1. list \in Seq(Elements) /\ i \in 1..Len(list)
      BY <2>3, <2>5 DEF TypeOK
    <3>2. <<list[i]>> \in Seq(Elements)
      BY <3>1, ElementOfSeq
    <3>3. Answer(t, Q_OK, <<list[i]>>) /\ Q_OK \in Int
      BY <2>1, <2>5 DEF Q_OK
    <3> HIDE DEF i
    <3> QED
      BY <2>2, <3>2, <3>3, AnswerKeeps
  <2> QED
    BY <2>4, <2>5
<1>13. ASSUME NEW t \in Threads, Flush(t) PROVE IInv'
  BY <1>13 DEF Flush, At, Flushed, Result, TypeOK, CountIsLength, Brought, PCs, FlushOps, PushOps, Q_OK
<1>14. ASSUME NEW t \in Threads, Query(t) PROVE IInv'
  BY <1>14 DEF Query, At, Answer, Result, TypeOK, CountIsLength, Brought, data, PCs, QueryOps
<1>15. ASSUME NEW t \in Threads, SetAllowed(t) PROVE IInv'
  BY <1>15 DEF SetAllowed, Result, TypeOK, CountIsLength, Brought, data, PCs, Q_OK
<1>16. ASSUME NEW t \in Threads, CheckAllowed(t) PROVE IInv'
  <2>1. /\ pc' \in [Threads -> PCs]
        /\ UNCHANGED <<data, mAllowedNewData, mMutex, life>>
        /\ Return(t) \/ UNCHANGED <<op, ele, ret>>
    BY <1>16 DEF CheckAllowed, AfterSet, SetDone, TypeOK, PCs
  <2>2. CallsOK'
    BY <2>1, ReturnKeeps DEF CallsOK, TypeOK, Brought
  <2> QED
    BY <2>1, <2>2 DEF TypeOK, CountIsLength, CallsOK, data
<1>17. ASSUME NEW t \in Threads, BroadcastGet(t) PROVE IInv'
  BY <1>17, WakeupType DEF BroadcastGet, TypeOK, CountIsLength, Brought, data, PCs
<1>18. ASSUME NEW t \in Threads, BroadcastPut(t) PROVE IInv'
  <2>1. /\ pc' \in [Threads -> PCs]
        /\ UNCHANGED <<data, mAllowedNewData, mMutex, life>>
        /\ Return(t) \/ UNCHANGED <<op, ele, ret>>
    BY <1>18, WakeupType DEF BroadcastPut, AfterSet, SetDone, PCs
  <2>2. CallsOK'
    BY <2>1, ReturnKeeps DEF CallsOK, TypeOK, Brought
  <2> QED
    BY <2>1, <2>2 DEF TypeOK, CountIsLength, CallsOK, data
<1>19. ASSUME NEW t \in Threads, ReleaseLock(t) PROVE IInv'
  BY <1>19 DEF ReleaseLock, TypeOK, CountIsLength, Brought, data, PCs
<1>20. ASSUME NEW t \in Threads, ReleaseFlush(t) PROVE IInv'
  BY <1>20 DEF ReleaseFlush, Flushed, TypeOK, CountIsLength, Brought, PCs
<1>21. ASSUME NEW t \in Threads, ReleaseConds(t) PROVE IInv'
  BY <1>21 DEF ReleaseConds, TypeOK, CountIsLength, Brought, data, PCs
<1>22. ASSUME NEW t \in Threads, ReleaseUnlock(t) PROVE IInv'
  BY <1>22 DEF ReleaseUnlock, TypeOK, CountIsLength, Brought, data, PCs
<1>23. ASSUME NEW t \in Threads, ReleaseMutex(t) PROVE IInv'
  BY <1>23 DEF ReleaseMutex, Return, TypeOK, CountIsLength, Brought, data, PCs, PushOps, Q_OK
<1>24. ASSUME NEW t \in Threads, Construct(t) PROVE IInv'
  BY <1>24 DEF Construct, TypeOK, CountIsLength, Brought
<1> QED
  BY <1>1, <1>2, <1>3, <1>4, <1>5, <1>6, <1>7, <1>8, <1>9, <1>10, <1>11, <1>12, <1>13,
     <1>14, <1>15, <1>16, <1>17, <1>18, <1>19, <1>20, <1>21, <1>22, <1>23, <1>24
  DEF Next, Step

(* The inductive invariant of Queue: the type, the counter equal to the    *)
(* length of the list, and an element in the hand of whoever pushes.       *)
THEOREM Invariant == Spec => []IInv
<1>1. Init => IInv
  BY InitIInv
<1>2. IInv /\ [Next]_vars => IInv'
  BY IInvStep
<1> QED
  BY <1>1, <1>2, PTL DEF Spec

(* Every variable keeps its type; the counter never passes mCapability.    *)
THEOREM TypeCorrect == Spec => []TypeOK
BY Invariant, PTL DEF IInv

(* The counter beside the list is its length at every moment, for any      *)
(* capability and any mix of operations, refused and blocked ones and      *)
(* flushes included.                                                       *)
THEOREM CounterCorrect == Spec => []CountIsLength
BY Invariant, PTL DEF IInv

-----------------------------------------------------------------------------
(***************************************************************************)
(* The order of a sorted queue                                             *)
(***************************************************************************)
LEMMA SortedStep == IInv /\ Sorted /\ [Next]_vars => Sorted'
<1> SUFFICES ASSUME IInv, Sorted, [Next]_vars, mSort PROVE IsOrdered(list')
  BY DEF Sorted, IsOrdered
<1>0. IsOrdered(list)
  BY DEF Sorted
<1>1. list \in Seq(Elements)
  BY DEF IInv, TypeOK
<1>2. CASE UNCHANGED data
  BY <1>0, <1>2 DEF data
<1>3. CASE list' = <<>>
  BY <1>3 DEF IsOrdered
<1>4. ASSUME NEW t \in Threads, PushInsert(t) PROVE IsOrdered(list')
  <2>1. ele[t][1] \in Elements
    BY <1>4 DEF PushInsert, At, Brought, IInv
  <2> QED
    BY <1>0, <1>1, <1>4, <2>1, InsertKeepsOrder DEF PushInsert
<1>5. ASSUME NEW t \in Threads, PopTake(t) PROVE IsOrdered(list')
  <2>1. list # <<>>
    BY <1>5, EmptySeq DEF PopTake, IInv, CountIsLength
  <2> QED
    BY <1>0, <1>1, <1>5, <2>1, TailKeepsOrder DEF PopTake
<1>6. ASSUME NEW t \in Threads, Flush(t) \/ ReleaseFlush(t) \/ Construct(t)
      PROVE  IsOrdered(list')
  BY <1>3, <1>6 DEF Flush, ReleaseFlush, Construct, Flushed
<1>7. ASSUME NEW t \in Threads, QuietStep(t) PROVE IsOrdered(list')
  BY <1>2, <1>7, QuietKeepsData
<1>8. CASE UNCHANGED vars
  BY <1>2, <1>8 DEF vars, data
<1> QED
  BY <1>4, <1>5, <1>6, <1>7, <1>8, StepKinds

(* A sorted queue is in order at every moment, whichever threads insert,   *)
(* for every comparator that compares integers and with any ties.          *)
THEOREM AlwaysSorted == Spec => []Sorted
<1>1. Init => Sorted
  BY DEF Init, Sorted, IsOrdered
<1>2. IInv /\ Sorted /\ [Next]_vars => Sorted'
  BY SortedStep
<1> QED
  BY <1>1, <1>2, Invariant, PTL DEF Spec
-----------------------------------------------------------------------------
(***************************************************************************)
(* Who moves in a step                                                     *)
(***************************************************************************)

(* A signal or a broadcast moves its sender and wakes waiters, no more.    *)
LEMMA WakeupEffect ==
  ASSUME TypeOK, NEW t \in Threads, NEW next \in PCs, NEW cond \in {"waitGet", "waitPut"},
         pc[t] # cond, next \notin {"waitGet", "waitPut"},
         Signal(t, next, cond) \/ Broadcast(t, next, cond)
  PROVE  /\ pc' \in [Threads -> PCs]
         /\ pc'[t] = next
         /\ \A u \in Threads \ {t} :
              pc'[u] = pc[u] \/ (pc[u] = cond /\ pc'[u] = "woken")
<1>1. CASE Signal(t, next, cond)
  BY <1>1 DEF Signal, Waiting, TypeOK, PCs
<1>2. CASE Broadcast(t, next, cond)
  BY <1>2 DEF Broadcast, TypeOK, PCs
<1> QED
  BY <1>1, <1>2

(* Every step of a thread moves that thread, and others only out of a wait *)
(* they are woken from; it never changes the operation another is in.      *)
LEMMA StepMoves ==
  ASSUME IInv, NEW t \in Threads,
         Call(t) \/ Step(t) \/ SpuriousWakeup(t) \/ Construct(t)
  PROVE  /\ \A u \in Threads \ {t} :
              /\ op'[u] = op[u]
              /\ \/ pc'[u] = pc[u]
                 \/ pc[u] \in {"waitGet", "waitPut"} /\ pc'[u] = "woken"
         /\ pc'[t] = "waitGet" =>
              (op'[t] = "popAndWait" /\ mAllowedNewData) \/ UNCHANGED <<pc, op>>
         /\ pc'[t] = "waitPut" =>
              (op'[t] = "pushAndWait" /\ mAllowedNewData) \/ UNCHANGED <<pc, op>>
<1> USE DEF IInv, TypeOK
<1>1. CASE Call(t) \/ Lock(t) \/ Unlock(t) \/ SpuriousWakeup(t) \/ Construct(t)
  BY <1>1 DEF Call, Lock, Unlock, SpuriousWakeup, Construct, Return
<1>2. CASE PushRefused(t) \/ PushWait(t) \/ PopRefused(t) \/ PopWait(t)
  BY <1>2 DEF PushRefused, PushWait, PopRefused, PopWait, At, Answer, Result, CondWait
<1>3. CASE PushInsert(t)
  BY <1>3, WakeupEffect DEF PushInsert, Result, At, PCs
<1>4. CASE PopTake(t)
  BY <1>4, WakeupEffect DEF PopTake, Result, At, PCs
<1>5. CASE Peek(t)
  BY <1>5 DEF Peek, Answer, Result
<1>6. CASE Flush(t) \/ Query(t) \/ SetAllowed(t) \/ CheckAllowed(t)
  BY <1>6 DEF Flush, Query, SetAllowed, CheckAllowed, SetDone, Return, AfterSet, Answer, Result
<1>7. CASE BroadcastGet(t)
  BY <1>7, WakeupEffect DEF BroadcastGet, PCs
<1>8. CASE BroadcastPut(t)
  BY <1>8, WakeupEffect DEF BroadcastPut, SetDone, Return, AfterSet, PCs
<1>9. CASE \/ ReleaseLock(t) \/ ReleaseFlush(t) \/ ReleaseConds(t)
           \/ ReleaseUnlock(t) \/ ReleaseMutex(t)
  BY <1>9 DEF ReleaseLock, ReleaseFlush, ReleaseConds, ReleaseUnlock, ReleaseMutex, Return
<1> QED
  BY <1>1, <1>2, <1>3, <1>4, <1>5, <1>6, <1>7, <1>8, <1>9 DEF Step

(* On its way to the broadcasts a thread can take one step only.           *)
LEMMA StepAt ==
  ASSUME NEW t \in Threads, Call(t) \/ Step(t) \/ SpuriousWakeup(t) \/ Construct(t)
  PROVE  /\ pc[t] = "unlock" => Unlock(t)
         /\ pc[t] = "check" => CheckAllowed(t)
         /\ pc[t] = "bcastGet" => BroadcastGet(t)
         /\ pc[t] = "bcastPut" => BroadcastPut(t)
BY DEF Call, Step, SpuriousWakeup, Construct, At, Lock, Unlock, PushRefused, PushWait,
       PushInsert, PopRefused, PopWait, PopTake, Peek, Flush, Query, SetAllowed,
       CheckAllowed, BroadcastGet, BroadcastPut, ReleaseLock, ReleaseFlush, ReleaseConds,
       ReleaseUnlock, ReleaseMutex
-----------------------------------------------------------------------------
(***************************************************************************)
(* The mutex                                                               *)
(***************************************************************************)

(* Where a thread is between pthread_mutex_lock and pthread_mutex_unlock,  *)
(* but for the waits.                                                      *)
Holding == {"body", "unlock", "relFlush", "relConds", "relUnlock"}

(* The thread that is there is the one that holds mMutex.                  *)
Exclusive == \A t \in Threads : pc[t] \in Holding <=> mMutex = t

(* A step takes the mutex when it is free, gives it up when its thread has *)
(* it, or leaves it where it is.                                           *)
LEMMA MutexMoves ==
  ASSUME IInv, NEW t \in Threads,
         Call(t) \/ Step(t) \/ SpuriousWakeup(t) \/ Construct(t)
  PROVE  \/ mMutex' = mMutex /\ (pc'[t] \in Holding <=> pc[t] \in Holding)
         \/ mMutex = NoThread /\ mMutex' = t /\ pc'[t] \in Holding
         \/ pc[t] \in Holding /\ mMutex' = NoThread /\ pc'[t] \notin Holding
<1> USE DEF IInv, TypeOK, Holding
<1>1. CASE Call(t) \/ Lock(t) \/ Unlock(t) \/ SpuriousWakeup(t) \/ Construct(t)
  BY <1>1 DEF Call, Lock, Unlock, SpuriousWakeup, Construct
<1>2. CASE PushRefused(t) \/ PushWait(t) \/ PopRefused(t) \/ PopWait(t)
  BY <1>2 DEF PushRefused, PushWait, PopRefused, PopWait, At, Answer, Result, CondWait
<1>3. CASE PushInsert(t)
  BY <1>3, WakeupEffect DEF PushInsert, Result, At, PCs
<1>4. CASE PopTake(t)
  BY <1>4, WakeupEffect DEF PopTake, Result, At, PCs
<1>5. CASE Peek(t)
  BY <1>5 DEF Peek, At, Answer, Result
<1>6. CASE Flush(t) \/ Query(t) \/ SetAllowed(t)
  BY <1>6 DEF Flush, Query, SetAllowed, At, Answer, Result
<1>7. CASE CheckAllowed(t)
  BY <1>7 DEF CheckAllowed, AfterSet, SetDone
<1>8. CASE BroadcastGet(t)
  BY <1>8, WakeupEffect DEF BroadcastGet, PCs
<1>9. CASE BroadcastPut(t)
  BY <1>9, WakeupEffect DEF BroadcastPut, SetDone, AfterSet, PCs
<1>10. CASE \/ ReleaseLock(t) \/ ReleaseFlush(t) \/ ReleaseConds(t)
            \/ ReleaseUnlock(t) \/ ReleaseMutex(t)
  BY <1>10 DEF ReleaseLock, ReleaseFlush, ReleaseConds, ReleaseUnlock, ReleaseMutex
<1> QED
  BY <1>1, <1>2, <1>3, <1>4, <1>5, <1>6, <1>7, <1>8, <1>9, <1>10 DEF Step

LEMMA ExclusiveStep == IInv /\ Exclusive /\ [Next]_vars => Exclusive'
<1> SUFFICES ASSUME IInv, Exclusive, [Next]_vars PROVE Exclusive'
  OBVIOUS
<1>1. CASE UNCHANGED vars
  BY <1>1 DEF vars, Exclusive
<1>2. ASSUME NEW t \in Threads, Call(t) \/ Step(t) \/ SpuriousWakeup(t) \/ Construct(t)
      PROVE  Exclusive'
  <2>1. \A u \in Threads \ {t} : pc'[u] \in Holding <=> pc[u] \in Holding
    BY <1>2, StepMoves DEF Holding
  <2>2. \/ mMutex' = mMutex /\ (pc'[t] \in Holding <=> pc[t] \in Holding)
        \/ mMutex = NoThread /\ mMutex' = t /\ pc'[t] \in Holding
        \/ pc[t] \in Holding /\ mMutex' = NoThread /\ pc'[t] \notin Holding
    BY <1>2, MutexMoves
  <2> QED
    BY <2>1, <2>2, QueueAssumption DEF Exclusive
<1> QED
  BY <1>1, <1>2 DEF Next

(* No two threads are in a critical section, whichever of them block,      *)
(* are woken, close or destroy the queue: the actions ask for the mutex    *)
(* only where the code locks it.                                           *)
THEOREM MutualExclusion == Spec => []Exclusive
<1>1. Init => Exclusive
  BY QueueAssumption DEF Init, Exclusive, Holding
<1> QED
  BY <1>1, ExclusiveStep, Invariant, PTL DEF Spec

(* The list, its counter and the flag are written by the holder of mMutex  *)
(* only, until the object is destroyed: that is why the body of an         *)
(* operation can be one step.                                              *)
THEOREM OnlyHolderWrites ==
  Spec => [][life # "dead" /\ ~UNCHANGED <<data, mAllowedNewData>>
               => \E t \in Threads : mMutex = t /\ Step(t)]_vars
<1>1. IInv /\ Exclusive /\ [Next]_vars =>
        [life # "dead" /\ ~UNCHANGED <<data, mAllowedNewData>>
           => \E t \in Threads : mMutex = t /\ Step(t)]_vars
  <2> SUFFICES ASSUME IInv, Exclusive, Next, life # "dead",
                      ~UNCHANGED <<data, mAllowedNewData>>
               PROVE  \E t \in Threads : mMutex = t /\ Step(t)
    OBVIOUS
  <2>1. PICK t \in Threads : Call(t) \/ Step(t) \/ SpuriousWakeup(t) \/ Construct(t)
    BY DEF Next
  <2>2. CASE Call(t) \/ SpuriousWakeup(t) \/ Construct(t)
    BY <2>2 DEF Call, SpuriousWakeup, Construct
  <2>3. CASE Step(t) /\ pc[t] \in Holding
    BY <2>3 DEF Exclusive
  <2>4. CASE Step(t) /\ pc[t] \notin Holding
    BY <2>4 DEF Step, At, Holding, Lock, Unlock, PushRefused, PushWait, PushInsert, PopRefused,
       PopWait, PopTake, Peek, Flush, Query, SetAllowed, CheckAllowed, BroadcastGet,
       BroadcastPut, SetDone, ReleaseLock, ReleaseFlush, ReleaseConds, ReleaseUnlock,
       ReleaseMutex
  <2> QED
    BY <2>1, <2>2, <2>3, <2>4
<1> QED
  BY <1>1, Invariant, MutualExclusion, PTL DEF Spec
-----------------------------------------------------------------------------
(***************************************************************************)
(* The destructor                                                          *)
(***************************************************************************)
ReleasePCs == {"relLock", "relFlush", "relConds", "relUnlock", "relMutex"}

(* One thread at most is in the destructor, while the object is dying.     *)
Releasing ==
  \A t \in Threads :
    /\ pc[t] \in ReleasePCs => op[t] = "release"
    /\ op[t] = "release" => /\ life = "dying"
                            /\ \A u \in Threads \ {t} : op[u] # "release"

(* Between the calls that begin and the destructor that ends, a thread     *)
(* goes on with its operation or returns from it.                          *)
LEMMA StepInside ==
  ASSUME IInv, Releasing, NEW t \in Threads, Step(t) \/ SpuriousWakeup(t), ~ReleaseMutex(t)
  PROVE  /\ life' = life
         /\ op' = op \/ op' = [op EXCEPT ![t] = "none"]
         /\ pc'[t] \in ReleasePCs => op[t] = "release" /\ op' = op
<1> USE DEF IInv, TypeOK, ReleasePCs
<1>1. CASE Lock(t) \/ Unlock(t) \/ SpuriousWakeup(t) \/ PushWait(t) \/ PopWait(t)
  BY <1>1 DEF Lock, Unlock, SpuriousWakeup, PushWait, PopWait, CondWait, Return
<1>2. CASE PushRefused(t) \/ PopRefused(t) \/ Query(t)
  BY <1>2 DEF PushRefused, PopRefused, Query, Answer, Result
<1>3. CASE Peek(t)
  BY <1>3 DEF Peek, Answer, Result
<1>4. CASE PushInsert(t)
  BY <1>4, WakeupEffect DEF PushInsert, Result, At, PCs
<1>5. CASE PopTake(t)
  BY <1>5, WakeupEffect DEF PopTake, Result, At, PCs
<1>6. CASE Flush(t) \/ SetAllowed(t)
  BY <1>6 DEF Flush, SetAllowed, Result
<1>7. CASE CheckAllowed(t)
  BY <1>7 DEF CheckAllowed, AfterSet, SetDone, Return
<1>8. CASE BroadcastGet(t)
  BY <1>8, WakeupEffect DEF BroadcastGet, PCs
<1>9. CASE BroadcastPut(t)
  BY <1>9, WakeupEffect DEF BroadcastPut, AfterSet, SetDone, Return, PCs
<1>10. CASE ReleaseLock(t) \/ ReleaseFlush(t) \/ ReleaseConds(t) \/ ReleaseUnlock(t)
  BY <1>10 DEF ReleaseLock, ReleaseFlush, ReleaseConds, ReleaseUnlock, Releasing
<1> QED
  BY <1>1, <1>2, <1>3, <1>4, <1>5, <1>6, <1>7, <1>8, <1>9, <1>10 DEF Step

(* No call begins while the object dies, so no second destructor does.     *)
LEMMA ReleasingStep == IInv /\ Releasing /\ [Next]_vars => Releasing'
<1> SUFFICES ASSUME IInv, Releasing, [Next]_vars PROVE Releasing'
  OBVIOUS
<1> USE DEF IInv, TypeOK
<1>1. CASE UNCHANGED vars
  BY <1>1 DEF vars, Releasing
<1>2. ASSUME NEW t \in Threads, Call(t) PROVE Releasing'
  <2>1. PICK o \in MayCall[t] :
          /\ op' = [op EXCEPT ![t] = o]
          /\ life' = IF o = "release" THEN "dying" ELSE life
    BY <1>2 DEF Call
  <2>2. pc' = [pc EXCEPT ![t] = "lock"] /\ life = "live"
    BY <1>2 DEF Call
  <2> QED
    BY <2>1, <2>2 DEF Releasing, ReleasePCs
<1>3. ASSUME NEW t \in Threads, Step(t) \/ SpuriousWakeup(t), ~ReleaseMutex(t)
      PROVE  Releasing'
  <2>1. /\ life' = life
        /\ op' = op \/ op' = [op EXCEPT ![t] = "none"]
        /\ pc'[t] \in ReleasePCs => op[t] = "release" /\ op' = op
    BY <1>3, StepInside
  <2>2. \A u \in Threads \ {t} : pc'[u] \in ReleasePCs => pc[u] \in ReleasePCs
    BY <1>3, StepMoves DEF ReleasePCs
  <2> QED
    BY <2>1, <2>2 DEF Releasing
<1>4. ASSUME NEW t \in Threads, ReleaseMutex(t) PROVE Releasing'
  <2>1. op[t] = "release" /\ op' = [op EXCEPT ![t] = "none"] /\ pc' = [pc EXCEPT ![t] = "idle"]
    BY <1>4 DEF ReleaseMutex, Return, Releasing, ReleasePCs
  <2> QED
    BY <2>1 DEF Releasing, ReleasePCs
<1>5. ASSUME NEW t \in Threads, Construct(t) PROVE Releasing'
  BY <1>5 DEF Construct, Releasing
<1> QED
  BY <1>1, <1>2, <1>3, <1>4, <1>5 DEF Next

(* The object is destroyed by one thread, once.                            *)
LEMMA OneReleases == Spec => []Releasing
<1>1. Init => Releasing
  BY DEF Init, Releasing, ReleasePCs
<1> QED
  BY <1>1, ReleasingStep, Invariant, PTL DEF Spec
=============================================================================
