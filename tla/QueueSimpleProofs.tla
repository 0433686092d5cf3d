------------------------- MODULE QueueSimpleProofs -------------------------
(***************************************************************************)
(* Theorems about QueueSimple for any number of producers and consumers    *)
(* and elements, whichever allocations fail.                               *)
(***************************************************************************)
EXTENDS QueueSimple, SequenceTheorems, TLAPS

(* Which call of the queue a thread can be in, and with what result: the   *)
(* local variables of the three functions.                                 *)
Busy(t) == stage[t] # "idle"

ProducerShape(p) ==
  /\ phase[p] # "peeked"
  /\ phase[p] \in {"none", "born", "top"} => cnt[p] <= MAX_CNT
  /\ Busy(p) => phase[p] = "top" /\ op[p] = "pushAndWait" /\ ele[p] = <<Element(p)>>

ConsumerShape(c) ==
  /\ Busy(c) => \/ phase[c] = "top" /\ op[c] = "peek"
                \/ phase[c] = "peeked" /\ op[c] = "pop"
  /\ stage[c] = "done" /\ op[c] = "pop" /\ ret[c] = Q!Q_OK => \E e \in taken : ele[c] = <<e>>

MainShape ==
  /\ Busy(Main) => op[Main] \in {"close", "release"}
  /\ Busy(Main) /\ op[Main] = "release" => life # "live"

Shape ==
  /\ \A p \in Producers : ProducerShape(p)
  /\ \A c \in Consumers : ConsumerShape(c)
  /\ MainShape

(* A consumer that will not stop next because another one was faster: it   *)
(* has yet to peek, or the queue is not empty, or it has popped.  Whoever  *)
(* empties the queue is such a consumer afterwards, so there is always     *)
(* one until a last element is popped.                                     *)
GoesOn(c) ==
  \/ phase[c] \in {"none", "born"}
  \/ phase[c] = "top" /\ (stage[c] = "done" /\ ret[c] = Q!Q_OK => content # <<>>)
  \/ phase[c] = "peeked" /\ IF stage[c] = "done" THEN WantsMore(c) ELSE content # <<>>

LastTaken == \E e \in taken : e.value = MAX_CNT

Survivor == life = "live" /\ ~LastTaken => \E c \in Consumers : GoesOn(c)

(* The elements whose push has been decided: the ones before cnt, and the  *)
(* one at cnt from the moment it is queued until ++cnt.                    *)
Maker(e) == <<"producer", e.type>>

Made(e) ==
  \/ e.value < cnt[Maker(e)]
  \/ /\ e.value = cnt[Maker(e)]
     /\ stage[Maker(e)] = "done" /\ ret[Maker(e)] = Q!Q_OK

Fate ==
  /\ \A e \in Queued \cup taken : Made(e)
  /\ \A e \in refused : e.value < cnt[Maker(e)]
  /\ Queued \cap taken = {} /\ refused \cap (Queued \cup taken) = {}
  /\ life = "live" => \A e \in Tests : Made(e) => e \in Queued \cup taken \cup refused

Order ==
  /\ \A i, j \in DOMAIN content :
       i < j /\ content[i].type = content[j].type => content[i].value < content[j].value
  /\ \A e \in taken, f \in Queued : e.type = f.type => e.value < f.value

(* What main has counted in this pass is not more than it has asked for,   *)
(* and if it is as much, all of those have ended, but for those it asked   *)
(* too early: a thread that has cleared mRunning never sets it again.      *)
AskedProducers == (looked + 1) \div 2
AskedConsumers == looked \div 2

AllEnded(n, class) == \A i \in 1..n : phase[<<class, i>>] = "ended" \/ <<class, i>> \in early

Polling ==
  /\ \A w \in Workers : mRunning[w] <=> phase[w] \in {"top", "peeked", "stops"}
  /\ pc # "running" => proFound <= AskedProducers /\ comFound <= AskedConsumers
  /\ pc # "running" =>
       /\ \A w \in Workers : phase[w] # "none"
       /\ proFound = AskedProducers => AllEnded(AskedProducers, "producer")
       /\ comFound = AskedConsumers => AllEnded(AskedConsumers, "consumer")
  /\ pc \notin {"running", "polling"} => looked = 2 * MAX_TYPE /\ FoundEnough
  /\ Busy(Main) => pc \notin {"running", "polling"}

SInv == TypeOK /\ Shape /\ Survivor /\ Fate /\ Order /\ Polling
-----------------------------------------------------------------------------
(***************************************************************************)
(* What the steps of the queue do, in terms of this module                 *)
(***************************************************************************)
LEMMA ThreadNames ==
  /\ Producers \cap Consumers = {} /\ Main \notin Workers
  /\ \A p \in Producers : p \in Threads /\ p \in Workers /\ p[2] \in Indices /\ p = <<"producer", p[2]>>
  /\ \A c \in Consumers : c \in Threads /\ c \in Workers /\ c[2] \in Indices /\ c = <<"consumer", c[2]>>
  /\ \A w \in Workers : w \in Producers \/ w \in Consumers
BY SimpleAssumption DEF Producers, Consumers, Workers, Threads

LEMMA Codes ==
  /\ Q!Q_OK = 0 /\ Q!Q_ERR_NONEWDATA = -4 /\ Q!Q_ERR_NUM_ELEMENTS = -7
  /\ Q!Q_ERR_MEM = -3 /\ Q!Q_ERR_INVALID_ELEMENT = -5
BY DEF Q!Q_OK, Q!Q_ERR_NONEWDATA, Q!Q_ERR_NUM_ELEMENTS, Q!Q_ERR_MEM, Q!Q_ERR_INVALID_ELEMENT

(* An invocation.                                                          *)
LEMMA CallsStep ==
  ASSUME TypeOK, NEW t \in Threads, NEW o, NEW x, Calls(t, o, x)
  PROVE  /\ stage[t] = "idle" /\ life = "live"
         /\ stage' = [stage EXCEPT ![t] = "called"]
         /\ op' = [op EXCEPT ![t] = o]
         /\ ele' = [ele EXCEPT ![t] = x]
         /\ life' = IF o = "release" THEN "dying" ELSE "live"
         /\ UNCHANGED <<content, open, ret>>
<1>1. PICK o1 \in MayCall[t] : /\ op' = [op EXCEPT ![t] = o1]
                               /\ \E y \in Q!Argument(o1) : ele' = [ele EXCEPT ![t] = y]
                               /\ life' = IF o1 = "release" THEN "dying" ELSE life
  BY DEF Calls, Q!Invoke
<1>2. op'[t] = o1 /\ op'[t] = o
  BY <1>1 DEF Calls, TypeOK
<1>3. PICK y : ele' = [ele EXCEPT ![t] = y]
  BY <1>1
<1>4. ele'[t] = y /\ ele'[t] = x
  BY <1>3 DEF Calls, TypeOK
<1> QED
  BY <1>1, <1>2, <1>3, <1>4 DEF Calls, Q!Invoke

(* A return.                                                               *)
LEMMA ReturnStep ==
  ASSUME NEW t \in Threads, Q!Return(t)
  PROVE  /\ stage[t] = "done"
         /\ stage' = [stage EXCEPT ![t] = "idle"]
         /\ op' = [op EXCEPT ![t] = "none"]
         /\ ele' = [ele EXCEPT ![t] = <<>>]
         /\ ret' = [ret EXCEPT ![t] = 0]
         /\ life' = IF op[t] = "release" THEN "dead" ELSE life
         /\ UNCHANGED <<content, open>>
BY Codes DEF Q!Return

(* So the other threads see nothing of it but the life of the queue.       *)
LEMMA ReturnOthers ==
  ASSUME TypeOK, NEW t \in Threads, Q!Return(t)
  PROVE  /\ \A u \in Threads \ {t} : /\ stage'[u] = stage[u] /\ op'[u] = op[u]
                                     /\ ele'[u] = ele[u] /\ ret'[u] = ret[u]
         /\ stage'[t] = "idle"
         /\ life # "live" => life' # "live"
<1>1. /\ DOMAIN stage = Threads /\ DOMAIN op = Threads
      /\ DOMAIN ele = Threads /\ DOMAIN ret = Threads
  BY DEF TypeOK
<1> QED
  BY <1>1, ReturnStep

(* An unsorted queue takes a new element at its end.                       *)
LEMMA QueuedAtEnd ==
  ASSUME NEW s \in Seq(Tests), NEW e \in Tests, NEW r \in Q!Queued(s, e)
  PROVE  r = Append(s, e)
<1>1. Len(s) \in Nat
  BY LenProperties
<1>2. r = Q!InsertAt(s, Len(s) + 1, e)
  BY <1>1 DEF Q!Queued
<1>3. Q!InsertAt(s, Len(s) + 1, e) = SubSeq(s, 1, Len(s)) \o <<e>> \o SubSeq(s, Len(s) + 1, Len(s))
  BY <1>1 DEF Q!InsertAt
<1>4. SubSeq(s, 1, Len(s)) = s
  BY SubSeqFull
<1>5. SubSeq(s, Len(s) + 1, Len(s)) = <<>>
  BY <1>1, SubSeqEmpty
<1>6. s \o <<e>> = Append(s, e) /\ Append(s, e) \in Seq(Tests)
  BY AppendIsConcat, AppendProperties
<1>7. Append(s, e) \o <<>> = Append(s, e)
  BY <1>6, ConcatEmptySeq
<1> QED
  BY <1>2, <1>3, <1>4, <1>5, <1>6, <1>7

(* An answer: only w's stage, result and pointer change besides what the   *)
(* call does to the queue.                                                 *)
AnswerFrame(w) ==
  /\ stage[w] = "called" /\ life = "live"
  /\ stage' = [stage EXCEPT ![w] = "done"]
  /\ UNCHANGED <<life, op, open, threads, control>>
  /\ \E r \in Int : ret' = [ret EXCEPT ![w] = r]
  /\ \E x : ele' = [ele EXCEPT ![w] = x]

PushSucceeds(p) ==
  /\ ret'[p] = 0 /\ ele'[p] = ele[p]
  /\ content' = Append(content, Element(p))
  /\ UNCHANGED <<taken, refused>>

PushFails(p) ==
  /\ ret'[p] # 0 /\ ele'[p] = ele[p]
  /\ UNCHANGED <<content, taken, refused>>

PopSucceeds(c) ==
  /\ content # <<>>
  /\ ret'[c] = 0 /\ ele'[c] = <<Head(content)>>
  /\ content' = Tail(content)
  /\ taken' = taken \cup {Head(content)}
  /\ UNCHANGED refused

PopFails(c) ==
  /\ content = <<>>
  /\ ret'[c] # 0 /\ ele'[c] = <<>>
  /\ UNCHANGED <<content, taken, refused>>

PeekSees(c) ==
  /\ ret'[c] = 0 => content # <<>>
  /\ ele'[c] = <<>> \/ (content # <<>> /\ ele'[c] = <<Head(content)>>)
  /\ UNCHANGED content
  /\ UNCHANGED history

LEMMA TakesEffectStep ==
  ASSUME TypeOK, NEW w \in Threads, NEW r \in Int, NEW x, Q!TakesEffect(w, r, x)
  PROVE  /\ stage' = [stage EXCEPT ![w] = "done"]
         /\ ret' = [ret EXCEPT ![w] = r] /\ ret'[w] = r
         /\ ele' = [ele EXCEPT ![w] = x] /\ ele'[w] = x
         /\ UNCHANGED <<life, op>>
BY DEF Q!TakesEffect, TypeOK

LEMMA PushAnswer ==
  ASSUME TypeOK, Shape, NEW p \in Producers, Answered(p)
  PROVE  AnswerFrame(p) /\ (PushSucceeds(p) \/ PushFails(p))
<1> USE Codes, ThreadNames
<1>0. life = "live" /\ UNCHANGED <<threads, control>>
  BY DEF Answered
<1>1. stage[p] = "called" /\ op[p] = "pushAndWait"
  BY DEF Answered, PeekAnswered, PopAnswered, PushAnswered, Q!Refuse, Q!Look, Q!Dequeue,
     Q!Enqueue, Q!Calling, Shape, ProducerShape, Busy
<1>2. ele[p] = <<Element(p)>> /\ cnt[p] <= MAX_CNT /\ ele[p][1] = Element(p)
  BY <1>1 DEF Shape, ProducerShape, Busy
<1>3. Element(p) \in Tests
  BY <1>2, SimpleAssumption DEF Element, Tests, TypeOK, Indices
<1>4. (Q!Enqueue(p) \/ Q!Refuse(p)) /\ UNCHANGED history
  BY <1>1 DEF Answered, PeekAnswered, PopAnswered, PushAnswered
<1>5. CASE Q!Enqueue(p)
  <2>1. content' = Append(content, Element(p))
    BY <1>2, <1>3, <1>5, QueuedAtEnd DEF Q!Enqueue, TypeOK
  <2>2. Q!TakesEffect(p, 0, ele[p]) /\ UNCHANGED open
    BY <1>5 DEF Q!Enqueue
  <2> QED
    BY <1>0, <1>1, <1>4, <2>1, <2>2, TakesEffectStep DEF AnswerFrame, PushSucceeds, history
<1>6. CASE Q!Refuse(p)
  <2>1. \E r \in Int : r # 0 /\ Q!TakesEffect(p, r, ele[p])
    BY <1>1, <1>6 DEF Q!Refuse, Q!Calling, Q!PushOps
  <2>2. UNCHANGED <<content, open>>
    BY <1>6 DEF Q!Refuse
  <2> QED
    BY <1>0, <1>1, <1>4, <2>1, <2>2, TakesEffectStep DEF AnswerFrame, PushFails, history
<1> QED
  BY <1>4, <1>5, <1>6

LEMMA PopAnswer ==
  ASSUME TypeOK, NEW c \in Consumers, Answered(c), op[c] = "pop"
  PROVE  AnswerFrame(c) /\ (PopSucceeds(c) \/ PopFails(c))
<1> USE Codes, ThreadNames
<1>0. life = "live" /\ UNCHANGED <<threads, control>>
  BY DEF Answered
<1>1. /\ UNCHANGED refused
      /\ \/ Q!Dequeue(c) /\ taken' = taken \cup {Head(content)}
         \/ Q!Refuse(c) /\ UNCHANGED taken
  BY DEF Answered, PeekAnswered, PopAnswered, PushAnswered
<1>2. CASE Q!Dequeue(c) /\ taken' = taken \cup {Head(content)}
  <2>1. /\ stage[c] = "called" /\ content # <<>> /\ content' = Tail(content) /\ UNCHANGED open
        /\ Q!TakesEffect(c, 0, <<Head(content)>>)
    BY <1>2 DEF Q!Dequeue, Q!Calling, Q!IsEmpty
  <2> QED
    BY <1>0, <1>1, <1>2, <2>1, TakesEffectStep DEF AnswerFrame, PopSucceeds
<1>3. CASE Q!Refuse(c) /\ UNCHANGED taken
  <2>1. /\ stage[c] = "called" /\ content = <<>> /\ UNCHANGED <<content, open>>
        /\ Q!TakesEffect(c, -7, <<>>)
    BY <1>3 DEF Q!Refuse, Q!Calling, Q!IsEmpty, Q!PushOps
  <2> QED
    BY <1>0, <1>1, <1>3, <2>1, TakesEffectStep DEF AnswerFrame, PopFails
<1> QED
  BY <1>1, <1>2, <1>3

LEMMA PeekAnswer ==
  ASSUME TypeOK, NEW c \in Consumers, Answered(c), op[c] = "peek"
  PROVE  AnswerFrame(c) /\ PeekSees(c)
<1> USE Codes, ThreadNames
<1>0. life = "live" /\ UNCHANGED <<threads, control>>
  BY DEF Answered
<1>1. /\ UNCHANGED history
      /\ IF content = <<>> THEN Q!Refuse(c) ELSE Q!Look(c) /\ ele'[c] = <<Head(content)>>
  BY DEF Answered, PeekAnswered, PopAnswered, PushAnswered
<1>2. CASE content = <<>>
  <2>1. stage[c] = "called" /\ UNCHANGED <<content, open>> /\ Q!TakesEffect(c, -5, <<>>)
    BY <1>1, <1>2 DEF Q!Refuse, Q!Calling, Q!PushOps
  <2>2. -5 \in Int
    OBVIOUS
  <2>3. /\ stage' = [stage EXCEPT ![c] = "done"]
        /\ ret' = [ret EXCEPT ![c] = -5] /\ ret'[c] = -5
        /\ ele' = [ele EXCEPT ![c] = <<>>] /\ ele'[c] = <<>>
        /\ UNCHANGED <<life, op>>
    BY <2>1, <2>2, TakesEffectStep
  <2>4. AnswerFrame(c)
    BY <1>0, <2>1, <2>2, <2>3 DEF AnswerFrame
  <2>5. ret'[c] # 0
    BY <2>3
  <2>6. UNCHANGED content /\ UNCHANGED history
    BY <1>1, <2>1
  <2>7. PeekSees(c)
    <3>1. ret'[c] = 0 => content # <<>>
      BY <2>5
    <3>2. ele'[c] = <<>> \/ (content # <<>> /\ ele'[c] = <<Head(content)>>)
      BY <2>3
    <3> QED
      BY <2>6, <3>1, <3>2 DEF PeekSees
  <2> QED
    BY <2>4, <2>7
<1>3. CASE content # <<>>
  <2>1. PICK i \in DOMAIN content : Q!TakesEffect(c, 0, <<content[i]>>)
    BY <1>1, <1>3 DEF Q!Look, Q!Calling
  <2>2. stage[c] = "called" /\ UNCHANGED <<content, open>>
    BY <1>1, <1>3 DEF Q!Look, Q!Calling
  <2> QED
    BY <1>0, <1>1, <1>3, <2>1, <2>2, TakesEffectStep DEF AnswerFrame, PeekSees, history
<1> QED
  BY <1>2, <1>3
-----------------------------------------------------------------------------
(***************************************************************************)
(* The initial state, and the arithmetic of main's passes                  *)
(***************************************************************************)
LEMMA InitSInv == Init => SInv
<1> SUFFICES ASSUME Init PROVE SInv
  OBVIOUS
<1> USE ThreadNames, Codes, SimpleAssumption DEF Init, Q!Init
<1>1. TypeOK
  BY DEF TypeOK, Phases, MainPCs
<1>2. Shape
  <2>1. \A t \in Threads : stage[t] = "idle"
    OBVIOUS
  <2>2. \A p \in Producers : ProducerShape(p)
    BY <2>1 DEF ProducerShape, Busy
  <2>3. \A c \in Consumers : ConsumerShape(c)
    BY <2>1 DEF ConsumerShape, Busy
  <2>4. MainShape
    BY <2>1 DEF MainShape, Busy, Threads
  <2> QED
    BY <2>2, <2>3, <2>4 DEF Shape
<1>3. Survivor
  <2>1. <<"consumer", 1>> \in Consumers
    BY DEF Consumers, Indices
  <2> QED
    BY <2>1 DEF Survivor, GoesOn
<1>4. Fate
  BY DEF Fate, Queued, Made, Maker, Tests, Producers
<1>5. Order
  BY DEF Order, Queued
<1>6. Polling
  BY DEF Polling, Busy, Threads
<1> QED
  BY <1>1, <1>2, <1>3, <1>4, <1>5, <1>6 DEF SInv

LEMMA Halves ==
  ASSUME NEW n \in Nat
  PROVE  /\ n % 2 = 0 => (n + 1) \div 2 = n \div 2 /\ (n + 2) \div 2 = n \div 2 + 1
         /\ n % 2 # 0 => (n + 1) \div 2 = n \div 2 + 1 /\ (n + 2) \div 2 = n \div 2 + 1
         /\ n \div 2 \in Nat /\ (n + 1) \div 2 \in Nat
         /\ (2 * n) \div 2 = n /\ (2 * n + 1) \div 2 = n
         /\ \A m \in Nat : n < 2 * m => n \div 2 < m
OBVIOUS
-----------------------------------------------------------------------------
(***************************************************************************)
(* The types                                                               *)
(***************************************************************************)
LEMMA ElementTyped ==
  ASSUME TypeOK, Shape, NEW p \in Producers, phase[p] \in {"none", "born", "top"}
  PROVE  Element(p) \in Tests /\ cnt[p] \in 1..MAX_CNT
<1>1. cnt[p] <= MAX_CNT /\ cnt[p] \in 1..(MAX_CNT + 1) /\ p[2] \in Indices
  BY ThreadNames DEF Shape, ProducerShape, TypeOK
<1> QED
  BY <1>1, SimpleAssumption DEF Element, Tests

(* main asks one of the threads.                                           *)
LEMMA EarlyWorkers ==
  ASSUME TypeOK, NEW class \in {"producer", "consumer"}, LooksAt(class)
  PROVE  early' \subseteq Workers
<1>1. looked \in Nat /\ MAX_TYPE \in Nat /\ looked < 2 * MAX_TYPE /\ early \subseteq Workers
  BY SimpleAssumption DEF LooksAt, TypeOK
<1>2. looked \div 2 \in Nat /\ looked \div 2 < MAX_TYPE
  BY <1>1, Halves
<1>3. looked \div 2 + 1 \in Indices
  BY <1>1, <1>2 DEF Indices
<1>4. <<class, looked \div 2 + 1>> \in Workers
  BY <1>3 DEF Workers, Producers, Consumers
<1>5. early' \subseteq early \cup {<<class, looked \div 2 + 1>>}
  BY DEF LooksAt, Nth
<1> QED
  BY <1>1, <1>4, <1>5

(* The steps that leave the queue and the elements alone.                  *)
Quiet == UNCHANGED <<queue, cnt, history>>

LEMMA QuietTypes ==
  ASSUME TypeOK, Polling, Quiet,
         \/ \E w \in Workers : Starts(w) \/ Ends(w)
         \/ \E p \in Producers : MallocFails(p)
         \/ Runs \/ AllRun \/ PassEnds \/ DeletesThread
         \/ LooksAt("producer") \/ LooksAt("consumer")
  PROVE  TypeOK'
<1> USE ThreadNames, SimpleAssumption DEF TypeOK, Quiet, queue, history
<1>1. CASE \E w \in Workers : Starts(w) \/ Ends(w)
  BY <1>1 DEF Starts, Ends, Goes, Phases, control
<1>2. CASE \E p \in Producers : MallocFails(p)
  BY <1>2 DEF MallocFails, Goes, Phases, control
<1>3. CASE Runs
  BY <1>3 DEF Runs, Goes, Phases, control
<1>4. CASE AllRun
  BY <1>4 DEF AllRun, StartsPass, ResetCounts, threads, MainPCs
<1>5. CASE PassEnds
  BY <1>5 DEF PassEnds, StartsPass, ResetCounts, threads, MainPCs
<1>6. CASE DeletesThread
  <2>1. deleted' \subseteq Workers
    BY <1>6 DEF DeletesThread
  <2> QED
    BY <1>6, <2>1 DEF DeletesThread, threads, MainPCs
<1>7. CASE LooksAt("producer") \/ LooksAt("consumer")
  <2>0. early' \subseteq Workers
    BY <1>7, EarlyWorkers
  <2>1. looked \in Nat /\ looked < 2 * MAX_TYPE /\ looked' = looked + 1
    BY <1>7 DEF LooksAt
  <2>2. /\ pc = "polling" /\ UNCHANGED <<threads, deleted, pc>>
        /\ proFound <= AskedProducers /\ comFound <= AskedConsumers
    BY <1>7 DEF LooksAt, Polling
  <2>3. CASE LooksAt("producer")
    <3>1. proFound' \in {proFound, proFound + 1} /\ UNCHANGED comFound /\ looked % 2 = 0
      BY <2>1, <2>3 DEF LooksAt
    <3>2. AskedProducers = looked \div 2 /\ looked \div 2 \in Nat /\ looked \div 2 < MAX_TYPE
      BY <2>1, <3>1, Halves DEF AskedProducers
    <3>3. proFound' \in 0..MAX_TYPE
      BY <2>2, <3>1, <3>2
    <3> QED
      BY <2>0, <2>1, <2>2, <3>1, <3>3 DEF threads
  <2>4. CASE LooksAt("consumer")
    <3>1. comFound' \in {comFound, comFound + 1} /\ UNCHANGED proFound
      BY <2>4 DEF LooksAt
    <3>2. AskedConsumers = looked \div 2 /\ looked \div 2 \in Nat /\ looked \div 2 < MAX_TYPE
      BY <2>1, Halves DEF AskedConsumers
    <3>3. comFound' \in 0..MAX_TYPE
      BY <2>2, <3>1, <3>2
    <3> QED
      BY <2>0, <2>1, <2>2, <3>1, <3>3 DEF threads
  <2> QED
    BY <1>7, <2>3, <2>4
<1> QED
  BY <1>1, <1>2, <1>3, <1>4, <1>5, <1>6, <1>7

LEMMA CallTypes ==
  ASSUME TypeOK, NEW t \in Threads, NEW x \in {<<>>} \cup {<<e>> : e \in Tests},
         NEW o \in {"pushAndWait", "peek", "pop", "close", "release"},
         Calls(t, o, x), UNCHANGED <<threads, control, history>>
  PROVE  TypeOK'
<1>1. /\ stage' = [stage EXCEPT ![t] = "called"]
      /\ op' = [op EXCEPT ![t] = o]
      /\ ele' = [ele EXCEPT ![t] = x]
      /\ life' \in {"dying", "live"}
      /\ UNCHANGED <<content, open, ret>>
  BY CallsStep
<1> QED
  BY <1>1 DEF TypeOK, threads, control, history

LEMMA AnswerTypes ==
  ASSUME TypeOK, Shape, NEW w \in Workers, Answered(w)
  PROVE  TypeOK'
<1> USE ThreadNames
<1>0. w \in Threads
  OBVIOUS
<1>1. CASE w \in Producers
  <2>1. AnswerFrame(w) /\ (PushSucceeds(w) \/ PushFails(w))
    BY <1>1, PushAnswer
  <2>2. Element(w) \in Tests
    <3>1. phase[w] = "top"
      BY <1>1, <2>1 DEF AnswerFrame, Shape, ProducerShape, Busy
    <3> QED
      BY <1>1, <3>1, ElementTyped
  <2>3. content' \in Seq(Tests)
    <3>1. content \in Seq(Tests) /\ Append(content, Element(w)) \in Seq(Tests)
      BY <2>2, AppendProperties DEF TypeOK
    <3> QED
      BY <2>1, <3>1 DEF PushSucceeds, PushFails
  <2>4. PICK r \in Int : ret' = [ret EXCEPT ![w] = r]
    BY <2>1 DEF AnswerFrame
  <2>5. PICK x : ele' = [ele EXCEPT ![w] = x]
    BY <2>1 DEF AnswerFrame
  <2>6. ele' = ele
    BY <1>0, <2>1, <2>5 DEF PushSucceeds, PushFails, TypeOK
  <2> QED
    BY <1>0, <2>1, <2>3, <2>4, <2>6 DEF AnswerFrame, PushSucceeds, PushFails, TypeOK, threads, control
<1>2. CASE w \in Consumers
  <2>1. AnswerFrame(w) /\ (PopSucceeds(w) \/ PopFails(w) \/ PeekSees(w))
    BY <1>2, PopAnswer, PeekAnswer DEF Answered, PeekAnswered, PopAnswered, PushAnswered,
       Q!Enqueue, Q!Refuse, Q!Calling, Shape, ConsumerShape, Busy
  <2>2. content # <<>> => Head(content) \in Tests /\ Tail(content) \in Seq(Tests)
    BY HeadTailProperties DEF TypeOK
  <2>3. /\ content' \in Seq(Tests) /\ taken' \subseteq Tests /\ refused' \subseteq Tests
        /\ ele'[w] \in {<<>>} \cup {<<e>> : e \in Tests}
    BY <2>1, <2>2 DEF PopSucceeds, PopFails, PeekSees, TypeOK, history
  <2>4. PICK r \in Int : ret' = [ret EXCEPT ![w] = r]
    BY <2>1 DEF AnswerFrame
  <2>5. PICK x : ele' = [ele EXCEPT ![w] = x]
    BY <2>1 DEF AnswerFrame
  <2>6. ele' \in [Threads -> {<<>>} \cup {<<e>> : e \in Tests}]
    BY <1>0, <2>3, <2>5 DEF TypeOK
  <2> QED
    BY <1>0, <2>1, <2>3, <2>4, <2>6 DEF AnswerFrame, TypeOK, threads, control
<1> QED
  BY <1>1, <1>2

LEMMA ReturnTypes ==
  ASSUME TypeOK, Shape,
         \/ \E p \in Producers : PushReturns(p)
         \/ \E c \in Consumers : PeekReturns(c) \/ PopReturns(c)
         \/ MainReturns
  PROVE  TypeOK'
<1> USE ThreadNames
<1>1. CASE \E p \in Producers : PushReturns(p)
  <2>1. PICK p \in Producers : PushReturns(p)
    BY <1>1
  <2>2. p \in Threads /\ Q!Return(p) /\ op[p] = "pushAndWait" /\ stage[p] = "done"
    BY <2>1 DEF PushReturns, Returned
  <2>3. /\ stage' = [stage EXCEPT ![p] = "idle"] /\ op' = [op EXCEPT ![p] = "none"]
        /\ ele' = [ele EXCEPT ![p] = <<>>] /\ ret' = [ret EXCEPT ![p] = 0]
        /\ UNCHANGED <<content, open, life>>
    BY <2>2, ReturnStep
  <2>4. phase[p] = "top"
    BY <2>2 DEF Shape, ProducerShape, Busy
  <2>5. Element(p) \in Tests /\ cnt[p] \in 1..MAX_CNT
    BY <2>4, ElementTyped
  <2>6. /\ cnt' = [cnt EXCEPT ![p] = @ + 1]
        /\ phase' = [phase EXCEPT ![p] = IF ReachedMax(p) THEN "stops" ELSE "top"]
        /\ refused' \subseteq refused \cup {Element(p)}
        /\ UNCHANGED <<mRunning, control, taken>>
    BY <2>1 DEF PushReturns, Counts, Goes
  <2>7. cnt' \in [Producers -> 1..(MAX_CNT + 1)]
    BY <2>5, <2>6, SimpleAssumption DEF TypeOK
  <2>8. phase' \in [Workers -> Phases] /\ refused' \subseteq Tests
    BY <2>5, <2>6 DEF TypeOK, Phases
  <2> QED
    BY <2>2, <2>3, <2>6, <2>7, <2>8 DEF TypeOK, control
<1>2. CASE \E c \in Consumers : PeekReturns(c) \/ PopReturns(c)
  <2>1. PICK c \in Consumers : PeekReturns(c) \/ PopReturns(c)
    BY <1>2
  <2>2. c \in Threads /\ Q!Return(c) /\ op[c] # "release"
    BY <2>1 DEF PeekReturns, PopReturns, Returned
  <2>3. /\ stage' = [stage EXCEPT ![c] = "idle"] /\ op' = [op EXCEPT ![c] = "none"]
        /\ ele' = [ele EXCEPT ![c] = <<>>] /\ ret' = [ret EXCEPT ![c] = 0]
        /\ UNCHANGED <<content, open, life>>
    BY <2>2, ReturnStep
  <2>4. /\ phase' \in [Workers -> Phases]
        /\ UNCHANGED <<mRunning, cnt, control, history>>
    BY <2>1 DEF PeekReturns, PopReturns, Goes, AfterPeek, TypeOK, Phases
  <2> QED
    BY <2>2, <2>3, <2>4 DEF TypeOK, control, history
<1>3. CASE MainReturns
  <2>1. Main \in Threads /\ Q!Return(Main)
    BY <1>3 DEF MainReturns, Threads
  <2>2. /\ stage' = [stage EXCEPT ![Main] = "idle"] /\ op' = [op EXCEPT ![Main] = "none"]
        /\ ele' = [ele EXCEPT ![Main] = <<>>] /\ ret' = [ret EXCEPT ![Main] = 0]
        /\ life' \in {"dead", life}
        /\ UNCHANGED <<content, open>>
    BY <2>1, ReturnStep
  <2> QED
    BY <1>3, <2>1, <2>2 DEF MainReturns, TypeOK, threads, history, MainPCs
<1> QED
  BY <1>1, <1>2, <1>3

(* setAllowedNewData(false) answers; ~Queue frees what is left.            *)
LEMMA MainTakesEffect ==
  ASSUME TypeOK, MainAnswered \/ ReleaseEmpties
  PROVE  /\ TypeOK'
         /\ UNCHANGED <<life, op, ele, threads, control, history>>
         /\ stage[Main] # "idle" /\ stage' = [stage EXCEPT ![Main] = "done"]
         /\ \E r \in Int : ret' = [ret EXCEPT ![Main] = r]
         /\ content' = content \/ (content' = <<>> /\ stage[Main] # "idle" /\ op[Main] = "release")
<1>0. Main \in Threads
  BY DEF Threads
<1>1. CASE MainAnswered
  <2>1. /\ stage[Main] = "called" /\ open' \in BOOLEAN /\ UNCHANGED content
        /\ Q!TakesEffect(Main, 0, ele[Main])
        /\ UNCHANGED <<threads, control, history>>
    BY <1>1, Codes DEF MainAnswered, Q!OpenOrClose, Q!Calling
  <2>2. /\ stage' = [stage EXCEPT ![Main] = "done"]
        /\ ret' = [ret EXCEPT ![Main] = 0]
        /\ ele' = [ele EXCEPT ![Main] = ele[Main]]
        /\ UNCHANGED <<life, op>>
    BY <1>0, <2>1, TakesEffectStep
  <2>3. ele' = ele
    BY <1>0, <2>2 DEF TypeOK
  <2>4. TypeOK'
    BY <1>0, <2>1, <2>2, <2>3 DEF TypeOK, threads, control, history
  <2>5. \E r \in Int : ret' = [ret EXCEPT ![Main] = r]
    <3>1. 0 \in Int
      OBVIOUS
    <3> QED
      BY <2>2, <3>1, Zenon
  <2>6. UNCHANGED <<life, op, ele, threads, control, history>>
    BY <2>1, <2>2, <2>3
  <2> QED
    BY <2>1, <2>2, <2>4, <2>5, <2>6
<1>2. CASE ReleaseEmpties
  <2>1. /\ stage[Main] = "done" /\ op[Main] = "release" /\ content' = <<>>
        /\ UNCHANGED <<open, life, stage, op, ele, ret, threads, control, history>>
    BY <1>2 DEF ReleaseEmpties, Q!Empty
  <2>2. stage' = [stage EXCEPT ![Main] = "done"] /\ ret' = [ret EXCEPT ![Main] = ret[Main]] /\ ret[Main] \in Int
    BY <1>0, <2>1 DEF TypeOK
  <2>3. \E r \in Int : ret' = [ret EXCEPT ![Main] = r]
    BY <2>2
  <2>4. TypeOK'
    BY <2>1 DEF TypeOK, threads, control, history
  <2> QED
    BY <2>1, <2>2, <2>3, <2>4
<1> QED
  BY <1>1, <1>2
-----------------------------------------------------------------------------
(***************************************************************************)
(* Which call each thread is in                                            *)
(***************************************************************************)
(* A step of t leaves the others where they are.                           *)
Others(t) ==
  /\ \A u \in Threads \ {t} : /\ stage'[u] = stage[u] /\ op'[u] = op[u]
                              /\ ele'[u] = ele[u] /\ ret'[u] = ret[u]
  /\ \A w \in Workers \ {t} : phase'[w] = phase[w]
  /\ \A p \in Producers \ {t} : cnt'[p] = cnt[p]
  /\ taken \subseteq taken'
  /\ life # "live" => life' # "live"

LEMMA OthersKeepShape ==
  ASSUME Shape, NEW t \in Threads, Others(t)
  PROVE  /\ \A p \in Producers \ {t} : ProducerShape(p)'
         /\ \A c \in Consumers \ {t} : ConsumerShape(c)'
         /\ t # Main => MainShape'
<1> USE ThreadNames
<1>1. ASSUME NEW p \in Producers \ {t} PROVE ProducerShape(p)'
  BY <1>1 DEF Shape, ProducerShape, Busy, Others, Element
<1>2. ASSUME NEW c \in Consumers \ {t} PROVE ConsumerShape(c)'
  BY <1>2, Codes DEF Shape, ConsumerShape, Busy, Others
<1>3. ASSUME t # Main PROVE MainShape'
  BY <1>3 DEF Shape, MainShape, Busy, Others, Threads
<1> QED
  BY <1>1, <1>2, <1>3

LEMMA QuietOthers ==
  ASSUME TypeOK, Shape, Quiet, NEW t \in Threads,
         \A w \in Workers \ {t} : phase'[w] = phase[w]
  PROVE  Others(t)
BY ThreadNames DEF Others, Quiet, queue, history

(* The steps of a worker outside the queue's calls.                        *)
Moves(w) ==
  \/ phase[w] = "none" /\ Goes(w, "born")
  \/ phase[w] = "born" /\ Goes(w, "top")
  \/ phase[w] = "stops" /\ Goes(w, "ended")
  \/ w \in Producers /\ phase[w] = "top" /\ stage[w] = "idle" /\ Goes(w, "stops")

LEMMA QuietMoves ==
  ASSUME \/ \E w \in Workers : Starts(w) \/ Ends(w)
         \/ \E p \in Producers : MallocFails(p)
         \/ Runs
         \/ UNCHANGED phase
  PROVE  UNCHANGED phase \/ \E w \in Workers : Moves(w)
<1> USE ThreadNames
<1>1. CASE \E w \in Workers : Starts(w) \/ Ends(w)
  BY <1>1 DEF Starts, Ends, Moves
<1>2. CASE \E p \in Producers : MallocFails(p)
  BY <1>2 DEF MallocFails, At, Moves
<1>3. CASE Runs
  BY <1>3 DEF Runs, Moves
<1> QED
  BY <1>1, <1>2, <1>3

LEMMA QuietShape ==
  ASSUME TypeOK, Shape, Quiet, UNCHANGED phase \/ \E w \in Workers : Moves(w)
  PROVE  Shape'
<1> USE ThreadNames
<1>1. CASE \E w \in Workers : Moves(w)
  <2>1. PICK w \in Workers : Moves(w)
    BY <1>1
  <2>2. stage[w] = "idle"
    BY <2>1 DEF Moves, Shape, ProducerShape, ConsumerShape, Busy
  <2>3. Others(w) /\ w \in Threads /\ w # Main
    BY <2>1, QuietOthers DEF Moves, Goes, TypeOK
  <2>4. stage'[w] = "idle" /\ cnt' = cnt /\ phase'[w] # "peeked"
    BY <2>1, <2>2 DEF Quiet, queue, Moves, Goes, TypeOK
  <2>5. w \in Producers => ProducerShape(w)'
    BY <2>1, <2>4 DEF Shape, ProducerShape, Busy, Moves, Goes, TypeOK
  <2>6. w \in Consumers => ConsumerShape(w)'
    BY <2>4 DEF ConsumerShape, Busy
  <2> QED
    BY <2>3, <2>5, <2>6, OthersKeepShape DEF Shape
<1>2. CASE UNCHANGED phase
  BY <1>2 DEF Quiet, queue, history, Shape, ProducerShape, ConsumerShape, MainShape, Busy, Element, Q!Q_OK
<1> QED
  BY <1>1, <1>2

LEMMA CallShape ==
  ASSUME TypeOK, Shape,
         \/ \E p \in Producers : Pushes(p)
         \/ \E c \in Consumers : Peeks(c) \/ Pops(c)
         \/ MainCalls
  PROVE  Shape'
<1> USE ThreadNames
<1>0. ASSUME NEW t \in Threads, NEW o \in {"pushAndWait", "peek", "pop", "close", "release"},
             NEW x, Calls(t, o, x), UNCHANGED <<threads, control, history>>
      PROVE  /\ Others(t) /\ stage'[t] = "called" /\ op'[t] = o /\ ele'[t] = x
             /\ o = "release" => life' # "live"
  BY <1>0, CallsStep DEF Others, TypeOK, threads, history
<1>1. CASE \E p \in Producers : Pushes(p)
  <2>1. PICK p \in Producers : Pushes(p)
    BY <1>1
  <2>2. /\ Others(p) /\ stage'[p] = "called" /\ op'[p] = "pushAndWait" /\ ele'[p] = <<Element(p)>>
        /\ phase[p] = "top" /\ UNCHANGED <<phase, cnt>>
    BY <1>0, <2>1 DEF Pushes, At, threads
  <2>3. ProducerShape(p)'
    BY <2>2 DEF Shape, ProducerShape, Busy, Element
  <2> QED
    BY <2>2, <2>3, OthersKeepShape DEF Shape
<1>2. CASE \E c \in Consumers : Peeks(c) \/ Pops(c)
  <2>1. PICK c \in Consumers : Peeks(c) \/ Pops(c)
    BY <1>2
  <2>2. /\ Others(c) /\ stage'[c] = "called" /\ UNCHANGED phase
        /\ \/ phase[c] = "top" /\ op'[c] = "peek"
           \/ phase[c] = "peeked" /\ op'[c] = "pop"
    BY <1>0, <2>1 DEF Peeks, Pops, At, threads
  <2>3. ConsumerShape(c)'
    BY <2>2 DEF ConsumerShape, Busy
  <2> QED
    BY <2>2, <2>3, OthersKeepShape DEF Shape
<1>3. CASE MainCalls
  <2>1. /\ Others(Main) /\ op'[Main] \in {"close", "release"}
        /\ op'[Main] = "release" => life' # "live"
    BY <1>0, <1>3 DEF MainCalls, Threads
  <2>2. MainShape'
    BY <2>1 DEF MainShape
  <2> QED
    BY <2>1, <2>2, OthersKeepShape DEF Shape, Threads
<1> QED
  BY <1>1, <1>2, <1>3

LEMMA ReturnShape ==
  ASSUME TypeOK, Shape,
         \/ \E p \in Producers : PushReturns(p)
         \/ \E c \in Consumers : PeekReturns(c) \/ PopReturns(c)
         \/ MainReturns
  PROVE  Shape'
<1> USE ThreadNames
<1>0. ASSUME NEW t \in Threads, Q!Return(t), UNCHANGED taken,
             \A w \in Workers \ {t} : phase'[w] = phase[w],
             \A p \in Producers \ {t} : cnt'[p] = cnt[p]
      PROVE  Others(t) /\ ~Busy(t)'
  BY <1>0, ReturnOthers DEF Others, Busy
<1>1. CASE \E p \in Producers : PushReturns(p)
  <2>1. PICK p \in Producers : PushReturns(p)
    BY <1>1
  <2>2. Others(p) /\ ~Busy(p)'
    BY <1>0, <2>1 DEF PushReturns, Goes, Counts, TypeOK
  <2>3. /\ cnt' = [cnt EXCEPT ![p] = @ + 1]
        /\ phase' = [phase EXCEPT ![p] = IF ReachedMax(p) THEN "stops" ELSE "top"]
    BY <2>1 DEF PushReturns, Goes, Counts
  <2>4. ProducerShape(p)'
    BY <2>2, <2>3, SimpleAssumption DEF ProducerShape, ReachedMax, TypeOK
  <2> QED
    BY <2>2, <2>4, OthersKeepShape DEF Shape
<1>2. CASE \E c \in Consumers : PeekReturns(c) \/ PopReturns(c)
  <2>1. PICK c \in Consumers : PeekReturns(c) \/ PopReturns(c)
    BY <1>2
  <2>2. Others(c) /\ ~Busy(c)'
    BY <1>0, <2>1 DEF PeekReturns, PopReturns, Goes, TypeOK, history
  <2>3. ConsumerShape(c)'
    BY <2>2 DEF ConsumerShape, Busy
  <2> QED
    BY <2>2, <2>3, OthersKeepShape DEF Shape
<1>3. CASE MainReturns
  <2>1. Others(Main) /\ ~Busy(Main)'
    BY <1>0, <1>3 DEF MainReturns, Threads, threads, history
  <2>2. MainShape'
    BY <2>1 DEF MainShape
  <2> QED
    BY <2>1, <2>2, OthersKeepShape DEF Shape, Threads
<1> QED
  BY <1>1, <1>2, <1>3

LEMMA AnswerOthers ==
  ASSUME TypeOK, NEW w \in Workers, AnswerFrame(w), taken \subseteq taken'
  PROVE  /\ Others(w) /\ stage'[w] = "done" /\ op'[w] = op[w]
         /\ UNCHANGED <<threads, control, life>>
<1>1. w \in Threads
  BY ThreadNames
<1>2. UNCHANGED <<life, op, open, threads, control>> /\ stage' = [stage EXCEPT ![w] = "done"]
  BY DEF AnswerFrame
<1>3. \A u \in Threads \ {w} : ele'[u] = ele[u] /\ ret'[u] = ret[u]
  BY DEF AnswerFrame, TypeOK
<1> QED
  BY <1>1, <1>2, <1>3 DEF Others, TypeOK, threads

(* What an answer is.                                                      *)
LEMMA Answers ==
  ASSUME TypeOK, Shape, NEW w \in Workers, Answered(w)
  PROVE  /\ AnswerFrame(w) /\ taken \subseteq taken'
         /\ \/ w \in Producers /\ PushSucceeds(w)
            \/ w \in Producers /\ PushFails(w)
            \/ w \in Consumers /\ op[w] = "pop" /\ PopSucceeds(w)
            \/ w \in Consumers /\ op[w] = "pop" /\ PopFails(w)
            \/ w \in Consumers /\ op[w] = "peek" /\ PeekSees(w)
<1> USE ThreadNames
<1>1. CASE w \in Producers
  BY <1>1, PushAnswer DEF PushSucceeds, PushFails
<1>2. CASE w \in Consumers
  <2>1. op[w] \in {"peek", "pop"}
    BY <1>2 DEF Answered, PeekAnswered, PopAnswered, PushAnswered,
       Q!Enqueue, Q!Refuse, Q!Calling, Shape, ConsumerShape, Busy
  <2> QED
    BY <1>2, <2>1, PopAnswer, PeekAnswer DEF PopSucceeds, PopFails, PeekSees, history
<1> QED
  BY <1>1, <1>2

LEMMA AnswerShape ==
  ASSUME TypeOK, Shape, NEW w \in Workers, Answered(w)
  PROVE  Shape'
<1> USE ThreadNames
<1>1. /\ Others(w) /\ stage[w] = "called" /\ stage'[w] = "done" /\ op'[w] = op[w]
      /\ UNCHANGED <<phase, cnt, life>>
  BY Answers, AnswerOthers DEF AnswerFrame, threads
<1>2. w \in Producers => ProducerShape(w)'
  <2>1. w \in Producers => ele'[w] = ele[w]
    BY Answers DEF PushSucceeds, PushFails
  <2> QED
    BY <1>1, <2>1 DEF Shape, ProducerShape, Busy, Element
<1>3. ASSUME w \in Consumers PROVE ConsumerShape(w)'
  <2>1. op[w] = "pop" /\ ret'[w] = 0 => \E e \in taken' : ele'[w] = <<e>>
    BY <1>3, Answers DEF PopSucceeds, PopFails
  <2> QED
    BY <1>1, <1>3, <2>1, Codes DEF Shape, ConsumerShape, Busy
<1>4. w # Main /\ w \in Threads
  OBVIOUS
<1> QED
  BY <1>1, <1>2, <1>3, <1>4, OthersKeepShape DEF Shape

LEMMA MainEffectShape ==
  ASSUME TypeOK, Shape, MainAnswered \/ ReleaseEmpties
  PROVE  Shape'
<1> USE ThreadNames
<1>1. /\ UNCHANGED <<life, op, ele, phase, cnt, taken>> /\ stage[Main] # "idle"
      /\ stage' = [stage EXCEPT ![Main] = "done"]
      /\ \E r \in Int : ret' = [ret EXCEPT ![Main] = r]
  BY MainTakesEffect DEF threads, history
<1>2. Others(Main)
  BY <1>1 DEF Others, TypeOK
<1>3. MainShape'
  BY <1>1 DEF Shape, MainShape, Busy
<1> QED
  BY <1>2, <1>3, OthersKeepShape DEF Shape, Threads
-----------------------------------------------------------------------------
(***************************************************************************)
(* There is always a consumer that goes on                                 *)
(***************************************************************************)
(* A step that takes nothing out of the queue and leaves every consumer    *)
(* going on that did.                                                      *)
LEMMA SurvivorKept ==
  ASSUME Survivor, taken \subseteq taken', life' = "live" => life = "live",
         NEW c, \A d \in Consumers \ {c} : GoesOn(d) => GoesOn(d)',
         life' = "live" /\ ~LastTaken' =>
           \/ c \notin Consumers
           \/ GoesOn(c) => GoesOn(c)'
           \/ \E d \in Consumers : GoesOn(d)'
  PROVE  Survivor'
<1> SUFFICES ASSUME life' = "live", ~LastTaken' PROVE \E d \in Consumers : GoesOn(d)'
  BY DEF Survivor
<1>1. life = "live" /\ ~LastTaken
  BY DEF LastTaken
<1>2. PICK d \in Consumers : GoesOn(d)
  BY <1>1 DEF Survivor
<1> QED
  BY <1>2

LEMMA OthersGoOn ==
  ASSUME NEW t \in Threads, Others(t), content # <<>> => content' # <<>>,
         NEW d \in Consumers \ {t}, GoesOn(d)
  PROVE  GoesOn(d)'
BY ThreadNames, Codes DEF GoesOn, Others, WantsMore

LEMMA QuietSurvivor ==
  ASSUME TypeOK, Shape, Survivor, Quiet, UNCHANGED phase \/ \E w \in Workers : Moves(w)
  PROVE  Survivor'
<1> USE ThreadNames
<1>1. UNCHANGED <<content, stage, ele, ret, life, taken>>
  BY DEF Quiet, queue, history
<1>2. ASSUME NEW d \in Consumers, GoesOn(d) PROVE GoesOn(d)'
  <2>1. CASE UNCHANGED phase
    BY <1>1, <1>2, <2>1, Codes DEF GoesOn, WantsMore
  <2>2. CASE phase[d] = phase'[d]
    BY <1>1, <1>2, <2>2, Codes DEF GoesOn, WantsMore
  <2>3. CASE \E w \in Workers : Moves(w) /\ phase[d] # phase'[d]
    <3>1. Moves(d)
      BY <2>3 DEF Moves, Goes, TypeOK
    <3>2. stage[d] = "idle"
      BY <3>1 DEF Moves, Shape, ConsumerShape, Busy
    <3> QED
      BY <1>1, <1>2, <3>1, <3>2 DEF Moves, Goes, GoesOn, TypeOK
  <2> QED
    BY <2>1, <2>2, <2>3
<1> QED
  BY <1>1, <1>2, SurvivorKept

LEMMA CallSurvivor ==
  ASSUME TypeOK, Shape, Survivor,
         \/ \E p \in Producers : Pushes(p)
         \/ \E c \in Consumers : Peeks(c) \/ Pops(c)
         \/ MainCalls
  PROVE  Survivor'
<1> USE ThreadNames
<1>0. ASSUME NEW t \in Threads, NEW o, NEW x, Calls(t, o, x),
             UNCHANGED <<threads, control, history>>
      PROVE  Survivor'
  <2>1. /\ stage[t] = "idle" /\ life = "live" /\ stage' = [stage EXCEPT ![t] = "called"]
        /\ UNCHANGED <<content, ret, phase, taken>>
    BY <1>0, CallsStep DEF threads, history
  <2>2. Others(t)
    BY <1>0, <2>1, CallsStep DEF Others, TypeOK, threads
  <2>3. t \in Consumers => (GoesOn(t) => GoesOn(t)')
    BY <2>1 DEF GoesOn, TypeOK
  <2> QED
    BY <2>1, <2>2, <2>3, OthersGoOn, SurvivorKept
<1> QED
  BY <1>0 DEF Pushes, Peeks, Pops, MainCalls, Threads

LEMMA ReturnSurvivor ==
  ASSUME TypeOK, Shape, Survivor,
         \/ \E p \in Producers : PushReturns(p)
         \/ \E c \in Consumers : PeekReturns(c) \/ PopReturns(c)
         \/ MainReturns
  PROVE  Survivor'
<1> USE ThreadNames
<1>0. ASSUME NEW t \in Threads, Q!Return(t), UNCHANGED taken,
             \A w \in Workers \ {t} : phase'[w] = phase[w],
             \A p \in Producers \ {t} : cnt'[p] = cnt[p],
             t \in Consumers => (GoesOn(t) => GoesOn(t)')
      PROVE  Survivor'
  <2>1. UNCHANGED content /\ (life' = "live" => life = "live")
    BY <1>0, ReturnStep
  <2>2. Others(t)
    BY <1>0, ReturnOthers DEF Others
  <2> QED
    BY <1>0, <2>1, <2>2, OthersGoOn, SurvivorKept
<1>1. CASE \E p \in Producers : PushReturns(p)
  <2>1. PICK p \in Producers : PushReturns(p)
    BY <1>1
  <2> QED
    BY <1>0, <2>1 DEF PushReturns, Goes, Counts, TypeOK
<1>2. CASE \E c \in Consumers : PeekReturns(c)
  <2>1. PICK c \in Consumers : PeekReturns(c)
    BY <1>2
  <2>2. /\ stage[c] = "done" /\ op[c] = "peek" /\ stage'[c] = "idle" /\ UNCHANGED content
        /\ phase'[c] = IF ret[c] = Q!Q_OK THEN "peeked" ELSE "top"
    BY <2>1, ReturnStep DEF PeekReturns, Returned, Goes, AfterPeek, TypeOK
  <2>3. phase[c] = "top"
    BY <2>2 DEF Shape, ConsumerShape, Busy
  <2>4. GoesOn(c) => GoesOn(c)'
    BY <2>2, <2>3 DEF GoesOn
  <2> QED
    BY <1>0, <2>1, <2>4 DEF PeekReturns, Goes, TypeOK, history
<1>3. CASE \E c \in Consumers : PopReturns(c)
  <2>1. PICK c \in Consumers : PopReturns(c)
    BY <1>3
  <2>2. /\ stage[c] = "done" /\ op[c] = "pop" /\ stage'[c] = "idle"
        /\ phase'[c] = IF WantsMore(c) THEN "top" ELSE "stops"
    BY <2>1, ReturnStep DEF PopReturns, Returned, Goes, TypeOK
  <2>3. phase[c] = "peeked"
    BY <2>2 DEF Shape, ConsumerShape, Busy
  <2>4. GoesOn(c) => GoesOn(c)'
    BY <2>2, <2>3 DEF GoesOn
  <2> QED
    BY <1>0, <2>1, <2>4 DEF PopReturns, Goes, TypeOK, history
<1>4. CASE MainReturns
  BY <1>0, <1>4 DEF MainReturns, Threads, threads, history
<1> QED
  BY <1>1, <1>2, <1>3, <1>4

LEMMA AnswerSurvivor ==
  ASSUME TypeOK, Shape, Survivor, NEW w \in Workers, Answered(w)
  PROVE  Survivor'
<1> USE ThreadNames
<1>1. /\ w \in Threads /\ AnswerFrame(w) /\ taken \subseteq taken' /\ Others(w)
      /\ stage[w] = "called" /\ stage'[w] = "done" /\ UNCHANGED <<phase, life>>
  BY Answers, AnswerOthers DEF AnswerFrame, threads
<1>2. CASE w \in Producers
  <2>1. content # <<>> => content' # <<>>
    <3>0. content \in Seq(Tests)
      BY DEF TypeOK
    <3>1. PushSucceeds(w) => content' # <<>>
      BY <3>0, AppendProperties DEF PushSucceeds
    <3> QED
      BY <1>2, <3>1, Answers DEF PushFails
  <2> QED
    BY <1>1, <1>2, <2>1, OthersGoOn, SurvivorKept
<1>3. CASE w \in Consumers /\ op[w] = "pop" /\ PopSucceeds(w)
  <2>1. phase'[w] = "peeked"
    BY <1>1, <1>3 DEF Shape, ConsumerShape, Busy
  <2>2. Head(content) \in Tests /\ Head(content).value <= MAX_CNT /\ Head(content).value \in Nat
    <3>1. Head(content) \in Tests
      BY <1>3, HeadTailProperties DEF PopSucceeds, TypeOK
    <3> QED
      BY <3>1, SimpleAssumption DEF Tests
  <2>3. LastTaken' \/ Head(content).value < MAX_CNT
    BY <1>3, <2>2, SimpleAssumption DEF PopSucceeds, LastTaken
  <2>4. Head(content).value < MAX_CNT => WantsMore(w)'
    BY <1>3, Codes DEF PopSucceeds, WantsMore
  <2>5. LastTaken' \/ GoesOn(w)'
    BY <1>1, <2>1, <2>3, <2>4 DEF GoesOn
  <2> QED
    BY <1>3, <2>5 DEF Survivor
<1>4. CASE w \in Consumers /\ op[w] = "pop" /\ PopFails(w)
  <2>1. phase[w] = "peeked"
    BY <1>1, <1>4 DEF Shape, ConsumerShape, Busy
  <2>2. ~GoesOn(w) /\ UNCHANGED content
    BY <1>1, <1>4, <2>1 DEF PopFails, GoesOn
  <2> QED
    BY <1>1, <2>2, OthersGoOn, SurvivorKept
<1>5. CASE w \in Consumers /\ op[w] = "peek" /\ PeekSees(w)
  <2>1. phase'[w] = "top"
    BY <1>1, <1>5 DEF Shape, ConsumerShape, Busy
  <2>2. GoesOn(w)' /\ UNCHANGED content
    BY <1>5, <2>1, Codes DEF PeekSees, GoesOn
  <2> QED
    BY <1>1, <2>2, OthersGoOn, SurvivorKept
<1> QED
  BY <1>2, <1>3, <1>4, <1>5, Answers

LEMMA MainEffectSurvivor ==
  ASSUME TypeOK, Shape, Survivor, MainAnswered \/ ReleaseEmpties
  PROVE  Survivor'
<1> USE ThreadNames
<1>1. /\ UNCHANGED <<life, op, ele, phase, cnt, taken>>
      /\ stage' = [stage EXCEPT ![Main] = "done"]
      /\ \E r \in Int : ret' = [ret EXCEPT ![Main] = r]
      /\ content' = content \/ (stage[Main] # "idle" /\ op[Main] = "release")
  BY MainTakesEffect DEF threads, history
<1>2. Others(Main) /\ Main \in Threads
  BY <1>1 DEF Others, TypeOK, Threads
<1>3. CASE content' = content
  BY <1>1, <1>2, <1>3, OthersGoOn, SurvivorKept
<1>4. CASE stage[Main] # "idle" /\ op[Main] = "release"
  BY <1>1, <1>4 DEF Shape, MainShape, Busy, Survivor
<1> QED
  BY <1>1, <1>3, <1>4
-----------------------------------------------------------------------------
(***************************************************************************)
(* What becomes of an element                                              *)
(***************************************************************************)
LEMMA Makers ==
  ASSUME NEW e \in Tests
  PROVE  /\ Maker(e) \in Producers /\ Maker(e)[2] = e.type
         /\ e.value \in 1..MAX_CNT
         /\ e = [type |-> e.type, value |-> e.value]
BY DEF Tests, Maker, Producers

(* The elements are the same, and so is what decides about them.           *)
LEMMA FateKept ==
  ASSUME TypeOK, Fate, Order, TypeOK', UNCHANGED <<content, history>>, life' = "live" => life = "live",
         \A e \in Tests : Made(e)' <=> Made(e),
         \A p \in Producers : cnt'[p] >= cnt[p]
  PROVE  Fate' /\ Order'
<1>1. UNCHANGED <<content, taken, refused>> /\ Queued' = Queued
  BY DEF history, Queued
<1>2. \A e \in Queued \cup taken \cup refused : e \in Tests
  BY DEF Queued, TypeOK
<1>3. Order'
  BY <1>1 DEF Order
<1>4. \A e \in refused : e.value < cnt'[Maker(e)]
  <2> SUFFICES ASSUME NEW e \in refused PROVE e.value < cnt'[Maker(e)]
    OBVIOUS
  <2>1. e.value < cnt[Maker(e)] /\ e \in Tests
    BY <1>2 DEF Fate
  <2>2. Maker(e) \in Producers /\ e.value \in Int
    BY <2>1, Makers
  <2>3. cnt'[Maker(e)] >= cnt[Maker(e)] /\ cnt'[Maker(e)] \in Int /\ cnt[Maker(e)] \in Int
    BY <2>2 DEF TypeOK
  <2> QED
    BY <2>1, <2>2, <2>3
<1> QED
  BY <1>1, <1>2, <1>3, <1>4 DEF Fate, Maker

(* Made depends on its maker's counter, stage and result alone.            *)
LEMMA MadeKept ==
  ASSUME NEW t, Others(t), NEW e \in Tests,
         Maker(e) # t \/ ( /\ cnt'[t] = cnt[t]
                           /\ stage[t] # "done" /\ stage'[t] # "done")
  PROVE  Made(e)' <=> Made(e)
<1>1. Maker(e) \in Producers /\ Maker(e) \in Threads /\ Maker(e)' = Maker(e)
  BY Makers, ThreadNames DEF Maker
<1> QED
  BY <1>1, Codes DEF Made, Others, Maker

FO == Fate /\ Order

LEMMA QuietFate ==
  ASSUME TypeOK, FO, TypeOK', Quiet
  PROVE  FO'
<1>1. UNCHANGED <<content, history, cnt, stage, ret, life>>
  BY DEF Quiet, queue
<1>2. \A e \in Tests : Made(e)' <=> Made(e)
  BY <1>1, Codes DEF Made, Maker
<1>3. \A p \in Producers : cnt'[p] >= cnt[p]
  BY <1>1 DEF TypeOK
<1> QED
  BY <1>1, <1>2, <1>3, FateKept DEF FO

(* A step of anybody but a producer that has an answer or gets one.        *)
LEMMA NobodysFate ==
  ASSUME TypeOK, FO, TypeOK', NEW t, Others(t), UNCHANGED <<content, history, cnt>>,
         t \notin Producers \/ (stage[t] # "done" /\ stage'[t] # "done")
  PROVE  FO'
<1>1. \A e \in Tests : Made(e)' <=> Made(e)
  <2> SUFFICES ASSUME NEW e \in Tests PROVE Made(e)' <=> Made(e)
    OBVIOUS
  <2>1. Maker(e) \in Producers
    BY Makers
  <2> QED
    BY <2>1, MadeKept
<1>2. \A p \in Producers : cnt'[p] >= cnt[p]
  BY DEF TypeOK
<1>3. life' = "live" => life = "live"
  BY DEF Others
<1> QED
  BY <1>1, <1>2, <1>3, FateKept DEF FO

LEMMA CallFate ==
  ASSUME TypeOK, FO, TypeOK',
         \/ \E p \in Producers : Pushes(p)
         \/ \E c \in Consumers : Peeks(c) \/ Pops(c)
         \/ MainCalls
  PROVE  FO'
<1> USE ThreadNames
<1>0. ASSUME NEW t \in Threads, NEW o, NEW x, Calls(t, o, x),
             UNCHANGED <<threads, control, history>>
      PROVE  FO'
  <2>1. /\ stage[t] = "idle" /\ stage' = [stage EXCEPT ![t] = "called"]
        /\ UNCHANGED <<content, cnt, history>>
    BY <1>0, CallsStep DEF threads
  <2>2. Others(t)
    <3>1. UNCHANGED <<phase, cnt, taken>> /\ life = "live"
      BY <1>0, CallsStep DEF threads, history
    <3> QED
      BY <1>0, <3>1, CallsStep DEF Others, TypeOK
  <2>3. stage[t] # "done" /\ stage'[t] # "done"
    BY <2>1 DEF TypeOK
  <2> QED
    BY <2>1, <2>2, <2>3, NobodysFate
<1> QED
  BY <1>0 DEF Pushes, Peeks, Pops, MainCalls, Threads

(* ++cnt: what has been queued or refused is now before cnt.               *)
LEMMA PushReturnsFate ==
  ASSUME TypeOK, Shape, FO, TypeOK', NEW p \in Producers, PushReturns(p)
  PROVE  FO'
<1> USE ThreadNames
<1> DEFINE mine == Element(p)
<1>1. /\ p \in Threads /\ stage[p] = "done" /\ Q!Return(p)
      /\ cnt' = [cnt EXCEPT ![p] = @ + 1]
      /\ refused' = IF ret[p] = 0 THEN refused ELSE refused \cup {mine}
      /\ UNCHANGED taken
  BY Codes DEF PushReturns, Returned, Counts
<1>2. /\ UNCHANGED content /\ stage'[p] = "idle" /\ (life' = "live" => life = "live")
      /\ \A q \in Producers \ {p} : stage'[q] = stage[q] /\ ret'[q] = ret[q]
  BY <1>1, ReturnStep DEF TypeOK
<1>3. mine \in Tests /\ mine.type = p[2] /\ mine.value = cnt[p] /\ Maker(mine) = p /\ cnt[p] \in Nat
  <2>1. phase[p] = "top"
    BY <1>1 DEF Shape, ProducerShape, Busy
  <2> QED
    BY <2>1, ElementTyped DEF Element, Maker
<1>4. \A e \in Tests : Maker(e) = p /\ e.value = cnt[p] => e = mine
  BY <1>3, Makers
<1>5. \A e \in Tests : Made(e)' <=> Made(e) \/ e = mine
  <2> SUFFICES ASSUME NEW e \in Tests PROVE Made(e)' <=> Made(e) \/ e = mine
    OBVIOUS
  <2>1. Maker(e) \in Producers /\ e.value \in Nat /\ Maker(e)' = Maker(e)
    BY Makers DEF Maker
  <2>2. CASE Maker(e) = p
    <3>1. Made(e)' <=> e.value < cnt[p] + 1
      BY <1>1, <1>2, <2>2, <2>1 DEF Made, TypeOK
    <3>2. Made(e) => e.value <= cnt[p]
      BY <1>3, <2>1, <2>2 DEF Made
    <3>3. e.value <= cnt[p] => Made(e) \/ e = mine
      BY <1>3, <1>4, <2>1, <2>2 DEF Made
    <3> QED
      BY <1>3, <2>1, <3>1, <3>2, <3>3
  <2>3. CASE Maker(e) # p
    <3>1. cnt'[Maker(e)] = cnt[Maker(e)] /\ e # mine
      BY <1>1, <1>3, <2>1, <2>3 DEF TypeOK
    <3> QED
      BY <1>2, <2>1, <2>3, <3>1, Codes DEF Made
  <2> QED
    BY <2>2, <2>3
<1>6. Queued' = Queued /\ \A e \in Queued \cup taken \cup refused : e \in Tests
  BY <1>2 DEF Queued, TypeOK
<1>7. ret[p] # 0 => mine \notin Queued \cup taken
  BY <1>3, Codes DEF FO, Fate, Made
<1>8. ret[p] = 0 => Made(mine)
  BY <1>1, <1>3, Codes DEF Made
<1>9. Order'
  BY <1>1, <1>2, <1>6 DEF FO, Order
<1>10. \A e \in refused' : e.value < cnt'[Maker(e)]
  <2> SUFFICES ASSUME NEW e \in refused' PROVE e.value < cnt'[Maker(e)]
    OBVIOUS
  <2>1. e = mine \/ (e \in refused /\ e.value < cnt[Maker(e)])
    BY <1>1 DEF FO, Fate
  <2>2. e \in Tests /\ Maker(e) \in Producers /\ e.value \in Nat /\ cnt[Maker(e)] \in Nat
    BY <1>3, <1>6, <2>1, Makers DEF TypeOK
  <2> QED
    BY <1>1, <1>3, <2>1, <2>2 DEF TypeOK
<1>11. Queued' \cap taken' = {} /\ refused' \cap (Queued' \cup taken') = {}
  BY <1>1, <1>6, <1>7 DEF FO, Fate
<1>12. \A e \in Queued' \cup taken' : Made(e)'
  BY <1>1, <1>5, <1>6 DEF FO, Fate
<1>13. life' = "live" => \A e \in Tests : Made(e)' => e \in Queued' \cup taken' \cup refused'
  BY <1>1, <1>2, <1>5, <1>6, <1>8 DEF FO, Fate
<1>14. Fate'
  BY <1>10, <1>11, <1>12, <1>13 DEF Fate, Maker
<1> QED
  BY <1>9, <1>14 DEF FO

LEMMA ReturnFate ==
  ASSUME TypeOK, Shape, FO, TypeOK',
         \/ \E p \in Producers : PushReturns(p)
         \/ \E c \in Consumers : PeekReturns(c) \/ PopReturns(c)
         \/ MainReturns
  PROVE  FO'
<1> USE ThreadNames
<1>0. ASSUME NEW t \in Threads \ Producers, Q!Return(t), UNCHANGED <<cnt, history>>,
             \A w \in Workers \ {t} : phase'[w] = phase[w]
      PROVE  FO'
  <2>1. Others(t) /\ UNCHANGED content
    BY <1>0, ReturnStep DEF Others, TypeOK, history
  <2> QED
    BY <1>0, <2>1, NobodysFate
<1>1. CASE \E c \in Consumers : PeekReturns(c) \/ PopReturns(c)
  BY <1>0, <1>1 DEF PeekReturns, PopReturns, Goes, TypeOK
<1>2. CASE MainReturns
  BY <1>0, <1>2 DEF MainReturns, Threads, threads
<1> QED
  BY <1>1, <1>2, PushReturnsFate

(* The queued elements after a push and after a pop.                       *)
LEMMA QueuedAfterPush ==
  ASSUME NEW s \in Seq(Tests), NEW e \in Tests, s = content, content' = Append(s, e)
  PROVE  /\ Queued' = Queued \cup {e}
         /\ Len(s) \in Nat /\ DOMAIN content = 1..Len(s) /\ DOMAIN content' = 1..(Len(s) + 1)
         /\ \A i \in 1..Len(s) : content'[i] = content[i]
         /\ content'[Len(s) + 1] = e
<1>1. /\ Len(s) \in Nat /\ DOMAIN content = 1..Len(s) /\ DOMAIN content' = 1..(Len(s) + 1)
      /\ \A i \in 1..Len(s) : content'[i] = content[i]
      /\ content'[Len(s) + 1] = e
  BY AppendProperties, LenProperties
<1> QED
  BY <1>1 DEF Queued

LEMMA QueuedAfterPop ==
  ASSUME NEW s \in Seq(Tests), s = content, s # <<>>, content' = Tail(s)
  PROVE  /\ Queued = Queued' \cup {Head(content)}
         /\ Len(s) \in Nat \ {0} /\ DOMAIN content = 1..Len(s) /\ DOMAIN content' = 1..(Len(s) - 1)
         /\ \A i \in 1..(Len(s) - 1) : content'[i] = content[i + 1]
         /\ Head(content) = content[1]
<1>1. /\ Len(s) \in Nat \ {0} /\ DOMAIN content = 1..Len(s)
      /\ DOMAIN content' = 1..(Len(s) - 1)
      /\ \A i \in 1..(Len(s) - 1) : content'[i] = content[i + 1]
      /\ Head(content) = content[1]
  BY HeadTailProperties, LenProperties, EmptySeq
<1>2. \A i \in 1..Len(s) : i = 1 \/ (i - 1) \in 1..(Len(s) - 1)
  BY <1>1
<1>3. Queued \subseteq Queued' \cup {Head(content)}
  <2> SUFFICES ASSUME NEW i \in DOMAIN content PROVE content[i] \in Queued' \cup {Head(content)}
    BY DEF Queued
  <2>1. CASE i = 1
    BY <1>1, <2>1
  <2>2. CASE i # 1
    <3>1. (i - 1) \in 1..(Len(s) - 1) /\ (i - 1) + 1 = i
      BY <1>1, <2>2
    <3>2. content'[i - 1] = content[i]
      BY <1>1, <3>1
    <3> QED
      BY <1>1, <3>1, <3>2 DEF Queued
  <2> QED
    BY <2>1, <2>2
<1>4. Queued' \subseteq Queued
  <2> SUFFICES ASSUME NEW i \in DOMAIN content' PROVE content'[i] \in Queued
    BY DEF Queued
  <2>1. i \in 1..(Len(s) - 1) /\ i + 1 \in 1..Len(s)
    BY <1>1
  <2> QED
    BY <1>1, <2>1 DEF Queued
<1>5. Head(content) \in Queued
  BY <1>1 DEF Queued
<1> QED
  BY <1>1, <1>3, <1>4, <1>5

LEMMA PushAnsweredFate ==
  ASSUME TypeOK, Shape, FO, TypeOK', NEW p \in Producers, AnswerFrame(p), Others(p),
         PushSucceeds(p) \/ PushFails(p), phase[p] = "top"
  PROVE  FO'
<1> USE ThreadNames
<1> DEFINE mine == Element(p)
<1>1. /\ p \in Threads /\ stage[p] = "called" /\ stage'[p] = "done" /\ UNCHANGED <<cnt, life>>
      /\ UNCHANGED <<taken, refused>>
  BY DEF AnswerFrame, PushSucceeds, PushFails, TypeOK, threads
<1>2. mine \in Tests /\ mine.type = p[2] /\ mine.value = cnt[p] /\ Maker(mine) = p /\ cnt[p] \in Nat
  BY ElementTyped DEF Element, Maker
<1>3. \A e \in Tests : Maker(e) = p /\ e.value = cnt[p] => e = mine
  BY <1>2, Makers
<1>4. ~Made(mine)
  BY <1>1, <1>2 DEF Made
<1>5. \A e \in Tests : Made(e)' <=> Made(e) \/ (e = mine /\ ret'[p] = 0)
  <2> SUFFICES ASSUME NEW e \in Tests PROVE Made(e)' <=> Made(e) \/ (e = mine /\ ret'[p] = 0)
    OBVIOUS
  <2>1. Maker(e) \in Producers /\ e.value \in Nat /\ Maker(e)' = Maker(e)
    BY Makers DEF Maker
  <2>2. CASE Maker(e) = p
    <3>1. Made(e)' <=> e.value < cnt[p] \/ (e.value = cnt[p] /\ ret'[p] = 0)
      BY <1>1, <2>1, <2>2, Codes DEF Made
    <3>2. Made(e) <=> e.value < cnt[p]
      BY <1>1, <2>2 DEF Made
    <3> QED
      BY <1>2, <1>3, <2>1, <2>2, <3>1, <3>2
  <2>3. CASE Maker(e) # p
    BY <1>1, <1>2, <2>1, <2>3, Codes DEF Made, Others
  <2> QED
    BY <2>2, <2>3
<1>6. \A e \in Queued \cup taken \cup refused : e \in Tests
  BY DEF Queued, TypeOK
<1>7. CASE PushFails(p)
  <2>1. UNCHANGED <<content, history>> /\ ret'[p] # 0
    BY <1>7 DEF PushFails, history
  <2>2. \A q \in Producers : cnt'[q] >= cnt[q]
    BY <1>1 DEF TypeOK
  <2> QED
    BY <1>1, <1>5, <2>1, <2>2, FateKept DEF FO
<1>8. CASE PushSucceeds(p)
  <2>1. content \in Seq(Tests) /\ content' = Append(content, mine) /\ ret'[p] = 0
    BY <1>8 DEF PushSucceeds, TypeOK
  <2>2. /\ Queued' = Queued \cup {mine}
        /\ Len(content) \in Nat /\ DOMAIN content = 1..Len(content)
        /\ DOMAIN content' = 1..(Len(content) + 1)
        /\ \A i \in 1..Len(content) : content'[i] = content[i]
        /\ content'[Len(content) + 1] = mine
    BY <1>2, <2>1, QueuedAfterPush
  <2>3. mine \notin Queued \cup taken \cup refused
    <3>1. mine \notin refused
      BY <1>2 DEF FO, Fate
    <3> QED
      BY <1>4, <3>1 DEF FO, Fate
  <2>4. \A e \in Queued' \cup taken' : Made(e)'
    BY <1>1, <1>2, <1>5, <1>6, <2>1, <2>2 DEF FO, Fate
  <2>5. \A e \in refused' : e.value < cnt'[Maker(e)]
    BY <1>1 DEF FO, Fate
  <2>6. Queued' \cap taken' = {} /\ refused' \cap (Queued' \cup taken') = {}
    BY <1>1, <2>2, <2>3 DEF FO, Fate
  <2>7. life' = "live" => \A e \in Tests : Made(e)' => e \in Queued' \cup taken' \cup refused'
    BY <1>1, <1>5, <2>2 DEF FO, Fate
  <2>8. Fate'
    BY <2>4, <2>5, <2>6, <2>7 DEF Fate, Maker
  <2>9. \A e \in Queued \cup taken : e.type = mine.type => e.value < mine.value
    <3> SUFFICES ASSUME NEW e \in Queued \cup taken, e.type = mine.type PROVE e.value < mine.value
      OBVIOUS
    <3>1. Made(e) /\ e \in Tests /\ Maker(e) = p
      BY <1>2, <1>6 DEF FO, Fate, Maker
    <3> QED
      BY <1>1, <1>2, <3>1 DEF Made
  <2>10. ASSUME NEW i \in DOMAIN content', NEW j \in DOMAIN content', i < j,
                content'[i].type = content'[j].type
         PROVE  content'[i].value < content'[j].value
    <3>1. i \in 1..Len(content) /\ content'[i] = content[i] /\ content[i] \in Queued
      BY <2>2, <2>10 DEF Queued
    <3>2. CASE j \in 1..Len(content)
      BY <2>2, <2>10, <3>1, <3>2 DEF FO, Order
    <3>3. CASE j = Len(content) + 1
      BY <2>2, <2>9, <2>10, <3>1, <3>3
    <3> QED
      BY <2>2, <3>2, <3>3
  <2>11. \A e \in taken', f \in Queued' : e.type = f.type => e.value < f.value
    BY <1>1, <2>2, <2>9 DEF FO, Order
  <2>12. Order'
    BY <2>10, <2>11 DEF Order
  <2> QED
    BY <2>8, <2>12 DEF FO
<1> QED
  BY <1>7, <1>8

LEMMA PopAnsweredFate ==
  ASSUME TypeOK, FO, TypeOK', NEW c \in Consumers, AnswerFrame(c), Others(c), PopSucceeds(c)
  PROVE  FO'
<1> USE ThreadNames
<1> DEFINE first == Head(content)
<1>1. UNCHANGED <<cnt, life, refused>> /\ taken' = taken \cup {first}
  BY DEF AnswerFrame, PopSucceeds, threads
<1>2. content \in Seq(Tests) /\ content # <<>> /\ content' = Tail(content)
  BY DEF PopSucceeds, TypeOK
<1>3. /\ Queued = Queued' \cup {first}
      /\ Len(content) \in Nat \ {0} /\ DOMAIN content = 1..Len(content)
      /\ DOMAIN content' = 1..(Len(content) - 1)
      /\ \A i \in 1..(Len(content) - 1) : content'[i] = content[i + 1]
      /\ first = content[1]
  BY <1>2, QueuedAfterPop
<1>4. \A e \in Queued \cup taken \cup refused : e \in Tests
  BY DEF Queued, TypeOK
<1>5. \A e \in Tests : Made(e)' <=> Made(e)
  <2> SUFFICES ASSUME NEW e \in Tests PROVE Made(e)' <=> Made(e)
    OBVIOUS
  <2>1. Maker(e) \in Producers
    BY Makers
  <2> QED
    BY <2>1, MadeKept
<1>6. \A f \in Queued' : first.type = f.type => first.value < f.value
  <2> SUFFICES ASSUME NEW i \in DOMAIN content', first.type = content'[i].type
               PROVE  first.value < content'[i].value
    BY DEF Queued
  <2>1. i + 1 \in DOMAIN content /\ 1 \in DOMAIN content /\ 1 < i + 1 /\ content'[i] = content[i + 1]
    BY <1>3
  <2> QED
    BY <1>3, <2>1 DEF FO, Order
<1>7. first \notin Queued'
  <2>1. first \in Tests /\ first.value \in Int
    BY <1>3, <1>4, Makers
  <2>2. ~(first.value < first.value)
    BY <2>1
  <2> QED
    BY <1>6, <2>2
<1>8. Queued' \cap taken' = {} /\ refused' \cap (Queued' \cup taken') = {}
  BY <1>1, <1>3, <1>7 DEF FO, Fate
<1>9. Queued' \cup taken' = Queued \cup taken
  BY <1>1, <1>3
<1>10. Fate'
  <2>1. \A e \in Queued' \cup taken' : Made(e)'
    BY <1>4, <1>5, <1>9 DEF FO, Fate
  <2>2. \A e \in refused' : e.value < cnt'[Maker(e)]
    BY <1>1 DEF FO, Fate
  <2>3. life' = "live" => \A e \in Tests : Made(e)' => e \in Queued' \cup taken' \cup refused'
    BY <1>1, <1>5, <1>9 DEF FO, Fate
  <2> QED
    BY <1>8, <2>1, <2>2, <2>3 DEF Fate, Maker
<1>11. ASSUME NEW i \in DOMAIN content', NEW j \in DOMAIN content', i < j,
              content'[i].type = content'[j].type
       PROVE  content'[i].value < content'[j].value
  <2>1. /\ i + 1 \in DOMAIN content /\ j + 1 \in DOMAIN content /\ i + 1 < j + 1
        /\ content'[i] = content[i + 1] /\ content'[j] = content[j + 1]
    BY <1>3, <1>11
  <2> QED
    BY <1>11, <2>1 DEF FO, Order
<1>12. \A e \in taken', f \in Queued' : e.type = f.type => e.value < f.value
  BY <1>1, <1>3, <1>6 DEF FO, Order
<1> QED
  BY <1>10, <1>11, <1>12 DEF FO, Order

LEMMA AnswerFate ==
  ASSUME TypeOK, Shape, FO, TypeOK', NEW w \in Workers, Answered(w)
  PROVE  FO'
<1> USE ThreadNames
<1>1. AnswerFrame(w) /\ Others(w) /\ stage[w] = "called" /\ UNCHANGED cnt
  BY Answers, AnswerOthers DEF AnswerFrame, threads
<1>2. CASE w \in Producers /\ (PushSucceeds(w) \/ PushFails(w))
  <2>1. phase[w] = "top"
    BY <1>1, <1>2 DEF Shape, ProducerShape, Busy
  <2> QED
    BY <1>1, <1>2, <2>1, PushAnsweredFate
<1>3. CASE w \in Consumers /\ PopSucceeds(w)
  BY <1>1, <1>3, PopAnsweredFate
<1>4. CASE w \in Consumers /\ (PopFails(w) \/ PeekSees(w))
  <2>1. UNCHANGED <<content, history, cnt>> /\ w \notin Producers
    BY <1>1, <1>4 DEF PopFails, PeekSees, history
  <2> QED
    BY <1>1, <2>1, NobodysFate
<1> QED
  BY <1>2, <1>3, <1>4, Answers

LEMMA MainEffectFate ==
  ASSUME TypeOK, Shape, FO, MainAnswered \/ ReleaseEmpties
  PROVE  FO'
<1> USE ThreadNames
<1>1. /\ UNCHANGED <<life, op, ele, phase, cnt, taken, refused>> /\ TypeOK'
      /\ stage' = [stage EXCEPT ![Main] = "done"]
      /\ \E r \in Int : ret' = [ret EXCEPT ![Main] = r]
      /\ content' = content \/ (content' = <<>> /\ stage[Main] # "idle" /\ op[Main] = "release")
  BY MainTakesEffect DEF threads, history
<1>2. Others(Main) /\ Main \notin Producers
  BY <1>1 DEF Others, TypeOK
<1>3. CASE content' = content
  BY <1>1, <1>2, <1>3, NobodysFate DEF history
<1>4. CASE content' = <<>> /\ stage[Main] # "idle" /\ op[Main] = "release"
  <2>1. life' # "live" /\ Queued' = {}
    BY <1>1, <1>4 DEF Shape, MainShape, Busy, Queued
  <2>2. \A e \in Tests : Made(e)' <=> Made(e)
    <3> SUFFICES ASSUME NEW e \in Tests PROVE Made(e)' <=> Made(e)
      OBVIOUS
    <3>1. Maker(e) \in Producers
      BY Makers
    <3> QED
      BY <1>2, <3>1, MadeKept
  <2>3. \A e \in taken' : Made(e)'
    BY <1>1, <2>2 DEF FO, Fate, TypeOK
  <2>4. Fate'
    BY <1>1, <2>1, <2>3 DEF FO, Fate, Maker
  <2>5. Order'
    BY <1>4, <2>1 DEF Order
  <2> QED
    BY <2>4, <2>5 DEF FO
<1> QED
  BY <1>1, <1>3, <1>4
-----------------------------------------------------------------------------
(***************************************************************************)
(* What main counts                                                        *)
(***************************************************************************)
Phased == \A w \in Workers : mRunning[w] <=> phase[w] \in {"top", "peeked", "stops"}

(* An ended thread stays so, and one that was run stays run.               *)
Onward ==
  \A w \in Workers : /\ phase[w] = "ended" => phase'[w] = "ended"
                     /\ phase[w] # "none" => phase'[w] # "none"

LEMMA PollingKept ==
  ASSUME TypeOK, Polling, Phased', Onward, UNCHANGED <<looked, proFound, comFound, early>>,
         pc' = pc \/ pc \notin {"running", "polling"},
         pc' \in {"running", "polling"} => pc' = pc,
         Busy(Main)' => Busy(Main) \/ pc' \notin {"running", "polling"}
  PROVE  Polling'
<1> USE ThreadNames
<1>1. \A i \in Indices : <<"producer", i>> \in Workers /\ <<"consumer", i>> \in Workers
  BY DEF Producers, Consumers, Workers
<1>2. ASSUME NEW n \in 0..MAX_TYPE, NEW class \in {"producer", "consumer"}, AllEnded(n, class)
      PROVE  \A i \in 1..n : phase'[<<class, i>>] = "ended" \/ <<class, i>> \in early
  <2> SUFFICES ASSUME NEW i \in 1..n
               PROVE  phase'[<<class, i>>] = "ended" \/ <<class, i>> \in early
    OBVIOUS
  <2>1. i \in Indices
    BY SimpleAssumption DEF Indices
  <2>2. <<class, i>> \in Workers /\ (phase[<<class, i>>] = "ended" \/ <<class, i>> \in early)
    BY <1>1, <1>2, <2>1 DEF AllEnded
  <2> QED
    BY <2>2 DEF Onward
<1>3. AskedProducers' = AskedProducers /\ AskedConsumers' = AskedConsumers
  BY DEF AskedProducers, AskedConsumers
<1>4. CASE pc' # "running" /\ pc # "running"
  <2>1. \A w \in Workers : phase'[w] # "none"
    BY <1>4 DEF Polling, Onward
  <2>2. proFound = AskedProducers =>
           \A i \in 1..AskedProducers :
              phase'[<<"producer", i>>] = "ended" \/ <<"producer", i>> \in early
    BY <1>2, <1>4 DEF Polling, TypeOK
  <2>3. comFound = AskedConsumers =>
           \A i \in 1..AskedConsumers :
              phase'[<<"consumer", i>>] = "ended" \/ <<"consumer", i>> \in early
    BY <1>2, <1>4 DEF Polling, TypeOK
  <2>4. proFound <= AskedProducers /\ comFound <= AskedConsumers
    BY <1>4 DEF Polling
  <2>5. pc' \notin {"running", "polling"} => looked = 2 * MAX_TYPE /\ FoundEnough
    BY DEF Polling
  <2>6. Busy(Main)' => pc' \notin {"running", "polling"}
    BY DEF Polling
  <2> QED
    BY <1>3, <2>1, <2>2, <2>3, <2>4, <2>5, <2>6 DEF Polling, Phased, FoundEnough, AllEnded
<1>5. CASE pc = "running"
  BY <1>5 DEF Polling, Phased
<1>6. CASE pc' = "running"
  BY <1>6 DEF Polling, Phased
<1> QED
  BY <1>4, <1>5, <1>6

LEMMA PhasesOnward ==
  ASSUME TypeOK, Polling, NEW w \in Workers,
         \/ UNCHANGED <<phase, mRunning>>
         \/ Moves(w) /\ phase[w] = "none" /\ UNCHANGED mRunning
         \/ Starts(w) \/ Ends(w)
         \/ /\ phase[w] \in {"top", "peeked"} /\ UNCHANGED mRunning
            /\ \E l \in {"top", "peeked", "stops"} : Goes(w, l)
  PROVE  Phased' /\ Onward
<1>1. \A v \in Workers : mRunning[v] <=> phase[v] \in {"top", "peeked", "stops"}
  BY DEF Polling
<1>2. DOMAIN phase = Workers /\ DOMAIN mRunning = Workers
  BY DEF TypeOK
<1> QED
  BY <1>1, <1>2 DEF Phased, Onward, Moves, Goes, Starts, Ends

LEMMA WorkersPolling ==
  ASSUME TypeOK, Shape, Polling,
         \/ \E w \in Workers : Starts(w) \/ Ends(w) \/ Answered(w)
         \/ \E p \in Producers : Producer(p)
         \/ \E c \in Consumers : Consumer(c)
  PROVE  Polling'
<1> USE ThreadNames
<1>0. ASSUME NEW w \in Workers, UNCHANGED control, stage'[Main] = stage[Main],
             \/ UNCHANGED <<phase, mRunning>>
             \/ Starts(w) \/ Ends(w)
             \/ /\ phase[w] \in {"top", "peeked"} /\ UNCHANGED mRunning
                /\ \E l \in {"top", "peeked", "stops"} : Goes(w, l)
      PROVE  Polling'
  <2>1. Phased' /\ Onward
    BY <1>0, PhasesOnward
  <2> QED
    BY <1>0, <2>1, PollingKept DEF control, Busy
<1>1. CASE \E w \in Workers : Starts(w) \/ Ends(w)
  BY <1>0, <1>1 DEF Starts, Ends, queue
<1>2. CASE \E w \in Workers : Answered(w)
  <2>1. PICK w \in Workers : Answered(w)
    BY <1>2
  <2>2. stage'[Main] = stage[Main]
    BY <2>1, Answers DEF AnswerFrame, TypeOK, Threads
  <2> QED
    BY <1>0, <2>1, <2>2 DEF Answered, threads
<1>3. CASE \E p \in Producers : Producer(p)
  <2>1. PICK p \in Producers : Producer(p)
    BY <1>3
  <2>2. CASE Pushes(p)
    <3>1. stage'[Main] = stage[Main]
      BY <2>2, CallsStep DEF Pushes, TypeOK, Threads
    <3> QED
      BY <1>0, <2>2, <3>1 DEF Pushes, threads
  <2>3. CASE MallocFails(p)
    BY <1>0, <2>3 DEF MallocFails, At, queue
  <2>4. CASE PushReturns(p)
    <3>1. phase[p] = "top"
      BY <2>4 DEF PushReturns, Returned, Shape, ProducerShape, Busy
    <3>2. UNCHANGED <<mRunning, control>> /\ \E l \in {"top", "peeked", "stops"} : Goes(p, l)
      BY <2>4 DEF PushReturns
    <3>3. stage'[Main] = stage[Main]
      BY <2>4, ReturnStep DEF PushReturns, TypeOK, Threads
    <3> QED
      BY <1>0, <3>1, <3>2, <3>3
  <2> QED
    BY <2>1, <2>2, <2>3, <2>4 DEF Producer
<1>4. CASE \E c \in Consumers : Consumer(c)
  <2>1. PICK c \in Consumers : Consumer(c)
    BY <1>4
  <2>2. CASE Peeks(c) \/ Pops(c)
    <3>1. stage'[Main] = stage[Main]
      BY <2>2, CallsStep DEF Peeks, Pops, TypeOK, Threads
    <3> QED
      BY <1>0, <2>2, <3>1 DEF Peeks, Pops, threads
  <2>3. CASE PeekReturns(c) \/ PopReturns(c)
    <3>1. phase[c] \in {"top", "peeked"}
      BY <2>3 DEF PeekReturns, PopReturns, Returned, Shape, ConsumerShape, Busy
    <3>2. UNCHANGED <<mRunning, control>> /\ \E l \in {"top", "peeked", "stops"} : Goes(c, l)
      BY <2>3 DEF PeekReturns, PopReturns, AfterPeek
    <3>3. stage'[Main] = stage[Main]
      BY <2>3, ReturnStep DEF PeekReturns, PopReturns, TypeOK, Threads
    <3> QED
      BY <1>0, <3>1, <3>2, <3>3
  <2> QED
    BY <2>1, <2>2, <2>3 DEF Consumer
<1> QED
  BY <1>1, <1>2, <1>3, <1>4

(* The next object asked has cleared its flag, or is not counted.          *)
LEMMA LooksPolling ==
  ASSUME TypeOK, Polling, NEW class \in {"producer", "consumer"}, LooksAt(class)
  PROVE  Polling'
<1> USE ThreadNames
<1> DEFINE asked == IF class = "producer" THEN AskedProducers ELSE AskedConsumers
           found == IF class = "producer" THEN proFound ELSE comFound
           next  == looked \div 2 + 1
<1>1. /\ pc = "polling" /\ pc' = "polling" /\ looked \in Nat /\ looked < 2 * MAX_TYPE
      /\ looked' = looked + 1 /\ UNCHANGED <<phase, mRunning>>
      /\ class = "producer" <=> looked % 2 = 0
  BY DEF LooksAt, threads, TypeOK
<1>2. /\ found' = found + (IF mRunning[<<class, next>>] THEN 0 ELSE 1)
      /\ class = "producer" => UNCHANGED comFound
      /\ class = "consumer" => UNCHANGED proFound
  BY DEF LooksAt, Nth
<1>3. next \in Indices /\ <<class, next>> \in Workers
  <2>1. looked \div 2 \in Nat /\ looked \div 2 < MAX_TYPE
    BY <1>1, SimpleAssumption, Halves
  <2> QED
    BY <2>1, SimpleAssumption DEF Indices, Producers, Consumers, Workers
<1>4. /\ asked \in Nat /\ found \in Nat /\ next \in Nat
      /\ asked = next - 1 /\ asked' = next
      /\ class = "producer" => AskedConsumers' = AskedConsumers
      /\ class = "consumer" => AskedProducers' = AskedProducers
  <2>1. looked' + 1 = looked + 2
    BY <1>1
  <2>2. CASE class = "producer"
    <3>1. AskedProducers = looked \div 2 /\ AskedProducers' = looked \div 2 + 1 /\ AskedConsumers' = looked \div 2
      BY <1>1, <2>1, <2>2, Halves DEF AskedProducers, AskedConsumers
    <3> QED
      BY <1>1, <1>3, <2>2, <3>1, Halves DEF AskedConsumers, TypeOK
  <2>3. CASE class = "consumer"
    <3>1. /\ AskedProducers = looked \div 2 + 1 /\ AskedProducers' = looked \div 2 + 1
          /\ AskedConsumers = looked \div 2 /\ AskedConsumers' = looked \div 2 + 1
      BY <1>1, <2>1, <2>3, Halves DEF AskedProducers, AskedConsumers
    <3> QED
      BY <1>1, <1>3, <2>3, <3>1, Halves DEF TypeOK
  <2> QED
    BY <2>2, <2>3
<1>5. found <= asked /\ found' <= asked'
  <2>1. found <= asked
    BY <1>1 DEF Polling
  <2> QED
    BY <1>2, <1>4, <2>1
<1>6. found' = asked' =>
         \A i \in 1..asked' : phase'[<<class, i>>] = "ended" \/ <<class, i>> \in early'
  <2> SUFFICES ASSUME found' = asked', NEW i \in 1..asked'
               PROVE  phase'[<<class, i>>] = "ended" \/ <<class, i>> \in early'
    OBVIOUS
  <2>1. found = asked /\ ~mRunning[<<class, next>>]
    BY <1>2, <1>4, <1>5
  <2>2. early' = IF phase[<<class, next>>] = "born" THEN early \cup {<<class, next>>} ELSE early
    BY DEF LooksAt, Nth
  <2>3. CASE i = next
    <3>1. phase[<<class, next>>] \notin {"top", "peeked", "stops", "none"}
      BY <1>1, <1>3, <2>1 DEF Polling
    <3>2. phase[<<class, next>>] \in {"born", "ended"}
      BY <1>3, <3>1 DEF TypeOK, Phases
    <3> QED
      BY <1>1, <2>2, <2>3, <3>2
  <2>4. CASE i # next
    <3>1. i \in 1..asked
      BY <1>4, <2>4
    <3>2. AllEnded(asked, class)
      BY <1>1, <2>1 DEF Polling
    <3> QED
      BY <1>1, <2>2, <3>1, <3>2 DEF AllEnded
  <2> QED
    BY <2>3, <2>4
<1>7. \A w \in Workers : mRunning'[w] <=> phase'[w] \in {"top", "peeked", "stops"}
  BY <1>1 DEF Polling
<1>8. /\ proFound' <= AskedProducers' /\ comFound' <= AskedConsumers'
      /\ proFound' = AskedProducers' => AllEnded(AskedProducers, "producer")'
      /\ comFound' = AskedConsumers' => AllEnded(AskedConsumers, "consumer")'
  <2>0. early \subseteq early'
    BY DEF LooksAt
  <2>1. CASE class = "producer"
    <3>1. comFound' <= AskedConsumers'
      BY <1>1, <1>2, <1>4, <2>1 DEF Polling
    <3>2. comFound' = AskedConsumers' => AllEnded(AskedConsumers, "consumer")'
      <4>1. comFound = AskedConsumers => AllEnded(AskedConsumers, "consumer")
        BY <1>1 DEF Polling
      <4>2. AskedConsumers' = AskedConsumers /\ comFound' = comFound
        BY <1>2, <1>4, <2>1
      <4> QED
        BY <1>1, <2>0, <4>1, <4>2 DEF AllEnded
    <3>3. proFound' = AskedProducers' => AllEnded(AskedProducers, "producer")'
      BY <1>6, <2>1 DEF AllEnded
    <3> QED
      BY <1>5, <2>1, <3>1, <3>2, <3>3
  <2>2. CASE class = "consumer"
    <3>1. proFound' <= AskedProducers'
      BY <1>1, <1>2, <1>4, <2>2 DEF Polling
    <3>2. proFound' = AskedProducers' => AllEnded(AskedProducers, "producer")'
      <4>1. proFound = AskedProducers => AllEnded(AskedProducers, "producer")
        BY <1>1 DEF Polling
      <4>2. AskedProducers' = AskedProducers /\ proFound' = proFound
        BY <1>2, <1>4, <2>2
      <4> QED
        BY <1>1, <2>0, <4>1, <4>2 DEF AllEnded
    <3>3. comFound' = AskedConsumers' => AllEnded(AskedConsumers, "consumer")'
      BY <1>6, <2>2 DEF AllEnded
    <3> QED
      BY <1>5, <2>2, <3>1, <3>2, <3>3
  <2> QED
    BY <2>1, <2>2
<1>10. \A w \in Workers : phase'[w] # "none"
  BY <1>1 DEF Polling
<1>9. ~Busy(Main)'
  BY <1>1 DEF LooksAt, queue, Polling, Busy
<1> QED
  BY <1>1, <1>7, <1>8, <1>9, <1>10 DEF Polling

LEMMA PassesPolling ==
  ASSUME TypeOK, Polling, AllRun \/ PassEnds
  PROVE  Polling'
<1>1. UNCHANGED <<phase, mRunning>>
  BY DEF AllRun, PassEnds, threads
<1>0. ~Busy(Main)' \/ pc' = "closing"
  BY DEF AllRun, PassEnds, queue, Polling, Busy
<1>2. CASE StartsPass
  <2>1. /\ pc' = "polling" /\ looked' = 0 /\ proFound' = 0 /\ comFound' = 0
    BY <1>2 DEF StartsPass, ResetCounts
  <2>2. AskedProducers' = 0 /\ AskedConsumers' = 0
    BY <2>1, Halves DEF AskedProducers, AskedConsumers
  <2>3. \A w \in Workers : phase[w] # "none"
    BY DEF AllRun, PassEnds, Polling
  <2>4. \A i \in 1..0 : FALSE
    OBVIOUS
  <2> QED
    BY <1>0, <1>1, <2>1, <2>2, <2>3, <2>4 DEF Polling, AllEnded
<1>3. CASE PassEnds /\ FoundEnough /\ pc' = "closing" /\ UNCHANGED <<looked, proFound, comFound, early>>
  <2>1. AskedProducers' = AskedProducers /\ AskedConsumers' = AskedConsumers
    BY <1>3 DEF AskedProducers, AskedConsumers
  <2> QED
    BY <1>0, <1>1, <1>3, <2>1 DEF PassEnds, Polling, FoundEnough, AllEnded
<1> QED
  BY <1>2, <1>3 DEF AllRun, PassEnds

LEMMA MainPolling ==
  ASSUME TypeOK, Polling, MainStep
  PROVE  Polling'
<1> USE ThreadNames
<1>0. ASSUME UNCHANGED <<phase, mRunning>> PROVE Phased' /\ Onward
  BY <1>0 DEF Phased, Onward, Polling
<1>1. CASE Runs
  <2>1. PICK w \in Workers : phase[w] = "none" /\ Goes(w, "born")
    BY <1>1 DEF Runs
  <2>2. Phased' /\ Onward
    BY <1>1, <2>1, PhasesOnward DEF Runs, Moves
  <2> QED
    BY <1>1, <2>2, PollingKept DEF Runs, control, queue, Busy
<1>2. CASE LooksAt("producer") \/ LooksAt("consumer")
  BY <1>2, LooksPolling
<1>3. CASE MainCalls
  BY <1>0, <1>3, PollingKept DEF MainCalls, threads, control
<1>4. CASE MainAnswered \/ ReleaseEmpties
  <2>1. Busy(Main) /\ UNCHANGED <<threads, control>>
    BY <1>4, MainTakesEffect DEF Busy
  <2> QED
    BY <1>0, <2>1, PollingKept DEF threads, control
<1>5. CASE MainReturns
  <2>1. /\ UNCHANGED <<phase, mRunning, looked, proFound, comFound, early>>
        /\ pc' \in {"deleting", "deletingThreads"}
    BY <1>5 DEF MainReturns, threads
  <2>2. pc \notin {"running", "polling"}
    BY <1>5 DEF MainReturns, Q!Return, Busy, Polling
  <2> QED
    BY <1>0, <2>1, <2>2, PollingKept
<1>6. CASE DeletesThread
  BY <1>0, <1>6, PollingKept DEF DeletesThread, threads, queue, Busy
<1> QED
  BY <1>1, <1>2, <1>3, <1>4, <1>5, <1>6, PassesPolling DEF MainStep
-----------------------------------------------------------------------------
(***************************************************************************)
(* The theorems                                                            *)
(***************************************************************************)
LEMMA QuietStep ==
  ASSUME SInv, Quiet,
         \/ \E w \in Workers : Starts(w) \/ Ends(w)
         \/ \E p \in Producers : MallocFails(p)
         \/ Runs \/ AllRun \/ PassEnds \/ DeletesThread
         \/ LooksAt("producer") \/ LooksAt("consumer")
  PROVE  TypeOK' /\ Shape' /\ Survivor' /\ FO'
<1>1. TypeOK'
  BY QuietTypes DEF SInv
<1>2. UNCHANGED phase \/ \E w \in Workers : Moves(w)
  BY QuietMoves DEF AllRun, PassEnds, DeletesThread, LooksAt, threads
<1> QED
  BY <1>1, <1>2, QuietShape, QuietSurvivor, QuietFate DEF SInv, FO

LEMMA NextSInv == SInv /\ [Next]_vars => SInv'
<1> SUFFICES ASSUME SInv, [Next]_vars PROVE SInv'
  OBVIOUS
<1> USE ThreadNames
<1>0. TypeOK /\ Shape /\ Survivor /\ FO /\ Polling
  BY DEF SInv, FO
<1>1. CASE UNCHANGED vars
  <2>1. Quiet /\ UNCHANGED <<phase, mRunning, deleted, pc, looked, proFound, comFound, early>>
    BY <1>1 DEF vars, threads, control, Quiet
  <2>2. TypeOK'
    BY <1>0, <2>1 DEF TypeOK, Quiet, queue, history
  <2>3. Shape' /\ Survivor' /\ FO'
    BY <1>0, <2>1, <2>2, QuietShape, QuietSurvivor, QuietFate
  <2>4. Polling'
    <3>1. Phased' /\ Onward
      BY <1>0, <2>1 DEF Phased, Onward, Polling
    <3> QED
      BY <1>0, <2>1, <3>1, PollingKept DEF Quiet, queue, Busy
  <2> QED
    BY <2>2, <2>3, <2>4 DEF SInv, FO
<1>2. CASE \/ \E w \in Workers : Starts(w) \/ Ends(w)
           \/ \E p \in Producers : MallocFails(p)
           \/ Runs \/ AllRun \/ PassEnds \/ DeletesThread
           \/ LooksAt("producer") \/ LooksAt("consumer")
  <2>1. Quiet
    BY <1>2 DEF Starts, Ends, MallocFails, Runs, AllRun, PassEnds, DeletesThread, LooksAt, Quiet, threads
  <2>2. TypeOK' /\ Shape' /\ Survivor' /\ FO'
    BY <1>2, <2>1, QuietStep
  <2>3. Polling'
    BY <1>0, <1>2, WorkersPolling, MainPolling DEF Producer, MainStep
  <2> QED
    BY <2>2, <2>3 DEF SInv, FO
<1>3. CASE \/ \E p \in Producers : Pushes(p)
           \/ \E c \in Consumers : Peeks(c) \/ Pops(c)
           \/ MainCalls
  <2>1. TypeOK'
    <3>1. CASE \E p \in Producers : Pushes(p)
      <4>1. PICK p \in Producers : Pushes(p)
        BY <3>1
      <4>2. Element(p) \in Tests
        BY <1>0, <4>1, ElementTyped DEF Pushes, At
      <4> QED
        BY <1>0, <4>1, <4>2, CallTypes DEF Pushes
    <3>2. CASE \E c \in Consumers : Peeks(c) \/ Pops(c)
      BY <1>0, <3>2, CallTypes DEF Peeks, Pops
    <3>3. CASE MainCalls
      BY <1>0, <3>3, CallTypes DEF MainCalls, Threads
    <3> QED
      BY <1>3, <3>1, <3>2, <3>3
  <2>2. Shape' /\ Survivor' /\ FO'
    BY <1>0, <1>3, <2>1, CallShape, CallSurvivor, CallFate
  <2>3. Polling'
    BY <1>0, <1>3, WorkersPolling, MainPolling DEF Producer, Consumer, MainStep
  <2> QED
    BY <2>1, <2>2, <2>3 DEF SInv, FO
<1>4. CASE \/ \E p \in Producers : PushReturns(p)
           \/ \E c \in Consumers : PeekReturns(c) \/ PopReturns(c)
           \/ MainReturns
  <2>1. TypeOK'
    BY <1>0, <1>4, ReturnTypes
  <2>2. Shape' /\ Survivor' /\ FO'
    BY <1>0, <1>4, <2>1, ReturnShape, ReturnSurvivor, ReturnFate
  <2>3. Polling'
    BY <1>0, <1>4, WorkersPolling, MainPolling DEF Producer, Consumer, MainStep
  <2> QED
    BY <2>1, <2>2, <2>3 DEF SInv, FO
<1>5. CASE \E w \in Workers : Answered(w)
  <2>1. PICK w \in Workers : Answered(w)
    BY <1>5
  <2>2. TypeOK'
    BY <1>0, <2>1, AnswerTypes
  <2>3. Shape' /\ Survivor' /\ FO'
    BY <1>0, <2>1, <2>2, AnswerShape, AnswerSurvivor, AnswerFate
  <2>4. Polling'
    BY <1>0, <2>1, WorkersPolling
  <2> QED
    BY <2>2, <2>3, <2>4 DEF SInv, FO
<1>6. CASE MainAnswered \/ ReleaseEmpties
  <2>1. TypeOK'
    BY <1>0, <1>6, MainTakesEffect
  <2>2. Shape' /\ Survivor' /\ FO'
    BY <1>0, <1>6, MainEffectShape, MainEffectSurvivor, MainEffectFate
  <2>3. Polling'
    BY <1>0, <1>6, MainPolling DEF MainStep
  <2> QED
    BY <2>1, <2>2, <2>3 DEF SInv, FO
<1> QED
  BY <1>1, <1>2, <1>3, <1>4, <1>5, <1>6 DEF Next, MainStep, Producer, Consumer, Worker

(* In every reachable state of any number of producers and consumers.      *)
THEOREM SimpleInvariant == Spec => []SInv
<1>1. Init => SInv
  BY InitSInv
<1>2. SInv /\ [Next]_vars => SInv'
  BY NextSInv
<1> QED
  BY <1>1, <1>2, PTL DEF Spec

(* Every variable keeps its type; main's two counters never pass MAX_TYPE. *)
THEOREM SimpleTypeCorrect == Spec => []TypeOK
<1>1. SInv => TypeOK
  BY DEF SInv
<1> QED
  BY <1>1, SimpleInvariant, PTL

(* The queue keeps what producers push into it, each element once and each *)
(* producer's in the order of ++cnt, whatever the consumers do             *)
(* (QueueSimple.cpp:85-111, 134-163).                                      *)
THEOREM OrderKept == Spec => []InOrder
<1>1. SInv => InOrder
  <2> SUFFICES ASSUME SInv PROVE InOrder
    OBVIOUS
  <2>1. ASSUME life = "live", NEW e \in taken, NEW n \in 1..(e.value - 1)
        PROVE  [type |-> e.type, value |-> n] \in taken \cup refused
    <3> DEFINE d == [type |-> e.type, value |-> n]
    <3>1. e \in Tests /\ e.value \in 1..MAX_CNT /\ Maker(e) \in Producers
      BY Makers DEF SInv, TypeOK
    <3>2. d \in Tests /\ Maker(d) = Maker(e) /\ d.value < e.value
      BY <3>1, SimpleAssumption DEF Tests, Maker
    <3>3. cnt[Maker(e)] \in Int
      BY <3>1 DEF SInv, TypeOK
    <3>4. Made(d)
      BY <3>1, <3>2, <3>3 DEF SInv, Fate, Made
    <3>5. d \notin Queued
      <4>1. e.type = d.type /\ ~(e.value < d.value)
        BY <3>1, <3>2
      <4> QED
        BY <4>1 DEF SInv, Order
    <3> QED
      BY <2>1, <3>2, <3>4, <3>5 DEF SInv, Fate
  <2> QED
    BY <2>1 DEF SInv, Fate, Order, InOrder
<1> QED
  BY <1>1, SimpleInvariant, PTL

(* Not all consumers stop because another was faster at the element they   *)
(* had peeked at (QueueSimple.cpp:138-150): one stays until a last element *)
(* is popped.                                                              *)
THEOREM OneConsumerStays == Spec => []LastConsumerStays
<1>1. SInv => LastConsumerStays
  BY DEF SInv, Survivor, GoesOn, LastTaken, LastConsumerStays, Stopped
<1> QED
  BY <1>1, SimpleInvariant, PTL

(* main closes the queue only when all producers or all consumers have     *)
(* stopped (QueueSimple.cpp:193-212), but for those it asked before they   *)
(* had set mRunning.                                                       *)
THEOREM MainAsksEverybody == Spec => []MainAsksAll
<1>1. SInv => MainAsksAll
  <2> SUFFICES ASSUME SInv, pc \notin {"running", "polling"}
               PROVE  \/ \A p \in Producers \ early : Stopped(p)
                      \/ \A c \in Consumers \ early : Stopped(c)
    BY DEF MainAsksAll
  <2>1. /\ looked = 2 * MAX_TYPE /\ FoundEnough /\ MAX_TYPE \in Nat
        /\ proFound \in 0..MAX_TYPE /\ comFound \in 0..MAX_TYPE
    BY SimpleAssumption DEF SInv, Polling, TypeOK
  <2>2. AskedProducers = MAX_TYPE /\ AskedConsumers = MAX_TYPE
    BY <2>1, Halves DEF AskedProducers, AskedConsumers
  <2>3. AllEnded(MAX_TYPE, "producer") \/ AllEnded(MAX_TYPE, "consumer")
    BY <2>1, <2>2 DEF SInv, Polling, FoundEnough
  <2> QED
    BY <2>3 DEF AllEnded, Stopped, Producers, Consumers, Indices
<1> QED
  BY <1>1, SimpleInvariant, PTL
=============================================================================
