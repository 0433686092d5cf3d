---------------------------- MODULE QueueSimple ----------------------------
(***************************************************************************)
(* One turn of main in QueueSimple.cpp: producers and consumers, each a    *)
(* Tls::Thread, over one Tls::Queue, and main, which watches isRunning()   *)
(* and then closes and deletes the queue and deletes the threads.          *)
(*                                                                         *)
(* The queue is the one of QueueSpec, which Queue implements: calls take   *)
(* effect one at a time.  Of Thread remain the moments others can see: a   *)
(* worker is born before it sets mRunning, clears it, and has some lines   *)
(* to go after that.  Nobody here requests an exit or runs a thread again. *)
(*                                                                         *)
(* From the moment main begins to delete the queue, a worker that is in a  *)
(* call of it or begins one uses a dying object; so does a worker on its   *)
(* last lines whose Thread object is gone.  What it does then is undefined *)
(* in C++: the model lets it make no further step.                         *)
(***************************************************************************)
EXTENDS Integers, Sequences, FiniteSets

CONSTANTS
  MAX_TYPE,      (* the number of producers, and of consumers                *)
  MAX_CNT,       (* the value of each producer's last element                *)
  Main, NoThread,
  MayFail        (* which allocations may return NULL: a producer's "malloc", *)
                 (* the queue's "calloc"                                     *)

Indices   == 1..MAX_TYPE
Producers == {"producer"} \X Indices
Consumers == {"consumer"} \X Indices
Workers   == Producers \cup Consumers
Threads   == Workers \cup {Main}
Tests     == [type : Indices, value : 1..MAX_CNT]

ASSUME SimpleAssumption ==
  /\ MAX_TYPE \in Nat \ {0}
  /\ MAX_CNT \in Nat \ {0}
  /\ Main \notin Workers
  /\ NoThread \notin Threads
  /\ MayFail \subseteq {"malloc", "calloc"}

VARIABLES
  content, open, life, stage, op, ele, ret,   (* the queue, see QueueSpec    *)
  phase,     (* where each worker is                                         *)
  mRunning,  (* the flag of each Thread object                               *)
  cnt,       (* the value of each producer's next element                    *)
  deleted,   (* the Thread objects main has deleted                          *)
  pc,        (* where main is                                                *)
  looked,    (* how many isRunning() main has called in this pass            *)
  proFound, comFound,
  early,     (* history: the workers main asked in this pass before they had *)
             (* set mRunning                                                 *)
  taken,     (* history: the elements popped so far ...                      *)
  refused    (* ... and the ones no push got into the queue                  *)

queue   == <<content, open, life, stage, op, ele, ret>>
threads == <<phase, mRunning, cnt>>
control == <<deleted, pc, looked, proFound, comFound, early>>
history == <<taken, refused>>
vars    == <<queue, threads, control, history>>

MayCall ==
  [t \in Threads |-> CASE t \in Producers -> {"pushAndWait"}
                       [] t \in Consumers -> {"peek", "pop"}
                       [] OTHER           -> {"close", "release"}]

(* Queue() takes the largest capability there is: the queue never fills.   *)
Q == INSTANCE QueueSpec WITH
       Elements <- Tests, Value <- [e \in Tests |-> e.value],
       Capability <- MAX_TYPE * MAX_CNT + 1,
       mSort <- FALSE, mAscendingOrder <- TRUE,
       AllocMayFail <- "calloc" \in MayFail, OwnerJoins <- FALSE

(* A consumer is about to peek at the top of threadLoop, has peeked        *)
(* successfully, or has let threadLoop return false and stops; a producer  *)
(* is at the top or stops.                                                 *)
Phases == {"none", "born", "top", "peeked", "stops", "ended"}
MainPCs == {"running", "polling", "closing", "deleting", "deletingThreads", "done"}

TypeOK ==
  /\ content \in Seq(Tests)
  /\ open \in BOOLEAN
  /\ life \in {"live", "dying", "dead"}
  /\ stage \in [Threads -> {"idle", "called", "done"}]
  /\ op \in [Threads -> {"none", "pushAndWait", "peek", "pop", "close", "release"}]
  /\ ele \in [Threads -> {<<>>} \cup {<<e>> : e \in Tests}]
  /\ ret \in [Threads -> Int]
  /\ phase \in [Workers -> Phases]
  /\ mRunning \in [Workers -> BOOLEAN]
  /\ cnt \in [Producers -> 1..(MAX_CNT + 1)]
  /\ deleted \subseteq Workers
  /\ pc \in MainPCs
  /\ looked \in 0..(2 * MAX_TYPE)
  /\ proFound \in 0..MAX_TYPE /\ comFound \in 0..MAX_TYPE
  /\ early \subseteq Workers
  /\ taken \subseteq Tests /\ refused \subseteq Tests

Init ==
  /\ Q!Init
  /\ phase = [w \in Workers |-> "none"]
  /\ mRunning = [w \in Workers |-> FALSE]
  /\ cnt = [p \in Producers |-> 1]
  /\ deleted = {}
  /\ pc = "running"
  /\ looked = 0 /\ proFound = 0 /\ comFound = 0 /\ early = {}
  /\ taken = {} /\ refused = {}
-----------------------------------------------------------------------------
(***************************************************************************)
(* Variants with one slip each, next to what they vary: every property     *)
(* below fails for one of them.  No specification uses them.               *)
(***************************************************************************)
(* The producer forgets to count.                                          *)
NeverCounts(p) == UNCHANGED cnt

(* A consumer that finds the queue empty takes it for the end.             *)
EmptyIsTheEnd(c) == IF ret[c] = Q!Q_OK THEN "peeked" ELSE "stops"

(* The counts of the last pass are kept, or both must be full.             *)
CountsGoOn == UNCHANGED <<proFound, comFound>>

BothFound == proFound >= MAX_TYPE /\ comFound >= MAX_TYPE
-----------------------------------------------------------------------------
(***************************************************************************)
(* The threads                                                             *)
(***************************************************************************)
Goes(w, label) == phase' = [phase EXCEPT ![w] = label]

Calls(t, o, pointer) ==
  /\ Q!Invoke(t)
  /\ op'[t] = o /\ ele'[t] = pointer

(* w is in its own code at label, its object and the queue exist.          *)
At(w, label) == phase[w] = label /\ stage[w] = "idle" /\ life = "live"

Returned(w, o) == stage[w] = "done" /\ op[w] = o /\ life = "live"

(* The first lines of _threadLoop; its first turn does not call threadLoop. *)
Starts(w) ==
  /\ phase[w] = "born"
  /\ w \notin deleted
  /\ mRunning' = [mRunning EXCEPT ![w] = TRUE]
  /\ Goes(w, "top")
  /\ UNCHANGED <<queue, cnt, control, history>>

(* threadLoop has returned false: _threadLoop clears mRunning, which is     *)
(* the last that anybody sees of it.                                       *)
Ends(w) ==
  /\ phase[w] = "stops"
  /\ w \notin deleted
  /\ mRunning' = [mRunning EXCEPT ![w] = FALSE]
  /\ Goes(w, "ended")
  /\ UNCHANGED <<queue, cnt, control, history>>
-----------------------------------------------------------------------------
(***************************************************************************)
(* ProduceThread::threadLoop                                               *)
(***************************************************************************)
Element(p) == [type |-> p[2], value |-> cnt[p]]

MallocFails(p) ==
  /\ "malloc" \in MayFail
  /\ At(p, "top")
  /\ Goes(p, "stops")
  /\ UNCHANGED <<queue, mRunning, cnt, control, history>>

Pushes(p) ==
  /\ At(p, "top")
  /\ Calls(p, "pushAndWait", <<Element(p)>>)
  /\ UNCHANGED <<threads, control, history>>

(* ++cnt, whatever became of the element.                                  *)
Counts(p) == cnt' = [cnt EXCEPT ![p] = @ + 1]

ReachedMax(p) == cnt[p] + 1 > MAX_CNT

PushReturns(p) ==
  /\ Returned(p, "pushAndWait")
  /\ Q!Return(p)
  /\ Counts(p)
  /\ Goes(p, IF ReachedMax(p) THEN "stops" ELSE "top")
  /\ refused' = IF ret[p] = Q!Q_OK THEN refused ELSE refused \cup {Element(p)}
  /\ UNCHANGED <<mRunning, control, taken>>
-----------------------------------------------------------------------------
(***************************************************************************)
(* ConsumeThread::threadLoop                                               *)
(***************************************************************************)
Peeks(c) ==
  /\ At(c, "top")
  /\ Calls(c, "peek", <<>>)
  /\ UNCHANGED <<threads, control, history>>

AfterPeek(c) == IF ret[c] = Q!Q_OK THEN "peeked" ELSE "top"

PeekReturns(c) ==
  /\ Returned(c, "peek")
  /\ Q!Return(c)
  /\ Goes(c, AfterPeek(c))
  /\ UNCHANGED <<mRunning, cnt, control, history>>

(* pop does not look at what its pointer holds when it is called.          *)
Pops(c) ==
  /\ At(c, "peeked")
  /\ Calls(c, "pop", <<>>)
  /\ UNCHANGED <<threads, control, history>>

(* The consumer stops when another one was faster, or with a last element, *)
(* which it does not free.                                                 *)
WantsMore(c) == ret[c] = Q!Q_OK /\ ele[c][1].value < MAX_CNT

PopReturns(c) ==
  /\ Returned(c, "pop")
  /\ Q!Return(c)
  /\ Goes(c, IF WantsMore(c) THEN "top" ELSE "stops")
  /\ UNCHANGED <<mRunning, cnt, control, history>>
-----------------------------------------------------------------------------
(***************************************************************************)
(* The queue answers                                                       *)
(***************************************************************************)
(* peek asks for position 0, the first element.                            *)
PeekAnswered(c) ==
  /\ op[c] = "peek"
  /\ IF content = <<>> THEN Q!Refuse(c)
                       ELSE Q!Look(c) /\ ele'[c] = <<Head(content)>>
  /\ UNCHANGED history

PopAnswered(c) ==
  /\ op[c] = "pop"
  /\ \/ Q!Dequeue(c) /\ taken' = taken \cup {Head(content)}
     \/ Q!Refuse(c) /\ UNCHANGED taken
  /\ UNCHANGED refused

PushAnswered(p) ==
  /\ op[p] = "pushAndWait"
  /\ Q!Enqueue(p) \/ Q!Refuse(p)
  /\ UNCHANGED history

Answered(w) ==
  /\ life = "live"
  /\ PeekAnswered(w) \/ PopAnswered(w) \/ PushAnswered(w)
  /\ UNCHANGED <<threads, control>>
-----------------------------------------------------------------------------
(***************************************************************************)
(* main                                                                    *)
(***************************************************************************)
(* new and run(): the consumers one after the other, then the producers.   *)
Nth(i, class) == <<class, i>>

Runs ==
  /\ pc = "running"
  /\ \E w \in Workers :
       /\ phase[w] = "none"
       /\ \A v \in Workers : v[1] = w[1] /\ v[2] < w[2] => phase[v] # "none"
       /\ w \in Producers => \A c \in Consumers : phase[c] # "none"
       /\ Goes(w, "born")
  /\ UNCHANGED <<queue, mRunning, cnt, control, history>>

ResetCounts == proFound' = 0 /\ comFound' = 0

StartsPass ==
  /\ pc' = "polling"
  /\ looked' = 0
  /\ early' = {}
  /\ ResetCounts

AllRun ==
  /\ pc = "running"
  /\ \A w \in Workers : phase[w] # "none"
  /\ StartsPass
  /\ UNCHANGED <<queue, threads, deleted, history>>

(* isRunning() of the next object: producer 1, consumer 1, producer 2, ... *)
LooksAt(class) ==
  /\ pc = "polling"
  /\ looked < 2 * MAX_TYPE
  /\ class = IF looked % 2 = 0 THEN "producer" ELSE "consumer"
  /\ LET w     == Nth(looked \div 2 + 1, class)
         found == IF mRunning[w] THEN 0 ELSE 1
     IN /\ IF class = "producer" THEN proFound' = proFound + found /\ UNCHANGED comFound
                                 ELSE comFound' = comFound + found /\ UNCHANGED proFound
        /\ early' = IF phase[w] = "born" THEN early \cup {w} ELSE early
  /\ looked' = looked + 1
  /\ UNCHANGED <<queue, threads, deleted, pc, history>>

FoundEnough == proFound >= MAX_TYPE \/ comFound >= MAX_TYPE

PassEnds ==
  /\ pc = "polling"
  /\ looked = 2 * MAX_TYPE
  /\ \/ ~FoundEnough /\ StartsPass
     \/ FoundEnough /\ pc' = "closing" /\ UNCHANGED <<looked, proFound, comFound, early>>
  /\ UNCHANGED <<queue, threads, deleted, history>>

(* setAllowedNewData(false), then the destructor.                          *)
MainCalls ==
  /\ \/ pc = "closing" /\ Calls(Main, "close", <<>>)
     \/ pc = "deleting" /\ Calls(Main, "release", <<>>)
  /\ UNCHANGED <<threads, control, history>>

MainAnswered ==
  /\ Q!OpenOrClose(Main)
  /\ UNCHANGED <<threads, control, history>>

ReleaseEmpties ==
  /\ Q!Empty(Main)
  /\ content # <<>>
  /\ UNCHANGED <<threads, control, history>>

MainReturns ==
  /\ op[Main] = "release" => content = <<>>
  /\ Q!Return(Main)
  /\ pc' = IF op[Main] = "close" THEN "deleting" ELSE "deletingThreads"
  /\ UNCHANGED <<threads, deleted, looked, proFound, comFound, early, history>>

DeletesThread ==
  /\ pc = "deletingThreads"
  /\ \E w \in Workers \ deleted :
       /\ \A v \in Workers \ deleted : w[2] <= v[2]
       /\ w \in Consumers => Nth(w[2], "producer") \in deleted
       /\ deleted' = deleted \cup {w}
  /\ pc' = IF deleted' = Workers THEN "done" ELSE pc
  /\ UNCHANGED <<queue, threads, looked, proFound, comFound, early, history>>
-----------------------------------------------------------------------------
Producer(p) == MallocFails(p) \/ Pushes(p) \/ PushReturns(p)

Consumer(c) == Peeks(c) \/ PeekReturns(c) \/ Pops(c) \/ PopReturns(c)

Worker(w) == Starts(w) \/ Ends(w) \/ Answered(w)

MainStep ==
  \/ Runs \/ AllRun \/ LooksAt("producer") \/ LooksAt("consumer") \/ PassEnds
  \/ MainCalls \/ MainAnswered \/ ReleaseEmpties \/ MainReturns \/ DeletesThread

Next ==
  \/ MainStep
  \/ \E p \in Producers : Producer(p)
  \/ \E c \in Consumers : Consumer(c)
  \/ \E w \in Workers : Worker(w)

Spec == Init /\ [][Next]_vars

(* The scheduler runs every thread, and a call of the queue that need not  *)
(* wait gets its mutex at last, although consumers ask for it over and     *)
(* over.                                                                   *)
Fairness ==
  /\ WF_vars(MainStep)
  /\ \A p \in Producers : WF_vars(Producer(p) \/ Worker(p))
  /\ \A c \in Consumers : WF_vars(Consumer(c) \/ Worker(c))

FairSpec == Spec /\ Fairness
-----------------------------------------------------------------------------
(***************************************************************************)
(* Properties                                                              *)
(***************************************************************************)
Queued == {content[i] : i \in DOMAIN content}

(* An element is queued, has been popped or was refused, and only once;    *)
(* and of one producer none is popped or queued before those it made       *)
(* earlier, but for the refused ones: the queue keeps what it is given, in *)
(* order, between any number of producers and consumers.                   *)
InOrder ==
  /\ Queued \cap taken = {} /\ refused \cap (Queued \cup taken) = {}
  /\ \A i, j \in DOMAIN content :
       i < j /\ content[i].type = content[j].type => content[i].value < content[j].value
  /\ life = "live" =>
       \A e \in taken : \A n \in 1..(e.value - 1) :
          [type |-> e.type, value |-> n] \in taken \cup refused

(* A consumer stops when somebody pops the element it has peeked at        *)
(* (QueueSimple.cpp:147-150), but never all of them do: as long as no last *)
(* element has been popped, one consumer goes on.                          *)
Stopped(w) == phase[w] \in {"stops", "ended"}

LastConsumerStays ==
  life = "live" /\ (\A c \in Consumers : Stopped(c)) =>
    \E e \in taken : e.value = MAX_CNT

(* main asks twenty objects for a flag that changes meanwhile, and over    *)
(* and over: when it closes the queue, all producers or all consumers have *)
(* stopped, but for those it asked before they had set mRunning.           *)
MainAsksAll ==
  pc \notin {"running", "polling"} =>
    \/ \A p \in Producers \ early : Stopped(p)
    \/ \A c \in Consumers \ early : Stopped(c)

(* main does not poll for ever, though consumers may.                      *)
MainLeaves == <>(pc \notin {"running", "polling"})
=============================================================================
