---------------------------- MODULE ThreadProofs ----------------------------
(***************************************************************************)
(* Theorems about Thread for every number of clients and workers.          *)
(***************************************************************************)
EXTENDS Thread, TLAPS

(* The constructor gives every variable a value of its type.               *)
LEMMA InitType == Init => TypeOK
BY ThreadAssumption DEF Init, TypeOK, ClientPCs, WorkerPCs, Codes, Threads

(* A thread that moves alone goes to a label of its own kind.              *)
LEMMA GoesType ==
  ASSUME TypeOK, NEW t \in Threads, NEW label, Goes(t, label),
         t \in Clients => label \in ClientPCs,
         t \in Workers => label \in WorkerPCs
  PROVE  /\ pc' \in [Threads -> ClientPCs \cup WorkerPCs]
         /\ \A c \in Clients : pc'[c] \in ClientPCs
         /\ \A w \in Workers : pc'[w] \in WorkerPCs
BY ThreadAssumption DEF TypeOK, Goes, Threads

(* What a call returns is one of the return codes.                         *)
LEMMA AnswerType ==
  ASSUME TypeOK, NEW t \in Threads, NEW o \in Calls \cup {"none"}, NEW code \in Codes,
         Answer(t, o, code)
  PROVE  op' \in [Threads -> Calls \cup {"none"}] /\ ret' \in [Threads -> Codes]
BY DEF TypeOK, Answer

(* A caller's code is idle for a client, threadLoop for a worker.          *)
LEMMA HomeType ==
  ASSUME NEW t \in Threads
  PROVE  /\ t \in Clients => Home(t) = "idle"
         /\ t \in Workers => Home(t) = "loop"
BY ThreadAssumption DEF Home

(* Every action keeps the type.                                            *)
LEMMA TypeStep == TypeOK /\ [Next]_vars => TypeOK'
<1> SUFFICES ASSUME TypeOK, [Next]_vars PROVE TypeOK'
  OBVIOUS
<1> USE ThreadAssumption DEF Codes
<1> DEFINE PcOK == /\ pc \in [Threads -> ClientPCs \cup WorkerPCs]
                   /\ \A c \in Clients : pc[c] \in ClientPCs
                   /\ \A w \in Workers : pc[w] \in WorkerPCs
           CallOK == op \in [Threads -> Calls \cup {"none"}] /\ ret \in [Threads -> Codes]
           FlagOK == /\ mRunning \in BOOLEAN /\ mExitPending \in BOOLEAN
                     /\ mStatus \in {"NO_ERROR", "ERROR_UNKNOWN"}
                     /\ mThread \in Workers \cup {NoThread}
                     /\ mLock \in Clients \cup {NoThread}
                     /\ result \in [Workers -> BOOLEAN]
<1>0. PcOK' /\ CallOK' /\ FlagOK' => TypeOK'
  BY DEF TypeOK
<1>1. CASE UNCHANGED vars
  BY <1>1 DEF vars, TypeOK
<1>2. ASSUME NEW c \in Clients, Run(c) \/ RunRefused(c) \/ RunCreates(c) \/ RunFails(c)
      PROVE  TypeOK'
  <2>0. c \in Threads /\ "run" \in Calls
    BY DEF Threads, Calls
  <2>1. PcOK'
    <3>1. CASE Run(c)
      BY <2>0, <3>1, GoesType DEF Run, ClientPCs
    <3>2. CASE RunRefused(c) \/ RunFails(c)
      BY <2>0, <3>2, GoesType DEF RunRefused, RunFails, Returns, ClientPCs, CallPCs
    <3>3. CASE RunCreates(c)
      BY <2>0, <3>3 DEF RunCreates, InState, TypeOK, Threads, ClientPCs, WorkerPCs, CallPCs
    <3> QED
      BY <1>2, <3>1, <3>2, <3>3
  <2>2. CallOK'
    BY <1>2, <2>0, AnswerType DEF Run, RunRefused, RunCreates, RunFails, Returns, TypeOK
  <2>3. FlagOK'
    BY <1>2 DEF Run, RunRefused, RunCreates, RunFails, ThreadIdOf, InState, flags, TypeOK
  <2> QED
    BY <1>0, <2>1, <2>2, <2>3
<1>3. ASSUME NEW w \in Workers, WorkerStep(w) PROVE TypeOK'
  <2>0. w \in Threads
    BY DEF Threads
  <2>1. PcOK'
    <3>1. CASE LeavesLoop(w)
      BY <2>0, <3>1 DEF LeavesLoop, LeavesAndBroadcasts, TypeOK, Threads, ClientPCs, WorkerPCs, CallPCs
    <3>2. CASE ~LeavesLoop(w)
      <4>1. \E label \in WorkerPCs : Goes(w, label)
        BY <1>3, <3>2 DEF WorkerStep, Starts, ReadyToRun, LoopReturns, GoesOn, Loops,
                          ClearsRunning, Ends, WorkerPCs
      <4> QED
        BY <2>0, <4>1, GoesType
    <3> QED
      BY <3>1, <3>2
  <2>2. CallOK'
    BY <1>3 DEF WorkerStep, Starts, ReadyToRun, LoopReturns, LeavesLoop, GoesOn, Loops,
                ClearsRunning, Ends, TypeOK
  <2>3. FlagOK'
    BY <1>3 DEF WorkerStep, Starts, ReadyToRun, LoopReturns, LeavesLoop, Stopped, GoesOn,
                Loops, ClearsRunning, Ends, flags, TypeOK
  <2> QED
    BY <1>0, <2>1, <2>2, <2>3
<1>4. ASSUME NEW t \in Threads, Call(t) \/ SpuriousWakeup(t) \/ CallStep(t) PROVE TypeOK'
  <2>1. PcOK'
    <3>1. \E label \in CallPCs \cup {Home(t)} : Goes(t, label)
      BY <1>4 DEF Call, SpuriousWakeup, CallStep, RequestExit, Query, JoinRefused,
                  JoinsEnded, Joins, WaitsAgain, WaitEnds, Resumes, Returns, CallPCs
    <3> QED
      BY <3>1, GoesType, HomeType DEF ClientPCs, WorkerPCs
  <2>2. CallOK'
    <3>0. mStatus \in Codes /\ JoinOps \subseteq Calls /\ "none" \in Calls \cup {"none"}
      BY DEF TypeOK, Calls
    <3>1. CASE RequestExit(t) \/ JoinRefused(t) \/ JoinsEnded(t) \/ Query(t)
      <4>1. \E o \in Calls, code \in Codes : Answer(t, o, code)
        BY <3>0, <3>1 DEF RequestExit, JoinRefused, JoinsEnded, Query, Returns, Calls
      <4> QED
        BY <4>1, AnswerType
    <3>2. CASE Joins(t)
      BY <3>0, <3>2 DEF Joins, TypeOK
    <3>3. CASE SpuriousWakeup(t) \/ WaitsAgain(t)
      BY <3>3 DEF SpuriousWakeup, WaitsAgain, TypeOK
    <3>4. CASE WaitEnds(t)
      <4>1. Answer(t, op[t], mStatus) /\ op[t] \in Calls \cup {"none"}
        BY <3>4 DEF WaitEnds, Returns, TypeOK
      <4> QED
        BY <3>0, <4>1, AnswerType
    <3>5. CASE Resumes(t)
      BY <3>0, <3>5, AnswerType DEF Resumes
    <3> QED
      BY <1>4, <3>1, <3>2, <3>3, <3>4, <3>5 DEF Call, CallStep
  <2>3. FlagOK'
    BY <1>4 DEF Call, SpuriousWakeup, CallStep, RequestExit, Query, JoinRefused,
                JoinsEnded, Joins, WaitsAgain, WaitEnds, Resumes, flags, TypeOK
  <2> QED
    BY <1>0, <2>1, <2>2, <2>3
<1> QED
  BY <1>1, <1>2, <1>3, <1>4 DEF Next, ClientStep

(* Every variable of a Thread keeps its type, whatever the callers do.     *)
THEOREM ThreadTypeCorrect == Spec => []TypeOK
<1>1. Init => TypeOK
  BY InitType
<1>2. TypeOK /\ [Next]_vars => TypeOK'
  BY TypeStep
<1> QED
  BY <1>1, <1>2, PTL DEF Spec
-----------------------------------------------------------------------------
(***************************************************************************)
(* What holds when callers leave time for a worker's first line and, before *)
(* they run the object again, for its last ones                            *)
(***************************************************************************)

(* The workers that will look at mRunning or set it.                       *)
Working == Active \cup InState("born")

WorkersSettle == {"born", "leaving"} \subseteq Settles

(* Beside the properties themselves: run() holds mLock only while no       *)
(* worker is under way; one that has yet to clear mRunning for the second  *)
(* time excludes a new one; there is one worker at most, and mThread is    *)
(* its id.                                                                 *)
OneAtATime ==
  /\ \A c \in Clients : pc[c] = "creating" => mLock = c
  /\ mLock # NoThread =>
       /\ Working = {} /\ InState("leaving") = {}
       /\ pc[mLock] = "creating"
  /\ InState("leaving") # {} => Working = {}
  /\ \A v, w \in Working : v = w
  /\ \A w \in Working : mThread = w

SInv == TypeOK /\ OneAtATime /\ NoSelfJoin /\ RunningIsTrue /\ JoinerHasWorker

(* No worker, and mRunning is false.                                       *)
LEMMA InitSInv == Init => SInv
<1> SUFFICES ASSUME Init PROVE SInv
  OBVIOUS
<1>1. \A t \in Threads : pc[t] \in {"idle", "none"}
  BY DEF Init
<1>2. Active = {} /\ Working = {} /\ Joining = {} /\ InState("leaving") = {} /\ InState("born") = {}
  BY <1>1 DEF Active, Working, Joining, InState, Threads, CallPCs
<1> QED
  BY <1>1, <1>2, InitType DEF Init, SInv, OneAtATime, NoSelfJoin, RunningIsTrue,
                              JoinerHasWorker, Threads

(* A step that changes none of the sets the invariant speaks of.           *)
Unmoved ==
  /\ Active' = Active
  /\ Joining' = Joining
  /\ InState("born")' = InState("born")
  /\ InState("leaving")' = InState("leaving")
  /\ \A t \in Threads : pc'[t] = "creating" <=> pc[t] = "creating"
  /\ \A t \in Threads : pc'[t] = "wait" <=> pc[t] = "wait"

(* A step that moves no worker and no waiter keeps the invariant.          *)
LEMMA UnmovedKeeps ==
  ASSUME SInv, TypeOK', Unmoved, UNCHANGED <<mRunning, mThread, mLock>>
  PROVE  SInv'
<1>1. NoSelfJoin'
  BY DEF SInv, NoSelfJoin, Unmoved, Joining, Threads
<1>2. OneAtATime'
  BY DEF SInv, TypeOK, OneAtATime, Working, Unmoved, Threads
<1>3. RunningIsTrue' /\ JoinerHasWorker'
  BY DEF SInv, RunningIsTrue, JoinerHasWorker, Unmoved
<1> QED
  BY <1>1, <1>2, <1>3 DEF SInv

(* Every action of settled callers keeps the invariant.                    *)
LEMMA SInvStep ==
  ASSUME WorkersSettle, SInv, [Next]_vars
  PROVE  SInv'
<1>0. TypeOK'
  BY TypeStep DEF SInv
<1> USE ThreadAssumption, <1>0 DEF SInv, TypeOK
<1>1. CASE UNCHANGED vars
  BY <1>1 DEF vars, OneAtATime, NoSelfJoin, RunningIsTrue, JoinerHasWorker, Working,
              Active, InState, Joining
<1>2. ASSUME NEW c \in Clients, Run(c) PROVE SInv'
  <2>1. /\ mLock = NoThread /\ InState("born") = {} /\ InState("leaving") = {}
        /\ ~mRunning /\ mLock' = c /\ mRunning' = mRunning
        /\ pc' = [pc EXCEPT ![c] = "creating"]
    BY <1>2 DEF Run, Enters, Settled, WorkersSettle, AlreadyStarted, Goes
  <2>2. Active = {} /\ \A t \in Threads : pc[t] # "wait"
    BY <2>1 DEF RunningIsTrue, JoinerHasWorker
  <2>3. /\ Active' = {} /\ InState("born")' = {} /\ InState("leaving")' = {}
        /\ \A t \in Threads : pc'[t] # "wait"
    BY <2>1, <2>2 DEF Active, InState, Threads, CallPCs
  <2>4. NoSelfJoin'
    BY <2>1 DEF NoSelfJoin, Threads
  <2>5. \A d \in Clients : pc'[d] = "creating" => d = c
    BY <2>1 DEF OneAtATime, Threads
  <2> QED
    BY <2>1, <2>3, <2>4, <2>5 DEF OneAtATime, Working, RunningIsTrue, JoinerHasWorker, Joining, Threads
<1>3. ASSUME NEW c \in Clients, RunRefused(c) PROVE SInv'
  <2>1. /\ mLock = NoThread /\ pc[c] = "idle" /\ pc' = [pc EXCEPT ![c] = "returned"]
        /\ UNCHANGED <<flags, mLock>>
    BY <1>3, HomeType DEF RunRefused, Enters, Returns, Goes, Threads
  <2>2. Unmoved
    BY <2>1 DEF Unmoved, Active, InState, Joining, Threads
  <2> QED
    BY <2>1, <2>2, UnmovedKeeps DEF flags, Threads
<1>4. ASSUME NEW c \in Clients, RunCreates(c) PROVE SInv'
  <2>1. PICK w \in InState("none") :
          pc' = [pc EXCEPT ![c] = "returned", ![w] = "born"] /\ mThread' = w
    BY <1>4 DEF RunCreates, ThreadIdOf
  <2>2. /\ w \in Workers /\ pc[c] = "creating" /\ mLock = c /\ mLock' = NoThread
        /\ mRunning' = mRunning /\ c # NoThread
    BY <1>4 DEF RunCreates, OneAtATime, InState, Threads
  <2>3. /\ Active = {} /\ InState("born") = {} /\ InState("leaving") = {} /\ ~mRunning
        /\ \A t \in Threads : pc[t] # "wait"
    BY <2>2 DEF OneAtATime, Working, RunningIsTrue, JoinerHasWorker
  <2>4. /\ Active' = {} /\ InState("born")' = {w} /\ InState("leaving")' = {}
        /\ \A t \in Threads : pc'[t] # "wait"
    BY <2>1, <2>2, <2>3 DEF Active, InState, Threads, CallPCs
  <2>5. \A d \in Clients : pc'[d] # "creating"
    BY <2>1, <2>2 DEF OneAtATime, Threads
  <2> QED
    BY <2>1, <2>2, <2>3, <2>4, <2>5
    DEF OneAtATime, Working, NoSelfJoin, RunningIsTrue, JoinerHasWorker, Joining, Threads
<1>5. ASSUME NEW c \in Clients, RunFails(c) PROVE SInv'
  <2>1. /\ pc' = [pc EXCEPT ![c] = "returned"] /\ pc[c] = "creating"
        /\ mLock = c /\ mLock' = NoThread /\ ~mRunning' /\ c # NoThread
    BY <1>5 DEF RunFails, Returns, Goes, OneAtATime, Threads
  <2>2. /\ Active = {} /\ InState("born") = {} /\ InState("leaving") = {}
        /\ \A t \in Threads : pc[t] # "wait"
    BY <2>1 DEF OneAtATime, Working, JoinerHasWorker
  <2>3. /\ Active' = {} /\ InState("born")' = {} /\ InState("leaving")' = {}
        /\ \A t \in Threads : pc'[t] # "wait"
    BY <2>1, <2>2 DEF Active, InState, Threads, CallPCs
  <2>4. \A d \in Clients : pc'[d] # "creating"
    BY <2>1 DEF OneAtATime, Threads
  <2> QED
    BY <2>1, <2>3, <2>4
    DEF OneAtATime, Working, NoSelfJoin, RunningIsTrue, JoinerHasWorker, Joining, Threads
<1>6. ASSUME NEW w \in Workers, Starts(w) PROVE SInv'
  <2>1. /\ w \in InState("born") /\ pc' = [pc EXCEPT ![w] = "ready"] /\ mRunning'
        /\ UNCHANGED <<mThread, mLock>>
    BY <1>6 DEF Starts, Goes, InState
  <2>2. Working = {w} /\ InState("leaving") = {} /\ mLock = NoThread /\ mThread = w
    BY <2>1 DEF OneAtATime, Working
  <2>3. Active' = {w} /\ InState("born")' = {} /\ InState("leaving")' = {}
    BY <2>1, <2>2 DEF Working, Active, InState, Threads, CallPCs
  <2>4. \A d \in Clients : pc'[d] = pc[d]
    BY <2>1 DEF Threads
  <2> QED
    BY <2>1, <2>2, <2>3, <2>4
    DEF OneAtATime, Working, NoSelfJoin, RunningIsTrue, JoinerHasWorker, Joining, Threads
<1>7. ASSUME NEW w \in Workers, ReadyToRun(w) \/ LoopReturns(w) \/ GoesOn(w) \/ Loops(w)
      PROVE  SInv'
  <2>1. w \in Active /\ UNCHANGED <<flags, mLock>>
    BY <1>7 DEF Active, ReadyToRun, LoopReturns, GoesOn, Loops
  <2>2. mRunning
    BY <2>1 DEF RunningIsTrue
  <2>3. \E label \in {"decide", "while", "loop"} : pc' = [pc EXCEPT ![w] = label]
    BY <1>7, <2>2 DEF ReadyToRun, LoopReturns, GoesOn, Loops, Goes
  <2>4. pc[w] \in {"ready", "loop", "decide", "while"}
    BY <1>7 DEF ReadyToRun, LoopReturns, GoesOn, Loops
  <2>5. Unmoved
    BY <2>3, <2>4 DEF Unmoved, Active, InState, Joining, Threads, CallPCs
  <2> QED
    BY <2>1, <2>5, UnmovedKeeps DEF flags
<1>8. ASSUME NEW w \in Workers, LeavesLoop(w) PROVE SInv'
  <2>1. /\ w \in Active /\ mLock = NoThread /\ mLock' = mLock /\ ~mRunning'
        /\ pc' = [t \in Threads |-> IF t = w THEN "leaving"
                                    ELSE IF pc[t] = "wait" THEN "woken" ELSE pc[t]]
    BY <1>8 DEF LeavesLoop, Stopped, LeavesAndBroadcasts, Active
  <2>2. Working = {w}
    BY <2>1 DEF OneAtATime, Working
  <2>3. Active' = {} /\ InState("born")' = {}
    BY <2>1, <2>2 DEF Working, Active, InState, Threads, CallPCs
  <2>4. \A t \in Threads : pc'[t] # "wait"
    BY <2>1
  <2>5. \A d \in Clients : pc'[d] = "creating" => pc[d] = "creating"
    BY <2>1 DEF Threads
  <2>6. NoSelfJoin'
    BY <2>1 DEF NoSelfJoin, Threads
  <2> QED
    BY <2>1, <2>3, <2>4, <2>5, <2>6 DEF OneAtATime, Working, RunningIsTrue, JoinerHasWorker, Threads
<1>9. ASSUME NEW w \in Workers, ClearsRunning(w) PROVE SInv'
  <2>1. /\ w \in InState("leaving") /\ ~mRunning' /\ pc' = [pc EXCEPT ![w] = "exiting"]
        /\ UNCHANGED <<mThread, mLock>>
    BY <1>9 DEF ClearsRunning, InState, Goes
  <2>2. Working = {} /\ mLock = NoThread /\ Active = {} /\ InState("born") = {}
    BY <2>1 DEF OneAtATime, Working
  <2>3. Active' = {} /\ InState("born")' = {} /\ Joining' = Joining
    BY <2>1, <2>2 DEF Active, InState, Joining, Threads, CallPCs
  <2>4. \A d \in Clients : pc'[d] = pc[d]
    BY <2>1 DEF Threads
  <2>5. NoSelfJoin'
    BY <2>1 DEF NoSelfJoin, Threads
  <2>6. \A t \in Threads : pc'[t] # "wait"
    BY <2>1, <2>2 DEF JoinerHasWorker
  <2> QED
    BY <2>1, <2>2, <2>3, <2>4, <2>5, <2>6
    DEF OneAtATime, Working, RunningIsTrue, JoinerHasWorker
<1>10. ASSUME NEW w \in Workers, Ends(w) PROVE SInv'
  <2>1. pc[w] = "exiting" /\ pc' = [pc EXCEPT ![w] = "none"] /\ UNCHANGED <<flags, mLock>>
    BY <1>10 DEF Ends, Goes
  <2>2. Unmoved
    BY <2>1 DEF Unmoved, Active, InState, Joining, Threads, CallPCs
  <2> QED
    BY <2>1, <2>2, UnmovedKeeps DEF flags
<1>11. ASSUME NEW t \in Threads, RequestExit(t) \/ Query(t) \/ JoinRefused(t) \/ JoinsEnded(t)
       PROVE  SInv'
  <2>1. pc[t] = Home(t) /\ pc' = [pc EXCEPT ![t] = "returned"]
        /\ UNCHANGED <<mRunning, mThread, mLock>>
    BY <1>11 DEF RequestExit, Query, JoinRefused, JoinsEnded, Enters, Returns, Goes, flags
  <2>2. Unmoved
    BY <2>1, HomeType DEF Unmoved, Active, InState, Joining, Threads, CallPCs
  <2> QED
    BY <2>1, <2>2, UnmovedKeeps
<1>12. ASSUME NEW t \in Threads, Joins(t) PROVE SInv'
  <2>1. /\ pc[t] = Home(t) /\ mThread # t /\ mRunning /\ mLock = NoThread
        /\ InState("born") = {} /\ pc' = [pc EXCEPT ![t] = "wait"]
        /\ UNCHANGED <<mRunning, mThread, mLock>>
    BY <1>12 DEF Joins, Enters, Settled, WorkersSettle, JoinOps, Goes
  <2>2. t \in Clients
    <3>1. CASE t \in Workers
      <4>1. t \in Active
        BY <2>1, <3>1, HomeType DEF Active
      <4> QED
        BY <2>1, <4>1 DEF OneAtATime, Working
    <3> QED
      BY <3>1 DEF Threads
  <2>3. Active' = Active /\ InState("born")' = {} /\ InState("leaving")' = InState("leaving")
    BY <2>1, <2>2 DEF Active, InState, Threads
  <2>4. \A d \in Clients : pc'[d] = "creating" => pc[d] = "creating"
    BY <2>1 DEF Threads
  <2>5. NoSelfJoin'
    BY <2>1, <2>2 DEF NoSelfJoin, Threads
  <2>6. Active # {}
    BY <2>1 DEF RunningIsTrue
  <2> QED
    BY <2>1, <2>3, <2>4, <2>5, <2>6
    DEF OneAtATime, Working, RunningIsTrue, JoinerHasWorker, Threads
<1>13. ASSUME NEW t \in Threads, SpuriousWakeup(t) \/ WaitsAgain(t) PROVE SInv'
  <2>1. /\ pc[t] \in {"wait", "woken"} /\ UNCHANGED <<flags, mLock>>
        /\ \/ pc' = [pc EXCEPT ![t] = "woken"]
           \/ mRunning /\ pc' = [pc EXCEPT ![t] = "wait"]
    BY <1>13 DEF SpuriousWakeup, WaitsAgain, MustWait, Goes
  <2>2. t \in Clients
    BY <2>1 DEF NoSelfJoin, Threads
  <2>3. Active' = Active /\ InState("born")' = InState("born") /\ Joining' = Joining
        /\ InState("leaving")' = InState("leaving")
    BY <2>1, <2>2 DEF Active, InState, Joining, Threads
  <2>4. \A d \in Clients : pc'[d] = "creating" => pc[d] = "creating"
    BY <2>1 DEF Threads
  <2>5. mLock # NoThread => mLock # t
    BY <2>1 DEF OneAtATime
  <2>6. NoSelfJoin'
    BY <2>1, <2>2 DEF NoSelfJoin, Threads
  <2>7. JoinerHasWorker'
    BY <2>1, <2>3 DEF JoinerHasWorker, RunningIsTrue
  <2>8. OneAtATime'
    BY <2>1, <2>3, <2>4, <2>5 DEF OneAtATime, Working, Threads, flags
  <2> QED
    BY <2>1, <2>3, <2>6, <2>7, <2>8 DEF RunningIsTrue, flags
<1>14. ASSUME NEW t \in Threads, WaitEnds(t) PROVE SInv'
  <2>1. /\ pc[t] = "woken" /\ pc' = [pc EXCEPT ![t] = "returned"] /\ mLock = NoThread
        /\ UNCHANGED <<mRunning, mThread, mLock>>
    BY <1>14 DEF WaitEnds, Returns, Goes
  <2>2. t \in Clients
    BY <2>1 DEF NoSelfJoin, Threads
  <2>3. /\ Active' = Active /\ InState("born")' = InState("born")
        /\ Joining' \subseteq Joining /\ InState("leaving")' = InState("leaving")
    BY <2>1, <2>2 DEF Active, InState, Joining, Threads
  <2>4. \A d \in Clients : pc'[d] = "creating" => pc[d] = "creating"
    BY <2>1 DEF Threads
  <2>5. NoSelfJoin'
    BY <2>1, <2>2 DEF NoSelfJoin, Threads
  <2>6. JoinerHasWorker'
    BY <2>1, <2>3 DEF JoinerHasWorker
  <2> QED
    BY <2>1, <2>3, <2>4, <2>5, <2>6 DEF OneAtATime, Working, RunningIsTrue
<1>15. ASSUME NEW t \in Threads, Resumes(t) PROVE SInv'
  <2>1. pc[t] = "returned" /\ pc' = [pc EXCEPT ![t] = Home(t)] /\ UNCHANGED <<flags, mLock>>
    BY <1>15 DEF Resumes, Goes
  <2>2. Unmoved
    BY <2>1, HomeType DEF Unmoved, Active, InState, Joining, Threads, CallPCs
  <2> QED
    BY <2>1, <2>2, UnmovedKeeps DEF flags
<1> QED
  BY <1>1, <1>2, <1>3, <1>4, <1>5, <1>6, <1>7, <1>8, <1>9, <1>10, <1>11, <1>12, <1>13, <1>14, <1>15
  DEF Next, ClientStep, WorkerStep, CallStep, Call

(* The inductive invariant of Thread holds at every moment.                *)
LEMMA Safe ==
  ASSUME WorkersSettle
  PROVE  Spec => []SInv
<1>1. Init => SInv
  BY InitSInv
<1>2. SInv /\ [Next]_vars => SInv'
  BY SInvStep
<1> QED
  BY <1>1, <1>2, PTL DEF Spec

(* mRunning, which _threadLoop writes twice without mLock, is true exactly *)
(* while a worker is between its first statement and its decision to end.  *)
THEOREM RunningTrue ==
  ASSUME WorkersSettle
  PROVE  Spec => []RunningIsTrue
BY Safe, PTL DEF SInv

(* Nobody is blocked in join or requestExitAndWait without a worker that   *)
(* is still to broadcast: for any number of clients that run, stop and     *)
(* join the object over and over again.                                    *)
THEOREM JoinersHaveWorker ==
  ASSUME WorkersSettle
  PROVE  Spec => []JoinerHasWorker
BY Safe, PTL DEF SInv

(* A join from within threadLoop is refused, never waited for.             *)
THEOREM SelfJoinRefused ==
  ASSUME WorkersSettle
  PROVE  Spec => []NoSelfJoin
BY Safe, PTL DEF SInv

-----------------------------------------------------------------------------
(***************************************************************************)
(* What needs joins to be over, too, before the object runs again          *)
(***************************************************************************)

(* While a thread is in a join, nobody creates a worker or has created one *)
(* that has not set mRunning yet.                                          *)
JoinsSettle == Joining # {} => InState("born") = {} /\ mLock = NoThread

(* Every action of callers that leave time for all of it keeps that.       *)
LEMMA JoinsSettleStep ==
  ASSUME Settles = Settlings, SInv, JoinsSettle, [Next]_vars
  PROVE  JoinsSettle'
<1> USE ThreadAssumption DEF SInv, TypeOK
<1>0. ASSUME Joining' \subseteq Joining, InState("born")' \subseteq InState("born"),
             mLock' \in {mLock, NoThread}
      PROVE  JoinsSettle'
  BY <1>0 DEF JoinsSettle
<1>1. CASE UNCHANGED vars
  BY <1>1 DEF vars, JoinsSettle, Joining, InState
<1>2. ASSUME NEW c \in Clients, Run(c) PROVE JoinsSettle'
  <2>1. Joining = {} /\ pc' = [pc EXCEPT ![c] = "creating"]
    BY <1>2 DEF Run, Enters, Settled, Settlings, Goes
  <2>2. Joining' = {}
    BY <2>1 DEF Joining, Threads
  <2> QED
    BY <2>2 DEF JoinsSettle
<1>3. ASSUME NEW c \in Clients, RunRefused(c) PROVE JoinsSettle'
  <2>1. pc' = [pc EXCEPT ![c] = "returned"] /\ mLock' = mLock
    BY <1>3 DEF RunRefused, Returns, Goes
  <2> QED
    BY <1>0, <2>1 DEF Joining, InState, Threads
<1>4. ASSUME NEW c \in Clients, ClientStep(c) PROVE JoinsSettle'
  <2>1. /\ pc[c] = "creating" /\ mLock = c /\ c # NoThread
        /\ \/ pc' = [pc EXCEPT ![c] = "returned"]
           \/ \E w \in InState("none") : pc' = [pc EXCEPT ![c] = "returned", ![w] = "born"]
    BY <1>4 DEF ClientStep, RunCreates, RunFails, Returns, Goes, OneAtATime, Threads
  <2>2. Joining = {}
    BY <2>1 DEF JoinsSettle
  <2>3. Joining' = {}
    BY <2>1, <2>2 DEF Joining, InState, Threads
  <2> QED
    BY <2>3 DEF JoinsSettle
<1>5. ASSUME NEW w \in Workers, WorkerStep(w) PROVE JoinsSettle'
  <2>1. mLock' = mLock
    BY <1>5 DEF WorkerStep, Starts, ReadyToRun, LoopReturns, LeavesLoop, GoesOn, Loops,
                ClearsRunning, Ends
  <2>2. CASE LeavesLoop(w)
    BY <1>0, <2>1, <2>2 DEF LeavesLoop, LeavesAndBroadcasts, Joining, InState, Threads
  <2>3. CASE ~LeavesLoop(w)
    <3>1. \E label \in WorkerPCs \ ({"born"} \cup CallPCs) : pc' = [pc EXCEPT ![w] = label]
      BY <1>5, <2>3 DEF WorkerStep, Starts, ReadyToRun, LoopReturns, GoesOn, Loops,
                        ClearsRunning, Ends, Goes, WorkerPCs, CallPCs
    <3> QED
      BY <1>0, <2>1, <3>1 DEF Joining, InState, Threads, CallPCs
  <2> QED
    BY <2>2, <2>3
<1>6. ASSUME NEW t \in Threads, Joins(t) PROVE JoinsSettle'
  <2>1. mLock' = NoThread /\ InState("born") = {} /\ pc' = [pc EXCEPT ![t] = "wait"]
    BY <1>6 DEF Joins, Enters, Settled, Settlings, JoinOps, Goes
  <2>2. InState("born")' = {}
    BY <2>1 DEF InState, Threads
  <2> QED
    BY <2>1, <2>2 DEF JoinsSettle
<1>7. ASSUME NEW t \in Threads, Call(t) \/ SpuriousWakeup(t) \/ CallStep(t), ~Joins(t)
      PROVE  JoinsSettle'
  <2>1. mLock' = mLock
    BY <1>7 DEF Call, SpuriousWakeup, CallStep, RequestExit, Query, JoinRefused, JoinsEnded,
                WaitsAgain, WaitEnds, Resumes
  <2>2. CASE SpuriousWakeup(t) \/ WaitsAgain(t)
    <3>1. t \in Joining /\ \E label \in {"wait", "woken"} : pc' = [pc EXCEPT ![t] = label]
      BY <2>2 DEF SpuriousWakeup, WaitsAgain, Goes, Joining
    <3> QED
      BY <1>0, <2>1, <3>1 DEF Joining, InState, Threads
  <2>3. CASE ~SpuriousWakeup(t) /\ ~WaitsAgain(t)
    <3>1. \E label \in {"returned", Home(t)} : pc' = [pc EXCEPT ![t] = label]
      BY <1>7, <2>3 DEF Call, CallStep, RequestExit, Query, JoinRefused, JoinsEnded,
                        WaitEnds, Resumes, Returns, Goes
    <3>2. Home(t) \in {"idle", "loop"}
      BY DEF Home
    <3> QED
      BY <1>0, <2>1, <3>1, <3>2 DEF Joining, InState, Threads
  <2> QED
    BY <2>2, <2>3
<1> QED
  BY <1>1, <1>2, <1>3, <1>4, <1>5, <1>6, <1>7 DEF Next

(* Both invariants of settled callers.                                     *)
LEMMA SafeJoins ==
  ASSUME Settles = Settlings
  PROVE  Spec => [](SInv /\ JoinsSettle)
<1>0. WorkersSettle
  BY DEF WorkersSettle, Settlings
<1>1. Init => SInv /\ JoinsSettle
  <2> SUFFICES ASSUME Init PROVE SInv /\ JoinsSettle
    OBVIOUS
  <2>1. Joining = {}
    BY DEF Init, Joining, Threads
  <2> QED
    BY <2>1, InitSInv DEF JoinsSettle
<1>2. SInv /\ JoinsSettle /\ [Next]_vars => (SInv /\ JoinsSettle)'
  BY <1>0, SInvStep, JoinsSettleStep
<1> QED
  BY <1>1, <1>2, PTL DEF Spec

(* When join or requestExitAndWait returns, other than by a refusal, no    *)
(* worker is left that will call threadLoop again.                         *)
THEOREM JoinStops ==
  ASSUME Settles = Settlings
  PROVE  Spec => JoinMeansStopped
<1> DEFINE Good == (\E t \in Threads : JoinReturns(t)) => Active \cup InState("born") = {}
<1>1. SInv /\ JoinsSettle /\ [Next]_vars => [Good]_vars
  <2> SUFFICES ASSUME SInv, JoinsSettle, Next, NEW t \in Threads, JoinReturns(t)
               PROVE  Active \cup InState("born") = {}
    OBVIOUS
  <2> USE ThreadAssumption DEF SInv, TypeOK
  <2>1. ASSUME NEW c \in Clients, Run(c) \/ RunRefused(c) \/ ClientStep(c) PROVE FALSE
    <3>0. c \in Threads /\ "run" \notin JoinOps
      BY DEF Threads, JoinOps
    <3>1. CASE t = c
      BY <2>1, <3>0, <3>1 DEF Run, RunRefused, ClientStep, RunCreates, RunFails, Returns, Answer,
                              Goes, JoinReturns, InState, Threads
    <3>2. CASE t # c
      BY <2>1, <3>0, <3>2 DEF Run, RunRefused, ClientStep, RunCreates, RunFails, Returns, Answer,
                              Goes, JoinReturns, InState, Threads
    <3> QED
      BY <3>1, <3>2
  <2>2. ASSUME NEW w \in Workers, WorkerStep(w) PROVE FALSE
    BY <2>2 DEF WorkerStep, Starts, ReadyToRun, LoopReturns, LeavesLoop, LeavesAndBroadcasts,
                GoesOn, Loops, ClearsRunning, Ends, Goes, JoinReturns, Threads
  <2>3. ASSUME NEW u \in Threads, Call(u) \/ SpuriousWakeup(u) \/ CallStep(u)
        PROVE  Active \cup InState("born") = {}
    <3>1. t = u
      BY <2>3, HomeType DEF Call, SpuriousWakeup, CallStep, RequestExit, Query, JoinRefused,
                  JoinsEnded, Joins, WaitsAgain, WaitEnds, Resumes, Returns, Goes, JoinReturns
    <3>2. JoinsEnded(t) \/ WaitEnds(t)
      <4>1. ~SpuriousWakeup(t) /\ ~WaitsAgain(t) /\ ~Resumes(t) /\ ~Joins(t)
        BY HomeType DEF SpuriousWakeup, WaitsAgain, Resumes, Joins, Goes, JoinReturns, Threads
      <4>2. ~RequestExit(t) /\ ~Query(t) /\ ~JoinRefused(t)
        BY DEF RequestExit, Query, JoinRefused, Returns, Answer, JoinReturns, JoinOps
      <4> QED
        BY <2>3, <3>1, <4>1, <4>2 DEF Call, CallStep
    <3>3. Active = {}
      BY <3>2 DEF JoinsEnded, WaitEnds, MustWait, RunningIsTrue
    <3>4. InState("born") = {}
      <4>1. CASE JoinsEnded(t)
        BY <4>1 DEF JoinsEnded, Enters, Settled, Settlings
      <4>2. CASE WaitEnds(t)
        BY <4>2 DEF WaitEnds, JoinsSettle, Joining
      <4> QED
        BY <3>2, <4>1, <4>2
    <3> QED
      BY <3>3, <3>4
  <2> QED
    BY <2>1, <2>2, <2>3 DEF Next
<1> QED
  BY <1>1, SafeJoins, PTL DEF Spec, JoinMeansStopped
=============================================================================
