------------------------------- MODULE Thread -------------------------------
(***************************************************************************)
(* Tls::Thread (Thread.h, Thread.cpp): an object whose run() starts a      *)
(* detached POSIX thread, a worker, that calls threadLoop() until it       *)
(* returns false or somebody requests the exit.  The object can be run     *)
(* again; the workers of its earlier lives may still be on their last      *)
(* lines by then.                                                          *)
(*                                                                         *)
(* A critical section of mLock is one step, for everything else it reads   *)
(* and writes needs mLock as well, except that run() is split where it     *)
(* creates the worker.  Thread.h says that all accesses of mRunning hold   *)
(* mLock; three lines of _threadLoop do not, and are steps of their own.   *)
(***************************************************************************)
EXTENDS Naturals, FiniteSets

CONSTANTS
  Clients,        (* the threads that use the object                        *)
  Workers,        (* the threads pthread_create makes; an ended one is free *)
                  (* to be made again, as its pthread_t is                  *)
  NoThread,       (* pthread_t(-1), and the owner of a free mutex           *)
  MayCall,        (* what each client calls, and each worker in threadLoop  *)
  CreateMayFail,  (* whether pthread_create may fail                        *)
  Settles         (* what callers leave time for: see Settled below         *)

Threads == Clients \cup Workers

(* The return codes of ErrorCode.h that Thread.cpp uses, by name, and what *)
(* a predicate says.                                                       *)
Codes == {"NO_ERROR", "ERROR_WOULD_BLOCK", "ERROR_INVALID_OPERATION", "ERROR_UNKNOWN",
          "true", "false"}

JoinOps == {"join", "requestExitAndWait"}
Calls   == JoinOps \cup {"run", "requestExit", "isRunning", "isExitPending"}

Settlings == {"born", "leaving", "joining"}

ASSUME ThreadAssumption ==
  /\ IsFiniteSet(Clients) /\ IsFiniteSet(Workers)
  /\ Clients \cap Workers = {}
  /\ NoThread \notin Threads
  /\ MayCall \in [Threads -> SUBSET Calls]
  /\ \A w \in Workers : "run" \notin MayCall[w]
  /\ CreateMayFail \in BOOLEAN
  /\ Settles \subseteq Settlings

VARIABLES
  mRunning, mExitPending, mStatus, mThread,
  mLock,     (* the thread that holds it, or NoThread                        *)
  pc,        (* where each thread is                                         *)
  op,        (* the call each thread is in or has just returned from         *)
  ret,       (* what that call returned                                      *)
  result     (* what threadLoop returned to each worker                      *)

vars == <<mRunning, mExitPending, mStatus, mThread, mLock, pc, op, ret, result>>
flags == <<mRunning, mExitPending, mStatus, mThread>>

(* A client is idle, creates the worker, waits on mCondition or has just   *)
(* returned from a call; a worker goes through _threadLoop, and calls the  *)
(* same operations from threadLoop.                                        *)
CallPCs   == {"wait", "woken", "returned"}
ClientPCs == {"idle", "creating"} \cup CallPCs
WorkerPCs == {"none", "born", "ready", "decide", "while", "loop", "leaving", "exiting"}
               \cup CallPCs

TypeOK ==
  /\ mRunning \in BOOLEAN
  /\ mExitPending \in BOOLEAN
  /\ mStatus \in {"NO_ERROR", "ERROR_UNKNOWN"}
  /\ mThread \in Workers \cup {NoThread}
  /\ mLock \in Clients \cup {NoThread}
  /\ pc \in [Threads -> ClientPCs \cup WorkerPCs]
  /\ \A c \in Clients : pc[c] \in ClientPCs
  /\ \A w \in Workers : pc[w] \in WorkerPCs
  /\ op \in [Threads -> Calls \cup {"none"}]
  /\ ret \in [Threads -> Codes]
  /\ result \in [Workers -> BOOLEAN]

Init ==
  /\ mRunning = FALSE
  /\ mExitPending = FALSE
  /\ mStatus = "NO_ERROR"
  /\ mThread = NoThread
  /\ mLock = NoThread
  /\ pc = [t \in Threads |-> IF t \in Clients THEN "idle" ELSE "none"]
  /\ op = [t \in Threads |-> "none"]
  /\ ret = [t \in Threads |-> "NO_ERROR"]
  /\ result = [w \in Workers |-> TRUE]
-----------------------------------------------------------------------------
(* A worker that will or may call threadLoop again or is inside it.        *)
Active == {w \in Workers : pc[w] \in {"ready", "decide", "while", "loop"} \cup CallPCs}

InState(label) == {w \in Workers : pc[w] = label}

Joining == {t \in Threads : pc[t] \in {"wait", "woken"}}

(* What callers have to leave time for, although they cannot see it: that  *)
(* a created worker sets mRunning, before they join it or run the object   *)
(* once more; and, before they run it again, that the last worker clears   *)
(* mRunning a second time and that every join of it is over.               *)
Settled(o) ==
  /\ "born" \in Settles /\ o \in JoinOps \cup {"run"} => InState("born") = {}
  /\ "leaving" \in Settles /\ o = "run" => InState("leaving") = {}
  /\ "joining" \in Settles /\ o = "run" => Joining = {}

Home(t) == IF t \in Workers THEN "loop" ELSE "idle"

(* t is in its caller's code, calls o and gets mLock.                      *)
Enters(t, o) ==
  /\ pc[t] = Home(t)
  /\ mLock = NoThread
  /\ o \in MayCall[t]
  /\ Settled(o)

Goes(t, label) == pc' = [pc EXCEPT ![t] = label]

Answer(t, o, code) ==
  /\ op' = [op EXCEPT ![t] = o]
  /\ ret' = [ret EXCEPT ![t] = code]

Returns(t, o, code) == Answer(t, o, code) /\ Goes(t, "returned")
-----------------------------------------------------------------------------
(***************************************************************************)
(* Variants with one slip each, next to what they vary: every property     *)
(* below fails for one of them.  No specification uses them.               *)
(***************************************************************************)
(* The creator's own pthread_self() is kept instead of the worker's.       *)
ThreadIdOfCreator(c, w) == mThread' = c

(* The waiters are not woken, or leave the wait without looking again.     *)
LeavesNobodyWoken(w) == Goes(w, "leaving")

IfInsteadOfWhile(t) == FALSE

(* The worker does not look at mExitPending.                               *)
IgnoresRequest(w) == ~result[w]

(* The worker keeps mRunning when it leaves its loop.                      *)
KeepsRunning == UNCHANGED mRunning
-----------------------------------------------------------------------------
(***************************************************************************)
(* run()                                                                   *)
(***************************************************************************)
AlreadyStarted == mRunning

RunRefused(c) ==
  /\ Enters(c, "run")
  /\ AlreadyStarted
  /\ Returns(c, "run", "ERROR_INVALID_OPERATION")
  /\ UNCHANGED <<flags, mLock, result>>

Run(c) ==
  /\ Enters(c, "run")
  /\ ~AlreadyStarted
  /\ mStatus' = "NO_ERROR"
  /\ mExitPending' = FALSE
  /\ mThread' = NoThread
  /\ mLock' = c
  /\ Goes(c, "creating")
  /\ UNCHANGED <<mRunning, op, ret, result>>

(* createThread: the new worker runs at once; mThread is assigned after    *)
(* that, but nobody can read it before run() has released mLock.           *)
ThreadIdOf(c, w) == mThread' = w

RunCreates(c) ==
  /\ pc[c] = "creating"
  /\ \E w \in InState("none") :
       /\ pc' = [pc EXCEPT ![c] = "returned", ![w] = "born"]
       /\ ThreadIdOf(c, w)
       /\ result' = [result EXCEPT ![w] = TRUE]
  /\ mLock' = NoThread
  /\ Answer(c, "run", "NO_ERROR")
  /\ UNCHANGED <<mRunning, mExitPending, mStatus>>

RunFails(c) ==
  /\ pc[c] = "creating"
  /\ CreateMayFail \/ InState("none") = {}
  /\ mStatus' = "ERROR_UNKNOWN"
  /\ mRunning' = FALSE
  /\ mThread' = NoThread
  /\ mLock' = NoThread
  /\ Returns(c, "run", "ERROR_UNKNOWN")
  /\ UNCHANGED <<mExitPending, result>>
-----------------------------------------------------------------------------
(***************************************************************************)
(* _threadLoop                                                             *)
(***************************************************************************)

(* The first statements, without mLock.                                    *)
Starts(w) ==
  /\ pc[w] = "born"
  /\ mRunning' = TRUE
  /\ Goes(w, "ready")
  /\ UNCHANGED <<mExitPending, mStatus, mThread, mLock, op, ret, result>>

(* readyToRun, then isExitPending, which needs mLock and whose answer      *)
(* nobody uses: the first turn of the loop does not call threadLoop.       *)
ReadyToRun(w) ==
  /\ pc[w] = "ready"
  /\ mLock = NoThread
  /\ Goes(w, "decide")
  /\ UNCHANGED <<flags, mLock, op, ret, result>>

(* threadLoop returns.                                                     *)
LoopReturns(w) ==
  /\ pc[w] = "loop"
  /\ \E b \in BOOLEAN : result' = [result EXCEPT ![w] = b]
  /\ Goes(w, "decide")
  /\ UNCHANGED <<flags, mLock, op, ret>>

(* mCondition.broadcast() by a worker on its way out of the loop.          *)
LeavesAndBroadcasts(w) ==
  pc' = [t \in Threads |-> IF t = w THEN "leaving"
                           ELSE IF pc[t] = "wait" THEN "woken" ELSE pc[t]]

WantsOut(w) == ~result[w] \/ mExitPending

Stopped == mRunning' = FALSE

LeavesLoop(w) ==
  /\ pc[w] = "decide"
  /\ mLock = NoThread
  /\ WantsOut(w)
  /\ mExitPending' = TRUE
  /\ Stopped
  /\ mThread' = NoThread
  /\ LeavesAndBroadcasts(w)
  /\ UNCHANGED <<mStatus, mLock, op, ret, result>>

GoesOn(w) ==
  /\ pc[w] = "decide"
  /\ mLock = NoThread
  /\ ~WantsOut(w)
  /\ Goes(w, "while")
  /\ UNCHANGED <<flags, mLock, op, ret, result>>

(* while(self->mRunning), read without mLock.                              *)
Loops(w) ==
  /\ pc[w] = "while"
  /\ Goes(w, IF mRunning THEN "loop" ELSE "leaving")
  /\ UNCHANGED <<flags, mLock, op, ret, result>>

(* The second self->mRunning = false, without mLock.                       *)
ClearsRunning(w) ==
  /\ pc[w] = "leaving"
  /\ mRunning' = FALSE
  /\ Goes(w, "exiting")
  /\ UNCHANGED <<mExitPending, mStatus, mThread, mLock, op, ret, result>>

(* readyToExit, and the end of the POSIX thread.                           *)
Ends(w) ==
  /\ pc[w] = "exiting"
  /\ Goes(w, "none")
  /\ UNCHANGED <<flags, mLock, op, ret, result>>
-----------------------------------------------------------------------------
(***************************************************************************)
(* The other calls, by clients or from within threadLoop                   *)
(***************************************************************************)
RequestExit(t) ==
  /\ Enters(t, "requestExit")
  /\ mExitPending' = TRUE
  /\ Returns(t, "requestExit", "NO_ERROR")
  /\ UNCHANGED <<mRunning, mStatus, mThread, mLock, result>>

Query(t) ==
  /\ \E o \in {"isRunning", "isExitPending"} :
       /\ Enters(t, o)
       /\ LET flag == IF o = "isRunning" THEN mRunning ELSE mExitPending
          IN Returns(t, o, IF flag THEN "true" ELSE "false")
  /\ UNCHANGED <<flags, mLock, result>>

JoinRefused(t) ==
  /\ mThread = t
  /\ \E o \in JoinOps : Enters(t, o) /\ Returns(t, o, "ERROR_WOULD_BLOCK")
  /\ UNCHANGED <<flags, mLock, result>>

(* requestExitAndWait sets mExitPending before it waits and clears it      *)
(* after, if it need not wait at all too.                                  *)
JoinsEnded(t) ==
  /\ mThread # t
  /\ ~mRunning
  /\ \E o \in JoinOps :
       /\ Enters(t, o)
       /\ mExitPending' = (mExitPending /\ o = "join")
       /\ Returns(t, o, mStatus)
  /\ UNCHANGED <<mRunning, mStatus, mThread, mLock, result>>

Joins(t) ==
  /\ mThread # t
  /\ mRunning
  /\ \E o \in JoinOps :
       /\ Enters(t, o)
       /\ mExitPending' = (mExitPending \/ o = "requestExitAndWait")
       /\ op' = [op EXCEPT ![t] = o]
  /\ Goes(t, "wait")
  /\ UNCHANGED <<mRunning, mStatus, mThread, mLock, ret, result>>

(* POSIX lets pthread_cond_wait return without a broadcast.                *)
SpuriousWakeup(t) ==
  /\ pc[t] = "wait"
  /\ Goes(t, "woken")
  /\ UNCHANGED <<flags, mLock, op, ret, result>>

(* while (mRunning == true).                                               *)
MustWait(t) == mRunning

WaitsAgain(t) ==
  /\ pc[t] = "woken"
  /\ mLock = NoThread
  /\ MustWait(t)
  /\ Goes(t, "wait")
  /\ UNCHANGED <<flags, mLock, op, ret, result>>

WaitEnds(t) ==
  /\ pc[t] = "woken"
  /\ mLock = NoThread
  /\ ~MustWait(t)
  /\ mExitPending' = (mExitPending /\ op[t] = "join")
  /\ Returns(t, op[t], mStatus)
  /\ UNCHANGED <<mRunning, mStatus, mThread, mLock, result>>

(* The caller goes on.                                                     *)
Resumes(t) ==
  /\ pc[t] = "returned"
  /\ Goes(t, Home(t))
  /\ Answer(t, "none", "NO_ERROR")
  /\ UNCHANGED <<flags, mLock, result>>
-----------------------------------------------------------------------------
(* What a thread does of its own accord, once it is inside the code.       *)
WorkerStep(w) ==
  \/ Starts(w) \/ ReadyToRun(w) \/ LoopReturns(w) \/ LeavesLoop(w) \/ GoesOn(w)
  \/ Loops(w) \/ ClearsRunning(w) \/ Ends(w)

ClientStep(c) == RunCreates(c) \/ RunFails(c)

CallStep(t) == WaitsAgain(t) \/ WaitEnds(t) \/ Resumes(t)

Call(t) == RequestExit(t) \/ Query(t) \/ JoinRefused(t) \/ JoinsEnded(t) \/ Joins(t)

Next ==
  \/ \E c \in Clients : Run(c) \/ RunRefused(c) \/ ClientStep(c)
  \/ \E w \in Workers : WorkerStep(w)
  \/ \E t \in Threads : Call(t) \/ SpuriousWakeup(t) \/ CallStep(t)

Spec == Init /\ [][Next]_vars

(* The scheduler runs every thread; threadLoop makes finitely many calls   *)
(* and returns, which strong fairness says since each call interrupts it;  *)
(* and mLock is not withheld for ever from a thread that wants it: it is   *)
(* held for single steps, but for run(), which goes on.                    *)
Fairness ==
  /\ \A w \in Workers : WF_vars(WorkerStep(w)) /\ SF_vars(LoopReturns(w))
  /\ \A c \in Clients : WF_vars(ClientStep(c))
  /\ \A t \in Threads : WF_vars(CallStep(t))

FairSpec == Spec /\ Fairness
-----------------------------------------------------------------------------
(***************************************************************************)
(* Properties, for callers that leave time for all of Settlings (the runs  *)
(* in which they do not show what becomes of some of them)                 *)
(***************************************************************************)

(* mRunning, written without mLock and cleared twice, is true exactly      *)
(* while a worker is between its first statement and its decision to end.  *)
RunningIsTrue == mRunning <=> Active # {}

(* run() refuses a "thread already started" (Thread.cpp:65): there is      *)
(* never a second worker beside one that works or will.  It looks at       *)
(* mRunning for that, which the worker sets.                               *)
OneWorker == Cardinality(Active \cup InState("born")) <= 1

(* A thread that is blocked in join or requestExitAndWait has a worker     *)
(* that is still to broadcast.                                             *)
JoinerHasWorker ==
  (\E t \in Threads : pc[t] = "wait") => Active # {}

(* "Call requestExit() and wait until this object's thread exits": when    *)
(* join or requestExitAndWait returns, but for the refusal, no worker is   *)
(* left that will call threadLoop again.                                   *)
JoinReturns(t) ==
  /\ pc[t] # "returned" /\ pc'[t] = "returned"
  /\ op'[t] \in JoinOps /\ ret'[t] # "ERROR_WOULD_BLOCK"

JoinMeansStopped ==
  [][(\E t \in Threads : JoinReturns(t)) => Active \cup InState("born") = {}]_vars

(* A worker never blocks in a join of its own thread, whatever became of   *)
(* mThread: "Do not call from this object's thread; will return            *)
(* WOULD_BLOCK in that case".                                              *)
NoSelfJoin == \A w \in Workers : pc[w] \notin {"wait", "woken"}

(* A requested exit happens, and is not forgotten on the way.              *)
ExitHonoured == mExitPending /\ Active # {} ~> Active = {}

(* requestExitAndWait returns.                                             *)
StopReturns ==
  \A c \in Clients :
    (pc[c] = "wait" /\ op[c] = "requestExitAndWait") ~> pc[c] = "returned"
=============================================================================
