----------------------------- MODULE QueueLive -----------------------------
(***************************************************************************)
(* Queue under the scheduling its users rely on: a thread inside an        *)
(* operation keeps running.  Nothing is assumed about who gets a contended *)
(* mutex; instead every thread makes at most MaxCalls calls (a wakeup      *)
(* nobody caused counts as one), as the producers and consumers of         *)
(* QueueSimple do, so that contention ends.                                *)
(***************************************************************************)
EXTENDS Queue

CONSTANT MaxCalls

ASSUME MaxCallsAssumption == MaxCalls \in Nat

VARIABLE calls   (* how many calls each thread has made *)

liveVars == <<vars, calls>>

LiveInit == Init /\ calls = [t \in Threads |-> 0]

Begin(t) ==
  /\ calls[t] < MaxCalls
  /\ Call(t) \/ SpuriousWakeup(t)
  /\ calls' = [calls EXCEPT ![t] = @ + 1]

Run(t) == Step(t) /\ UNCHANGED calls

LiveNext == \E t \in Threads : Begin(t) \/ Run(t)

Fairness == \A t \in Threads : WF_liveVars(Run(t))

LiveSpec == LiveInit /\ [][LiveNext]_liveVars /\ Fairness
-----------------------------------------------------------------------------
(* No lost wakeup in pushAndWait: while the queue is open and a thread is  *)
(* blocked on mCondPut, every free place has a putter on its way to it;    *)
(* once it is closed, a broadcast to mCondPut is still to come.  So it is  *)
(* when no thread flushes, reopens or runs out of memory: flush empties    *)
(* the queue without a signal, and a signalled putter that gives up on     *)
(* its way does not pass the signal on.                                    *)
NoLostPut ==
  Waiting("waitPut") # {} /\ mAllowedNewData =>
    Capability - mUsedElementCnts <= Cardinality(Coming("pushAndWait"))

(* setAllowedNewData(false) sets every blocked thread free: when the queue *)
(* stays closed, no thread stays inside an operation, but for one that has *)
(* not locked a queue yet when it is destroyed.                            *)
Returned(t) == pc[t] = "idle" \/ (pc[t] = "lock" /\ life = "dead")

CloseReleases ==
  <>[]~mAllowedNewData => <>[](\A t \in Threads : Returned(t))

(* No getter is left waiting beside a queued element.                     *)
GetterServed ==
  (Waiting("waitGet") # {} /\ mUsedElementCnts > 0)
    ~> (Waiting("waitGet") = {} \/ mUsedElementCnts = 0)

(* No putter is left waiting beside a free place (Queue.h says that        *)
(* pushAndWait waits until elements are removed).                          *)
PutterServed ==
  (Waiting("waitPut") # {} /\ ~IsFull) ~> (Waiting("waitPut") = {} \/ IsFull)

(* ~Queue returns, whoever waits in the queue when it begins and whether   *)
(* or not the owner has joined anybody: the broadcasts take every waiter   *)
(* out of the condition variables that it destroys with mMutex held, and   *)
(* out of the mutex for which it retries.                                  *)
DestructorReturns == \A t \in Threads : op[t] = "release" ~> life = "dead"
=============================================================================
