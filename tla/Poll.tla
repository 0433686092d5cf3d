-------------------------------- MODULE Poll --------------------------------
(***************************************************************************)
(* Tls::Poll (Poll.h, Poll.cpp): a table of descriptors for poll(2), and a *)
(* control socket by which setFlushing ends the wait of another thread.    *)
(*                                                                         *)
(* The operations on the table hold mMutex and are one step.  wait and     *)
(* setFlushing work on three atomic integers without it, and every access  *)
(* is a step.  What poll(2) finds is up to the environment, but for the    *)
(* control socket.  isReadable and isWritable only read the table: they    *)
(* are what PollSpec calls the report.                                     *)
(*                                                                         *)
(* mFdsCnt is the length of mFds.  The array the constructor allocates has *)
(* room for every descriptor here, so realloc never moves it.              *)
(***************************************************************************)
EXTENDS Naturals, Sequences, FiniteSets, SequencesExt

CONSTANTS
  Threads,
  Fds,          (* the descriptors of the callers                             *)
  Control,      (* mControlReadFd                                             *)
  MayCall,      (* the operations each thread calls                           *)
  mControllable,
  RemovesLast,  (* whether callers remove only the last entry of the table    *)
  TableQuiet,   (* whether they change the table only while nobody waits      *)
  MaxPending    (* a bound on mControlPending, which nothing ever lowers      *)

INCREASE_ACTIVE_FDS == 8

TableOps == {"addFd", "removeFd", "setFdReadable", "setFdWritable"}
Calls    == TableOps \cup {"wait", "setFlushing"}

ASSUME PollAssumption ==
  /\ IsFiniteSet(Threads)
  /\ IsFiniteSet(Fds) /\ Cardinality(Fds) < INCREASE_ACTIVE_FDS
  /\ Control \notin Fds
  /\ MayCall \in [Threads -> SUBSET Calls]
  /\ mControllable \in BOOLEAN
  /\ RemovesLast \in BOOLEAN
  /\ TableQuiet \in BOOLEAN
  /\ MaxPending \in Nat

VARIABLES
  mFds,             (* the entries in use                                     *)
  mWaiting, mFlushing, mControlPending,
  bytes,            (* what can be read from the control socket               *)
  pc,               (* where each thread is                                   *)
  last,             (* the call that just changed the table, and on what      *)
  oldwaiting,       (* wait found another thread waiting                      *)
  polled            (* the entries poll(2) was called with                    *)

vars == <<mFds, last, mWaiting, mFlushing, mControlPending, bytes, pc, oldwaiting, polled>>
atomics == <<mWaiting, mFlushing, mControlPending, bytes>>
locals == <<oldwaiting, polled>>

(* POLLERR, POLLHUP and POLLNVAL are always in events and need no mention; *)
(* of revents only what somebody asks about is kept.                       *)
Events == {"in", "pri", "out"}
Ready  == {"in", "out"}
Entry  == [fd : Fds \cup {Control}, events : SUBSET Events, revents : SUBSET Ready]

Tags == {"tag_success", "tag_already_waiting", "tag_flushing"}
(* Where a thread is counted in mWaiting; where it is inside setFlushing   *)
(* and may still raise the wakeup.                                         *)
Counted  == {"check", "enter", "polling", "polled"} \cup Tags
Flushing == {"stored", "flushing", "raise"}

TypeOK ==
  /\ mFds \in Seq(Entry)
  /\ last \in (TableOps \cup {"none"}) \X (Fds \cup {Control})
  /\ mWaiting \in Nat
  /\ mFlushing \in BOOLEAN
  /\ mControlPending \in Nat
  /\ bytes \in {0, 1}
  /\ pc \in [Threads -> {"idle", "counting"} \cup Counted \cup Flushing]
  /\ oldwaiting \in [Threads -> BOOLEAN]
  /\ polled \in [Threads -> Seq(Entry)]

NoCall == <<"none", Control>>

(* The constructor, when socketpair succeeds.                              *)
Init ==
  /\ mFds = <<[fd |-> Control, events |-> {"in", "pri"}, revents |-> {}]>>
  /\ last = NoCall
  /\ mWaiting = 0
  /\ mFlushing = FALSE
  /\ mControlPending = 0
  /\ bytes = 0
  /\ pc = [t \in Threads |-> "idle"]
  /\ oldwaiting = [t \in Threads |-> FALSE]
  /\ polled = [t \in Threads |-> <<>>]

Goes(t, label) == pc' = [pc EXCEPT ![t] = label]
-----------------------------------------------------------------------------
(***************************************************************************)
(* Variants with one slip each: every property below fails for one of      *)
(* them.  No specification uses them.                                      *)
(***************************************************************************)
(* A refused wait is not taken out of the count again.                     *)
LeavesUncounted(t) ==
  mWaiting' = IF pc[t] = "tag_already_waiting" THEN mWaiting ELSE mWaiting - 1

(* wait looks at the flag after it has polled only; setFlushing needs more *)
(* than one waiting thread.                                                *)
NeverLooksFirst == FALSE
SomebodyElseWaits == mWaiting > 1

(* raiseWakeup writes a byte for every wakeup.                             *)
PendingOrNot == TRUE

(* A new entry takes over what the slot held: here, that it is readable.   *)
UnclearedEntry(fd) == [fd |-> fd, events |-> {}, revents |-> {"in"}]
-----------------------------------------------------------------------------
(***************************************************************************)
(* The table                                                               *)
(***************************************************************************)
(* findFd: the positions that hold fd.                                     *)
Positions(fd) == {i \in DOMAIN mFds : mFds[i].fd = fd}

(* t is in its caller's code and calls o.                                  *)
Enters(t, o) == pc[t] = "idle" /\ o \in MayCall[t]

(* ... on fd, with nobody waiting if that is what callers see to.          *)
Changes(t, o, fd) ==
  /\ Enters(t, o)
  /\ TableQuiet => \A u \in Threads : pc[u] \notin Counted \cup {"counting"}
  /\ last' = <<o, fd>>
  /\ UNCHANGED <<atomics, pc, locals>>

NewEntry(fd) == [fd |-> fd, events |-> {}, revents |-> {}]

AddFd(t) ==
  \E fd \in Fds :
    /\ Changes(t, "addFd", fd)
    /\ Positions(fd) = {}
    /\ mFds' = Append(mFds, NewEntry(fd))

(* The pointers of the memmove are scaled twice and it moves one byte: it  *)
(* never reaches the entries in use.  The count goes down, so the last     *)
(* entry is gone, whichever one was to be removed.                         *)
RemoveFd(t) ==
  \E fd \in Fds :
    /\ Changes(t, "removeFd", fd)
    /\ Positions(fd) # {}
    /\ RemovesLast => Len(mFds) \in Positions(fd)
    /\ mFds' = Front(mFds)

(* POLLPRI is set with POLLIN, and stays when that is cleared.             *)
Requests(events, o) ==
  IF o = "setFdReadable" THEN {events \cup {"in", "pri"}, events \ {"in"}}
                         ELSE {events \cup {"out"}, events \ {"out"}}

SetFdEvents(t) ==
  \E o \in {"setFdReadable", "setFdWritable"}, fd \in Fds :
    /\ Changes(t, o, fd)
    /\ \E i \in Positions(fd) :
         \E events \in Requests(mFds[i].events, o) : mFds' = [mFds EXCEPT ![i].events = events]
-----------------------------------------------------------------------------
(***************************************************************************)
(* wait                                                                    *)
(***************************************************************************)
WaitCall(t) ==
  /\ Enters(t, "wait")
  /\ oldwaiting' = [oldwaiting EXCEPT ![t] = mWaiting > 0]
  /\ Goes(t, "counting")
  /\ UNCHANGED <<mFds, atomics, polled>>

CountsItself(t) ==
  /\ pc[t] = "counting"
  /\ mWaiting' = mWaiting + 1
  /\ Goes(t, IF oldwaiting[t] THEN "tag_already_waiting" ELSE "check")
  /\ UNCHANGED <<mFds, mFlushing, mControlPending, bytes, locals>>

FlushSeenFirst == mFlushing

LooksForFlush(t) ==
  /\ pc[t] = "check"
  /\ Goes(t, IF FlushSeenFirst THEN "tag_flushing" ELSE "enter")
  /\ UNCHANGED <<mFds, atomics, locals>>

(* The kernel copies the table when poll(2) begins ...                     *)
EntersPoll(t) ==
  /\ pc[t] = "enter"
  /\ polled' = [polled EXCEPT ![t] = mFds]
  /\ Goes(t, "polling")
  /\ UNCHANGED <<mFds, atomics, oldwaiting>>

(* ... and when it ends writes revents back entry by entry.  A byte in the *)
(* control socket ends it for certain; so may a ready descriptor, an error *)
(* on one, a signal or the timeout.                                        *)
Woken == bytes > 0

(* What poll(2) may find for an entry: for the control socket the byte.    *)
Findings(entry) ==
  IF entry.fd = Control THEN {IF Woken THEN {"in"} ELSE {}}
                        ELSE SUBSET (entry.events \cap Ready)

PollReturns(t) ==
  /\ pc[t] = "polling"
  /\ \E found \in [DOMAIN polled[t] -> SUBSET Ready] :
       /\ \A i \in DOMAIN polled[t] : found[i] \in Findings(polled[t][i])
       /\ mFds' = [i \in DOMAIN mFds |->
                     IF i \in DOMAIN found THEN [mFds[i] EXCEPT !.revents = found[i]]
                                           ELSE mFds[i]]
  /\ polled' = [polled EXCEPT ![t] = <<>>]
  /\ Goes(t, "polled")
  /\ UNCHANGED <<atomics, oldwaiting>>

LooksAgain(t) ==
  /\ pc[t] = "polled"
  /\ Goes(t, IF mFlushing THEN "tag_flushing" ELSE "tag_success")
  /\ UNCHANGED <<mFds, atomics, locals>>

(* The three ways out: the active entries, EPERM or EBUSY.                 *)
Uncounts(t) == mWaiting' = mWaiting - 1

WaitReturns(t) ==
  /\ pc[t] \in Tags
  /\ Uncounts(t)
  /\ oldwaiting' = [oldwaiting EXCEPT ![t] = FALSE]
  /\ Goes(t, "idle")
  /\ UNCHANGED <<mFds, mFlushing, mControlPending, bytes, polled>>
-----------------------------------------------------------------------------
(***************************************************************************)
(* setFlushing                                                             *)
(***************************************************************************)
SetFlushing(t) ==
  /\ Enters(t, "setFlushing")
  /\ mFlushing' \in BOOLEAN
  /\ mFlushing' => mControlPending + Cardinality({u \in Threads : pc[u] \in Flushing}) < MaxPending
  /\ Goes(t, "stored")
  /\ UNCHANGED <<mFds, mWaiting, mControlPending, bytes, locals>>

(* The flag is read back: another thread may have changed it.              *)
StillFlushing(t) ==
  /\ pc[t] = "stored"
  /\ Goes(t, IF mFlushing /\ mControllable THEN "flushing" ELSE "idle")
  /\ UNCHANGED <<mFds, atomics, locals>>

SomebodyWaits == mWaiting > 0

LooksForWaiter(t) ==
  /\ pc[t] = "flushing"
  /\ Goes(t, IF SomebodyWaits THEN "raise" ELSE "idle")
  /\ UNCHANGED <<mFds, atomics, locals>>

(* raiseWakeup, under mMutex.                                              *)
NothingPending == mControlPending = 0

RaisesWakeup(t) ==
  /\ pc[t] = "raise"
  /\ bytes' = IF NothingPending THEN bytes + 1 ELSE bytes
  /\ mControlPending' = mControlPending + 1
  /\ Goes(t, "idle")
  /\ UNCHANGED <<mFds, mWaiting, mFlushing, locals>>
-----------------------------------------------------------------------------
TableStep(t) == AddFd(t) \/ RemoveFd(t) \/ SetFdEvents(t)

(* What a thread does of its own accord inside wait and setFlushing.       *)
Step(t) ==
  /\ \/ CountsItself(t) \/ LooksForFlush(t) \/ EntersPoll(t) \/ LooksAgain(t) \/ WaitReturns(t)
     \/ StillFlushing(t) \/ LooksForWaiter(t) \/ RaisesWakeup(t)
  /\ last' = NoCall

Begin(t) == (WaitCall(t) \/ SetFlushing(t)) /\ last' = NoCall

Polls(t) == PollReturns(t) /\ last' = NoCall

Next == \E t \in Threads : TableStep(t) \/ Begin(t) \/ Polls(t) \/ Step(t)

Spec == Init /\ [][Next]_vars

(* Threads inside an operation keep running, and poll(2) returns when      *)
(* there is something to read.  Nothing is assumed of other descriptors.   *)
Fairness ==
  \A t \in Threads : WF_vars(Step(t)) /\ WF_vars(Woken /\ Polls(t))

FairSpec == Spec /\ Fairness

(* An event loop: whoever waits does so again and again.                   *)
LoopSpec == FairSpec /\ \A t \in Threads : WF_vars(Begin(t) /\ WaitCall(t))
-----------------------------------------------------------------------------
(***************************************************************************)
(* Properties                                                              *)
(***************************************************************************)

(* mWaiting is the number of threads inside wait, on every way out of it:  *)
(* one too many and every later wait is refused, one too few and a flush   *)
(* wakes nobody.                                                           *)
WaitersCounted == mWaiting = Cardinality({t \in Threads : pc[t] \in Counted})

(* A flush cannot slip between wait's look at mFlushing and its poll(2):   *)
(* while the flag is set and no setFlushing is still on its way, every     *)
(* thread that is about to poll, or does, has a byte to read.              *)
FlushReachesWaiter ==
  (mControllable /\ mFlushing /\ \A f \in Threads : pc[f] \notin Flushing) =>
    \A t \in Threads : pc[t] \in {"enter", "polling"} => Woken

(* So a flush ends the waits it finds.                                     *)
FlushEndsWait ==
  mControllable =>
    \A t \in Threads :
      mFlushing /\ pc[t] = "polling" ~> ~mFlushing \/ pc[t] # "polling"

(* Adding, removing and asking about one descriptor leaves the others      *)
(* alone, and a descriptor is reported ready only for what it was asked    *)
(* about, as PollSpec says.  So it is for callers that change the table    *)
(* while nobody waits and remove the last entry only.                      *)
Listed == {mFds[i].fd : i \in DOMAIN mFds} \ {Control}

EntryOf(fd) == mFds[CHOOSE i \in DOMAIN mFds : mFds[i].fd = fd]

Promise == INSTANCE PollSpec
  WITH interest <- [fd \in Listed |-> EntryOf(fd).events \cap Ready],
       report   <- [fd \in Listed |-> EntryOf(fd).revents]

ImplementsPromise == Promise!Spec

(* A wakeup does not outlast the flush: the thread that waits takes the    *)
(* byte out of the control socket.                                         *)
WakeupCleared == bytes > 0 ~> bytes = 0
=============================================================================
