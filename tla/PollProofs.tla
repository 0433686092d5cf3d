----------------------------- MODULE PollProofs -----------------------------
(***************************************************************************)
(* Theorems about Poll for every number of threads that wait and flush, of *)
(* descriptors, and whatever callers do to the table meanwhile.            *)
(***************************************************************************)
EXTENDS Poll, FiniteSetTheorems, SequenceTheorems, TLAPS

Inside == {t \in Threads : pc[t] \in Counted}

(* The first wakeup writes the only byte there ever is.                    *)
OneByte == bytes = IF mControlPending = 0 THEN 0 ELSE 1

(* What a flusher that finds a waiter counts on: the count is never zero   *)
(* while somebody is inside wait, and a byte once written stays.           *)
PInv == TypeOK /\ OneByte /\ WaitersCounted /\ FlushReachesWaiter

(* Threads can be counted.                                                 *)
LEMMA InsideFinite ==
  ASSUME NEW S, S \subseteq Threads
  PROVE  IsFiniteSet(S) /\ Cardinality(S) \in Nat /\ (Cardinality(S) = 0 <=> S = {})
BY PollAssumption, FS_Subset, FS_CardinalityType, FS_EmptySet

(* A new Poll satisfies the invariant.                                     *)
LEMMA InitPInv == Init => PInv
<1> SUFFICES ASSUME Init PROVE PInv
  OBVIOUS
<1>1. TypeOK
  <2>1. [fd |-> Control, events |-> {"in", "pri"}, revents |-> {}] \in Entry
    BY DEF Entry, Events
  <2>2. mFds \in Seq(Entry)
    BY <2>1 DEF Init
  <2>3. polled \in [Threads -> Seq(Entry)]
    BY EmptySeq DEF Init
  <2>4. last \in (TableOps \cup {"none"}) \X (Fds \cup {Control})
    BY DEF Init, NoCall
  <2> QED
    BY <2>2, <2>3, <2>4 DEF Init, TypeOK
<1>2. Inside = {}
  BY DEF Init, Inside, Counted, Tags
<1>3. WaitersCounted
  BY <1>2, FS_EmptySet DEF Init, WaitersCounted, Inside
<1>4. OneByte /\ FlushReachesWaiter
  BY DEF Init, OneByte, FlushReachesWaiter
<1> QED
  BY <1>1, <1>3, <1>4 DEF PInv

(* The entries stay entries, whichever call changes the table or poll(2)   *)
(* writes to it.                                                           *)
LEMMA TableType ==
  ASSUME TypeOK, NEW t \in Threads, TableStep(t) \/ PollReturns(t)
  PROVE  mFds' \in Seq(Entry)
<1> USE DEF TypeOK
<1>0. Len(mFds) \in Nat /\ DOMAIN mFds = 1..Len(mFds) /\ \A i \in DOMAIN mFds : mFds[i] \in Entry
  BY LenProperties, ElementOfSeq
<1>1. CASE AddFd(t)
  <2>1. PICK fd \in Fds : mFds' = Append(mFds, NewEntry(fd))
    BY <1>1 DEF AddFd
  <2>2. NewEntry(fd) \in Entry
    BY DEF NewEntry, Entry
  <2> QED
    BY <2>1, <2>2, AppendProperties
<1>2. CASE RemoveFd(t)
  <2>1. PICK fd \in Fds : Positions(fd) # {} /\ mFds' = Front(mFds)
    BY <1>2 DEF RemoveFd
  <2>2. Len(mFds) # 0
    BY <2>1, <1>0 DEF Positions
  <2>3. Front(mFds) = SubSeq(mFds, 1, Len(mFds) - 1)
    BY DEF Front
  <2>4. SubSeq(mFds, 1, Len(mFds) - 1) \in Seq(Entry)
    BY <1>0, <2>2, SubSeqProperties
  <2> QED
    BY <2>1, <2>3, <2>4
<1>3. CASE SetFdEvents(t)
  <2>1. PICK o \in {"setFdReadable", "setFdWritable"}, fd \in Fds :
          \E i \in Positions(fd) : \E events \in Requests(mFds[i].events, o) :
            mFds' = [mFds EXCEPT ![i].events = events]
    BY <1>3 DEF SetFdEvents
  <2>2. PICK i \in DOMAIN mFds : \E events \in Requests(mFds[i].events, o) :
            mFds' = [mFds EXCEPT ![i].events = events]
    BY <2>1 DEF Positions
  <2>3. PICK events \in Requests(mFds[i].events, o) :
            mFds' = [mFds EXCEPT ![i].events = events]
    BY <2>2
  <2>4. events \subseteq Events
    BY <1>0, <2>3 DEF Requests, Entry, Events
  <2>5. [mFds[i] EXCEPT !.events = events] \in Entry
    BY <1>0, <2>4 DEF Entry
  <2>6. mFds' = [mFds EXCEPT ![i] = [mFds[i] EXCEPT !.events = events]]
    BY <2>3, <1>0
  <2> QED
    BY <2>5, <2>6, ExceptSeq
<1>4. CASE PollReturns(t)
  <2>1. PICK found \in [DOMAIN polled[t] -> SUBSET Ready] :
          mFds' = [i \in DOMAIN mFds |->
                     IF i \in DOMAIN found THEN [mFds[i] EXCEPT !.revents = found[i]]
                                           ELSE mFds[i]]
    BY <1>4 DEF PollReturns
  <2>2. ASSUME NEW i \in DOMAIN mFds PROVE mFds'[i] \in Entry
    <3>1. CASE i \in DOMAIN found
      <4>1. found[i] \in SUBSET Ready
        BY <3>1
      <4>2. mFds[i] \in Entry
        BY <1>0
      <4>3. [mFds[i] EXCEPT !.revents = found[i]] \in Entry
        BY <4>1, <4>2 DEF Entry
      <4> QED
        BY <2>1, <3>1, <4>3
    <3>2. CASE i \notin DOMAIN found
      BY <1>0, <2>1, <3>2
    <3> QED
      BY <3>1, <3>2
  <2>3. DOMAIN mFds' = 1..Len(mFds)
    BY <1>0, <2>1
  <2>4. mFds' \in [1..Len(mFds) -> Entry]
    BY <1>0, <2>1, <2>2, <2>3
  <2>5. mFds' \in UNION {[1..n -> Entry] : n \in Nat}
    BY <1>0, <2>4
  <2> QED
    BY <2>5, SeqDef
<1> QED
  BY <1>1, <1>2, <1>3, <1>4 DEF TableStep

(* Every action keeps the type; that a thread which leaves wait is counted *)
(* is what keeps mWaiting from wrapping around.                            *)
LEMMA TypeStep == PInv /\ [Next]_vars => TypeOK' /\ OneByte'
<1> SUFFICES ASSUME PInv, [Next]_vars PROVE TypeOK' /\ OneByte'
  OBVIOUS
<1> USE DEF TypeOK, OneByte, PInv
<1> DEFINE Labels == {"idle", "counting"} \cup Counted \cup Flushing
<1>0. NoCall \in (TableOps \cup {"none"}) \X (Fds \cup {Control})
  BY DEF NoCall
<1>1. ASSUME NEW t \in Threads, TableStep(t) PROVE TypeOK' /\ OneByte'
  <2>1. mFds' \in Seq(Entry)
    BY <1>1, TableType
  <2>2. last' \in (TableOps \cup {"none"}) \X (Fds \cup {Control})
    BY <1>1 DEF TableStep, AddFd, RemoveFd, SetFdEvents, Changes, TableOps
  <2>3. UNCHANGED <<atomics, pc, locals>>
    BY <1>1 DEF TableStep, AddFd, RemoveFd, SetFdEvents, Changes
  <2> QED
    BY <2>1, <2>2, <2>3 DEF atomics, locals
<1>2. ASSUME NEW t \in Threads, NEW label \in Labels, Goes(t, label) PROVE pc' \in [Threads -> Labels]
  BY <1>2 DEF Goes
<1>3. ASSUME NEW t \in Threads, Begin(t) PROVE TypeOK' /\ OneByte'
  <2>1. CASE WaitCall(t)
    <3>1. pc' \in [Threads -> Labels]
      BY <2>1, <1>2 DEF WaitCall
    <3> QED
      BY <3>1, <2>1, <1>0, <1>3 DEF Begin, WaitCall, atomics
  <2>2. CASE SetFlushing(t)
    <3>1. pc' \in [Threads -> Labels]
      BY <2>2, <1>2 DEF SetFlushing, Flushing
    <3> QED
      BY <3>1, <2>2, <1>0, <1>3 DEF Begin, SetFlushing, locals
  <2> QED
    BY <2>1, <2>2, <1>3 DEF Begin
<1>4. ASSUME NEW t \in Threads, Polls(t) PROVE TypeOK' /\ OneByte'
  <2>1. mFds' \in Seq(Entry)
    BY <1>4, TableType DEF Polls
  <2>2. polled' \in [Threads -> Seq(Entry)]
    BY <1>4, EmptySeq DEF Polls, PollReturns
  <2>3. pc' \in [Threads -> Labels]
    BY <1>4, <1>2 DEF Polls, PollReturns, Counted
  <2> QED
    BY <1>0, <1>4, <2>1, <2>2, <2>3 DEF Polls, PollReturns, atomics
<1>5. ASSUME NEW t \in Threads, Step(t) PROVE TypeOK' /\ OneByte'
  <2>0. last' \in (TableOps \cup {"none"}) \X (Fds \cup {Control})
    BY <1>0, <1>5 DEF Step
  <2>1. CASE CountsItself(t)
    <3>1. pc' \in [Threads -> Labels]
      BY <2>1, <1>2 DEF CountsItself, Counted, Tags
    <3> QED
      BY <3>1, <2>1, <2>0 DEF CountsItself, locals
  <2>2. CASE LooksForFlush(t)
    <3>1. pc' \in [Threads -> Labels]
      BY <2>2, <1>2 DEF LooksForFlush, Counted, Tags
    <3> QED
      BY <3>1, <2>2, <2>0 DEF LooksForFlush, atomics, locals
  <2>3. CASE EntersPoll(t)
    <3>1. pc' \in [Threads -> Labels]
      BY <2>3, <1>2 DEF EntersPoll, Counted
    <3> QED
      BY <3>1, <2>3, <2>0 DEF EntersPoll, atomics
  <2>4. CASE LooksAgain(t)
    <3>1. pc' \in [Threads -> Labels]
      BY <2>4, <1>2 DEF LooksAgain, Counted, Tags
    <3> QED
      BY <3>1, <2>4, <2>0 DEF LooksAgain, atomics, locals
  <2>5. CASE WaitReturns(t)
    <3>1. pc' \in [Threads -> Labels]
      BY <2>5, <1>2 DEF WaitReturns
    <3>2. t \in Inside
      BY <2>5 DEF WaitReturns, Inside, Counted
    <3>3. mWaiting = Cardinality(Inside)
      BY DEF WaitersCounted, Inside
    <3>4. mWaiting # 0
      BY <3>2, <3>3, InsideFinite DEF Inside
    <3> QED
      BY <3>1, <3>4, <2>5, <2>0 DEF WaitReturns, Uncounts
  <2>6. CASE StillFlushing(t)
    <3>1. pc' \in [Threads -> Labels]
      BY <2>6, <1>2 DEF StillFlushing, Flushing
    <3> QED
      BY <3>1, <2>6, <2>0 DEF StillFlushing, atomics, locals
  <2>7. CASE LooksForWaiter(t)
    <3>1. pc' \in [Threads -> Labels]
      BY <2>7, <1>2 DEF LooksForWaiter, Flushing
    <3> QED
      BY <3>1, <2>7, <2>0 DEF LooksForWaiter, atomics, locals
  <2>8. CASE RaisesWakeup(t)
    <3>1. pc' \in [Threads -> Labels]
      BY <2>8, <1>2 DEF RaisesWakeup
    <3> QED
      BY <3>1, <2>8, <2>0 DEF RaisesWakeup, NothingPending, locals
  <2> QED
    BY <1>5, <2>1, <2>2, <2>3, <2>4, <2>5, <2>6, <2>7, <2>8 DEF Step
<1>6. CASE UNCHANGED vars
  BY <1>6 DEF vars
<1> QED
  BY <1>1, <1>3, <1>4, <1>5, <1>6 DEF Next

(* How many threads are inside wait after one of them has moved.           *)
LEMMA InsideAfter ==
  ASSUME TypeOK, NEW t \in Threads, NEW label, Goes(t, label)
  PROVE  /\ (t \in Inside <=> label \in Counted) => Inside' = Inside
         /\ t \notin Inside /\ label \in Counted => Cardinality(Inside') = Cardinality(Inside) + 1
         /\ t \in Inside /\ label \notin Counted => Cardinality(Inside') = Cardinality(Inside) - 1
<1>1. IsFiniteSet(Inside)
  BY InsideFinite DEF Inside
<1>2. \A u \in Threads : pc'[u] = IF u = t THEN label ELSE pc[u]
  BY DEF Goes, TypeOK
<1>3. Inside' = IF label \in Counted THEN Inside \cup {t} ELSE Inside \ {t}
  BY <1>2 DEF Inside
<1> QED
  BY <1>1, <1>3, FS_AddElement, FS_RemoveElement

(* The count follows the threads in and out, whichever way they leave.     *)
LEMMA CountStep == PInv /\ [Next]_vars => WaitersCounted'
<1> SUFFICES ASSUME PInv, [Next]_vars PROVE mWaiting' = Cardinality(Inside')
  BY DEF WaitersCounted, Inside
<1> USE DEF PInv
<1>0. mWaiting = Cardinality(Inside)
  BY DEF WaitersCounted, Inside
<1>1. CASE UNCHANGED <<mWaiting, pc>>
  BY <1>0, <1>1 DEF Inside
<1>2. ASSUME NEW t \in Threads, NEW label, Goes(t, label), t \in Inside <=> label \in Counted,
             UNCHANGED mWaiting
      PROVE mWaiting' = Cardinality(Inside')
  BY <1>0, <1>2, InsideAfter
<1>3. ASSUME NEW t \in Threads, TableStep(t) PROVE UNCHANGED <<mWaiting, pc>>
  BY <1>3 DEF TableStep, AddFd, RemoveFd, SetFdEvents, Changes, atomics
<1>4. ASSUME NEW t \in Threads, Begin(t) PROVE mWaiting' = Cardinality(Inside')
  <2>1. t \notin Inside
    BY <1>4 DEF Begin, WaitCall, SetFlushing, Enters, Inside, Counted, Tags
  <2>2. CASE WaitCall(t)
    BY <2>1, <2>2, <1>2 DEF WaitCall, Counted, Tags, atomics
  <2>3. CASE SetFlushing(t)
    BY <2>1, <2>3, <1>2 DEF SetFlushing, Counted, Tags
  <2> QED
    BY <1>4, <2>2, <2>3 DEF Begin
<1>5. ASSUME NEW t \in Threads, Polls(t) PROVE mWaiting' = Cardinality(Inside')
  BY <1>5, <1>2 DEF Polls, PollReturns, Inside, Counted, atomics
<1>6. ASSUME NEW t \in Threads, Step(t) PROVE mWaiting' = Cardinality(Inside')
  <2>1. CASE CountsItself(t)
    <3> DEFINE label == IF oldwaiting[t] THEN "tag_already_waiting" ELSE "check"
    <3>1. Goes(t, label) /\ t \notin Inside /\ label \in Counted
      BY <2>1 DEF CountsItself, Inside, Counted, Tags
    <3> HIDE DEF label
    <3>2. Cardinality(Inside') = Cardinality(Inside) + 1
      BY <3>1, InsideAfter
    <3> QED
      BY <1>0, <2>1, <3>2 DEF CountsItself
  <2>2. CASE LooksForFlush(t)
    <3>1. t \in Inside /\ UNCHANGED mWaiting
      BY <2>2 DEF LooksForFlush, Inside, Counted, atomics
    <3> QED
      BY <2>2, <3>1, <1>2 DEF LooksForFlush, Counted, Tags
  <2>3. CASE EntersPoll(t)
    BY <2>3, <1>2 DEF EntersPoll, Inside, Counted, atomics
  <2>4. CASE LooksAgain(t)
    <3>1. t \in Inside /\ UNCHANGED mWaiting
      BY <2>4 DEF LooksAgain, Inside, Counted, atomics
    <3> QED
      BY <2>4, <3>1, <1>2 DEF LooksAgain, Counted, Tags
  <2>5. CASE WaitReturns(t)
    <3>1. Goes(t, "idle") /\ t \in Inside /\ "idle" \notin Counted
      BY <2>5 DEF WaitReturns, Inside, Counted, Tags
    <3>2. Cardinality(Inside') = Cardinality(Inside) - 1
      BY <3>1, InsideAfter
    <3> QED
      BY <1>0, <2>5, <3>2 DEF WaitReturns, Uncounts
  <2>6. CASE StillFlushing(t)
    <3>1. t \notin Inside /\ UNCHANGED mWaiting
      BY <2>6 DEF StillFlushing, Inside, Counted, Tags, atomics
    <3> QED
      BY <2>6, <3>1, <1>2 DEF StillFlushing, Counted, Tags
  <2>7. CASE LooksForWaiter(t)
    <3>1. t \notin Inside /\ UNCHANGED mWaiting
      BY <2>7 DEF LooksForWaiter, Inside, Counted, Tags, atomics
    <3> QED
      BY <2>7, <3>1, <1>2 DEF LooksForWaiter, Counted, Tags
  <2>8. CASE RaisesWakeup(t)
    BY <2>8, <1>2 DEF RaisesWakeup, Inside, Counted, Tags
  <2> QED
    BY <1>6, <2>1, <2>2, <2>3, <2>4, <2>5, <2>6, <2>7, <2>8 DEF Step
<1>7. CASE UNCHANGED vars
  BY <1>1, <1>7 DEF vars
<1> QED
  BY <1>1, <1>3, <1>4, <1>5, <1>6, <1>7 DEF Next

(* wait looks at the flag after it has counted itself, setFlushing at the  *)
(* count after it has stored the flag: one of the two sees the other.      *)
LEMMA FlushStep == PInv /\ [Next]_vars => FlushReachesWaiter'
<1> SUFFICES ASSUME PInv, [Next]_vars,
                    mControllable, mFlushing', \A f \in Threads : pc'[f] \notin Flushing,
                    NEW w \in Threads, pc'[w] \in {"enter", "polling"}
             PROVE  bytes' > 0
  BY DEF FlushReachesWaiter, Woken
<1> USE DEF PInv
<1>0. bytes \in {0, 1} /\ mControlPending \in Nat /\ pc \in [Threads -> {"idle", "counting"} \cup Counted \cup Flushing]
  BY DEF TypeOK
<1>1. CASE UNCHANGED <<mFlushing, bytes, pc>>
  BY <1>1 DEF FlushReachesWaiter, Woken
<1>2. ASSUME NEW t \in Threads, NEW label, Goes(t, label), UNCHANGED <<mFlushing, bytes>>,
             pc[t] \notin Flushing, label \in {"enter", "polling"} => pc[t] = "enter"
      PROVE bytes' > 0
  <2>1. \A u \in Threads : pc'[u] = IF u = t THEN label ELSE pc[u]
    BY <1>0, <1>2 DEF Goes
  <2>2. pc[w] \in {"enter", "polling"} /\ \A f \in Threads : pc[f] \notin Flushing
    BY <1>2, <2>1
  <2> QED
    BY <1>2, <2>2 DEF FlushReachesWaiter, Woken
<1>3. ASSUME NEW t \in Threads, TableStep(t) PROVE UNCHANGED <<mFlushing, bytes, pc>>
  BY <1>3 DEF TableStep, AddFd, RemoveFd, SetFdEvents, Changes, atomics
<1>4. ASSUME NEW t \in Threads, Begin(t) PROVE bytes' > 0
  <2>1. CASE WaitCall(t)
    BY <2>1, <1>2 DEF WaitCall, Enters, Flushing, atomics
  <2>2. CASE SetFlushing(t)
    BY <2>2, <1>0 DEF SetFlushing, Goes, Flushing
  <2> QED
    BY <1>4, <2>1, <2>2 DEF Begin
<1>5. ASSUME NEW t \in Threads, Polls(t) PROVE bytes' > 0
  BY <1>5, <1>2 DEF Polls, PollReturns, Flushing, atomics
<1>6. ASSUME NEW t \in Threads, Step(t) PROVE bytes' > 0
  <2>1. CASE CountsItself(t)
    BY <2>1, <1>2 DEF CountsItself, Flushing
  <2>2. CASE LooksForFlush(t)
    <3>1. FlushSeenFirst
      BY <2>2 DEF LooksForFlush, FlushSeenFirst, atomics
    <3> QED
      BY <2>2, <3>1, <1>2 DEF LooksForFlush, Flushing, atomics
  <2>3. CASE EntersPoll(t)
    BY <2>3, <1>2 DEF EntersPoll, Flushing, atomics
  <2>4. CASE LooksAgain(t)
    BY <2>4, <1>2 DEF LooksAgain, Flushing, atomics
  <2>5. CASE WaitReturns(t)
    BY <2>5, <1>2 DEF WaitReturns, Tags, Flushing
  <2>6. CASE StillFlushing(t)
    BY <2>6, <1>0 DEF StillFlushing, Goes, Flushing, atomics
  <2>7. CASE LooksForWaiter(t)
    <3>1. ~SomebodyWaits
      BY <2>7, <1>0 DEF LooksForWaiter, Goes, Flushing
    <3>2. Inside = {}
      BY <3>1, InsideFinite DEF SomebodyWaits, WaitersCounted, Inside
    <3>3. w \in Inside
      BY <2>7, <1>0 DEF LooksForWaiter, Goes, Inside, Counted
    <3> QED
      BY <3>2, <3>3
  <2>8. CASE RaisesWakeup(t)
    BY <2>8, <1>0 DEF RaisesWakeup, NothingPending, OneByte
  <2> QED
    BY <1>6, <2>1, <2>2, <2>3, <2>4, <2>5, <2>6, <2>7, <2>8 DEF Step
<1>7. CASE UNCHANGED vars
  BY <1>1, <1>7 DEF vars
<1> QED
  BY <1>1, <1>3, <1>4, <1>5, <1>6, <1>7 DEF Next

(* The invariant holds of every reachable state.                           *)
LEMMA PollInvariant == Spec => []PInv
<1>1. PInv /\ [Next]_vars => PInv'
  BY TypeStep, CountStep, FlushStep DEF PInv
<1> QED
  BY InitPInv, <1>1, PTL DEF Spec

(* The state stays well-formed: in particular mWaiting never goes below    *)
(* zero, and however many flushes are under way the control socket holds   *)
(* at most one byte.                                                       *)
THEOREM PollTypeCorrect == Spec => []TypeOK
<1>1. PInv => TypeOK
  BY DEF PInv
<1> QED
  BY <1>1, PollInvariant, PTL

(* mWaiting counts the threads inside wait, for any number of threads and  *)
(* whichever of its three exits each of them takes.                        *)
THEOREM EveryWaiterCounted == Spec => []WaitersCounted
<1>1. PInv => WaitersCounted
  BY DEF PInv
<1> QED
  BY <1>1, PollInvariant, PTL

(* However wait and setFlushing interleave, no thread is about to poll, or *)
(* polls, with the flag set and nothing to read: the flag and the count    *)
(* are stored before the other side's is looked at.                        *)
THEOREM NoFlushMissed == Spec => []FlushReachesWaiter
<1>1. PInv => FlushReachesWaiter
  BY DEF PInv
<1> QED
  BY <1>1, PollInvariant, PTL
-----------------------------------------------------------------------------
(***************************************************************************)
(* The table keeps what PollSpec promises of it                            *)
(***************************************************************************)

(* No descriptor is in the table twice, and while nobody changes it what   *)
(* poll(2) works on is what the table holds, whoever else polls too.       *)
Distinct == \A i, j \in DOMAIN mFds : mFds[i].fd = mFds[j].fd => i = j

Copied ==
  \A t \in Threads : pc[t] = "polling" =>
    /\ DOMAIN polled[t] = DOMAIN mFds
    /\ \A i \in DOMAIN mFds :
         polled[t][i].fd = mFds[i].fd /\ polled[t][i].events = mFds[i].events

TableInv == TypeOK /\ Distinct /\ Copied

(* What callers that keep to PollSpec's terms do.                          *)
CarefulCallers == RemovesLast /\ TableQuiet

LEMMA EntriesOfTable ==
  ASSUME NEW s \in Seq(Entry)
  PROVE  /\ Len(s) \in Nat /\ DOMAIN s = 1..Len(s)
         /\ \A i \in DOMAIN s : s[i] \in Entry
BY LenProperties, ElementOfSeq

(* The first entry for a descriptor is the only one.                       *)
LEMMA OnlyEntry ==
  ASSUME NEW s, NEW i \in DOMAIN s, NEW f, s[i].fd = f,
         \A j, k \in DOMAIN s : s[j].fd = s[k].fd => j = k
  PROVE  s[CHOOSE j \in DOMAIN s : s[j].fd = f] = s[i]
<1> DEFINE c == CHOOSE j \in DOMAIN s : s[j].fd = f
<1>1. c \in DOMAIN s /\ s[c].fd = f
  OBVIOUS
<1>2. c = i
  BY <1>1
<1> QED
  BY <1>2

LEMMA EntryFound ==
  ASSUME Distinct, NEW i \in DOMAIN mFds, NEW f, mFds[i].fd = f
  PROVE  EntryOf(f) = mFds[i]
<1>1. mFds[CHOOSE j \in DOMAIN mFds : mFds[j].fd = f] = mFds[i]
  BY OnlyEntry DEF Distinct
<1> QED
  BY <1>1 DEF EntryOf

LEMMA EntryFoundNext ==
  ASSUME Distinct', NEW i \in DOMAIN mFds', NEW f, mFds'[i].fd = f
  PROVE  EntryOf(f)' = mFds'[i]
<1>1. mFds'[CHOOSE j \in DOMAIN mFds' : mFds'[j].fd = f] = mFds'[i]
  BY OnlyEntry DEF Distinct
<1> QED
  BY <1>1 DEF EntryOf

(* addFd puts a blank entry behind the others.                             *)
LEMMA AddFdTable ==
  ASSUME TypeOK, NEW fd \in Fds, mFds' = Append(mFds, NewEntry(fd))
  PROVE  /\ DOMAIN mFds' = DOMAIN mFds \cup {Len(mFds) + 1}
         /\ Len(mFds) + 1 \notin DOMAIN mFds
         /\ \A i \in DOMAIN mFds : mFds'[i] = mFds[i]
         /\ mFds'[Len(mFds) + 1] = NewEntry(fd)
<1>1. mFds \in Seq(Entry) /\ NewEntry(fd) \in Entry
  BY DEF TypeOK, NewEntry, Entry
<1>2. Len(mFds) \in Nat /\ DOMAIN mFds = 1..Len(mFds)
  BY <1>1, EntriesOfTable
<1>3. /\ mFds' \in Seq(Entry) /\ Len(mFds') = Len(mFds) + 1
      /\ \A i \in 1..Len(mFds) : mFds'[i] = mFds[i]
      /\ mFds'[Len(mFds) + 1] = NewEntry(fd)
  BY <1>1, AppendProperties
<1>4. DOMAIN mFds' = 1..(Len(mFds) + 1)
  BY <1>3, EntriesOfTable
<1> QED
  BY <1>2, <1>3, <1>4

(* removeFd takes the last entry away.                                     *)
LEMMA RemoveFdTable ==
  ASSUME TypeOK, NEW fd, Len(mFds) \in Positions(fd), mFds' = Front(mFds)
  PROVE  /\ DOMAIN mFds' = DOMAIN mFds \ {Len(mFds)}
         /\ Len(mFds) \in DOMAIN mFds /\ mFds[Len(mFds)].fd = fd
         /\ \A i \in DOMAIN mFds' : mFds'[i] = mFds[i]
<1>1. /\ Len(mFds) \in Nat /\ DOMAIN mFds = 1..Len(mFds)
      /\ \A i \in DOMAIN mFds : mFds[i] \in Entry
  BY EntriesOfTable DEF TypeOK
<1>2. Len(mFds) \in DOMAIN mFds /\ mFds[Len(mFds)].fd = fd
  BY DEF Positions
<1>3. mFds' = SubSeq(mFds, 1, Len(mFds) - 1)
  BY DEF Front
<1>4. /\ SubSeq(mFds, 1, Len(mFds) - 1) \in Seq(Entry)
      /\ Len(SubSeq(mFds, 1, Len(mFds) - 1)) = Len(mFds) - 1
      /\ \A i \in 1..(Len(mFds) - 1) : SubSeq(mFds, 1, Len(mFds) - 1)[i] = mFds[i]
  <2>1. \A i \in 1..(Len(mFds) - 1) : mFds[i] \in Entry
    BY <1>1
  <2>2. /\ SubSeq(mFds, 1, Len(mFds) - 1) \in Seq(Entry)
        /\ Len(SubSeq(mFds, 1, Len(mFds) - 1)) =
             IF 1 <= Len(mFds) - 1 THEN (Len(mFds) - 1) - 1 + 1 ELSE 0
        /\ \A i \in 1..((Len(mFds) - 1) - 1 + 1) :
             SubSeq(mFds, 1, Len(mFds) - 1)[i] = mFds[1 + i - 1]
    BY <1>1, <2>1, SubSeqProperties
  <2> QED
    BY <1>1, <1>2, <2>2
<1>5. DOMAIN mFds' = 1..(Len(mFds) - 1)
  BY <1>3, <1>4, EntriesOfTable
<1> QED
  BY <1>1, <1>2, <1>3, <1>4, <1>5

(* poll(2) writes revents, and nothing else.                               *)
LEMMA PollTable ==
  ASSUME TableInv, NEW t \in Threads, PollReturns(t)
  PROVE  /\ DOMAIN mFds' = DOMAIN mFds
         /\ \A i \in DOMAIN mFds :
              /\ mFds'[i].fd = mFds[i].fd /\ mFds'[i].events = mFds[i].events
              /\ mFds'[i].revents \subseteq Ready
              /\ mFds[i].fd # Control => mFds'[i].revents \subseteq mFds[i].events \cap Ready
<1>1. \A i \in DOMAIN mFds : mFds[i] \in Entry
  BY EntriesOfTable DEF TableInv, TypeOK
<1>2. PICK found \in [DOMAIN polled[t] -> SUBSET Ready] :
        /\ \A i \in DOMAIN polled[t] : found[i] \in Findings(polled[t][i])
        /\ mFds' = [i \in DOMAIN mFds |->
                      IF i \in DOMAIN found THEN [mFds[i] EXCEPT !.revents = found[i]]
                                            ELSE mFds[i]]
  BY DEF PollReturns
<1>3. DOMAIN found = DOMAIN mFds /\ DOMAIN polled[t] = DOMAIN mFds
  BY DEF PollReturns, TableInv, Copied
<1>4. ASSUME NEW i \in DOMAIN mFds
      PROVE  /\ mFds'[i].fd = mFds[i].fd /\ mFds'[i].events = mFds[i].events
             /\ mFds'[i].revents \subseteq Ready
             /\ mFds[i].fd # Control => mFds'[i].revents \subseteq mFds[i].events \cap Ready
  <2>1. mFds'[i] = [mFds[i] EXCEPT !.revents = found[i]]
    BY <1>2, <1>3
  <2>2. /\ mFds'[i].fd = mFds[i].fd /\ mFds'[i].events = mFds[i].events
        /\ mFds'[i].revents = found[i]
    BY <1>1, <2>1 DEF Entry
  <2>3. found[i] \subseteq Ready
    BY <1>2, <1>3
  <2>4. polled[t][i].fd = mFds[i].fd /\ polled[t][i].events = mFds[i].events
    BY DEF PollReturns, TableInv, Copied
  <2>5. mFds[i].fd # Control => found[i] \subseteq mFds[i].events \cap Ready
    BY <1>2, <1>3, <2>4 DEF Findings
  <2> QED
    BY <2>2, <2>3, <2>5
<1> QED
  BY <1>2, <1>4

(* setFdReadable and setFdWritable write the events of one entry.          *)
LEMMA EventsTable ==
  ASSUME TypeOK, NEW i \in DOMAIN mFds, NEW events, mFds' = [mFds EXCEPT ![i].events = events]
  PROVE  /\ DOMAIN mFds' = DOMAIN mFds
         /\ \A j \in DOMAIN mFds : /\ mFds'[j].fd = mFds[j].fd
                                   /\ mFds'[j].revents = mFds[j].revents
                                   /\ j # i => mFds'[j] = mFds[j]
         /\ mFds'[i].events = events
<1>1. \A j \in DOMAIN mFds : mFds[j] \in Entry
  BY EntriesOfTable DEF TypeOK
<1>2. mFds' = [mFds EXCEPT ![i] = [mFds[i] EXCEPT !.events = events]]
  OBVIOUS
<1>3. DOMAIN mFds' = DOMAIN mFds /\ \A j \in DOMAIN mFds \ {i} : mFds'[j] = mFds[j]
  BY <1>2
<1>4. mFds'[i] = [mFds[i] EXCEPT !.events = events]
  BY <1>2
<1>5. mFds'[i].fd = mFds[i].fd /\ mFds'[i].revents = mFds[i].revents /\ mFds'[i].events = events
  BY <1>1, <1>4 DEF Entry
<1> QED
  BY <1>3, <1>5

(* Nobody is inside wait when careful callers change the table.            *)
LEMMA TableInvStep == CarefulCallers /\ PInv /\ TableInv /\ [Next]_vars => TableInv'
<1> SUFFICES ASSUME CarefulCallers, PInv, TableInv, [Next]_vars PROVE TableInv'
  OBVIOUS
<1>0. TypeOK' /\ TypeOK /\ Distinct /\ Copied
  BY TypeStep DEF TableInv
<1>1. CASE UNCHANGED <<mFds, pc, polled>>
  BY <1>0, <1>1 DEF TableInv, Distinct, Copied
<1>2. ASSUME NEW t \in Threads, TableStep(t) PROVE Distinct' /\ Copied'
  <2>1. pc' = pc /\ \A u \in Threads : pc[u] # "polling"
    BY <1>2 DEF TableStep, AddFd, RemoveFd, SetFdEvents, Changes, CarefulCallers, Counted
  <2>2. Copied'
    BY <2>1 DEF Copied
  <2>3. CASE AddFd(t)
    <3>1. PICK fd \in Fds : Positions(fd) = {} /\ mFds' = Append(mFds, NewEntry(fd))
      BY <2>3 DEF AddFd
    <3>2. \A i \in DOMAIN mFds : mFds[i].fd # fd
      BY <3>1 DEF Positions
    <3> QED
      BY <1>0, <2>2, <3>1, <3>2, AddFdTable DEF Distinct, NewEntry
  <2>4. CASE RemoveFd(t)
    <3>1. PICK fd \in Fds : Len(mFds) \in Positions(fd) /\ mFds' = Front(mFds)
      BY <2>4 DEF RemoveFd, CarefulCallers
    <3> QED
      BY <1>0, <2>2, <3>1, RemoveFdTable DEF Distinct
  <2>5. CASE SetFdEvents(t)
    <3>1. PICK i \in DOMAIN mFds : \E events : mFds' = [mFds EXCEPT ![i].events = events]
      BY <2>5 DEF SetFdEvents, Positions
    <3> QED
      BY <1>0, <2>2, <3>1, EventsTable DEF Distinct
  <2> QED
    BY <1>2, <2>3, <2>4, <2>5 DEF TableStep
<1>3. ASSUME NEW t \in Threads, PollReturns(t) PROVE Distinct' /\ Copied'
  <2>1. /\ DOMAIN mFds' = DOMAIN mFds
        /\ \A i \in DOMAIN mFds :
             mFds'[i].fd = mFds[i].fd /\ mFds'[i].events = mFds[i].events
    BY <1>3, PollTable
  <2>2. Distinct'
    BY <1>0, <2>1 DEF Distinct
  <2>3. \A u \in Threads : pc'[u] = "polling" => pc[u] = "polling" /\ polled'[u] = polled[u]
    BY <1>0, <1>3 DEF PollReturns, Goes, TypeOK
  <2>4. Copied'
    BY <1>0, <2>1, <2>3 DEF Copied
  <2> QED
    BY <2>2, <2>4
<1>4. ASSUME NEW t \in Threads, EntersPoll(t) PROVE Distinct' /\ Copied'
  <2>1. mFds' = mFds /\ polled'[t] = mFds
        /\ \A u \in Threads \ {t} : pc'[u] = pc[u] /\ polled'[u] = polled[u]
    BY <1>0, <1>4 DEF EntersPoll, Goes, TypeOK
  <2> QED
    BY <1>0, <2>1 DEF Distinct, Copied
<1>5. ASSUME NEW t \in Threads, Begin(t) \/ (Step(t) /\ ~EntersPoll(t))
      PROVE  Distinct' /\ Copied'
  <2>1. mFds' = mFds /\ polled' = polled
    BY <1>5 DEF Begin, WaitCall, SetFlushing, Step, CountsItself, LooksForFlush, LooksAgain,
       WaitReturns, StillFlushing, LooksForWaiter, RaisesWakeup, locals
  <2>2. \A u \in Threads : pc'[u] = "polling" => pc[u] = "polling"
    BY <1>0, <1>5 DEF Begin, WaitCall, SetFlushing, Step, CountsItself, LooksForFlush,
       LooksAgain, WaitReturns, StillFlushing, LooksForWaiter, RaisesWakeup, Goes, TypeOK
  <2> QED
    BY <1>0, <2>1, <2>2 DEF Distinct, Copied
<1>6. CASE UNCHANGED vars
  BY <1>1, <1>6 DEF vars, locals
<1> QED
  BY <1>0, <1>2, <1>3, <1>4, <1>5, <1>6 DEF Next, Polls, TableInv

(* What a caller sees of a descriptor that is in the table, and that it    *)
(* sees nothing of another.                                                *)
LEMMA ListedEntry ==
  ASSUME Distinct, NEW f
  PROVE  /\ f \in Listed <=> f # Control /\ \E i \in DOMAIN mFds : mFds[i].fd = f
         /\ \A i \in DOMAIN mFds : mFds[i].fd = f => EntryOf(f) = mFds[i]
BY EntryFound DEF Listed

LEMMA ListedEntryNext ==
  ASSUME Distinct', NEW f
  PROVE  /\ f \in Listed' <=> f # Control /\ \E i \in DOMAIN mFds' : mFds'[i].fd = f
         /\ \A i \in DOMAIN mFds' : mFds'[i].fd = f => EntryOf(f)' = mFds'[i]
BY EntryFoundNext DEF Listed

(* The table of a new Poll lists no descriptor of its callers.             *)
LEMMA InitMaps == Init => TableInv /\ Promise!Init
<1> SUFFICES ASSUME Init PROVE TableInv /\ Promise!Init
  OBVIOUS
<1>1. TypeOK
  BY InitPInv DEF PInv
<1>2. DOMAIN mFds = {1} /\ mFds[1].fd = Control
  BY DEF Init
<1>3. Distinct /\ Copied
  BY <1>2 DEF Init, Distinct, Copied
<1>4. Listed = {}
  BY <1>2 DEF Listed
<1>5. [fd \in Listed |-> EntryOf(fd).events \cap Ready] = <<>>
      /\ [fd \in Listed |-> EntryOf(fd).revents] = <<>>
  BY <1>4
<1>6. last = Promise!NoCall
  BY DEF Init, NoCall, Promise!NoCall
<1> QED
  BY <1>1, <1>3, <1>5, <1>6 DEF TableInv, Promise!Init

(* addFd lists its descriptor, asked about nothing and reported as nothing.*)
LEMMA AddMaps ==
  ASSUME TableInv, TableInv', NEW t \in Threads, AddFd(t)
  PROVE  \E f \in Fds : Promise!Add(f)
<1>1. PICK f \in Fds : /\ Positions(f) = {} /\ mFds' = Append(mFds, NewEntry(f))
                       /\ last' = <<"addFd", f>>
  BY DEF AddFd, Changes
<1>2. f # Control
  BY PollAssumption
<1>3. /\ DOMAIN mFds' = DOMAIN mFds \cup {Len(mFds) + 1}
      /\ \A i \in DOMAIN mFds : mFds'[i] = mFds[i]
      /\ mFds'[Len(mFds) + 1] = [fd |-> f, events |-> {}, revents |-> {}]
  BY <1>1, AddFdTable DEF TableInv, NewEntry
<1>4. f \notin Listed
  BY <1>1 DEF Positions, Listed
<1>5. f \in Listed' /\ EntryOf(f)'.events = {} /\ EntryOf(f)'.revents = {}
  BY <1>2, <1>3, ListedEntryNext DEF TableInv
<1>6. ASSUME NEW g, g # f
      PROVE  (g \in Listed' <=> g \in Listed) /\ (g \in Listed => EntryOf(g)' = EntryOf(g))
  BY <1>3, <1>6, ListedEntry, ListedEntryNext DEF TableInv
<1>7. Listed' = Listed \cup {f}
  BY <1>5, <1>6
<1> QED
  BY <1>1, <1>4, <1>5, <1>6, <1>7 DEF Promise!Add, Promise!With

(* removeFd drops its descriptor only: the last entry is the one it is to  *)
(* remove.                                                                 *)
LEMMA RemoveMaps ==
  ASSUME CarefulCallers, TableInv, TableInv', NEW t \in Threads, RemoveFd(t)
  PROVE  \E f \in Fds : Promise!Remove(f)
<1>1. PICK f \in Fds : /\ Len(mFds) \in Positions(f) /\ mFds' = Front(mFds)
                       /\ last' = <<"removeFd", f>>
  BY DEF RemoveFd, Changes, CarefulCallers
<1>2. f # Control
  BY PollAssumption
<1>3. /\ DOMAIN mFds' = DOMAIN mFds \ {Len(mFds)}
      /\ Len(mFds) \in DOMAIN mFds /\ mFds[Len(mFds)].fd = f
      /\ \A i \in DOMAIN mFds' : mFds'[i] = mFds[i]
  BY <1>1, RemoveFdTable DEF TableInv
<1>4. f \in Listed
  BY <1>2, <1>3 DEF Listed
<1>5. f \notin Listed'
  BY <1>3 DEF Listed, TableInv, Distinct
<1>6. ASSUME NEW g, g # f
      PROVE  (g \in Listed' <=> g \in Listed) /\ (g \in Listed => EntryOf(g)' = EntryOf(g))
  BY <1>3, <1>6, ListedEntry, ListedEntryNext DEF TableInv
<1>7. Listed' = Listed \ {f}
  BY <1>4, <1>5, <1>6
<1> QED
  BY <1>1, <1>4, <1>6, <1>7 DEF Promise!Remove, Promise!Restrict

(* setFdReadable and setFdWritable change what one descriptor is asked     *)
(* about; POLLPRI, which goes with the first, is nothing a caller sees.    *)
LEMMA AskMaps ==
  ASSUME TableInv, TableInv', NEW t \in Threads, SetFdEvents(t)
  PROVE  \E f \in Fds : Promise!Ask(f, "setFdReadable", "in")
                        \/ Promise!Ask(f, "setFdWritable", "out")
<1>1. PICK o \in {"setFdReadable", "setFdWritable"}, f \in Fds :
        /\ last' = <<o, f>>
        /\ \E i \in Positions(f) :
             \E events \in Requests(mFds[i].events, o) :
               mFds' = [mFds EXCEPT ![i].events = events]
  BY DEF SetFdEvents, Changes
<1>2. PICK i \in DOMAIN mFds :
        /\ mFds[i].fd = f
        /\ \E events \in Requests(mFds[i].events, o) :
             mFds' = [mFds EXCEPT ![i].events = events]
  BY <1>1 DEF Positions
<1>3. PICK events \in Requests(mFds[i].events, o) : mFds' = [mFds EXCEPT ![i].events = events]
  BY <1>2
<1>4. f # Control
  BY PollAssumption
<1>5. /\ DOMAIN mFds' = DOMAIN mFds
      /\ \A j \in DOMAIN mFds : /\ mFds'[j].fd = mFds[j].fd
                                /\ mFds'[j].revents = mFds[j].revents
                                /\ j # i => mFds'[j] = mFds[j]
      /\ mFds'[i].events = events
  BY <1>3, EventsTable DEF TableInv
<1>6. f \in Listed /\ EntryOf(f) = mFds[i] /\ EntryOf(f)' = mFds'[i]
  BY <1>2, <1>4, <1>5, ListedEntry, ListedEntryNext DEF TableInv
<1>7. ASSUME NEW g PROVE g \in Listed' <=> g \in Listed
  BY <1>5, ListedEntry, ListedEntryNext DEF TableInv
<1>8. ASSUME NEW g \in Listed
      PROVE  /\ EntryOf(g)'.revents = EntryOf(g).revents
             /\ g # f => EntryOf(g)'.events = EntryOf(g).events
  <2>1. PICK j \in DOMAIN mFds : mFds[j].fd = g
    BY <1>8, ListedEntry DEF TableInv
  <2>2. EntryOf(g) = mFds[j] /\ EntryOf(g)' = mFds'[j]
    BY <1>5, <2>1, ListedEntry, ListedEntryNext DEF TableInv
  <2> QED
    BY <1>2, <1>5, <2>1, <2>2
<1>9. Listed' = Listed
  BY <1>7
<1> DEFINE e == IF o = "setFdReadable" THEN "in" ELSE "out"
           interest == [fd \in Listed |-> EntryOf(fd).events \cap Ready]
<1>10. \/ events \cap Ready = (mFds[i].events \cap Ready) \cup {e}
       \/ events \cap Ready = (mFds[i].events \cap Ready) \ {e}
  <2>1. events = mFds[i].events \cup {e, "pri"} \/ events = mFds[i].events \cup {e}
        \/ events = mFds[i].events \ {e}
    BY <1>3 DEF Requests
  <2> QED
    BY <2>1 DEF Ready
<1>11. interest[f] = mFds[i].events \cap Ready
  BY <1>6
<1>12. interest' = [g \in Listed |-> IF g = f THEN events \cap Ready ELSE interest[g]]
  BY <1>5, <1>6, <1>8, <1>9
<1>13. DOMAIN interest \cup {f} = Listed /\ f \in DOMAIN interest
  BY <1>6
<1>14. \/ interest' = Promise!With(interest, f, interest[f] \cup {e})
       \/ interest' = Promise!With(interest, f, interest[f] \ {e})
  <2> HIDE DEF interest, e
  <2>1. \/ events \cap Ready = interest[f] \cup {e}
        \/ events \cap Ready = interest[f] \ {e}
    BY <1>10, <1>11
  <2>2. DOMAIN interest = Listed
    BY DEF interest
  <2> QED
    BY <1>12, <1>13, <2>1, <2>2 DEF Promise!With
<1>15. [g \in Listed |-> EntryOf(g).revents]' = [g \in Listed |-> EntryOf(g).revents]
  BY <1>8, <1>9
<1>16. Promise!Ask(f, o, e)
  BY <1>1, <1>13, <1>14, <1>15 DEF Promise!Ask
<1> QED
  BY <1>16

(* poll(2) reports of each descriptor what it was asked about.             *)
LEMMA PollMaps ==
  ASSUME TableInv, TableInv', NEW t \in Threads, Polls(t)
  PROVE  Promise!Wait
<1>1. /\ DOMAIN mFds' = DOMAIN mFds
      /\ \A i \in DOMAIN mFds :
           /\ mFds'[i].fd = mFds[i].fd /\ mFds'[i].events = mFds[i].events
           /\ mFds[i].fd # Control => mFds'[i].revents \subseteq mFds[i].events \cap Ready
  BY PollTable DEF Polls
<1>2. ASSUME NEW g PROVE g \in Listed' <=> g \in Listed
  BY <1>1, ListedEntry, ListedEntryNext DEF TableInv
<1>3. Listed' = Listed
  BY <1>2
<1>4. ASSUME NEW g \in Listed
      PROVE  /\ EntryOf(g)'.events = EntryOf(g).events
             /\ EntryOf(g)'.revents \subseteq EntryOf(g).events \cap Ready
  <2>1. PICK i \in DOMAIN mFds : mFds[i].fd = g /\ g # Control
    BY <1>4, ListedEntry DEF TableInv
  <2>2. EntryOf(g) = mFds[i] /\ EntryOf(g)' = mFds'[i]
    BY <1>1, <2>1, ListedEntry, ListedEntryNext DEF TableInv
  <2> QED
    BY <1>1, <2>1, <2>2
<1>5. last' = Promise!NoCall /\ Promise!Ready = Ready
  BY DEF Polls, NoCall, Promise!NoCall, Ready, Promise!Ready
<1>6. [g \in Listed |-> EntryOf(g).events \cap Ready]'
        = [g \in Listed |-> EntryOf(g).events \cap Ready]
  BY <1>3, <1>4
<1>7. [g \in Listed |-> EntryOf(g).revents]' \in [Listed -> SUBSET Ready]
  BY <1>3, <1>4
<1>8. \A g \in Listed : [g1 \in Listed |-> EntryOf(g1).revents]'[g]
                          \subseteq EntryOf(g).events \cap Ready
  BY <1>3, <1>4
<1> QED
  BY <1>5, <1>6, <1>7, <1>8 DEF Promise!Wait

(* Every step of Poll is one of PollSpec's, or none.                       *)
LEMMA PollStepMaps ==
  ASSUME CarefulCallers, TableInv, TableInv', [Next]_vars
  PROVE  [Promise!Next]_(Promise!vars)
<1>1. ASSUME NEW t \in Threads, TableStep(t) PROVE Promise!Next
  <2>1. CASE AddFd(t)
    BY <2>1, AddMaps DEF Promise!Next
  <2>2. CASE RemoveFd(t)
    BY <2>2, RemoveMaps DEF Promise!Next
  <2>3. CASE SetFdEvents(t)
    BY <2>3, AskMaps DEF Promise!Next
  <2> QED
    BY <1>1, <2>1, <2>2, <2>3 DEF TableStep
<1>2. ASSUME NEW t \in Threads, Polls(t) PROVE Promise!Next
  BY <1>2, PollMaps DEF Promise!Next
<1>3. ASSUME mFds' = mFds
      PROVE  /\ [g \in Listed |-> EntryOf(g).events \cap Ready]'
                  = [g \in Listed |-> EntryOf(g).events \cap Ready]
             /\ [g \in Listed |-> EntryOf(g).revents]' = [g \in Listed |-> EntryOf(g).revents]
  BY <1>3 DEF Listed, EntryOf
<1>4. ASSUME NEW t \in Threads, Begin(t) \/ Step(t) PROVE Promise!Nothing
  <2>1. mFds' = mFds /\ last' = NoCall
    BY <1>4 DEF Begin, WaitCall, SetFlushing, Step, CountsItself, LooksForFlush, EntersPoll,
       LooksAgain, WaitReturns, StillFlushing, LooksForWaiter, RaisesWakeup
  <2> QED
    BY <1>3, <2>1 DEF Promise!Nothing, NoCall, Promise!NoCall
<1>5. CASE UNCHANGED vars
  <2>1. mFds' = mFds /\ last' = last
    BY <1>5 DEF vars
  <2> QED
    BY <1>3, <2>1 DEF Promise!vars
<1> QED
  BY <1>1, <1>2, <1>4, <1>5 DEF Next, Promise!Next

(* For any number of threads and descriptors, the table keeps the promise  *)
(* of PollSpec to callers that change it only while nobody waits and       *)
(* remove the last entry only: adding, removing and asking about one       *)
(* descriptor leaves the others alone, and what is reported ready was      *)
(* asked about.                                                            *)
THEOREM TableKeepsPromise == CarefulCallers => (Spec => ImplementsPromise)
<1> SUFFICES ASSUME CarefulCallers PROVE Spec => Promise!Spec
  BY DEF ImplementsPromise
<1>1. Init => TableInv /\ Promise!Init
  BY InitMaps
<1>2. PInv /\ TableInv /\ [Next]_vars => TableInv'
  BY TableInvStep
<1>3. TableInv /\ TableInv' /\ [Next]_vars => [Promise!Next]_(Promise!vars)
  BY PollStepMaps
<1> QED
  BY <1>1, <1>2, <1>3, PollInvariant, PTL DEF Spec, Promise!Spec
=============================================================================
