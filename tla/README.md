# A verification of Tls in TLA+

`src/` holds a small C++ library, `Tls`: a blocking queue, a restartable
thread, a wrapper of poll(2), a logger, and wrappers of the POSIX mutex and
condition variable, with a test program that puts the queue and the threads
together. This directory keeps the TLA+ modules that model it, the TLC
configurations that check them on small instances, and the proofs of theorems
about them for every instance.

## The system

### Queue (`Queue.h`, `Queue.cpp`): modelled

*State.* A singly linked list (`mUsedFirstElement`, `mUsedLastElement`), the
counter `mUsedElementCnts`, the bound `mCapability`, the flag
`mAllowedNewData`, the sort order and comparator, `mMutex`, `mCondGet`,
`mCondPut`.
*Operations.* `push`, `pop` (answer at once), `pushAndWait`, `popAndWait`
(block), `peek`, `flush`, `flushAndCallback`, `getCnt`, `isEmpty`,
`setAllowedNewData`, `isAllowedNewData`, constructor, destructor.
*Hard.* A signal is given to one waiter, which another caller can overtake on
the way to the mutex; `setAllowedNewData` reads its flag and broadcasts after
the unlock; spurious wakeups; a failing `calloc`; a destructor that runs while
threads wait, and itself waits for them to leave; sorted insertion that compares neighbours only.
*Correct means.* Each call is atomic between invocation and return; the
counter is the length of the list; a sorted queue is in order; no waiter
misses an element, a place or a close; the destructor returns.

### Thread (`Thread.h`, `Thread.cpp`): modelled, but for its end

*State.* `mRunning`, `mExitPending`, `mStatus`, `mThread` under `mLock`, and
`mCondition`.
*Operations.* `run`, `requestExit`, `requestExitAndWait`, `join`, `isRunning`,
`isExitPending`; the worker's `_threadLoop`, which calls the virtual
`readyToRun`, `threadLoop`, `readyToExit`.
*Hard.* Workers are detached and the object can be run again; three lines of
`_threadLoop` access the fields without `mLock` (101, 141 and 143); the worker, not `run`,
sets `mRunning`.
*Correct means.* One worker at a time; `mRunning` says whether it works; a
join waits for it and returns; a requested exit happens.

### Poll (`Poll.h`, `Poll.cpp`): modelled in part

*State.* An array of `struct pollfd` (`mFds`, `mFdsCnt`, `mFdsMaxCnt`), the
atomics `mWaiting`, `mFlushing`, `mControlPending`, a socket pair.
*Operations.* `addFd`, `removeFd`, `setFdReadable`, `setFdWritable` under
`mMutex`; `wait` and `setFlushing` without it; `isReadable`, `isWritable`.
*Hard.* The handshake of `wait` and `setFlushing` is a store on one side and a
look on the other, in both directions; a wakeup is raised once and counted.
*Correct means.* No flush misses a wait, the count of waiters is right on
every exit, and a change to one descriptor leaves the others alone.

### Logger (`Logger.h`, `Logger.cpp`): modelled

*State.* `g_init`, `g_activeLevel`, a table of user tags (`g_userTag`: object,
tag, `active`) with the counter `g_activeUserTag`, the log file (`g_fd`,
`g_fileName`), `g_mutext`.
*Operations.* `Logger_init`, `Logger_set_level`, `Logger_set_userTag` (which
registers a tag, or removes one when it is NULL), `Logger_set_file`, `logPrint`.
*Hard.* `logPrint` reads the counter, a slot's `active` and its tag, one after
the other and without the mutex; a slot is found by its object on removal and by
`active` on registration; a tag can write its NUL into `active`, or not be copied
at all; a file's name is remembered before the file is open.
*Correct means.* The counter is the number of active slots, a category stays
with its object and shows its tag, and the file printed to is the one that is open.

### QueueSimple (`QueueSimple.cpp`): modelled

*State.* A queue, ten producers with their `cnt`, ten consumers, and in `main`
the two counts of threads that do not run.
*Operations.* `ProduceThread::threadLoop` pushes one element,
`ConsumeThread::threadLoop` peeks and pops one; `main` runs them, polls
`isRunning`, closes the queue, deletes it and the threads.
*Hard.* Between peek and pop others pop; the flags `main` adds up change while
it reads them; only a consumer that pops an element with the last value, or
loses a race, ever stops; `main` looks at threads that have not set their flag
yet; it leaves when one side is done and deletes what the other still uses.
*Correct means.* No element is lost, taken twice or out of order; the consumers
do not all give up while something is to come; `main` leaves, and not while
both sides are at work.

### The rest

- **Mutex, Condition** (`Mutex.h`, `Condition.h`): thin wrappers of POSIX. What
  Thread uses of them is part of Thread's actions; the deadlines that
  `Condition::waitRelative` and `waitRelativeUs` compute from two roundings, a
  carry and a cut sum are functions in `Clock`.
- **Times** (`Times.h`, `Times.cpp`): the monotonic clock in three units, in `Clock`.
- **Utils** (`Utils.h`, `Utils.cpp`): rounding to powers of two, integers as
  bytes in network order, `TIME_ARGS`; all pure, in `Utils`.
- **ErrorCode**: the codes Thread returns, by name.
- **main.cpp** calls `Thread::pause` and `resume`, which do not exist, and is
  not part of the build; **CMakeLists.txt** is build description. Not modelled.

### How the parts interact

Queue calls POSIX itself; Thread uses Mutex and Condition; Poll uses Mutex for
its table. In QueueSimple each `Thread::threadLoop` is a call or two on one
shared `Queue`, and `main` watches `isRunning` to decide when to close and
delete it. The worker of a Thread calls back into the object's user
(`threadLoop`), which may call the same object; the queue calls back under its
mutex in `flushAndCallback`.

## The modules

| module | what it is |
|---|---|
| `QueueTypes` | parameters, operations, return codes and comparator of a queue |
| `Queue` | the queue as coded: mutex, condition variables, every operation |
| `QueueSpec` | what the queue promises: atomic calls on a sequence and a flag |
| `QueueLive` | Queue with fair scheduling and bounded calls |
| `Thread` | the thread object, its workers and its clients |
| `Poll` | the descriptor table, `wait`, `setFlushing`, the control socket |
| `PollSpec` | what Poll promises of its descriptors |
| `QueueSimple` | producers, consumers and `main`, over `QueueSpec` and what others see of a Thread |
| `Logger` | the table of tags, the log file, `logPrint` |
| `Utils` | rounding, byte order, `TIME_ARGS`: functions |
| `Clock` | the clock's units and the deadlines of timed waits: functions |
| `MCQueue`, `MCQueueLive`, `MCThread`, `MCPoll`, `MCQueueSimple`, `MCLogger` | small instances for TLC |
| `QueueProofs`, `QueueWakeupProofs`, `QueueRefinementProofs`, `ThreadProofs`, `PollProofs`, `QueueSimpleProofs`, `LoggerProofs`, `ArithmeticProofs` | theorems |

**Queue.** A thread that calls an operation goes from `idle` to `lock`; `Lock`
takes `mMutex`; the body of the operation up to its unlock or its
`pthread_cond_wait` is one step, since it touches the queue only under the
mutex. `CondWait` blocks and releases the mutex at once; a signalled (or
spuriously woken) thread is `woken`, competes for the mutex and runs the body
again from the loop's test. After the unlock `setAllowedNewData` reads the flag
(`CheckAllowed`) and broadcasts twice, each a step; the destructor goes on
through `relLock` to `relMutex`. `pthread_cond_destroy` returns when no thread
is blocked on the condition variable, and `pthread_mutex_destroy` answers EBUSY
while the mutex is `InUse`: held, or given to a `pthread_cond_wait` that has yet
to take it back. A thread that is still in `pthread_mutex_lock` shows in neither.
The list is a sequence, its insertion search a `CHOOSE` of
the first position at which the loop of lines 321-338 stops. A woken thread can
be overtaken by any other caller. Data races on `mAllowedNewData` (184) are
reads of its current value.

**Thread.** A critical section of `mLock` is one step; `run` is split where it
creates the worker, with the mutex held. A worker is `born` until line 101,
then `ready`, `loop` (in the user's `threadLoop`), `decide` (line 126-139),
`while` (141), `leaving` until it clears `mRunning` the second time (143),
`exiting`, and `none` when it has ended. The constant `Settles` says what
callers leave time for, though no operation lets them see it: that a created
worker has set `mRunning` before it is joined or run again (`born`), that
the last worker has passed line 143 before the object is run again
(`leaving`), and that joins of it are over by then (`joining`). The passing
run assumes all three; of the three runs that drop one, `thread_twice` and
`thread_stop` drop `born`, `thread_restart` drops `leaving`, and show what the code
then does. The theorems say which they need: type correctness none, `JoinStops`
all, the others `born` and `leaving`.

**Poll.** Operations on the table are one step each. Every access of an atomic
in `wait` and `setFlushing` is a step: `WaitCall` loads `mWaiting`,
`CountsItself` increments it, `LooksForFlush`, `EntersPoll`, `PollReturns`,
`LooksAgain`, `WaitReturns`; `SetFlushing` stores the flag, `StillFlushing`
reads it back, `LooksForWaiter` reads `mWaiting`, `RaisesWakeup` is
`raiseWakeup`. poll(2) copies the entries when it begins, may return at any time
with any subset of what was asked (which covers timeouts and signals), and is
sure to return when the control socket has a byte. `removeFd` does
what line 95 does: no entry in use moves and the last one goes. What its one
byte overwrites beyond them is not modelled.

**QueueSimple.** The queue is an instance of `QueueSpec`, which `Queue`
implements: a call is invoked, takes effect and returns, three steps between
which others run. Of a Thread remain the moments others can see: `born` before
line 101 sets `mRunning`, `ended` once line 131 has cleared it. `threadLoop` is
split at its queue calls: a producer is at the `top` or in its push, a consumer at
the `top`, in its peek, has `peeked`, or is in its pop. `main` reads one
`isRunning` per step (`LooksAt`), and starts a pass with both counts at 0.
From `~Queue` on, a thread in a call of the queue uses a dying object, and so
does one on its last lines when its Thread is deleted: undefined in C++, here it
makes no further step. `taken`, `refused` and `early` are history: what was
popped, what no push got in, and which threads `main` has asked in this pass
before they had set `mRunning`.

**Logger.** The functions under `g_mutext` are a step each, `Logger_set_level`
is one assignment. `Logger_set_file` is two: it remembers the name and closes
(`SetFile`), and opens (`OpensFile`, which may fail). `logPrint` is five: the
level (`LogPrint`), the counter (`LooksAtCounter`), the slot (`LooksAtSlot`), its
tag (`PrintsTag`), the rest; any thread prints for any object, and tags come and go
in between. A slot
is `active` by one byte behind its tag, so `FilledSlot` clears it
for a tag of exactly `MAX_TAG_LENGTH` bytes; a longer tag is compared (81), not
copied. `held` and `asked` are history: the categories an object was given with
their tags, and the tag that the category of a print under way was given for,
until that tag is removed.

**Utils, Clock.** Functions on integers, byte strings and timespecs. `&~` is the
subtraction of a remainder, `|` of bytes that do not overlap a sum, a cast
modulo 2^32 or 2^64, `/` and `%` truncate towards zero.

**Refinements.** `Queue!ImplementsPromise` maps the list to `content`, the flag
to `open`, and the program counters to three stages of a call: `idle`,
`called` until its body has ended, `done`. `Poll!ImplementsPromise` maps the
entries to what each descriptor was asked for and reported; `last` names the
call that made the change, so a step that serves the wrong descriptor is not
excused as another call.

## The runs

| run | instance | expected | shows |
|---|---|---|---|
| `queue` | one producer that also reopens, two consumers, an owner; three places, three elements, two of them equal; sorted, ascending; failing `calloc`; delete and rebuild | pass | type, counter, order, no lost getter, every close arrives, every call atomic |
| `queue_live` | two blocking producers, two blocking consumers, an owner that closes or deletes without joining them; one place; two calls each | pass | no lost putter, a close releases everybody, nobody waits beside an element or a place, the destructor returns |
| `queue_flush` | two producers, a consumer, an owner that flushes | violation | `flush` leaves a putter waiting beside free places |
| `thread` | two clients, two workers (the second one a restart), all operations, also from `threadLoop`; failing creation | pass | `mRunning` is right, joins wait for somebody, stop stops, exits happen |
| `thread_twice` | two clients, two workers, no time for `mRunning` to be set | violation | a second `run` starts a second worker |
| `thread_stop` | one client, one worker, no time for `mRunning` to be set | violation | `requestExitAndWait` returns and the worker goes on |
| `thread_restart` | two clients, two workers, no time for line 143 | violation | the new worker's flag is cleared and a joiner waits for nobody |
| `poll` | an event loop with two descriptors, a second waiter, a flusher | pass | count of waiters, no flush missed, every flush ends the waits, table as promised |
| `poll_remove` | an event loop that removes any descriptor | violation | another descriptor leaves the table |
| `poll_wakeup` | an event loop and a flusher | violation | the wakeup's byte is never read |
| `simple` | two producers of two elements each, two consumers, `main`; failing `malloc`; a producer that starts late | pass | order kept, one consumer stays, `main` leaves, once it has found one side stopped or not started |
| `logger` | two threads with two objects, three slots, tags that fit, two files, three levels | pass | counter, categories, prefixes and the open file are right |

The passing runs reach 1,351,436 (`queue`), 312,702 (`queue_live`), 42,360
(`thread`), 156,677 (`poll`), 986,888 (`simple`) and 1,847,544 (`logger`, up to
the names of threads and files) distinct states and are exhaustive.

*Bounds.* Queue: three places, with three elements of which two compare equal, reach every branch of the
insertion search (front, between ties, end) and both ends of the counter; two
consumers are what an overtaken signal needs. `queue_live` has one place, so
that both waits happen at once, and `MaxCalls` (2) calls per thread: enough to
block, be woken, be overtaken and block again; a spurious wakeup counts as a call.
Thread: two workers make a restart overlap the last lines of the first worker.
Poll: `MaxPending` (2) bounds `mControlPending`, which nothing ever lowers: the
first wakeup writes the byte, the second finds it pending. Two descriptors are
the fewest of which one can be taken for the other; in the runs the event loop
does not call `setFdWritable`, which differs from `setFdReadable` in its bit
only (the theorems cover it).

QueueSimple: two threads of each kind are what it takes for one consumer to be
overtaken by another and for `main` to count one of two; `MAX_CNT` (2) gives
each producer an element after which it goes on and a last one. The
constraint `OneIsLate` bounds the workers that have yet to set `mRunning` when
`main` begins to look to one, the producer that it asks first and so takes for
ended: with all four free to be late there are eight million states. No theorem
about `QueueSimple` has such a premise. The queue's `calloc`, which
may fail in the theorems, does not in the run. Logger: a second object takes the
slot of the first, a third slot lets one object hold two tags beside the other's;
63 bytes are the longest tag that fits with its NUL.

*Deadlock* is checked in the runs of `Thread` and `Logger`, in `queue`, `poll` and
`poll_remove`. It is off where every thread may have made its calls and stopped
(`queue_live`, `queue_flush`, `simple`), or where the violation sought leaves
threads behind (`poll_wakeup`).

*Fairness.* `QueueLive`: weak fairness of each thread's steps inside an
operation, as the scheduler gives. A POSIX mutex is not fair, so none is
assumed of it: calls are bounded instead and contention ends. `Thread`: weak
fairness of the worker's, the clients' and a call's steps, and strong fairness
of `LoopReturns`, for a `threadLoop` that returns; a client need never call.
`Poll`: weak fairness of each step inside `wait` and `setFlushing`, and of a
poll(2) with a byte to read; nothing of other descriptors or timeouts.
`QueueSimple`: weak fairness of `main` and of each worker with its queue calls.
This grants that a call gets the queue's mutex at last although a consumer may
ask for it over and over without pause: POSIX does not promise it, so
`MainLeaves` is as good as the mutex.
`LoopSpec` adds that an event loop waits again and again, so that the run shows
a byte that stays, not a loop that stopped.

## What is proved

The proofs hold for any number of threads, any capability, comparator, set of
elements or descriptors, from the assumptions `QueueAssumption`,
`ThreadAssumption`, `PollAssumption`, `SimpleAssumption` and
`LoggerAssumption`, which the runs of each module evaluate.

- **Queue.** `IInv` (types, `CountIsLength`, and `Brought`: whoever pushes has
  an element) is inductive; without `CountIsLength` the counter could not be shown to
  keep its range, nor `Tail` to be taken of a list that has one. From it:
  `TypeCorrect`, `CounterCorrect`, `AlwaysSorted`. The last rests on lemmas
  about `InsertPos`: in an ordered list, the first place where the search
  stops keeps it in order, for comparators that order by an integer.
- **The mutex.** The actions of `Queue` ask for `mMutex` only where the code locks
  it. `MutualExclusion` shows that this is enough: the thread between lock and unlock
  is the one that holds it. So `OnlyHolderWrites`, an action property: only the holder
  writes the list, the counter and the flag, until the object is destroyed.
- **Wakeups.** `CloseReaches` and `NoGetLost` are inductive over `IInv`. The
  second counts: a push adds an element and, if a getter is blocked, turns one
  into a coming one; a getter that leaves takes an element with it. `NoPutLost`
  is the same count of putters and free places, and holds under `NobodyGivesUp` only:
  no flush (it frees places without a signal), no `setAllowedNewData(true)` (it
  calls off a broadcast that is due), no failing `calloc` (the putter returns
  with the signal). It needs more than `IInv`: a destructor flushes too, so
  `StaysClosed` says that the queue it has closed stays closed until it is gone,
  and that nobody is blocked in it when the next one is built. `NoPutLostLive` is the
  theorem for `QueueLive`.
- **The destructor.** `Releasing`: one thread at most is in it, while the object
  is dying. That it returns (`DestructorReturns`) is liveness and model-checked:
  it needs the broadcasts of its own `setAllowedNewData(false)` to have reached
  every waiter, since it holds `mMutex` where it waits for the condition
  variables to be left.
- **Calls are atomic.** `CallsAreAtomic`: `Queue` implements `QueueSpec`, without
  premises on the callers. `RInv` is what the mapping needs: `IInv` (a full counter
  is a full list), `Sorted` (the place the search finds is the one the promise
  allows), `Releasing` (the destructor returns once, and `Empty` is its own step),
  and `Arguments` (a call that is refused hands back the NULL it has
  stored first). Locking, blocking, waking, broadcasting and the destructor's
  inner steps are stutters, because a thread that waits and one that is
  woken are in the same stage; a step that ends a body is the call's effect.
- **Thread.** `ThreadTypeCorrect` needs nothing of the callers. If they leave
  time for `born` and `leaving` (`WorkersSettle`), `SInv` (types, at most one worker
  between birth and line 143, no self-join, `RunningIsTrue`, `JoinerHasWorker`) is
  inductive, and gives `RunningTrue`, `JoinersHaveWorker` and `SelfJoinRefused`.
  `RunningIsTrue` is not inductive alone: a second worker would
  clear the first one's flag. With a smaller `Settles` the instance of `MCThread`
  violates each of the three. The action property `JoinStops` needs `joining` too, and
  `JoinsSettle`: while a join is under way nobody creates a worker. Without it
  a joiner that sleeps through the end of one worker returns beside the next,
  which has not set `mRunning` yet.
- **Poll.** `PInv` (types, `OneByte`: the socket holds a byte exactly when a
  wakeup is pending, `WaitersCounted`, `FlushReachesWaiter`) is inductive.
  `FlushReachesWaiter` needs the count: a flusher that finds it zero gives up,
  and nobody may be about to poll then. `PollTypeCorrect`,
  `EveryWaiterCounted`, `NoFlushMissed` follow. `TableKeepsPromise`: Poll
  implements `PollSpec` for `CarefulCallers` (`TableQuiet` and `RemovesLast`; `poll_remove`
  shows what happens without the second). `TableInv` adds that no
  descriptor is in the table twice (`Distinct`), so that an entry is found by its
  descriptor, and that the entries poll(2) works on agree with the table in
  descriptor and events (`Copied`), whoever else polls at the same time.
- **QueueSimple.** `SInv`, for any number of threads and elements, whichever
  allocations fail. `Survivor` is why the consumers never all give up: the one
  that empties the queue has popped an element that was not the last, so it
  will peek again. `Fate` says of every element a producer has counted that it
  is queued, taken or refused, and `Order` adds that what is taken comes before
  what is queued: `InOrder` alone does not exclude that a late push returns to
  an early place. `Polling` ties main's counts to how far it has looked: as many
  as it has asked only if all of those had ended or were early, and who has ended
  stays so.
  From it `SimpleTypeCorrect`, `OrderKept`, `OneConsumerStays`, `MainAsksEverybody`:
  when `main` has left its loop, every producer, or every consumer, had stopped or
  was asked before it had started (`early`). None of them assumes that the workers
  start first.
- **Logger.** `LInv` adds to the properties that a slot which is not active has
  no object (`FreeSlotsClear`: a removal that matched one would lower
  the counter for nothing), and that a print's category is still held for the tag it
  was called with, unless that was removed (`ReadersHold`), so that none of
  `logPrint`'s three looks finds anything else. All five properties follow, for any
  number of slots, objects, threads and files, for `Careful` callers: tags shorter
  than `MAX_TAG_LENGTH`, and `Logger_init` before the first use.
- **Arithmetic.** Facts about functions, for every argument:
  rounding; the round trips of `putU32` and `getU32`, `putS64` and `getS64`, in both
  directions; the clock's units; the deadline of a timed wait, exact to the
  nanosecond as long as product and sum fit (`WaitRelativeIsExact`,
  `WaitRelativeUsIsExact`), cut where a 32-bit `long` ends (`LongWaitIsCut`),
  with negative nanoseconds for negative waits (`NegativeWaitIsRefused`); what
  `TIME_ARGS` shows. No run evaluates these: the numbers do not fit TLC's integers.

*Model-checked only:* the liveness properties (`CloseReleases`, `GetterServed`,
`PutterServed`, `DestructorReturns`, `ExitHonoured`, `StopReturns`, `FlushEndsWait`,
`MainLeaves`):
fairness is beyond the prover. Every invariant and both refinements that a passing run
checks are theorems.

## Where the source's words and its code differ

Six runs, listed under `findings` in `PROJECT.json`, end in a violation of what
the source says. Besides them: `Queue.h:73` and `:92` say that waits end on
`setAllowedNewData(true)`, the code wakes waiters on `false`; `Queue.h:67` and
`:86` say that `push` and `pop` return a positive number when the queue is full
or empty, they return -7; `Poll.h:69-71` says a timeout in nanoseconds, -1 for
ever, but `wait` hands the number to poll(2) as milliseconds and waits for ever
on 0 too; `Condition.h:46` and `:95` say that `waitRelative` takes
microseconds, it takes milliseconds (`:105`); `Logger.cpp:174`
(`getCurrentTimeMillis`) returns microseconds; `Utils.h:167-168` promises h:m:s
of `TIME_ARGS`, whose divisors overflow an `int` (theorem
`OneHourIsPrintedAs4404`). `Logger.h:50` says of
`Logger_set_file` that it sets the log file: one that could not be opened is
not tried again under the same name (`Logger.cpp:116`). `Logger.h:42` says of
`Logger_set_userTag` that it sets a tag to print: one longer than 64 bytes is compared
with the slot by `strncmp` (`Logger.cpp:81`), where it would have to be copied, and one of
exactly 64 bytes has its NUL written into `active` (`:79`), so that the category
it returns (`Logger.h:45`) is free again. `logPrint` may show another object's
tag when its own is removed between the check of the slot and its use (`:140`,
`:141`), which do not hold `g_mutext`. `QueueSimple.cpp:188` prints "all run", but
`main` may look at `isRunning` (`:197`) before a worker has set it and take that one for
ended; if it finds all of one side so, it closes the queue at once. `MainAsksAll`
therefore speaks of threads that have stopped or not started.

## What is not modelled, and why

- Queue: `Q_ERR_LOCK` (a pthread call failing on a live mutex), the comparator
  branch of `_popElement` (377-397, no caller passes one), callbacks that call
  the queue again; what becomes of a thread that enters an operation while the
  destructor runs and finds the mutex destroyed (here it makes no further step).
- Thread: what a worker does to an object deleted while it is on its last lines
  (undefined; `QueueSimple` shows that it happens, `main` deletes threads it
  has not joined); calls from `readyToRun` and `readyToExit`.
- Poll: growth of the array and its failure (the instances fit the eight
  entries the constructor allocates), socketpair and write errors, lengths of
  timeouts, `releaseWakeup` and `releaseAllWakeup`, which nobody calls. That
  two threads can be in poll(2) at once (lines 140-142) is in the model; no
  property says otherwise.
- QueueSimple: what threads do with the deleted queue, and a consumer's read
  of an element another one has freed (132, elements are values here).
  The unused `*_mode`
  functions and the printing are left out.
- Logger: formatting and time stamps, names longer than `g_fileName`, two
  threads that set files at once; prints into a file while it is closed
  (`Logger.cpp:122`) are not told apart from others; a tag that is written while it
  is printed is read as the old or the new one, never as a mixture.
- Mutex, Condition: `tryLock`, `signal`, process-shared objects and timed waits
  as steps have no caller in the repository. Utils: overflow of
  `num + align - 1`.
- main.cpp, CMakeLists.txt: nothing to check.

## The plan

1. `QueueList`: the cells and pointers of the list, shown to implement the
   sequence of `Queue`. Poll: an array that grows while a thread polls.
2. Proofs: a specification of what others see of a Thread, which `QueueSimple` uses and
   `Thread` would implement.
