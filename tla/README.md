# MetricBench in TLA+

MetricBench loads a database with synthetic metrics and measures how long the
inserts take. `metricbench --mode=prepare` creates the schema and loads whole
minutes for every device; `--mode=run` continues from the newest minute found
in the database. One main thread produces messages into a queue, loader threads
turn each message into rows, statistics threads count what the loaders report.

This directory models that program: the queue, the producer, the process' life
from start to exit, the three database drivers, and the three statistics it
reports. It states what a load must guarantee (no message lost, none written
twice, the process ends, a restart continues where the database stops) and what
a reported number must mean, and shows where the code keeps these promises and
where it does not. Paths below are relative to `src/src/`.

## 1. Inventory

| Component | State | Operations | Modules |
|---|---|---|---|
| `tsqueue.hpp` | `std::queue`, a mutex, condition variables `data_cond`, `empty_cond` | `push`, `wait_and_pop`, `wait_empty`, `wait_size`, `empty`, `size`; `try_pop` without callers | `FifoQueue`, `TSQueue`, `TSQueueProofs` |
| `Preparer.cpp`, `metricbench.cpp`, `GenericDriver.hpp` | loop variables, `progressLoad`, `Config::processingComplete`, `GenericDriver::threads`, main's `retval` | `Prep`, `Run`, `prepProgressPrint`, `JoinThreads`, `main` | `LoadJob` (abstract), `Preparer`, `PreparerProofs` |
| `MySQLDriver.cpp` | the tables `metricsN`, the loader threads and one select thread | `CreateSchema`, `Prep`, `Run`, `getTimestampRange`, `InsertData`/`InsertQuery`, `SelectData`/`SelectQuery` | `MySQLDriver`, `MySQLDriverProofs` |
| `MongoDBDriver.cpp` | the collections `metricsN`, detached loader threads | the same without selects | `MongoDBDriver`, `MongoDBDriverProofs` |
| `CassandraDriver.cpp` | one table, joinable loader threads that never end | the same; `SelectData` returns at once | `CassandraDriver`, `CassandraDriverProofs` |
| `Stats.cpp` | `Counts`, `execTimes` under `lockCounts` | `Run` pops `statQueue`, `statsPrint` prints and clears every `displayFreq` s | `Stats`, `StatsProofs` |
| `LatencyStats.cpp`, `RunningMean.cpp` | buckets, means and maxima per thread | `recordLatency`, `displayLatencyStats` | `RunningMean`, `LatencyStats`, `LatencyStatsProofs` |
| `SampledStats.cpp` | a sample of latencies per operation, one object per thread | `addStats`, `displayStats` | `SampledStats`, `SampledStatsProofs` |
| `Uri.cpp` | none | `Uri::Parse` | not modelled |
| `Message.hpp`, `Config.hpp` | records, constants | | as a record and CONSTANTS |
| `pareto.hpp`, `Logger.hpp` | random engine, stream | | range of the values only; not modelled |

How they interact:

    main: Preparer::Prep / Run --push, wait_size, wait_empty--> tsQueue
    tsQueue --empty, wait_and_pop--> driver threads (InsertData)
    driver threads --INSERT--> database <--getTimestampRange, CreateSchema-- main
    driver threads --push--> statQueue --wait_and_pop--> Stats::Run
    MySQL's threads --recordLatency--> LatencyStats <--displayLatencyStats-- main
    driver threads --addStats, displayStats--> SampledStats --> csvstream
    main --processingComplete--> driver threads --exit--> JoinThreads
    main --progressLoad--> progress thread --exit--> join

The hard parts, each with its line in `PROJECT.json` under `hazards`:

- wake-ups: `push` and `wait_and_pop` call `notify_one` once, waiters share
  `empty_cond` for different sizes;
- check-then-act: `InsertData` calls `empty()` and then `wait_and_pop()`, and its
  loop reads `processingComplete` and `empty()` one after the other;
- back-pressure: the producer blocks on a queue only the loaders shorten;
- failure: an exception in a loader thread is `std::terminate`; one in
  `getTimestampRange` unwinds past a joinable thread in `Prep` but not in `Run`;
  the drivers differ in which errors they swallow;
- restart: the next process decides where to continue from what the database
  holds after a kill in the middle of a minute or of `CreateSchema`;
- the end: which threads see the flag, who joins whom, what is lost otherwise;
- numbers computed from parts: counters and times updated in two statements,
  means merged from threads, bucket borders spelled out twice, a sample that is
  sorted and replaced in turns.

What makes each component correct: the queue is FIFO and loses no wake-up; the
producer bounds the queue, keeps minutes apart and always finishes; a message
popped is inserted and recorded exactly once or the process is dead; when main
prints its statistics nothing runs any more; a prepare that reports success has
loaded exactly the requested rows; no process writes rows that exist; every
process ends; a report is counted in one interval, a mean and a maximum are those
of all operations, a percentile is a time that was measured.

## 2. Modules

**`FifoQueue`** is what a caller of `tsqueue` may rely on: an atomic queue with a
blocking pop and a blocking wait for a size, and the fairness of those calls.

**`TSQueue`** is the implementation. One step is one critical section, from
taking the mutex to releasing it, which is by returning or by blocking in
`condition_variable::wait`. `data_cond` and `empty_cond` are the wait sets;
`notify_one` removes any one thread; spurious wake-ups are steps; a woken thread
competes with callers that arrive later. `wait_empty` is `wait_size` with size 0
(the same loop with `!empty()` for `size() > sz`). The two overloads of
`wait_and_pop` differ in the type of their result only. `try_pop` is left out: nobody
calls it, and `try_pop(T&)` would not compile. (It notifies nobody, so a thread in
`wait_size` would sleep through it.)

**`Preparer`** is one process: the main thread's places in `Prep`, `Run` and
`main`, the progress thread, the message queue, `GenericDriver::threads`, the
places of the driver's threads and the database. `Restart` starts the next
process on the same database; `Kill` is a kill at any moment. Correspondence:

- `main` is the main thread's place. `"wait_size"` and `"wait_empty"` are the
  blocking calls, with the queue's condition as the guard.
- `sent` is the log of all messages pushed by this process and `popped` the
  number taken: the queue is `sent[popped+1..]`. So an invariant can speak of
  every message, not only of those in the queue.
- `hand[t]` is the index of the message in thread `t`'s local variable `m`;
  `committed` and `recorded` are ghosts: messages whose rows are in the
  database, and whose latency was pushed to `statQueue` and given to
  `LatencyStats`.
- `rows` has one element per message inserted: (table, minute, device). The
  hundreds of metrics of a message are one multi-row transaction. A table,
  device and minute is the unit the restart logic works with.
- minutes stand for 60 s. `devicesCnt` is any number in `1..MaxDevices` in run
  mode (a Pareto draw with minimum 1), and `MaxDevices` in prepare mode.
- the queue's operations are single steps here. `TSQueueProofs!RefinesFifo`
  proves that they may be.
- where main ends is told apart: `CaughtByMain` (an exception caught in main,
  which then goes on to `processingComplete` and `JoinThreads`) and `Terminate`
  (`std::terminate`).

**`MySQLDriver`**, **`MongoDBDriver`** and **`CassandraDriver`** extend `Preparer`
with the virtual functions and the threads' loops. `InsertData` of MySQL has a
place for every read of shared state (`"loop"`, `"drain"`, `"peek"`, `"pop"`)
because the gaps between them are where it goes wrong. An insert that throws
may or may not have been committed. MongoDB's threads are detached and loop for
ever; its `CreateSchema` swallows exceptions. Cassandra's threads exit when they
cannot connect, never otherwise, and count failed batches as if they had
succeeded.

**`LoadJob`** is what the database sees of the processes: one clears the tables or
not, chooses a first minute later than every row, writes rows of its window, each
once, and fails or succeeds; then the next starts. There is no queue and no
thread in it. Its parameters `Behind` (rows of earlier minutes that may follow a
later one) and `Missing` (rows that may be missing when a prepare reports
success) are what the concurrency costs: `LoaderThreads - 1` and 0 for MySQL,
`LoaderThreads - 1` and `LoaderThreads` for MongoDB, whose main does not wait.
`ImplementsLoadJob` maps `rows` and `mode` to themselves, `startTimestamp` to
`first`, and the main thread's place to `phase` (`JobPhase`). Cassandra does not
implement it: it chooses the same first minute again and again (`WindowNeverMoves` in
`CassandraDriverProofs`).

**`Stats`** has a place for each statement of `Stats::Run` and `statsPrint` that
touches shared state, and the lock `lockCounts`. Driver threads are the action
`Report`. `MainReturns` stops both detached threads wherever they are. An absent
key of the maps is 0 or the empty sequence. `pushed`, `popped` and `printed` are
histories. `percentile` is the value that `nth_element` puts at the offset: one with
at most so many elements below it, and more that are not above it (`IsNth`).

**`RunningMean`** and **`LatencyStats`** translate the arithmetic exactly where the
code uses doubles (a running mean is kept times its count), so `MeanIsExact` is
about the algorithm and not about rounding. Times are whole microseconds.
`recordLatency` leaves `bucketCounts` alone because the code increments a copy.
`bucketCountsCumulative` is an operator where the code fills an array. Only
MySQL's threads record, and main has joined them when it reports
(`MySQLDriver!JoinedMeansDone`), so the report is one step. `spent`, `ops` and
`seen` are histories.

**`SampledStats`** is one driver thread with its object, in one of four roles that
differ in what the thread adds and in the list `showStats` it displays. The random
draws are choices of any outcome with a positive probability. The arrays are
`boost::array`, whose `operator[]` asserts the index; `CMakeLists.txt` defines no
`NDEBUG` for the default build, so an index too large is the step to `"aborted"`. (With
`NDEBUG` it would be an access beyond the array, which is undefined.)
`std::sort` is a permutation of the places under which nothing decreases
(`Sortings`), the loop over `addSample` a recursive function (`MeanOf`).

The `MC*` modules name sets for the configurations. Definitions whose name is
that of another with a suffix (`Peek_without_test`) are mutated forms: plausible
bugs, each of which makes the property named beside it in `PROJECT.json` fail.

## 3. Runs

| Run | Shows | Bounds and why they suffice |
|---|---|---|
| `TSQueue` | `TypeOK`, `NoLostPopWakeup`, `NoLostEmptyWakeup`, `ImplementsFifo` with liveness | both queues of the program at once: a thread that pushes and waits (sizes 0 and 1), as for `tsQueue`, one that only pushes, as the drivers do to `statQueue`, and three that pop; queue of 3: both wait sets can be occupied, and a third popper can overtake a notified one |
| `MySQL` | `TypeOK`, `EveryMessageHasOneHome`, `JoinedMeansDone`, `PreparedMeansLoaded`, `FreshKey`, `NotAllStranded`, `CrashHoles`, `BackPressure`, `MinuteBarrier`, `ProducerFinishes`, `EndsUnlessStranded`, `ImplementsLoadJob` | 2 threads, so that one overtakes the other and one is stranded; 3 minutes over 2 tables, 6 messages where `wait_size` of a run lets 2 wait after a minute of 2; 2 processes in any order of modes: a prepare or a run over what one that was killed or failed has left |
| `MySQLExit` | violation, see Findings | the smallest instance with two threads that see the last message |
| `MongoDB` | `EveryMessageHasOneHome`, `FreshKey`, `BackPressure`, `ExitLoss`, `ProcessEnds`, `ImplementsLoadJob` | 8 messages in a minute against the limit of 4 in a prepare, which allows 6; a `CreateSchema` that fails after 0, 1 or 2 collections over the first process' documents |
| `Cassandra` | `PoppedIsCountedOnce`, `ProducerFinishesIfConnected` | each thread may or may not connect, each batch may fail; two processes |
| `CassandraRestart` | violation, see Findings | one message, and a second process |
| `Stats` | `TypeOK`, `IntervalsAddUp`, `TimesMatchCounts`, `EveryReportIsPrinted` | three metrics in one or two reports and up to three selects: reports of two kinds and of two times meet in one interval, and reports wait while a line is printed |
| `StatsPercentile` | violation, see Findings | the same: two times in an interval are enough |
| `LatencyStats` | `TypeOK`, `MeanIsExact`, `MaxIsExact`, `LatencyInItsBucket` | two threads, three operations at the ends of the buckets, so that one thread may have none, and two the same |
| `LatencyBuckets` | violation, see Findings | two operations of one type: the first count with a rank above 0 |
| `SampledStats` | `TypeOK`, `SampleIsDrawn`, `LineIsOrdered`, `NoErrorIsPrinted` | a sample of 3 and 5 operations: two replacements, with displays before, between and after them |
| `SampledStatsRun` | violation, see Findings | the first display of the inserting thread of a run |

More threads that overtake each other, more processes in a row, longer queues and larger
samples are left to the proofs, which cover any number.

`CHECK_DEADLOCK FALSE` wherever the system may stop: a process that ended has no
step, and one that hangs in `JoinThreads` is the subject of liveness properties,
not of deadlock; the same for a report that was printed and a thread that exited.
Bounds: `MaxProcs` (processes), `MaxLen` (elements in `TSQueue`), `LoadMins`,
`MaxDevices`, `DBTables`, `RunQueueFactor` (100000 in the code), `MaxReports`
(metrics of one kind in `Stats`), `MaxRecords` and `Latencies`, `MaxOps`.

**Fairness.** The `FairSpec` of a driver asks weak fairness of the main thread,
of the progress thread and of each driver thread: the operating system runs
every thread, and the database answers every statement, perhaps with an error.
Nothing is asked of `Kill` and `Restart`, nor of any particular outcome: an
insert that may throw need not. Weak fairness of each thread does not give a
thread its turn at the queue: `WaitAndPop` is disabled whenever the queue is
empty, so a thread may find it empty each time it looks. `TSQueue` asks that a
thread inside a call gets the mutex again, and nothing of threads outside.
`Stats!FairSpec` asks weak fairness of both threads and strong fairness of their
two `lockCounts.lock()`: `statsPrint` sleeps for `displayFreq` seconds without the
lock and `Run` holds it for two statements, so each finds it free. Nothing makes
`MainReturns` happen, and a report that main's return overtakes is not printed:
`EveryReportIsPrinted` says so.

## 4. Proofs

TLAPS proves the following for all values of the constants that satisfy the
named assumptions.

`TSQueueProofs` (assumptions `ThreadsAssumption`, `ValuesAssumption`):

- `TypeCorrect`.
- `PopWakeupsAreNotLost`: while a thread sleeps in `wait_and_pop`, there are at
  least as many awake threads inside it as elements in the queue. The invariant
  counts: `push` adds an element and wakes a sleeper if there is one, a return
  removes one of each, and a thread goes to sleep on an empty queue only.
- `EmptyWakeupsAreNotLost`: a thread sleeps in `wait_empty`/`wait_size` only while
  the queue is too long. It holds for one waiting thread, which is what the
  program has; with two, the one `notify_one` could reach the wrong one.
- `RefinesFifo`: every step of `TSQueue` is a step of `FifoQueue` or changes
  nothing a caller sees.

`PreparerProofs` (assumption `ConfigAssumption`) holds what the three drivers have in
common. It names the kinds of steps a process can take: main's own (`MainStep`),
the start of threads, the choice of a range or its failure (`Start`, `Choose`,
`RangeFails`), the clearing of tables (`Clear`), and of a thread that it moves
without a message, pops one, writes its row, fails to, or has recorded it (`Move`,
`WaitAndPop`, `Write`, `Miss`, `Finish`). Each invariant is proved once to survive every
kind; a driver's proof shows that its steps are of these kinds (`StepKinds`). The
invariants are

- `Locals`: what the locals of main are at each of its places, for instance that
  main is past the loops with success only when the last minute is over;
- `Log`: what was pushed lies in the window (`InWindow`), in strictly increasing order
  of minute, device and table (`InOrder`), behind the place where the loops are
  (`OnlyPast`), and in prepare mode is everything behind that place (`Covered`);
- `Barrier` and `Pressure`: how many messages each wait of main has left in the queue,
  how many were pushed since, and that in a prepare they are of one minute;
- `Homes`: every message popped is recorded or in the hand of exactly one thread;
- `ProcessInv`: all of these with the types. It is all that `MinuteBarrier` and
  `BackPressure` need;
- `OwnInv`, for MySQL and MongoDB, whose rows carry the message's key: what is recorded
  is committed (`Written`), no thread is about to write a committed message
  (`ExecFresh`), and every row is older than the window or that of a committed message
  (`Rows`). With `InOrder` this gives `FreshKey`: two messages of one process never
  have the same key, and a row of an earlier process is older than the window.
- Two counting lemmas: fewer messages are held than there are threads (`HeldAreFew`),
  so fewer than `LoaderThreads` rows of an earlier minute are missing when one of a
  later minute is written (`FewBehind`). `JobStep` makes a step of `LoadJob` of each kind.

`MySQLDriverProofs` proves every safety property of the run `MySQL`, for any number of
threads, minutes, tables, devices and processes: `TypeCorrect`, `MessagesHaveOneHome`,
`JoinedIsDone`, `SomeThreadMoves`, `FewHoles`, `KeysAreFresh`, `QueueStaysShort`,
`MinutesDoNotMix`, `PreparedIsLoaded`, and the refinement `RefinesLoadJob`. The inductive
invariant is `IInv`: `ProcessInv`, `OwnInv`, and

- `Lifecycle` ties the main thread's place to the threads: they are started
  before the first message, are all in the vector, and `processingComplete` is
  set only when nothing is pushed any more.
- `Drained`: a thread past the first half of its loop condition has seen the flag;
  one that exited has also seen the empty queue, which then stays empty because
  of `Lifecycle`. With `Homes` this gives `JoinedMeansDone`.
- `NotAllStranded` is inductive with the types alone: a thread gets to `"pop"` only
  from a non-empty queue, and the thread that empties the queue is then at `"exec"`.
- `OneAhead`: for every committed message some thread holds nothing older that is
  uncommitted. So among the messages before a committed one, those missing are in
  the hands of the other threads: fewer than `LoaderThreads` (`FewHoles`, by an
  injection from the holes into the threads).
- `OnlyMine`: after a successful `CreateSchema` the database holds this prepare's rows
  only. `PreparedIsLoaded` is then: main is past `JoinThreads`, so everything is
  committed, and `Covered` says that everything is the whole window.

`MongoDBDriverProofs`: `IInv` is `ProcessInv` and `OwnInv`; from it `KeysAreFresh`,
`LittleIsLost` (main does not wait, so what is missing at its end is in the queue or
in a hand: at most a message per thread and the queue that `Pressure` allows) and
`RefinesLoadJob` with `LoaderThreads` rows missing.

`CassandraDriverProofs`: `IInv` is `ProcessInv`, `Lifecycle` (threads that have connected
never leave their loop, and only they take messages) and `OneWindow`; from it
`PoppedAreCounted`, and two theorems that state findings for any number of threads:
`WindowNeverMoves` (every process writes the minutes of the first) and
`LoadedNeverReturns` (a process that took a message is never past `JoinThreads`). Rows there are upserts and may belong to
another process, so `OwnInv` does not hold and is not used.

TLC checked each `IInv` on a small instance before it was proved.

`StatsProofs` (assumption `ReportsAssumption`) proves `TypeCorrect`,
`NothingMiscounted` and `TimesAreThere` from one inductive invariant: `LockHeld`
(who holds the lock is under it), `CountsHaveTimes` (an op has a count exactly if it
has times, except the one `Run` is between its two statements of),
`CountedIsPositive` (there the count is not 0 any more) and `TotalIsPrinted` (the
cumulative number of inserts is what the lines add up to). Without `LockHeld` the
exception could meet a line being printed. `NthIndexInside`: the offset of the
percentile is inside every non-empty vector, and 0 up to 101 elements. `NthExists`:
a vector of any length has an element at each of its offsets (the least one that
has enough elements up to it), so `percentile` chooses something. Together they give
`NinetyNineIsMinimum` for intervals of up to 101 operations, the finding of
`NinetyNineAreCovered` in general; with more the 99% time is the second shortest or a
later one.

`LatencyStatsProofs` (assumption `LatencyAssumption`):

- `BucketContainsLatency`, `BucketsTile`, `BucketsOrdered`: the two functions that
  spell out the buckets agree for every latency below 100 s, the buckets leave no
  gap, and a longer latency is never in an earlier one. `LatenciesInBuckets` is
  the run's `LatencyInItsBucket` from it.
- `MeanCorrect`, for any number of threads and operations, by `MeansExact`: each
  thread's `n * v1 + running` is the sum of what it recorded.
- `MaxCorrect`, by `MaxInv`: each type has a thread whose maximum is the greatest, a
  maximum was measured or is 0, and each latency measured is below some maximum.
- `TypeCorrect`: that the merged count is a natural number needs the sum over the
  threads, a fold of the community modules. `SumInside` proves that such a fold over
  any finite set stays in any set that has 0 and is closed under addition.
- `NoBucketIsFound`: `SumInside` for the set {0}. The histogram is all zeros, so with
  any number of threads and operations no percentile of rank 1 or more has a bucket.

`SampledStatsProofs` (assumption `SampledAssumption`):

- `IndicesInsideAndOrdered` for every sample size; `RunModeDisplayAborts`, by the
  invariant that a display of these threads is their last step: the finding of
  `LinesKeepComing` in general.
- `TypeCorrect`, `SampleComesFromTimes`, `LinesAreOrdered` and `ErrorsAreNeverPrinted`, for
  every sample size and number of queries, from one invariant `SInv`. Its core is
  `Drawn`: no value has more places in the sample than occurrences among the times
  added. A query writes one place or none (`WriteCounts`) where it adds one
  occurrence (`AppendCounts`); a display sorts in place, an injection from the places
  after to those before (`SortCounts`). `LineIsOrdered` needs it for the extremes of a
  line; the rest is that a sort exists and sorts (`SortingExists`, by insertion,
  and `SortedToSorts`), that the mean of the loop lies between any two bounds of its
  values (`MeanBetween`), and `IndicesInsideAndOrdered`. `NoErrors`: a thread that is alive
  has counted no error.

Facts about data of any size (a sort, a mean, a fold, an element of a rank) are
proved here by induction over a set of numbers: the lemma `Induction`, or `Least`, from
the well-foundedness of `<`. So the models hold no `RECURSIVE` operator; their
recursive functions are shown to exist before anything is said about their values.

Only model-checked: liveness and the fairness part of the refinement of
`FifoQueue`, which are out of the prover's reach (`ProcessEnds`, `EndsUnlessStranded`,
`ProducerFinishes`, `ProducerFinishesIfConnected`, `EveryReportIsPrinted`, and
`ImplementsFifo` with fairness). Every invariant of a passing run, and `ImplementsLoadJob`, is a theorem.

## 5. Findings

Each of these is a run that TLC must find violated.

- `MySQLExit`: `MySQLDriver.cpp:155-157` tests `empty()` and then blocks in
  `wait_and_pop()`. Two threads that see the last message: one takes it, the other
  sleeps for ever, and `JoinThreads` with it. The flag is said to be "used to
  instruct driver threads to exit" (`Config.hpp:76`). The load itself always ends
  (`ProducerFinishes`), nothing else keeps a process from its end
  (`EndsUnlessStranded`), and with one loader thread it cannot happen
  (`NotAllStranded`).
- `LatencyBuckets`: `LatencyStats.cpp:91` declares a copy of the thread's buckets
  where it means a reference, so the histogram stays empty and from two operations
  on a percentile has no bucket ("should be found", `LatencyStats.cpp:204`): the
  report prints bounds of bucket -1. For any number of operations: `NoBucketIsFound`.
- `CassandraRestart`: `getTimestampRange` is to "get the max timestamp so we don't
  duplicate existing rows" (`CassandraDriver.cpp:57`) and returns a constant, so every
  process overwrites the rows of the one before it. In general: `WindowNeverMoves`.
- `StatsPercentile`: the "99% time" of `Stats` (`Stats.cpp:45, 61, 80`) is below most of
  the times, because `percentile` divides by 100 what is already 0.99. In general:
  `NinetyNineIsMinimum`, the shortest time of any interval of up to 101 operations.
- `SampledStatsRun`: with `--csvstream`, "CSV periodic streaming stats file."
  (`metricbench.cpp:78`), run mode of MySQL and Cassandra aborts at its first lines:
  the arrays have `sizeof(MessageType)` = 4 elements and the select types are 4, 5 and
  6. In general: `RunModeDisplayAborts`.

Proved, and not a run of its own:

- Cassandra's threads do not see the flag either: a process in which a thread took a
  message never returns from `main` (`LoadedNeverReturns`). `Config.hpp:76` and
  `GenericDriver.hpp:87` ("wait for threads to complete") say otherwise, as for
  `MySQLExit`; `CassandraDriver.cpp:112` has it as a TODO.
- MongoDB: main is to "wait for driver processing to complete"
  (`metricbench.cpp:271`), but there is no thread to join. `ExitLoss` bounds what is
  lost: after a prepare at most one message per thread.
- The column `totalerrors` of the csvstream is of no use: it is always 0
  (`NoErrorIsPrinted`), because the thread that counts an error ends the process.
- A Cassandra batch that fails is counted like one that succeeds: `PoppedIsCountedOnce`
  is about messages taken, and nothing bounds the rows that are missing.

Seen without a property: the table range of one table reads all tables before it
(`MySQLDriver.cpp:55`, no caller asks for one); a line of the csvstream covers all
operations since the start, where "the sample taken over a given time interval" is
meant (`SampledStats.cpp:17`), because `resetSamples` has no caller
(`SampledStats.cpp:88`); the sample is not uniform, as its comment says, because the
chance is `maxsamples/opIndex` where the operation is the `opIndex+1`-th
(`SampledStats.cpp:76-78`); `ParetoGenerator::GetNext` of doubles returns up to
`b+1` where its comment says `[a,b]` (`pareto.hpp:33-39`); only MySQL's threads
record into `LatencyStats`, so the final report of the others is empty
(`MongoDBDriver.cpp:226`).

## 6. Assumptions and what is not modelled

- `LoaderThreads`, `LoadMins`, `DBTables`, `MaxDevices` are at least 1. With no
  loader thread `Prep` waits for ever.
- The transactions a dead process left open are finished or rolled back by the
  server before the next process reads its range.
- `Config::processingComplete` is a plain `bool` read in loops by other threads. The
  loops contain calls the compiler does not see through, so the model lets a read see
  the write at any later step. (`Preparer::progressLoad` is a `std::atomic<bool>`.)
- The random draws race on one generator; every value in range is a choice of
  the model already.
- Not in the models: the printed progress and its counter (`insertProgress` and the
  32-bit total are only printed), the layout of the reports, option parsing,
  `DeleteQuery` (no message asks for it), `getDeviceRange`, `printCSVStats`,
  `resetSamples`, `displayStatsAll`, `getCount` and `try_pop` (never called), `Logger`, the contents
  of a row.
- `Uri::Parse` splits one string at start-up. It has no state, and the models keep
  no strings; `test/UriTest.cpp` covers what its callers use.
- `ParetoGenerator` is a source of values; the chances of its draws, and of the
  replacements in a sample, are out of a model checker's reach.
- Rounding: the means are exact here, doubles in the code.

## 7. Plan

Done: (1) `FifoQueue`, `TSQueue` and proofs; (2) `Preparer` with `MySQLDriver` and
proofs; (3) `MongoDBDriver`, `CassandraDriver`; (4) `LatencyStats`, (5) `Stats` and
(6) `SampledStats`, each with proofs; (7) `LoadJob` and the refinements of MySQL and
MongoDB; (8) the proof that MySQL's process implements it, with all its safety
properties; (9) the proofs about MongoDB and Cassandra over the shared part; (10) the
proofs about the reports.

Next:

11. The percentile of `Stats` for intervals of more than 101 operations: which of the
    times is printed, as a function of their number.
12. Liveness under a finer fairness of the queue: which of two waiting threads the
    mutex serves.
