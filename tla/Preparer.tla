------------------------------ MODULE Preparer ------------------------------
(***************************************************************************)
(* One process of metricbench: main() (metricbench.cpp), the Preparer that *)
(* produces the load (Preparer.cpp), the bookkeeping of GenericDriver, and *)
(* the state of the database and of the driver's threads.  The threads'    *)
(* own steps, and the virtual functions CreateSchema, Prep, Run and        *)
(* getTimestampRange, belong to the driver modules that extend this one.   *)
(*                                                                         *)
(* Time is counted in minutes (60 in the code).  tsQueue is the log of     *)
(* everything pushed and the number of messages popped: its operations are *)
(* one step each, which TSQueue justifies (TSQueueProofs!RefinesFifo).     *)
(***************************************************************************)
EXTENDS Integers, Sequences, FiniteSets

CONSTANTS
  LoaderThreads,   \* Config::LoaderThreads
  LoadMins,        \* Config::LoadMins
  DBTables,        \* Config::DBTables
  MaxDevices,      \* Config::MaxDevices
  StartTimestamp,  \* Config::StartTimestamp
  RunQueueFactor,  \* messages per thread that run mode lets wait: 100000
  Modes,           \* the modes the processes are started in
  MaxProcs         \* model bound: processes run one after the other

ASSUME ConfigAssumption ==
  /\ LoaderThreads \in Nat \ {0}
  /\ LoadMins \in Nat \ {0}
  /\ DBTables \in Nat \ {0}
  /\ MaxDevices \in Nat \ {0}
  /\ StartTimestamp \in Nat \ {0}
  /\ RunQueueFactor \in Nat
  /\ Modes \subseteq {"prepare", "run"}
  /\ MaxProcs \in Nat

Tables == 1..DBTables
Workers == 0..(LoaderThreads - 1)      \* the threads that run InsertData
SelectThread == LoaderThreads          \* the thread that runs SelectData
DriverThreads == 0..LoaderThreads

VARIABLES
  tables,       \* database: the metrics tables that exist
  rows,         \* database: [table_id, ts, device_id] with rows in it
  mode,         \* Config::runMode
  main,         \* where the main thread is
  retval,       \* main()'s retval
  startTimestamp, ts, dc, table_id, devicesCnt,   \* locals of Prep and Run
  progressLoad, \* Preparer::progressLoad
  reporter,     \* the progress thread: "none", "printing", "exited"
  processingComplete,   \* Config::processingComplete
  sent,         \* every message pushed to tsQueue by this process
  popped,       \* how many of them have been popped
  threads,      \* GenericDriver::threads: the threads JoinThreads joins
  pc,           \* where each thread of the driver is
  hand,         \* index in sent of the message a thread works on, 0: none
  committed,    \* indices of the messages whose rows are in the database
  recorded,     \* indices of the messages whose latency is recorded
  procs         \* processes started so far

dbVars == <<tables, rows>>
loopVars == <<startTimestamp, ts, dc, table_id, devicesCnt>>
reportVars == <<progressLoad, reporter>>
flags == <<mode, retval, processingComplete, procs>>
queueVars == <<sent, popped>>
threadVars == <<threads, pc, hand, committed, recorded>>

vars == <<dbVars, loopVars, reportVars, flags, queueVars, threadVars, main>>

Messages == [ts : Nat, device_id : Nat, table_id : Nat]

\* The process is running: neither returned from main nor std::terminate.
Alive == main \notin {"exited", "aborted"}

\* tsQueue.
tsQueueSize == Len(sent) - popped
tsQueueEmpty == tsQueueSize = 0

Entry(m) == IF m = "prepare" THEN "CreateSchema" ELSE "range"

\* No table exists before the first prepare.
Init ==
  /\ tables = {} /\ rows = {}
  /\ mode \in Modes
  /\ main = Entry(mode)
  /\ retval = "success"
  /\ startTimestamp = 0 /\ ts = 0 /\ dc = 0 /\ table_id = 0 /\ devicesCnt = 0
  /\ progressLoad = TRUE /\ reporter = "none"
  /\ processingComplete = FALSE
  /\ sent = << >> /\ popped = 0
  /\ threads = {}
  /\ pc = [t \in DriverThreads |-> "unborn"]
  /\ hand = [t \in DriverThreads |-> 0]
  /\ committed = {} /\ recorded = {}
  /\ procs = 1

\* The user starts the program again; of the old process the database is left.
Restart ==
  /\ ~Alive
  /\ procs < MaxProcs
  /\ procs' = procs + 1
  /\ mode' \in Modes
  /\ main' = Entry(mode')
  /\ retval' = "success"
  /\ startTimestamp' = 0 /\ ts' = 0 /\ dc' = 0 /\ table_id' = 0 /\ devicesCnt' = 0
  /\ progressLoad' = TRUE /\ reporter' = "none"
  /\ processingComplete' = FALSE
  /\ sent' = << >> /\ popped' = 0
  /\ threads' = {}
  /\ pc' = [t \in DriverThreads |-> "unborn"]
  /\ hand' = [t \in DriverThreads |-> 0]
  /\ committed' = {} /\ recorded' = {}
  /\ UNCHANGED dbVars

\* The user or the system kills the process; a transaction the server has not
\* finished is rolled back.
Kill ==
  /\ Alive
  /\ main' = "aborted"
  /\ UNCHANGED <<dbVars, loopVars, reportVars, flags, queueVars, threadVars>>
-----------------------------------------------------------------------------
(* Ends of the paths through Prep and Run that throw.                      *)

\* main() catches the runtime_error and goes on to JoinThreads.
CaughtByMain ==
  /\ main' = "complete"
  /\ retval' = "failure"
  /\ UNCHANGED <<mode, processingComplete, procs>>

\* std::terminate: an exception leaves a thread, or unwinds past the
\* joinable threadReporter.
Terminate == main' = "aborted" /\ UNCHANGED flags
-----------------------------------------------------------------------------
(* Preparer::Prep and Preparer::Run around the calls to the driver.        *)

StartReporter ==
  /\ main = "startReporter"
  /\ reporter' = "printing"
  /\ main' = IF mode = "prepare" THEN "range" ELSE "time"
  /\ UNCHANGED <<dbVars, loopVars, progressLoad, flags, queueVars, threadVars>>

\* getTimestampRange(0) returned; prepare then starts its loop, run first
\* starts the driver's threads.
UseRange(tsRange) ==
  /\ startTimestamp' = IF mode = "prepare" /\ tsRange.max + 1 < StartTimestamp
                         THEN StartTimestamp
                         ELSE tsRange.max + 1
  /\ ts' = startTimestamp'
  /\ main' = IF mode = "prepare" THEN "time" ELSE "Run"
  /\ UNCHANGED <<dc, table_id, devicesCnt>>

\* The for loop over ts; run draws the number of devices from PGen.
NextMinute ==
  /\ main = "time"
  /\ ts < startTimestamp + LoadMins
  /\ devicesCnt' \in IF mode = "prepare" THEN {MaxDevices} ELSE 1..MaxDevices
  /\ dc' = 1
  /\ table_id' = 1
  /\ main' = "push"
  /\ UNCHANGED <<dbVars, startTimestamp, ts, reportVars, flags, queueVars,
                 threadVars>>

\* tsQueue.push and the step to the next table or device: prepare calls
\* wait_size after each device, run after the last one.
PushMessage ==
  /\ main = "push"
  /\ sent' = Append(sent, [ts |-> ts, device_id |-> dc, table_id |-> table_id])
  /\ \/ /\ table_id < DBTables
        /\ table_id' = table_id + 1
        /\ UNCHANGED <<main, dc>>
     \/ /\ table_id = DBTables
        /\ mode = "run" /\ dc < devicesCnt
        /\ dc' = dc + 1
        /\ table_id' = 1
        /\ UNCHANGED main
     \/ /\ table_id = DBTables
        /\ mode = "prepare" \/ dc = devicesCnt
        /\ main' = "wait_size"
        /\ UNCHANGED <<dc, table_id>>
  /\ UNCHANGED <<dbVars, startTimestamp, ts, devicesCnt, reportVars, flags,
                 popped, threadVars>>

\* Mutated form of PrepWaitSize: waits after the last device only.
PrepWaitSize_each_minute ==
  /\ main = "wait_size" /\ mode = "prepare"
  /\ \/ /\ dc < devicesCnt
        /\ dc' = dc + 1
        /\ table_id' = 1
        /\ main' = "push"
     \/ /\ dc = devicesCnt
        /\ tsQueueSize <= LoaderThreads * 2
        /\ main' = "wait_empty"
        /\ UNCHANGED <<dc, table_id>>
  /\ UNCHANGED <<dbVars, startTimestamp, ts, devicesCnt, reportVars, flags,
                 queueVars, threadVars>>

\* Prep: tsQueue.wait_size(LoaderThreads*2), once for each device.
PrepWaitSize ==
  /\ main = "wait_size" /\ mode = "prepare"
  /\ tsQueueSize <= LoaderThreads * 2
  /\ \/ /\ dc < devicesCnt
        /\ dc' = dc + 1
        /\ table_id' = 1
        /\ main' = "push"
     \/ /\ dc = devicesCnt
        /\ main' = "wait_empty"
        /\ UNCHANGED <<dc, table_id>>
  /\ UNCHANGED <<dbVars, startTimestamp, ts, devicesCnt, reportVars, flags,
                 queueVars, threadVars>>

\* Mutated form of PrepWaitEmpty: does not wait.
PrepWaitEmpty_without_wait ==
  /\ main = "wait_empty"
  /\ ts' = ts + 1
  /\ main' = "time"
  /\ UNCHANGED <<dbVars, startTimestamp, dc, table_id, devicesCnt, reportVars,
                 flags, queueVars, threadVars>>

\* Prep: tsQueue.wait_empty(), once for each minute.
PrepWaitEmpty ==
  /\ main = "wait_empty"
  /\ tsQueueEmpty
  /\ ts' = ts + 1
  /\ main' = "time"
  /\ UNCHANGED <<dbVars, startTimestamp, dc, table_id, devicesCnt, reportVars,
                 flags, queueVars, threadVars>>

\* Mutated form of RunWaitSize: does not wait.
RunWaitSize_without_wait ==
  /\ main = "wait_size" /\ mode = "run"
  /\ ts' = ts + 1
  /\ main' = "time"
  /\ UNCHANGED <<dbVars, startTimestamp, dc, table_id, devicesCnt, reportVars,
                 flags, queueVars, threadVars>>

\* Run: tsQueue.wait_size(LoaderThreads*100000), once for each minute.
RunWaitSize ==
  /\ main = "wait_size" /\ mode = "run"
  /\ tsQueueSize <= LoaderThreads * RunQueueFactor
  /\ ts' = ts + 1
  /\ main' = "time"
  /\ UNCHANGED <<dbVars, startTimestamp, dc, table_id, devicesCnt, reportVars,
                 flags, queueVars, threadVars>>

\* Mutated form of LoadFinished: progressLoad stays true.
LoadFinished_without_flag ==
  /\ main = "time"
  /\ ts >= startTimestamp + LoadMins
  /\ main' = "joinReporter"
  /\ UNCHANGED <<dbVars, loopVars, reportVars, flags, queueVars, threadVars>>

LoadFinished ==
  /\ main = "time"
  /\ ts >= startTimestamp + LoadMins
  /\ progressLoad' = FALSE
  /\ main' = "joinReporter"
  /\ UNCHANGED <<dbVars, loopVars, reporter, flags, queueVars, threadVars>>

JoinReporter ==
  /\ main = "joinReporter"
  /\ reporter = "exited"
  /\ main' = "complete"
  /\ UNCHANGED <<dbVars, loopVars, reportVars, flags, queueVars, threadVars>>

\* prepProgressPrint: prints until progressLoad is false.
ReporterExits ==
  /\ Alive
  /\ reporter = "printing"
  /\ ~progressLoad
  /\ reporter' = "exited"
  /\ UNCHANGED <<dbVars, loopVars, progressLoad, flags, queueVars, threadVars,
                 main>>
-----------------------------------------------------------------------------
(* main() after Prep or Run.                                               *)

SetProcessingComplete ==
  /\ main = "complete"
  /\ processingComplete' = TRUE
  /\ main' = "JoinThreads"
  /\ UNCHANGED <<dbVars, loopVars, reportVars, mode, retval, procs, queueVars,
                 threadVars>>

\* GenericDriver::JoinThreads.
JoinThreads ==
  /\ main = "JoinThreads"
  /\ \A t \in threads : pc[t] = "exited"
  /\ main' = "display"
  /\ UNCHANGED <<dbVars, loopVars, reportVars, flags, queueVars, threadVars>>

\* displayLatencyStats, then return retval.
DisplayAndReturn ==
  /\ main = "display"
  /\ main' = "exited"
  /\ UNCHANGED <<dbVars, loopVars, reportVars, flags, queueVars, threadVars>>

\* The steps of the main thread that do not call the driver.
MainStep ==
  \/ StartReporter
  \/ NextMinute
  \/ PushMessage
  \/ PrepWaitSize
  \/ PrepWaitEmpty
  \/ RunWaitSize
  \/ LoadFinished
  \/ JoinReporter
  \/ SetProcessingComplete
  \/ JoinThreads
  \/ DisplayAndReturn
-----------------------------------------------------------------------------
(* What the drivers' threads share.                                        *)

\* The constructor of a thread for each index in new; joinable ones are
\* moved into GenericDriver::threads, the others are detached.
Spawn(new, joinable) ==
  /\ pc' = [t \in DriverThreads |-> IF t \in new THEN "connect" ELSE pc[t]]
  /\ threads' = threads \cup joinable
  /\ UNCHANGED <<hand, committed, recorded>>

\* A step of a driver thread that only moves it.
Goto(t, from, to) ==
  /\ Alive
  /\ pc[t] = from
  /\ pc' = [pc EXCEPT ![t] = to]
  /\ UNCHANGED <<dbVars, loopVars, reportVars, flags, queueVars, threads, hand,
                 committed, recorded, main>>

\* A step of a driver thread that throws.
Throw(t, from) ==
  /\ Alive
  /\ pc[t] = from
  /\ Terminate
  /\ UNCHANGED <<loopVars, reportVars, queueVars, threads, pc, hand, recorded>>

\* Mutated form of WaitAndPop: reads front() without pop().
WaitAndPop_leaves_front(t) ==
  /\ Alive
  /\ pc[t] = "pop"
  /\ ~tsQueueEmpty
  /\ hand' = [hand EXCEPT ![t] = popped + 1]
  /\ pc' = [pc EXCEPT ![t] = "exec"]
  /\ UNCHANGED <<dbVars, loopVars, reportVars, flags, queueVars, threads,
                 committed, recorded, main>>

\* tsQueue.wait_and_pop(m), by the thread at that call.
WaitAndPop(t) ==
  /\ Alive
  /\ pc[t] = "pop"
  /\ ~tsQueueEmpty
  /\ popped' = popped + 1
  /\ hand' = [hand EXCEPT ![t] = popped + 1]
  /\ pc' = [pc EXCEPT ![t] = "exec"]
  /\ UNCHANGED <<dbVars, loopVars, reportVars, flags, sent, threads, committed,
                 recorded, main>>

\* The rows of the message at index i of the log.
RowOf(i) == [table_id |-> sent[i].table_id, ts |-> sent[i].ts,
             device_id |-> sent[i].device_id]
-----------------------------------------------------------------------------
MainPlaces == {"CreateSchema", "Prep", "startReporter", "range", "Run", "time",
               "push", "wait_size", "wait_empty", "joinReporter", "complete",
               "JoinThreads", "display", "exited", "aborted"}

\* The types of the variables; the places of the threads are the drivers'.
ProcessTypeOK ==
  /\ tables \subseteq Tables
  /\ rows \subseteq [table_id : Nat, ts : Nat, device_id : Nat]
  /\ mode \in Modes
  /\ main \in MainPlaces
  /\ retval \in {"success", "failure"}
  /\ startTimestamp \in Nat /\ ts \in Nat
  /\ dc \in Nat /\ table_id \in Nat /\ devicesCnt \in Nat
  /\ progressLoad \in BOOLEAN
  /\ reporter \in {"none", "printing", "exited"}
  /\ processingComplete \in BOOLEAN
  /\ sent \in Seq(Messages)
  /\ popped \in 0..Len(sent)
  /\ threads \subseteq DriverThreads
  /\ hand \in [DriverThreads -> 0..popped]
  /\ committed \subseteq 1..popped
  /\ recorded \subseteq 1..popped
  /\ procs \in Nat

\* A popped message is in the hands of one thread until its latency is
\* recorded: on the way from wait_and_pop to the record no thread drops it and
\* no second one has it (MySQLDriver.cpp:153-178, 331-340).
Busy(t) == pc[t] \in {"exec", "record"}
EveryMessageHasOneHome ==
  /\ \A t \in DriverThreads : hand[t] # 0 <=> Busy(t)
  /\ \A s, t \in DriverThreads : hand[s] = hand[t] /\ hand[s] # 0 => s = t
  /\ \A i \in 1..popped : i \in recorded \/ \E t \in Workers : hand[t] = i
  /\ \A t \in Workers : hand[t] \notin recorded

\* The queue stays short: what wait_size lets through, and the messages of
\* one device (prepare) or one minute (run) (Preparer.cpp:76, 151).
BackPressure ==
  tsQueueSize <= IF mode = "prepare"
                   THEN LoaderThreads * 2 + DBTables
                   ELSE LoaderThreads * RunQueueFactor + MaxDevices * DBTables

\* While prepare pushes one minute no message of another is waiting
\* (Preparer.cpp:79).
MinuteBarrier ==
  mode = "prepare" =>
    \A i, j \in (popped + 1)..Len(sent) : sent[i].ts = sent[j].ts

\* However the process ends, of the messages older than the newest one in
\* the database fewer than LoaderThreads are missing (MySQLDriver.cpp:157-161).
CrashHoles ==
  \A n \in committed : Cardinality((1..n) \ committed) < LoaderThreads

\* The process as a LoadJob: what its main thread has told the world.
JobPhase ==
  IF main = "exited" /\ retval = "success" THEN "done"
  ELSE IF ~Alive THEN "failed"
  ELSE IF startTimestamp = 0 THEN "new" ELSE "loading"

\* Prep or Run is over, one way or another.
AfterAll == main \in {"complete", "JoinThreads", "display", "exited", "aborted"}

\* The load comes to an end: main never waits forever in wait_size or
\* wait_empty, nor for the reporter (Preparer.cpp:76-86, 151-158).
ProducerFinishes == []<>AfterAll

\* Every process ends (metricbench.cpp:271-278).
ProcessEnds == []<>~Alive

\* processingComplete is "used to instruct driver threads to exit"
\* (Config.hpp:76): once it is set, all of them do.
DriverThreadsExit ==
  processingComplete ~> (~Alive \/ \A t \in threads : pc[t] = "exited")
=============================================================================
