----------------------- MODULE CassandraDriverProofs -----------------------
(***************************************************************************)
(* For any number of threads, minutes, devices and processes: the fate of  *)
(* every message, which minutes all loads write, and that a process that   *)
(* loaded anything never returns from main.                                *)
(***************************************************************************)
EXTENDS CassandraDriver, PreparerProofs

USE DEF dbVars, loopVars, reportVars, flags, queueVars, threadVars,
        tsQueueEmpty, tsQueueSize, Tables, Workers, SelectThread, DriverThreads

-----------------------------------------------------------------------------
(* The inductive invariant.                                                *)

\* A thread that has connected is in its loop and never leaves it.
InLoop(w) == pc[w] \in {"pop", "exec", "record"}

\* The threads are started before the first message and stay in the vector;
\* only one that has connected takes messages.
Lifecycle ==
  /\ \/ main \in {"startReporter", "time", "push", "wait_size", "wait_empty"}
     \/ main = "range" /\ mode = "prepare"
     => threads # {}
  /\ threads = {} => sent = << >>
  /\ \A t \in DriverThreads : t \in threads <=> pc[t] # "unborn"
  /\ popped > 0 => \E w \in Workers : InLoop(w)
  /\ main \in {"display", "exited"} => \A t \in threads : pc[t] = "exited"

\* Every process chooses the same first minute and writes into the window of
\* the first, however many rows there are (CassandraDriver.cpp:62-66).
SameWindowForEver ==
  \A r \in rows : r.ts \in (StartTimestamp + 1)..(StartTimestamp + LoadMins)
OneWindow ==
  /\ startTimestamp \in {0, StartTimestamp + 1}
  /\ SameWindowForEver

IInv == ProcessInv /\ Lifecycle /\ OneWindow
-----------------------------------------------------------------------------
(* The steps, as PreparerProofs sees them.                                 *)

\* The row a message is written to.
LEMMA UpsertedIsTyped ==
  ASSUME NEW i, RowOf(i) \in AnyRow
  PROVE  /\ UpsertedRow(i) \in AnyRow
         /\ UpsertedRow(i).ts = RowOf(i).ts
BY DEF UpsertedRow, AnyRow, TheTable

\* The steps of the main thread.
LEMMA MainKinds ==
  ASSUME ProcessTypeOK, Main
  PROVE  \/ MainStep
         \/ CreateSchema /\ Clear
         \/ (Prep \/ Run) /\ Start
         \/ Choose /\ startTimestamp' = StartTimestamp + 1
<1>1. CASE MainStep BY <1>1
<1>2. CASE CreateSchema
  <2>1. tables' \subseteq Tables
    BY <1>2, ConfigAssumption DEF CreateSchema, TheTable, ProcessTypeOK
  <2>2. QED BY <1>2, <2>1 DEF CreateSchema, Clear, Launch
<1>3. CASE Prep \/ Run
  <2>1. Workers \in SUBSET DriverThreads /\ DriverThreads \in SUBSET DriverThreads
    BY ConfigAssumption
  <2>2. threads' \subseteq DriverThreads
    BY <1>3, <2>1 DEF Prep, Run, Spawn, ProcessTypeOK
  <2>3. Start BY <1>3, <2>1, <2>2 DEF Prep, Run, Spawn, Start, Launch
  <2>4. QED BY <1>3, <2>3
<1>4. CASE getTimestampRange
  <2>1. UseRange([min |-> StartTimestamp, max |-> StartTimestamp])
    BY <1>4 DEF getTimestampRange
  <2>2. /\ startTimestamp' = StartTimestamp + 1 /\ startTimestamp' \in Nat \ {0}
        /\ ts' = startTimestamp' /\ UNCHANGED <<dc, table_id, devicesCnt>>
        /\ main' = IF mode = "prepare" THEN "time" ELSE "Run"
    BY <2>1, ConfigAssumption DEF UseRange
  <2>3. Choose BY <1>4, <2>2 DEF getTimestampRange, Choose, Choice
  <2>4. QED BY <2>2, <2>3
<1>5. QED BY <1>1, <1>2, <1>3, <1>4 DEF Main

\* Connecting, or failing to.
LEMMA ConnectMoves ==
  ASSUME NEW t, Goto(t, "connect", "pop") \/ Goto(t, "connect", "exited")
  PROVE  Move(t)
BY GotoMoves DEF Quiet

\* The steps of a loader thread.
LEMMA InsertKinds ==
  ASSUME ProcessTypeOK, EveryMessageHasOneHome, NEW w \in Workers, InsertData(w)
  PROVE  \/ Connect(w) /\ Move(w)
         \/ WaitAndPop(w)
         \/ Finish(w)
         \/ Miss(w)
         \/ Write(w, UpsertedRow(hand[w])) /\ UpsertedRow(hand[w]) \in AnyRow
<1>1. CASE Connect(w) BY <1>1, ConnectMoves DEF Connect
<1>2. CASE InsertQuery(w)
  <2>1. UpsertedRow(hand[w]) \in AnyRow
    BY <1>2, BusyHolds, UpsertedIsTyped DEF InsertQuery
  <2>2. CASE UNCHANGED <<rows, committed>>
    BY <1>2, <2>2 DEF InsertQuery, Miss
  <2>3. CASE ~UNCHANGED <<rows, committed>>
    BY <1>2, <2>1, <2>3 DEF InsertQuery, Write
  <2>4. QED BY <2>2, <2>3
<1>3. CASE Record(w) BY <1>3 DEF Record, Finish
<1>4. QED BY <1>1, <1>2, <1>3 DEF InsertData

\* Every step is one of a process.
LEMMA StepKinds ==
  ASSUME ProcessTypeOK, EveryMessageHasOneHome, [Next]_vars
  PROVE  AnyStep
<1> USE DEF AnyStep, Common
<1>1. CASE Main BY <1>1, MainKinds
<1>2. CASE SelectData
  <2>1. Move(SelectThread) /\ SelectThread \in DriverThreads
    BY <1>2, ConnectMoves, ConfigAssumption DEF SelectData
  <2>2. QED BY <2>1
<1>3. ASSUME NEW w \in Workers, InsertData(w) PROVE AnyStep
  <2>1. w \in DriverThreads BY ConfigAssumption
  <2>2. QED BY <1>3, <2>1, InsertKinds
<1>4. QED BY <1>1, <1>2, <1>3 DEF Next
-----------------------------------------------------------------------------
(* Invariance.                                                             *)

\* The first minute, and with it those of all rows, stay the same.
LEMMA OneWindowStep ==
  ASSUME ProcessInv, OneWindow, [Next]_vars
  PROVE  OneWindow'
<1> USE DEF ProcessInv, Typed, OneWindow, SameWindowForEver
<1>1. CASE MainStep
  BY <1>1 DEF MainStep, StartReporter, NextMinute, PushMessage, PrepWaitSize,
     PrepWaitEmpty, RunWaitSize, LoadFinished, JoinReporter,
     SetProcessingComplete, JoinThreads, DisplayAndReturn
<1>2. CASE CreateSchema \/ Start BY <1>2 DEF CreateSchema, Start, Launch
<1>3. CASE Choose /\ startTimestamp' = StartTimestamp + 1 BY <1>3 DEF Choose
<1>4. CASE SelectData BY <1>4 DEF SelectData, Goto
<1>5. CASE ReporterExits \/ Kill \/ UNCHANGED vars
  BY <1>5 DEF ReporterExits, Kill, vars
<1>6. CASE Restart BY <1>6 DEF Restart
<1>7. ASSUME NEW w \in Workers, InsertData(w) PROVE OneWindow'
  <2>1. CASE Connect(w) BY <2>1 DEF Connect, Goto
  <2>2. CASE WaitAndPop(w) \/ Record(w) BY <2>2 DEF WaitAndPop, Record
  <2>3. CASE InsertQuery(w)
    <3>1. /\ hand[w] \in 1..Len(sent) /\ RowOf(hand[w]) \in AnyRow
      BY <2>3, BusyHolds DEF InsertQuery, ProcessTypeOK
    <3>2. startTimestamp = StartTimestamp + 1
      BY <3>1 DEF Locals, ProcessTypeOK
    <3>3. RowOf(hand[w]).ts \in startTimestamp..(startTimestamp + LoadMins - 1)
      BY <3>1, RowIsMessage DEF Log, Slots
    <3>4. UpsertedRow(hand[w]).ts \in (StartTimestamp + 1)..(StartTimestamp + LoadMins)
      BY <3>1, <3>2, <3>3, UpsertedIsTyped, ConfigAssumption
    <3>5. QED BY <2>3, <3>4 DEF InsertQuery
  <2>4. QED BY <1>7, <2>1, <2>2, <2>3 DEF InsertData
<1>8. QED
  BY <1>1, <1>2, <1>3, <1>4, <1>5, <1>6, <1>7, MainKinds DEF Next

\* A step of a thread that is in the loop keeps it there, and no thread that
\* has exited takes a step.
LEMMA ThreadKeepsLifecycle ==
  ASSUME ProcessInv, Lifecycle, NEW t \in DriverThreads,
         pc[t] \notin {"unborn", "exited"},
         \E to \in ThreadPlaces \ {"unborn"} :
           pc' = [pc EXCEPT ![t] = to] /\ (InLoop(t) => to \in {"pop", "exec", "record"}),
         popped' > 0 => popped > 0 \/ (t \in Workers /\ InLoop(t)),
         UNCHANGED <<main, mode, sent, threads>>
  PROVE  Lifecycle'
<1> USE DEF Lifecycle, ProcessInv, Typed
<1>0. Workers \subseteq DriverThreads /\ popped \in Nat
  BY ConfigAssumption DEF ProcessTypeOK
<1>1. t \in threads OBVIOUS
<1>2. main \notin {"display", "exited"} BY <1>1
<1>3. \A s \in DriverThreads : InLoop(s) => InLoop(s)'
  BY DEF InLoop
<1>4. popped' > 0 => \E w \in Workers : InLoop(w)'
  BY <1>0, <1>3
<1>5. \A s \in DriverThreads : s \in threads <=> pc'[s] # "unborn"
  BY <1>1
<1>6. QED BY <1>2, <1>4, <1>5

\* Lifecycle is inductive.
LEMMA LifecycleStep ==
  ASSUME ProcessInv, Lifecycle, [Next]_vars
  PROVE  Lifecycle'
<1> USE DEF Lifecycle, ProcessInv, Typed, InLoop
<1>0. Workers \subseteq DriverThreads /\ 0 \in Workers /\ SelectThread \in DriverThreads
  BY ConfigAssumption
<1>1. CASE PushMessage BY <1>1 DEF PushMessage
<1>2. CASE MainStep /\ ~PushMessage
  <2>1. UNCHANGED <<sent, popped, threads, pc, mode>>
    BY <1>2 DEF MainStep, StartReporter, NextMinute, PrepWaitSize,
       PrepWaitEmpty, RunWaitSize, LoadFinished, JoinReporter,
       SetProcessingComplete, JoinThreads, DisplayAndReturn
  <2>2. /\ main' \in {"startReporter", "time", "push", "wait_size", "wait_empty"}
             \/ (main' = "range" /\ mode = "prepare")
           => main \in {"startReporter", "time", "push", "wait_size", "wait_empty"}
        /\ main' \in {"display", "exited"} => \A t \in threads : pc[t] = "exited"
    BY <1>2 DEF MainStep, StartReporter, NextMinute, PrepWaitSize,
       PrepWaitEmpty, RunWaitSize, LoadFinished, JoinReporter,
       SetProcessingComplete, JoinThreads, DisplayAndReturn
  <2>3. QED BY <2>1, <2>2
<1>3. CASE CreateSchema BY <1>3 DEF CreateSchema
<1>4. CASE Prep \/ Run
  <2>1. sent = << >> /\ popped = 0
    BY <1>4, NoneBusy DEF Prep, Run, Locals, BeforeLoop
  <2>2. QED BY <1>0, <1>4, <2>1 DEF Prep, Run, Spawn
<1>5. CASE Choose
  BY <1>5 DEF Choose, Choice
<1>6. CASE ReporterExits \/ Kill \/ UNCHANGED vars
  BY <1>6 DEF ReporterExits, Kill, vars
<1>7. CASE Restart BY <1>7 DEF Restart, Entry
<1>8. CASE SelectData
  BY <1>0, <1>8, ThreadKeepsLifecycle DEF SelectData, Goto, ThreadPlaces
<1>9. ASSUME NEW w \in Workers, InsertData(w) PROVE Lifecycle'
  <2>1. CASE Connect(w)
    BY <1>0, <2>1, ThreadKeepsLifecycle DEF Connect, Goto, ThreadPlaces
  <2>2. CASE WaitAndPop(w)
    BY <1>0, <2>2, ThreadKeepsLifecycle DEF WaitAndPop, ThreadPlaces
  <2>3. CASE InsertQuery(w)
    BY <1>0, <2>3, ThreadKeepsLifecycle DEF InsertQuery, ThreadPlaces
  <2>4. CASE Record(w)
    BY <1>0, <2>4, ThreadKeepsLifecycle DEF Record, ThreadPlaces
  <2>5. QED BY <1>9, <2>1, <2>2, <2>3, <2>4 DEF InsertData
<1>10. QED
  BY <1>1, <1>2, <1>3, <1>4, <1>5, <1>6, <1>7, <1>8, <1>9, MainKinds DEF Next

\* The inductive invariant holds in every reachable state.
LEMMA Invariance == Spec => []IInv
<1>1. Init => IInv
  <2>1. Init => Lifecycle /\ OneWindow
    BY DEF Init, Entry, Lifecycle, OneWindow, SameWindowForEver
  <2>2. QED BY <2>1, InitProcess DEF IInv
<1>2. IInv /\ [Next]_vars => IInv'
  BY StepKinds, ProcessStep, LifecycleStep, OneWindowStep DEF IInv, ProcessInv, Typed
<1>3. QED BY <1>1, <1>2, PTL DEF Spec
-----------------------------------------------------------------------------
(* The theorems.                                                           *)

\* The state of the process keeps its types.
THEOREM TypeCorrect == Spec => []ProcessTypeOK
<1>1. IInv => ProcessTypeOK BY DEF IInv, ProcessInv, Typed
<1>2. QED BY <1>1, Invariance, PTL

\* Every message taken from the queue is counted in the statistics once, or in
\* the hand of one thread that will, whether its batch succeeds or fails
\* (CassandraDriver.cpp:112-120, 212-240).
THEOREM PoppedAreCounted == Spec => []PoppedIsCountedOnce
<1>1. IInv => PoppedIsCountedOnce
  <2>1. Workers \subseteq DriverThreads BY ConfigAssumption
  <2>2. QED
    BY <2>1 DEF IInv, ProcessInv, EveryMessageHasOneHome, PoppedIsCountedOnce
<1>2. QED BY <1>1, Invariance, PTL

\* The queue stays as short as wait_size is meant to keep it, and no two
\* minutes of a prepare wait in it at the same time.
THEOREM QueueStaysShort == Spec => [](BackPressure /\ MinuteBarrier)
<1>1. IInv => BackPressure /\ MinuteBarrier
  BY DEF IInv, ProcessInv, Pressure, Barrier
<1>2. QED BY <1>1, Invariance, PTL

\* The finding of FreshKey in general: for any number of processes and minutes,
\* the second and every later process write into the window of the first.
THEOREM WindowNeverMoves == Spec => []SameWindowForEver
<1>1. IInv => SameWindowForEver BY DEF IInv, OneWindow
<1>2. QED BY <1>1, Invariance, PTL

\* processingComplete does not make the threads exit, nor does main ask them in
\* another way: a process in which a thread has taken a message never gets past
\* JoinThreads (CassandraDriver.cpp:112, metricbench.cpp:271-273).
ExitMeansNothingLoaded == main \in {"display", "exited"} => popped = 0

\* For any number of threads and messages: the TODO of CassandraDriver.cpp:112,
\* "have a boolean flag to stop", is what a process that loads is missing.
THEOREM LoadedNeverReturns == Spec => []ExitMeansNothingLoaded
<1>1. IInv => ExitMeansNothingLoaded
  <2> SUFFICES ASSUME IInv, main \in {"display", "exited"}, popped > 0
               PROVE  FALSE
    BY DEF ExitMeansNothingLoaded, IInv, ProcessInv, Typed, ProcessTypeOK
  <2>1. PICK w \in Workers : InLoop(w) BY DEF IInv, Lifecycle
  <2>2. w \in DriverThreads BY ConfigAssumption
  <2>3. QED BY <2>1, <2>2 DEF IInv, Lifecycle, InLoop
<1>2. QED BY <1>1, Invariance, PTL
=============================================================================
