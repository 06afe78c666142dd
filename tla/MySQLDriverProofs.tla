------------------------- MODULE MySQLDriverProofs -------------------------
(***************************************************************************)
(* For any number of threads, minutes, tables, devices and processes: the  *)
(* types, the fate of every message, what holds when main has joined the   *)
(* threads of MySQLDriver, and that the process is a LoadJob.              *)
(***************************************************************************)
EXTENDS MySQLDriver, PreparerProofs

USE DEF dbVars, loopVars, reportVars, flags, queueVars, threadVars,
        tsQueueEmpty, tsQueueSize, Tables, Workers, SelectThread, DriverThreads

-----------------------------------------------------------------------------
(* The inductive invariant.                                                *)

\* The threads are started before the first message and stay in the vector;
\* processingComplete is set when nothing is pushed any more.
BeforeThreads ==
  main \in {"CreateSchema", "Prep", "Run"} \/ (main = "range" /\ mode = "run")
Loading ==
  \/ main \in {"startReporter", "time", "push", "wait_size", "wait_empty",
               "joinReporter"}
  \/ main = "range" /\ mode = "prepare"
Lifecycle ==
  /\ BeforeThreads => threads = {}
  /\ Loading => threads # {}
  /\ threads = {} => sent = << >>
  /\ threads # {} => Workers \subseteq threads
  /\ \A t \in DriverThreads : t \in threads <=> pc[t] # "unborn"
  /\ processingComplete => main \in {"JoinThreads", "display", "exited", "aborted"}

\* For every message in the database some thread holds no older message that
\* is not: the one that inserted it, which since then takes newer ones only.
OneAhead ==
  \A n \in committed : \E v \in Workers :
    hand[v] = 0 \/ hand[v] >= n \/ hand[v] \in committed

\* A thread that leaves has seen processingComplete first and an empty queue
\* after it.
Drained ==
  /\ \A w \in Workers : pc[w] = "drain" => processingComplete
  /\ \A w \in Workers : pc[w] = "exited" => processingComplete /\ popped = Len(sent)
  /\ main \in {"display", "exited"} => \A t \in threads : pc[t] = "exited"

\* After a successful CreateSchema a prepare finds its own rows only.
OnlyMine ==
  mode = "prepare" /\ retval = "success" /\ main \notin {"CreateSchema", "aborted"} =>
    \A r \in rows : \E c \in committed : r = RowOf(c)

-----------------------------------------------------------------------------
(* The steps, as PreparerProofs sees them.                                 *)

\* The types of the driver are those of any process.
LEMMA TypesAgree == TypeOK <=> Typed
BY DEF TypeOK, Typed, Places, ThreadPlaces

\* All steps of InsertData but the four that touch hand or rows are moves.
LEMMA InsertMoves ==
  ASSUME NEW w, Connect(w) \/ InsertLoop(w) \/ Peek(w)
  PROVE  Move(w)
<1> USE GotoMoves, ThrowMoves DEF Quiet
<1>1. CASE Connect(w) BY <1>1 DEF Connect
<1>2. CASE InsertLoop(w) BY <1>2 DEF InsertLoop, Leave
<1>3. CASE Peek(w) BY <1>3 DEF Peek
<1>4. QED BY <1>1, <1>2, <1>3

\* So is every step of SelectData.
LEMMA SelectMoves ==
  ASSUME SelectData
  PROVE  Move(SelectThread)
<1>1. ASSUME NEW t, t = SelectThread, SelectData PROVE Move(t)
  BY <1>1, GotoMoves, ThrowMoves DEF SelectData, SelectQuery, Connect, Leave, Quiet
<1>2. QED BY <1>1

\* The range read from the database begins after every row.
LEMMA RangeIsFresh ==
  ASSUME TypeOK, Rows, NEW range \in TimestampRanges(0)
  PROVE  range.max \in Nat /\ \A r \in rows : r.ts <= range.max
<1> DEFINE scanned == TablesScanned(0)
           times == {r.ts : r \in {r \in rows : r.table_id \in scanned}}
                    \cup {StartTimestamp}
<1>1. scanned = Tables BY DEF TablesScanned
<1>2. \A r \in rows : r.ts \in times BY <1>1 DEF Rows
<1>3. \A x \in times : x <= range.max
  BY DEF TimestampRanges
<1>4. range.max \in times BY DEF TimestampRanges
<1>5. times \subseteq Nat BY ConfigAssumption DEF TypeOK, ProcessTypeOK
<1>6. QED BY <1>2, <1>3, <1>4, <1>5

\* The steps of the main thread.
LEMMA MainKinds ==
  ASSUME TypeOK, Locals, Rows, Main
  PROVE  OwnStep
<1> USE DEF Common
<1>1. CASE MainStep
  BY <1>1, OnlyChoice DEF MainStep, StartReporter, NextMinute, PushMessage,
     PrepWaitSize, PrepWaitEmpty, RunWaitSize, LoadFinished, JoinReporter,
     SetProcessingComplete, JoinThreads, DisplayAndReturn
<1>2. CASE CreateSchema
  <2>1. main = "CreateSchema" /\ Launch
    BY <1>2 DEF CreateSchema, CaughtByMain, Launch
  <2>2. tables' \subseteq Tables /\ rows' \subseteq rows
    <3>1. \A k \in 0..DBTables : 1..k \subseteq Tables BY ConfigAssumption
    <3>2. tables \subseteq Tables BY DEF TypeOK, ProcessTypeOK
    <3>3. QED BY <1>2, <3>1, <3>2 DEF CreateSchema
  <2>3. Clear BY <1>2, <2>1, <2>2 DEF CreateSchema, CaughtByMain, Clear
  <2>4. QED BY <2>1, <2>3, OnlyChoice
<1>3. CASE Prep \/ Run
  <2>1. Workers \in SUBSET DriverThreads /\ DriverThreads \in SUBSET DriverThreads
    BY ConfigAssumption
  <2>2. threads' \subseteq DriverThreads
    BY <1>3, <2>1 DEF Prep, Run, Spawn, TypeOK, ProcessTypeOK
  <2>3. Start BY <1>3, <2>1, <2>2 DEF Prep, Run, Spawn, Start, Launch
  <2>4. QED BY <2>3, OnlyChoice DEF Start
<1>4. CASE getTimestampRange
  <2>1. PICK range \in TimestampRanges(0) : UseRange(range)
    BY <1>4 DEF getTimestampRange
  <2>2. range.max \in Nat /\ \A r \in rows : r.ts <= range.max
    BY RangeIsFresh
  <2>3. /\ startTimestamp' \in Nat \ {0} /\ startTimestamp' > range.max
        /\ ts' = startTimestamp' /\ UNCHANGED <<dc, table_id, devicesCnt>>
        /\ main' = IF mode = "prepare" THEN "time" ELSE "Run"
    BY <2>1, <2>2, ConfigAssumption DEF UseRange
  <2>4. Choose BY <1>4, <2>3 DEF getTimestampRange, Choose, Choice
  <2>5. \A r \in rows : r.ts < startTimestamp'
    BY <2>2, <2>3 DEF TypeOK, ProcessTypeOK
  <2>6. QED BY <2>4, <2>5 DEF OwnStep
<1>5. CASE RangeThrows
  <2>1. RangeFails
    BY <1>5 DEF RangeThrows, Terminate, CaughtByMain, RangeFails, Launch
  <2>2. QED BY <1>5, <2>1, OnlyChoice DEF RangeThrows, Terminate, CaughtByMain
<1>6. QED BY <1>1, <1>2, <1>3, <1>4, <1>5 DEF Main

\* The steps of a loader thread.
LEMMA InsertKinds ==
  ASSUME TypeOK, NEW w \in Workers, InsertData(w)
  PROVE  OwnStep
<1>1. w \in DriverThreads BY ConfigAssumption
<1> USE DEF Common
<1>2. CASE Connect(w) \/ InsertLoop(w) \/ Peek(w)
  BY <1>1, <1>2, InsertMoves, OnlyChoice DEF Move
<1>3. CASE WaitAndPop(w) BY <1>3, OnlyChoice DEF WaitAndPop
<1>4. CASE InsertQuery(w)
  <2>1. Write(w, RowOf(hand[w])) BY <1>4 DEF InsertQuery, Write
  <2>2. QED BY <2>1 DEF OwnStep
<1>5. CASE InsertThrows(w)
  <2>1. CASE UNCHANGED <<rows, committed>>
    <3>1. Kill BY <1>5, <2>1 DEF InsertThrows, Throw, Terminate, Kill
    <3>2. QED BY <3>1, OnlyChoice DEF Kill
  <2>2. CASE ~UNCHANGED <<rows, committed>>
    <3>1. Write(w, RowOf(hand[w]))
      BY <1>5, <2>2 DEF InsertThrows, Throw, Terminate, Write
    <3>2. QED BY <3>1 DEF OwnStep
  <2>3. QED BY <2>1, <2>2
<1>6. CASE Record(w)
  <2>1. Finish(w) BY <1>6 DEF Record, Finish
  <2>2. QED BY <2>1, OnlyChoice DEF Finish
<1>7. QED
  BY <1>2, <1>3, <1>4, <1>5, <1>6, InsertData(w) DEF InsertData

\* Every step is one of a driver in which each message has its own row.
LEMMA StepKinds ==
  ASSUME TypeOK, Locals, Rows, [Next]_vars
  PROVE  OwnStep
<1> USE DEF Common
<1>1. CASE SelectData
  <2>1. Move(SelectThread) /\ SelectThread \in DriverThreads
    BY <1>1, SelectMoves, ConfigAssumption
  <2>2. QED BY <2>1, OnlyChoice DEF Move
<1>2. CASE ReporterExits \/ Kill \/ UNCHANGED vars
  BY <1>2, OnlyChoice DEF ReporterExits, Kill, vars
<1>3. CASE Restart BY <1>3, OnlyChoice DEF Restart, Alive
<1>4. QED BY <1>1, <1>2, <1>3, MainKinds, InsertKinds DEF Next

\* OnlyMine is inductive relative to the rest.
LEMMA OnlyMineStep ==
  ASSUME TypeOK, ProcessInv, OnlyMine, [Next]_vars
  PROVE  OnlyMine'
<1> USE DEF ProcessInv, Typed
<1>0. /\ committed \subseteq 1..Len(sent)
      /\ UNCHANGED sent => \A c \in committed : RowOf(c)' = RowOf(c)
  BY DEF ProcessTypeOK, RowOf
<1>1. CASE PushMessage
  <2>1. \A c \in committed : sent'[c] = sent[c]
    BY <1>0, <1>1 DEF PushMessage, ProcessTypeOK
  <2>2. \A c \in committed : RowOf(c)' = RowOf(c) BY <2>1 DEF RowOf
  <2>3. QED BY <1>1, <2>2 DEF PushMessage, OnlyMine
<1>2. CASE MainStep /\ ~PushMessage
  <2>1. /\ UNCHANGED <<rows, committed, sent, mode, retval>>
        /\ main \notin {"CreateSchema", "aborted"}
    BY <1>2 DEF MainStep, StartReporter, NextMinute,
       PrepWaitSize, PrepWaitEmpty, RunWaitSize, LoadFinished, JoinReporter,
       SetProcessingComplete, JoinThreads, DisplayAndReturn
  <2>2. QED BY <1>0, <2>1 DEF OnlyMine
<1>3. CASE CreateSchema BY <1>3 DEF CreateSchema, CaughtByMain, OnlyMine
<1>4. CASE Prep \/ Run \/ getTimestampRange \/ RangeThrows
  BY <1>0, <1>4 DEF Prep, Run, Spawn, getTimestampRange, UseRange, RangeThrows,
     Terminate, CaughtByMain, OnlyMine
<1>5. ASSUME NEW t, Move(t) PROVE OnlyMine'
  BY <1>0, <1>5 DEF Move, OnlyMine
<1>6. CASE ReporterExits \/ Kill \/ UNCHANGED vars
  BY <1>0, <1>6 DEF ReporterExits, Kill, vars, OnlyMine
<1>7. CASE Restart BY <1>7 DEF Restart, Entry, OnlyMine, Locals
<1>8. ASSUME NEW w \in Workers, InsertData(w) PROVE OnlyMine'
  <2>1. CASE Connect(w) \/ InsertLoop(w) \/ Peek(w)
    BY <1>5, <2>1, InsertMoves
  <2>2. CASE WaitAndPop(w) \/ Record(w)
    BY <1>0, <2>2 DEF WaitAndPop, Record, OnlyMine
  <2>3. CASE InsertQuery(w)
    <3>1. \A c : RowOf(c)' = RowOf(c) BY <2>3 DEF InsertQuery, RowOf
    <3>2. QED BY <2>3, <3>1 DEF InsertQuery, OnlyMine
  <2>4. CASE InsertThrows(w)
    BY <2>4 DEF InsertThrows, Throw, Terminate, OnlyMine
  <2>5. QED BY <1>8, <2>1, <2>2, <2>3, <2>4 DEF InsertData
<1>9. QED
  BY <1>2, <1>1, <1>3, <1>4, <1>5, <1>6, <1>7, <1>8, SelectMoves DEF Next, Main
-----------------------------------------------------------------------------
(* What the steps leave alone.                                             *)

\* The main thread starts threads and pushes messages; it takes none.
LEMMA MainFrame ==
  ASSUME TypeOK, Lifecycle, Main
  PROVE  /\ UNCHANGED <<hand, recorded, committed, popped>>
         /\ UNCHANGED sent \/ (main = "push" /\ Len(sent') = Len(sent) + 1)
         /\ \A t \in DriverThreads :
              pc'[t] = pc[t] \/ (pc[t] = "unborn" /\ pc'[t] = "connect")
<1> USE DEF TypeOK, ProcessTypeOK
<1>1. CASE PushMessage BY <1>1 DEF PushMessage
<1>2. CASE MainStep /\ ~PushMessage
  BY <1>2 DEF MainStep, StartReporter, NextMinute, PrepWaitSize, PrepWaitEmpty,
     RunWaitSize, LoadFinished, JoinReporter, SetProcessingComplete,
     JoinThreads, DisplayAndReturn
<1>3. CASE Prep \/ Run
  BY <1>3 DEF Prep, Run, Spawn, Lifecycle, BeforeThreads
<1>4. CASE CreateSchema \/ getTimestampRange \/ RangeThrows
  BY <1>4 DEF CreateSchema, getTimestampRange, RangeThrows
<1>5. QED BY <1>1, <1>2, <1>3, <1>4 DEF Main

\* The order in which the main thread, the threads and their flags change.
LEMMA LifecycleStep ==
  TypeOK /\ Lifecycle /\ [Next]_vars => Lifecycle'
<1> SUFFICES ASSUME TypeOK, Lifecycle, [Next]_vars PROVE Lifecycle'
  OBVIOUS
<1> USE ConfigAssumption DEF TypeOK, ProcessTypeOK, Lifecycle, BeforeThreads, Loading
<1>1. CASE MainStep
  <2>1. CASE StartReporter BY <2>1 DEF StartReporter
  <2>2. CASE NextMinute BY <2>2 DEF NextMinute
  <2>3. CASE PushMessage BY <2>3 DEF PushMessage
  <2>4. CASE PrepWaitSize BY <2>4 DEF PrepWaitSize
  <2>5. CASE PrepWaitEmpty BY <2>5 DEF PrepWaitEmpty
  <2>6. CASE RunWaitSize BY <2>6 DEF RunWaitSize
  <2>7. CASE LoadFinished BY <2>7 DEF LoadFinished
  <2>8. CASE JoinReporter BY <2>8 DEF JoinReporter
  <2>9. CASE SetProcessingComplete BY <2>9 DEF SetProcessingComplete
  <2>10. CASE JoinThreads BY <2>10 DEF JoinThreads
  <2>11. CASE DisplayAndReturn BY <2>11 DEF DisplayAndReturn
  <2>12. QED
    BY <1>1, <2>1, <2>2, <2>3, <2>4, <2>5, <2>6, <2>7, <2>8, <2>9, <2>10,
       <2>11 DEF MainStep
<1>2. CASE CreateSchema BY <1>2 DEF CreateSchema, CaughtByMain
<1>3. CASE Prep BY <1>3 DEF Prep, Spawn
<1>4. CASE Run BY <1>4 DEF Run, Spawn
<1>5. CASE getTimestampRange BY <1>5 DEF getTimestampRange, UseRange
<1>6. CASE RangeThrows BY <1>6 DEF RangeThrows, Terminate, CaughtByMain
<1>7. CASE ReporterExits BY <1>7 DEF ReporterExits
<1>8. CASE Kill BY <1>8 DEF Kill
<1>9. CASE Restart BY <1>9 DEF Restart, Entry
<1>10. CASE UNCHANGED vars BY <1>10 DEF vars
<1> DEFINE Moved(t) == t \in DriverThreads /\ Move(t)
<1>0. ASSUME NEW t, Moved(t) PROVE Lifecycle'
  BY <1>0 DEF Move, Quiet
<1>11. CASE SelectData BY <1>0, <1>11, SelectMoves
<1>12. ASSUME NEW w \in Workers, InsertData(w) PROVE Lifecycle'
  <2>1. CASE Connect(w) \/ InsertLoop(w) \/ Peek(w)
    <3>1. w \in DriverThreads OBVIOUS
    <3>2. QED BY <1>0, <2>1, <3>1, InsertMoves
  <2>2. CASE WaitAndPop(w) BY <2>2 DEF WaitAndPop
  <2>3. CASE InsertQuery(w) BY <2>3 DEF InsertQuery
  <2>4. CASE InsertThrows(w) BY <2>4 DEF InsertThrows, Throw, Terminate
  <2>5. CASE Record(w) BY <2>5 DEF Record
  <2>6. QED BY <1>12, <2>1, <2>2, <2>3, <2>4, <2>5 DEF InsertData
<1>13. QED
  BY <1>1, <1>2, <1>3, <1>4, <1>5, <1>6, <1>7, <1>8, <1>9, <1>10, <1>11,
     <1>12 DEF Next, Main
-----------------------------------------------------------------------------
(* The end of the threads.                                                 *)

\* A step of the loop goes to "drain", "exited" or "pop" only on what the
\* thread has just read.
LEMMA LoopReads ==
  ASSUME TypeOK, NEW w \in DriverThreads,
         Connect(w) \/ InsertLoop(w) \/ Peek(w)
  PROVE  /\ pc'[w] = "drain" => pc[w] = "drain" \/ processingComplete
         /\ pc'[w] = "exited" => pc[w] = "drain" /\ tsQueueEmpty
         /\ pc'[w] = "pop" => ~tsQueueEmpty
<1> USE DEF Goto, Throw, TypeOK
<1>1. CASE Connect(w) BY <1>1 DEF Connect
<1>2. CASE InsertLoop(w) BY <1>2 DEF InsertLoop, Leave
<1>3. CASE Peek(w) BY <1>3 DEF Peek
<1>4. QED BY <1>1, <1>2, <1>3

\* Other threads' places stay; a thread that has exited stays there.
LEMMA PlacesFrame ==
  ASSUME TypeOK, NEW w \in DriverThreads, InsertData(w)
  PROVE  /\ \A t \in DriverThreads \ {w} : pc'[t] = pc[t]
         /\ pc[w] # "exited" /\ pc[w] # "unborn"
         /\ UNCHANGED <<sent, threads, processingComplete>>
         /\ main' = main \/ main' = "aborted"
<1> USE DEF TypeOK
<1>1. CASE Connect(w)
  BY <1>1 DEF Connect, Goto, Throw, Terminate
<1>2. CASE InsertLoop(w)
  BY <1>2 DEF InsertLoop, Leave, Goto, Throw, Terminate
<1>3. CASE Peek(w) BY <1>3 DEF Peek, Goto
<1>4. CASE WaitAndPop(w) BY <1>4 DEF WaitAndPop
<1>5. CASE InsertQuery(w) BY <1>5 DEF InsertQuery
<1>6. CASE InsertThrows(w) BY <1>6 DEF InsertThrows, Throw, Terminate
<1>7. CASE Record(w) BY <1>7 DEF Record
<1>8. QED BY <1>1, <1>2, <1>3, <1>4, <1>5, <1>6, <1>7 DEF InsertData

\* A loader thread leaves only when the queue is empty and nothing more is
\* pushed.
LEMMA InsertDataKeepsDrained ==
  ASSUME TypeOK, Lifecycle, Drained, NEW w \in Workers, InsertData(w)
  PROVE  Drained'
<1>1. w \in DriverThreads /\ Workers \subseteq DriverThreads
  BY ConfigAssumption
<1>2. /\ popped \in 0..Len(sent) /\ Len(sent) \in Nat
      /\ pc \in [DriverThreads -> Places]
      /\ threads \subseteq DriverThreads
  BY DEF TypeOK, ProcessTypeOK
<1>3. w \in threads
  BY <1>1, PlacesFrame DEF Lifecycle
<1>4. pc[w] = "exited" \/ ~(main \in {"display", "exited"})
  BY <1>3 DEF Drained
<1>5. ~(main' \in {"display", "exited"})
  BY <1>1, <1>4, PlacesFrame
<1>6. CASE Connect(w) \/ InsertLoop(w) \/ Peek(w)
  <2>1. UNCHANGED popped BY <1>1, <1>6, InsertMoves DEF Move
  <2>2. pc'[w] = "exited" => processingComplete /\ popped = Len(sent)
    BY <1>1, <1>2, <1>6, LoopReads DEF Drained
  <2>3. pc'[w] = "drain" => processingComplete
    BY <1>1, <1>6, LoopReads DEF Drained
  <2>4. QED BY <1>1, <1>5, <2>1, <2>2, <2>3, PlacesFrame DEF Drained
<1>7. CASE WaitAndPop(w)
  <2>1. popped # Len(sent) /\ pc'[w] = "exec"
    BY <1>1, <1>2, <1>7 DEF WaitAndPop
  <2>2. \A t \in Workers : pc[t] # "exited" BY <2>1 DEF Drained
  <2>3. \A t \in Workers : pc'[t] # "exited"
    BY <1>1, <2>1, <2>2, PlacesFrame
  <2>4. QED BY <1>1, <1>5, <2>1, <2>3, PlacesFrame DEF Drained
<1>8. CASE InsertQuery(w) \/ InsertThrows(w) \/ Record(w)
  <2>1. UNCHANGED popped /\ pc'[w] \in {"exec", "record", "loop"}
    BY <1>1, <1>2, <1>8 DEF InsertQuery, InsertThrows, Throw, Record
  <2>2. QED BY <1>1, <1>5, <2>1, PlacesFrame DEF Drained
<1>9. QED BY <1>6, <1>7, <1>8 DEF InsertData

\* Drained is inductive relative to TypeOK and Lifecycle.
LEMMA DrainedStep ==
  TypeOK /\ Lifecycle /\ Drained /\ [Next]_vars => Drained'
<1> SUFFICES ASSUME TypeOK, Lifecycle, Drained, [Next]_vars PROVE Drained'
  OBVIOUS
<1>1. CASE Main
  <2>1. \A w \in Workers : w \in DriverThreads BY ConfigAssumption
  <2>2. \A w \in Workers : pc'[w] \in {"drain", "exited"} => pc'[w] = pc[w]
    BY <1>1, <2>1, MainFrame
  <2>3. processingComplete => processingComplete' /\ UNCHANGED sent
    BY <1>1, MainFrame DEF Lifecycle, Main, MainStep, StartReporter, NextMinute,
       PushMessage, PrepWaitSize, PrepWaitEmpty, RunWaitSize, LoadFinished,
       JoinReporter, SetProcessingComplete, JoinThreads, DisplayAndReturn,
       CreateSchema, Prep, Run, getTimestampRange, RangeThrows, Terminate,
       CaughtByMain
  <2>4. main' \in {"display", "exited"} => \A t \in threads' : pc'[t] = "exited"
    BY <1>1 DEF Drained, Main, MainStep, StartReporter, NextMinute,
       PushMessage, PrepWaitSize, PrepWaitEmpty, RunWaitSize, LoadFinished,
       JoinReporter, SetProcessingComplete, JoinThreads, DisplayAndReturn,
       CreateSchema, Prep, Run, getTimestampRange, UseRange, RangeThrows,
       Terminate, CaughtByMain
  <2>5. UNCHANGED popped BY <1>1, MainFrame
  <2>6. QED BY <2>2, <2>3, <2>4, <2>5 DEF Drained
<1>2. CASE SelectData
  <2>1. \A w \in Workers : w \in DriverThreads /\ w # SelectThread
    BY ConfigAssumption
  <2>2. Move(SelectThread) BY <1>2, SelectMoves
  <2>3. SelectThread \in DriverThreads BY ConfigAssumption
  <2>4. SelectThread \in threads
    BY <2>2, <2>3 DEF Move, Quiet, Lifecycle
  <2>5. pc[SelectThread] # "exited"
    BY <1>2 DEF SelectData, SelectQuery, Connect, Leave, Goto, Throw
  <2>6. QED
    BY <2>1, <2>2, <2>3, <2>4, <2>5 DEF Move, Drained, TypeOK
<1>3. CASE ReporterExits \/ Kill \/ UNCHANGED vars
  BY <1>3 DEF ReporterExits, Kill, vars, Drained
<1>4. CASE Restart
  <2>1. \A w \in Workers : w \in DriverThreads BY ConfigAssumption
  <2>2. QED BY <1>4, <2>1 DEF Restart, Drained
<1>5. ASSUME NEW w \in Workers, InsertData(w) PROVE Drained'
  BY <1>5, InsertDataKeepsDrained
<1>6. QED BY <1>1, <1>2, <1>3, <1>4, <1>5 DEF Next
-----------------------------------------------------------------------------
\* The thread that takes the last message is not at the pop any more.
LEMMA StrandedStep ==
  TypeOK /\ Lifecycle /\ NotAllStranded /\ [Next]_vars => NotAllStranded'
<1> SUFFICES ASSUME TypeOK, Lifecycle, NotAllStranded, [Next]_vars,
                    tsQueueEmpty'
             PROVE  \E w \in Workers : pc'[w] # "pop"
  BY DEF NotAllStranded
<1>0. /\ popped \in 0..Len(sent) /\ Len(sent) \in Nat
      /\ Workers \subseteq DriverThreads /\ 0 \in Workers
      /\ SelectThread \notin Workers
  BY ConfigAssumption DEF TypeOK, ProcessTypeOK
<1>1. CASE Main
  <2>1. UNCHANGED sent /\ UNCHANGED popped BY <1>0, <1>1, MainFrame
  <2>2. PICK w \in Workers : pc[w] # "pop" BY <2>1 DEF NotAllStranded
  <2>3. QED BY <1>0, <1>1, <2>2, MainFrame
<1>2. CASE SelectData
  <2>1. Move(SelectThread) BY <1>2, SelectMoves
  <2>2. PICK w \in Workers : pc[w] # "pop" BY <2>1 DEF NotAllStranded, Move
  <2>3. QED BY <1>0, <2>1, <2>2 DEF Move, TypeOK
<1>3. CASE ReporterExits \/ Kill \/ UNCHANGED vars
  BY <1>3 DEF ReporterExits, Kill, vars, NotAllStranded
<1>4. CASE Restart BY <1>0, <1>4 DEF Restart
<1>5. ASSUME NEW v \in Workers, InsertData(v)
      PROVE  \E w \in Workers : pc'[w] # "pop"
  <2>1. CASE Connect(v) \/ InsertLoop(v) \/ Peek(v)
    <3>1. UNCHANGED <<sent, popped>> BY <2>1, InsertMoves DEF Move
    <3>2. pc'[v] # "pop" BY <1>0, <2>1, <3>1, LoopReads
    <3>3. QED BY <3>2
  <2>2. CASE WaitAndPop(v) \/ InsertQuery(v) \/ InsertThrows(v) \/ Record(v)
    BY <1>0, <2>2 DEF WaitAndPop, InsertQuery, InsertThrows, Throw, Record, TypeOK
  <2>3. QED BY <1>5, <2>1, <2>2 DEF InsertData
<1>6. QED BY <1>1, <1>2, <1>3, <1>4, <1>5 DEF Next
-----------------------------------------------------------------------------
\* A thread that has inserted a message takes only newer ones from then on.
LEMMA OneAheadStep ==
  TypeOK /\ Lifecycle /\ OneAhead /\ [Next]_vars => OneAhead'
<1> SUFFICES ASSUME TypeOK, Lifecycle, OneAhead, [Next]_vars
             PROVE  OneAhead'
  OBVIOUS
<1>0. /\ popped \in Nat /\ committed \subseteq 1..popped
      /\ hand \in [DriverThreads -> 0..popped]
      /\ Workers \subseteq DriverThreads
  BY ConfigAssumption DEF TypeOK, ProcessTypeOK
<1>1. CASE UNCHANGED <<hand, committed>> BY <1>1 DEF OneAhead
<1>2. CASE Main BY <1>1, <1>2, MainFrame
<1>3. CASE SelectData BY <1>1, <1>3, SelectMoves DEF Move
<1>4. CASE ReporterExits \/ Kill \/ UNCHANGED vars
  BY <1>1, <1>4 DEF ReporterExits, Kill, vars
<1>5. CASE Restart BY <1>5 DEF Restart, OneAhead
<1>6. ASSUME NEW w \in Workers, InsertData(w) PROVE OneAhead'
  <2>1. CASE Connect(w) \/ InsertLoop(w) \/ Peek(w)
    BY <1>1, <2>1, InsertMoves DEF Move
  <2>2. CASE WaitAndPop(w)
    <3>1. hand'[w] = popped + 1 /\ UNCHANGED committed
      BY <1>0, <2>2 DEF WaitAndPop
    <3>2. QED BY <1>0, <3>1 DEF OneAhead
  <2>3. CASE Record(w)
    <3>1. hand'[w] = 0 BY <1>0, <2>3 DEF Record
    <3>2. QED BY <3>1 DEF OneAhead
  <2>4. CASE InsertQuery(w) \/ InsertThrows(w)
    <3>1. UNCHANGED hand /\ \/ UNCHANGED committed
                            \/ committed' = committed \cup {hand[w]}
      BY <2>4 DEF InsertQuery, InsertThrows, Throw
    <3>2. QED BY <1>0, <3>1 DEF OneAhead
  <2>5. QED BY <1>6, <2>1, <2>2, <2>3, <2>4 DEF InsertData
<1>7. QED BY <1>2, <1>3, <1>4, <1>5, <1>6 DEF Next
-----------------------------------------------------------------------------
(* The theorems.                                                           *)

IInv ==
  /\ ProcessInv
  /\ OwnInv
  /\ OnlyMine
  /\ Lifecycle
  /\ Drained
  /\ NotAllStranded
  /\ OneAhead

\* The inductive invariant holds in every reachable state.
LEMMA Invariance == Spec => []IInv
<1>1. Init => IInv
  <2> SUFFICES ASSUME Init PROVE IInv
    OBVIOUS
  <2>0. Workers \subseteq DriverThreads /\ 0 \in Workers BY ConfigAssumption
  <2>1. OnlyMine BY DEF Init, OnlyMine
  <2>2. Lifecycle
    BY ConfigAssumption DEF Init, Entry, Lifecycle, BeforeThreads, Loading
  <2>3. Drained BY <2>0 DEF Init, Drained
  <2>4. NotAllStranded BY <2>0 DEF Init, NotAllStranded
  <2>5. OneAhead BY DEF Init, OneAhead
  <2>6. QED
    BY <2>1, <2>2, <2>3, <2>4, <2>5, InitProcess, InitOwn DEF IInv
<1>2. IInv /\ [Next]_vars => IInv'
  <2> SUFFICES ASSUME IInv, [Next]_vars PROVE IInv'
    OBVIOUS
  <2>1. TypeOK BY TypesAgree DEF IInv, ProcessInv
  <2>2. OwnStep BY <2>1, StepKinds DEF IInv, ProcessInv, OwnInv
  <2>3. AnyStep BY <2>2, OwnIsAny DEF IInv, ProcessInv
  <2>4. ProcessInv' /\ OwnInv'
    BY <2>2, <2>3, ProcessStep, OwnInvStep DEF IInv
  <2>5. QED
    BY <2>1, <2>4, OnlyMineStep, LifecycleStep, DrainedStep, StrandedStep,
       OneAheadStep DEF IInv
<1>3. QED BY <1>1, <1>2, PTL DEF Spec

\* The state of the process keeps its types.
THEOREM TypeCorrect == Spec => []TypeOK
<1>1. IInv => TypeOK BY TypesAgree DEF IInv, ProcessInv
<1>2. QED BY <1>1, Invariance, PTL

\* No message is lost or handled twice between the queue, the database and
\* the statistics, whatever the threads' interleaving.
THEOREM MessagesHaveOneHome == Spec => []EveryMessageHasOneHome
<1>1. IInv => EveryMessageHasOneHome BY DEF IInv, ProcessInv
<1>2. QED BY <1>1, Invariance, PTL

\* Main joins the threads when they have nothing left to do.
LEMMA JoinedIsDoneNow == IInv => JoinedMeansDone
<1> SUFFICES ASSUME IInv, main \in {"display", "exited"}
             PROVE  /\ \A t \in DriverThreads : pc[t] \in {"unborn", "exited"}
                    /\ popped = Len(sent)
                    /\ recorded = 1..Len(sent)
                    /\ committed = recorded
  BY DEF JoinedMeansDone
<1> USE DEF IInv, ProcessInv, Typed
<1>0. Workers \subseteq DriverThreads /\ 0 \in Workers BY ConfigAssumption
<1>1. \A t \in DriverThreads : pc[t] \in {"unborn", "exited"}
  BY DEF Drained, Lifecycle
<1>2. popped = Len(sent)
  <2>1. CASE threads = {} BY <2>1 DEF Lifecycle, ProcessTypeOK
  <2>2. CASE threads # {} BY <1>0, <2>2 DEF Lifecycle, Drained
  <2>3. QED BY <2>1, <2>2
<1>3. \A t \in Workers : hand[t] = 0
  BY <1>0, <1>1 DEF EveryMessageHasOneHome, Busy
<1>4. 1..popped \subseteq recorded
  BY <1>3 DEF EveryMessageHasOneHome
<1>5. recorded \subseteq 1..popped /\ committed \subseteq 1..popped
      /\ recorded \subseteq committed
  BY DEF ProcessTypeOK, OwnInv, Written
<1>6. QED BY <1>1, <1>2, <1>4, <1>5

\* The latency statistics are printed when no thread runs and every message
\* is in the database.
THEOREM JoinedIsDone == Spec => []JoinedMeansDone
BY JoinedIsDoneNow, Invariance, PTL

\* The threads never all block in wait_and_pop.
THEOREM SomeThreadMoves == Spec => []NotAllStranded
<1>1. IInv => NotAllStranded BY DEF IInv
<1>2. QED BY <1>1, Invariance, PTL

\* Fewer than LoaderThreads messages are missing below the newest one.
THEOREM FewHoles == Spec => []CrashHoles
<1>1. IInv => CrashHoles
  <2> SUFFICES ASSUME IInv, NEW n \in committed
               PROVE  Cardinality((1..n) \ committed) < LoaderThreads
    BY DEF CrashHoles
  <2> DEFINE holes == (1..n) \ committed
  <2> USE DEF IInv, ProcessInv, Typed
  <2>0. /\ popped \in Nat /\ n \in 1..popped
        /\ hand \in [DriverThreads -> 0..popped]
        /\ Workers \subseteq DriverThreads
        /\ LoaderThreads \in Nat \ {0}
    BY ConfigAssumption DEF ProcessTypeOK
  <2>1. PICK v \in Workers : hand[v] = 0 \/ hand[v] >= n \/ hand[v] \in committed
    BY DEF OneAhead
  <2>2. \A i \in holes : \E w \in Workers \ {v} : hand[w] = i
    <3> SUFFICES ASSUME NEW i \in holes
                 PROVE  \E w \in Workers \ {v} : hand[w] = i
      OBVIOUS
    <3>1. i \in 1..popped /\ i \notin committed /\ i # n /\ i <= n
      BY <2>0
    <3>2. PICK w \in Workers : hand[w] = i
      BY <3>1, UncommittedIsHeld DEF OwnInv
    <3>3. w # v BY <2>0, <2>1, <3>1, <3>2
    <3>4. QED BY <3>2, <3>3
  <2> HIDE DEF holes
  <2>3. /\ IsFiniteSet(Workers \ {v})
        /\ Cardinality(Workers \ {v}) = LoaderThreads - 1
    BY WorkersCount
  <2>4. Cardinality(holes) \in Nat /\ Cardinality(holes) <= LoaderThreads - 1
    BY <2>2, <2>3, HeldAreFew
  <2>5. QED BY <2>0, <2>4 DEF holes
<1>2. QED BY <1>1, Invariance, PTL

\* A message that is not in the database has no row there, whatever earlier
\* processes have left.
THEOREM KeysAreFresh == Spec => []FreshKey
<1>1. IInv => FreshKey BY FreshRow DEF IInv, OwnInv, FreshKey
<1>2. QED BY <1>1, Invariance, PTL

\* The queue stays as short as wait_size is meant to keep it.
THEOREM QueueStaysShort == Spec => []BackPressure
<1>1. IInv => BackPressure BY DEF IInv, ProcessInv, Pressure
<1>2. QED BY <1>1, Invariance, PTL

\* No two minutes of a prepare wait in the queue at the same time.
THEOREM MinutesDoNotMix == Spec => []MinuteBarrier
<1>1. IInv => MinuteBarrier BY DEF IInv, ProcessInv, Barrier
<1>2. QED BY <1>1, Invariance, PTL

\* When main has joined the threads of a successful prepare the rows are those
\* of its window.
LEMMA PreparedIsLoadedNow ==
  ASSUME IInv, main \in {"display", "exited"}, mode = "prepare", retval = "success"
  PROVE  rows = Slots
<1> USE DEF IInv, ProcessInv, Typed
<1>1. committed = 1..Len(sent)
  BY JoinedIsDoneNow DEF JoinedMeansDone
<1>2. ASSUME NEW x \in Slots PROVE x \in rows
  <2>1. x.ts < ts BY ConfigAssumption DEF Slots, Locals, ProcessTypeOK
  <2>2. Past(x) BY <2>1 DEF Past
  <2>3. QED BY <1>1, <2>2, AbsentIsUncommitted DEF OwnInv
<1>3. ASSUME NEW r \in rows PROVE r \in Slots
  <2>1. PICK c \in committed : r = RowOf(c) BY DEF OnlyMine
  <2>2. QED BY <1>1, <2>1, RowIsMessage DEF Log
<1>4. QED BY <1>2, <1>3

\* A prepare that returns success leaves exactly its load in the database.
THEOREM PreparedIsLoaded == Spec => []PreparedMeansLoaded
<1>1. IInv => PreparedMeansLoaded
  <2> SUFFICES ASSUME IInv, main = "exited", mode = "prepare", retval = "success"
               PROVE  rows = Load
    BY DEF PreparedMeansLoaded
  <2>1. rows = Slots BY PreparedIsLoadedNow
  <2>2. Slots = Load BY DEF Slots, Load
  <2>3. QED BY <2>1, <2>2
<1>2. QED BY <1>1, Invariance, PTL

\* Job, which lets no row be missing, takes the steps that Lax takes.
LEMMA JobIsLax ==
  /\ Lax!Clear => Job!Clear
  /\ Lax!Choose => Job!Choose
  /\ Lax!Insert => Job!Insert
  /\ Lax!Fail => Job!Fail
  /\ Lax!StartAgain => Job!StartAgain
  /\ UNCHANGED Lax!vars => UNCHANGED Job!vars
  /\ Lax!Init => Job!Init
<1>1. \A S : Lax!Cardinality(S) = Job!Cardinality(S)
  BY DEF Lax!Cardinality, Job!Cardinality
<1>2. \A row : Lax!Write(row) <=> Job!Write(row)
  BY <1>1 DEF Lax!Write, Job!Write, Lax!Window, Job!Window
<1>3. Lax!Window(startTimestamp) = Job!Window(startTimestamp)
  BY DEF Lax!Window, Job!Window
<1>4. Lax!Insert => Job!Insert BY <1>2, <1>3 DEF Lax!Insert, Job!Insert
<1>5. Lax!Fail => Job!Fail BY <1>2, <1>3 DEF Lax!Fail, Job!Fail
<1>6. QED
  BY <1>4, <1>5 DEF Lax!Clear, Job!Clear, Lax!Choose, Job!Choose,
     Lax!StartAgain, Job!StartAgain, Lax!vars, Job!vars, Lax!Init, Job!Init

\* Every step of the process is one of the job, or none.
LEMMA RefinesStep == IInv /\ [Next]_vars => [Job!Next]_(Job!vars)
<1> SUFFICES ASSUME IInv, [Next]_vars PROVE Job!Next \/ UNCHANGED Job!vars
  OBVIOUS
<1>1. OwnStep
  BY TypesAgree, StepKinds DEF IInv, ProcessInv, OwnInv
<1>2. CASE Succeeds
  <2>1. mode = "prepare" => rows = Slots
    BY <1>2, PreparedIsLoadedNow DEF Succeeds
  <2>2. mode = "prepare" => Job!Window(startTimestamp) \ rows = {}
    BY <2>1 DEF Job!Window, Slots
  <2>3. Job!Cardinality({}) = 0
    <3>1. Job!Cardinality({}) = Cardinality({})
      BY DEF Job!Cardinality, Cardinality
    <3>2. QED BY <3>1, FS_EmptySet
  <2>4. JobPhase = "loading" /\ JobPhase' = "done"
    BY <1>2 DEF Succeeds, JobPhase, Alive, IInv, ProcessInv, Locals
  <2>5. Job!Succeed
    BY <1>2, <2>2, <2>3, <2>4 DEF Succeeds, Job!Succeed
  <2>6. QED BY <2>5 DEF Job!Next
<1>3. QED
  BY <1>1, <1>2, JobStep, JobIsLax DEF IInv, Job!Next

\* Whatever the threads, errors, kills and restarts, the database sees one
\* load after the other, each of fresh minutes and in order but for the rows
\* that other threads hold; when a prepare reports success none is missing.
THEOREM RefinesLoadJob == Spec => ImplementsLoadJob
<1>1. Init => Job!Init BY InitJob, JobIsLax
<1>2. QED
  BY <1>1, RefinesStep, Invariance, PTL DEF Spec, ImplementsLoadJob, Job!Spec
=============================================================================
