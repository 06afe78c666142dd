------------------------ MODULE MongoDBDriverProofs ------------------------
(***************************************************************************)
(* For any number of threads, minutes, collections, devices and processes: *)
(* the fate of every message, what an exit without JoinThreads can lose,   *)
(* and that the process is a LoadJob.  All of it follows from the          *)
(* invariants of PreparerProofs.                                           *)
(***************************************************************************)
EXTENDS MongoDBDriver, PreparerProofs

USE DEF dbVars, loopVars, reportVars, flags, queueVars, threadVars,
        tsQueueEmpty, tsQueueSize, Tables, Workers, SelectThread, DriverThreads

-----------------------------------------------------------------------------
(* The steps, as PreparerProofs sees them.                                 *)

\* The range read from the database begins after every document.
LEMMA RangeIsFresh ==
  ASSUME ProcessTypeOK, Rows, NEW range \in TimestampRanges(0)
  PROVE  range.max \in Nat /\ \A r \in rows : r.ts <= range.max
<1> DEFINE times == {r.ts : r \in {r \in rows : r.table_id \in 1..DBTables}}
                    \cup {StartTimestamp}
<1>1. /\ range.max \in times
      /\ \A x \in times : x <= range.max
  BY DEF TimestampRanges
<1>2. \A r \in rows : r.ts \in times BY DEF Rows
<1>3. times \subseteq Nat BY ConfigAssumption DEF ProcessTypeOK
<1>4. QED BY <1>1, <1>2, <1>3

\* The steps of the main thread.
LEMMA MainKinds ==
  ASSUME ProcessTypeOK, Locals, Rows, Main
  PROVE  OwnStep
<1> USE DEF Common
<1>1. CASE MainStep
  BY <1>1, OnlyChoice DEF MainStep, StartReporter, NextMinute, PushMessage,
     PrepWaitSize, PrepWaitEmpty, RunWaitSize, LoadFinished, JoinReporter,
     SetProcessingComplete, JoinThreads, DisplayAndReturn
<1>2. CASE CreateSchema
  <2>1. Clear BY <1>2 DEF CreateSchema, Clear, Launch, ProcessTypeOK
  <2>2. QED BY <1>2, <2>1, OnlyChoice DEF CreateSchema
<1>3. CASE Prep \/ Run
  <2>1. Workers \in SUBSET DriverThreads BY ConfigAssumption
  <2>2. threads' \subseteq DriverThreads
    BY <1>3 DEF Prep, Run, Spawn, ProcessTypeOK
  <2>3. Start BY <1>3, <2>1, <2>2 DEF Prep, Run, Spawn, Start, Launch
  <2>4. QED BY <2>3, OnlyChoice DEF Start
<1>4. CASE getTimestampRange
  <2>1. PICK range \in TimestampRanges(0) : UseRange(range)
    BY <1>4 DEF getTimestampRange
  <2>2. range.max \in Nat /\ \A r \in rows : r.ts <= range.max
    BY RangeIsFresh
  <2>3. /\ startTimestamp' \in Nat \ {0} /\ startTimestamp' > range.max
        /\ ts' = startTimestamp' /\ UNCHANGED <<dc, table_id, devicesCnt>>
        /\ main' = IF mode = "prepare" THEN "time" ELSE "Run"
    BY <2>1, <2>2, ConfigAssumption DEF UseRange
  <2>4. Choose BY <1>4, <2>3 DEF getTimestampRange, Choose, Choice
  <2>5. \A r \in rows : r.ts < startTimestamp'
    BY <2>2, <2>3 DEF ProcessTypeOK
  <2>6. QED BY <2>4, <2>5 DEF OwnStep
<1>5. CASE RangeThrows
  <2>1. RangeFails BY <1>5 DEF RangeThrows, Terminate, RangeFails, Launch
  <2>2. QED BY <1>5, <2>1, OnlyChoice DEF RangeThrows, Terminate
<1>6. QED BY <1>1, <1>2, <1>3, <1>4, <1>5 DEF Main

\* The steps of a loader thread.
LEMMA InsertKinds ==
  ASSUME NEW w \in Workers, InsertData(w)
  PROVE  OwnStep
<1>1. w \in DriverThreads BY ConfigAssumption
<1> USE DEF Common
<1>2. CASE Connect(w)
  <2>1. Move(w) BY <1>2, GotoMoves DEF Connect, Quiet
  <2>2. QED BY <1>1, <2>1, OnlyChoice DEF Move
<1>3. CASE WaitAndPop(w) BY <1>3, OnlyChoice DEF WaitAndPop
<1>4. CASE InsertQuery(w)
  <2>1. Write(w, RowOf(hand[w])) BY <1>4 DEF InsertQuery, Write
  <2>2. QED BY <2>1 DEF OwnStep
<1>5. CASE InsertThrows(w)
  <2>1. CASE UNCHANGED <<rows, committed>>
    <3>1. Kill BY <1>5, <2>1 DEF InsertThrows, Throw, Terminate, Kill
    <3>2. QED BY <3>1, OnlyChoice DEF Kill
  <2>2. CASE ~UNCHANGED <<rows, committed>>
    <3>1. Write(w, RowOf(hand[w]))
      BY <1>5, <2>2 DEF InsertThrows, Throw, Terminate, Write
    <3>2. QED BY <3>1 DEF OwnStep
  <2>3. QED BY <2>1, <2>2
<1>6. CASE Record(w)
  <2>1. Finish(w) BY <1>6 DEF Record, Finish
  <2>2. QED BY <2>1, OnlyChoice DEF Finish
<1>7. QED BY <1>2, <1>3, <1>4, <1>5, <1>6 DEF InsertData

\* Every step is one of a driver in which each message has its own document.
LEMMA StepKinds ==
  ASSUME ProcessTypeOK, Locals, Rows, [Next]_vars
  PROVE  OwnStep
<1> USE DEF Common
<1>1. CASE ReporterExits \/ Kill \/ UNCHANGED vars
  BY <1>1, OnlyChoice DEF ReporterExits, Kill, vars
<1>2. CASE Restart BY <1>2, OnlyChoice DEF Restart, Alive
<1>3. QED BY <1>1, <1>2, MainKinds, InsertKinds DEF Next
-----------------------------------------------------------------------------
(* The theorems.                                                           *)

IInv == ProcessInv /\ OwnInv

\* The inductive invariant holds in every reachable state.
LEMMA Invariance == Spec => []IInv
<1>1. Init => IInv BY InitProcess, InitOwn DEF IInv
<1>2. IInv /\ [Next]_vars => IInv'
  <2> SUFFICES ASSUME IInv, [Next]_vars PROVE IInv'
    OBVIOUS
  <2>1. OwnStep BY StepKinds DEF IInv, ProcessInv, Typed, OwnInv
  <2>2. AnyStep BY <2>1, OwnIsAny DEF IInv, ProcessInv
  <2>3. QED BY <2>1, <2>2, ProcessStep, OwnInvStep DEF IInv
<1>3. QED BY <1>1, <1>2, PTL DEF Spec

\* The state of the process keeps its types.
THEOREM TypeCorrect == Spec => []ProcessTypeOK
<1>1. IInv => ProcessTypeOK BY DEF IInv, ProcessInv, Typed
<1>2. QED BY <1>1, Invariance, PTL

\* While the process runs no message is lost or handled twice between the
\* queue, the collections and the statistics.
THEOREM MessagesHaveOneHome == Spec => []EveryMessageHasOneHome
<1>1. IInv => EveryMessageHasOneHome BY DEF IInv, ProcessInv
<1>2. QED BY <1>1, Invariance, PTL

\* A message that is not in the database has no document there, even when an
\* earlier prepare failed to drop a collection.
THEOREM KeysAreFresh == Spec => []FreshKey
<1>1. IInv => FreshKey BY FreshRow DEF IInv, OwnInv, FreshKey
<1>2. QED BY <1>1, Invariance, PTL

\* The queue stays as short as wait_size is meant to keep it, and no two
\* minutes of a prepare wait in it at the same time.
THEOREM QueueStaysShort == Spec => [](BackPressure /\ MinuteBarrier)
<1>1. IInv => BackPressure /\ MinuteBarrier
  BY DEF IInv, ProcessInv, Pressure, Barrier
<1>2. QED BY <1>1, Invariance, PTL

\* What a main that does not wait for its threads can lose: what they hold
\* and, of a run, what run's last wait_size has let stay in the queue.
THEOREM LittleIsLost == Spec => []ExitLoss
<1>1. IInv => ExitLoss
  <2> SUFFICES ASSUME IInv, main = "exited"
               PROVE  Cardinality(Missing) <=
                        LoaderThreads + (IF mode = "prepare" THEN 0
                                         ELSE LoaderThreads * RunQueueFactor)
    BY DEF ExitLoss
  <2> DEFINE taken == (1..popped) \ committed
             waiting == (popped + 1)..Len(sent)
  <2> USE DEF IInv, ProcessInv, Typed, OwnInv
  <2>1. /\ popped \in 0..Len(sent) /\ Len(sent) \in Nat /\ popped \in Nat
        /\ committed \subseteq 1..popped /\ mode \in {"prepare", "run"}
        /\ LoaderThreads \in Nat /\ LoaderThreads * RunQueueFactor \in Nat
    BY ConfigAssumption DEF ProcessTypeOK
  <2>2. IsFiniteSet(taken) /\ Cardinality(taken) \in Nat
        /\ Cardinality(taken) <= LoaderThreads
    <3>1. \A i \in taken : \E w \in Workers : hand[w] = i
      BY UncommittedIsHeld
    <3> HIDE DEF taken
    <3>2. IsFiniteSet(Workers) /\ Cardinality(Workers) = LoaderThreads
      BY WorkersCount
    <3>3. IsFiniteSet(taken) /\ Cardinality(taken) \in Nat
          /\ Cardinality(taken) <= Cardinality(Workers)
      BY <3>1, <3>2, HeldAreFew
    <3>4. QED BY <3>2, <3>3
  <2>3. CASE mode = "prepare"
    <3>1. popped = Len(sent) BY <2>1, <2>3 DEF Barrier
    <3>2. Missing = taken BY <3>1 DEF Missing
    <3>3. QED BY <2>1, <2>2, <2>3, <3>2
  <2>4. CASE mode = "run"
    <3>1. Len(sent) - popped <= LoaderThreads * RunQueueFactor
      BY <2>4 DEF Pressure
    <3>2. IsFiniteSet(waiting)
          /\ Cardinality(waiting) = IF popped + 1 > Len(sent) THEN 0
                                    ELSE Len(sent) - (popped + 1) + 1
      <4>1. popped + 1 \in Int /\ Len(sent) \in Int BY <2>1
      <4>2. QED BY <4>1, FS_Interval
    <3>3. Cardinality(waiting) = Len(sent) - popped
      BY <2>1, <3>2
    <3>4. Missing = taken \cup waiting BY <2>1 DEF Missing
    <3>5. taken \cap waiting = {} BY <2>1
    <3> HIDE DEF taken, waiting
    <3>6. Cardinality(Missing) = Cardinality(taken) + Cardinality(waiting)
      <4>1. Cardinality(taken \cup waiting)
              = Cardinality(taken) + Cardinality(waiting) - Cardinality(taken \cap waiting)
        BY <2>2, <3>2, FS_Union
      <4>2. Cardinality(taken \cap waiting) = 0 BY <3>5, FS_EmptySet
      <4>3. Cardinality(waiting) \in Nat BY <2>1, <3>3
      <4>4. QED BY <2>2, <3>4, <4>1, <4>2, <4>3
    <3>7. QED BY <2>1, <2>2, <2>4, <3>1, <3>3, <3>6
  <2>5. QED BY <2>1, <2>3, <2>4
<1>2. QED BY <1>1, Invariance, PTL

\* What a successful prepare has left out is in the hands of the threads.
LEMMA FewAreMissing ==
  ASSUME IInv, main = "display", mode = "prepare", retval = "success"
  PROVE  Cardinality(Slots \ rows) <= LoaderThreads
<1> DEFINE held == [w \in Workers |-> RowOf(hand[w])]
           absent == Slots \ rows
<1> USE DEF IInv, ProcessInv, Typed, OwnInv
<1>1. popped = Len(sent) BY DEF Barrier, ProcessTypeOK
<1>2. ASSUME NEW x \in absent PROVE \E w \in Workers : held[w] = x
  <2>1. x.ts < ts BY ConfigAssumption DEF Slots, Locals, ProcessTypeOK
  <2>2. Past(x) BY <2>1 DEF Past
  <2>3. PICK i \in 1..Len(sent) : RowOf(i) = x /\ i \notin committed
    BY <2>2, AbsentIsUncommitted
  <2>4. PICK w \in Workers : hand[w] = i
    BY <1>1, <2>3, UncommittedIsHeld
  <2>5. QED BY <2>3, <2>4
<1> HIDE DEF held, absent
<1>3. Cardinality(absent) <= Cardinality(Workers)
  BY <1>2, WorkersCount, HeldAreFew
<1>4. QED BY <1>3, WorkersCount DEF absent

\* Job and Lax are the same instance of LoadJob.
LEMMA JobIsLax ==
  /\ Lax!Clear => Job!Clear
  /\ Lax!Choose => Job!Choose
  /\ Lax!Insert => Job!Insert
  /\ Lax!Fail => Job!Fail
  /\ Lax!StartAgain => Job!StartAgain
  /\ UNCHANGED Lax!vars => UNCHANGED Job!vars
  /\ Lax!Init => Job!Init
<1>1. \A S : Lax!Cardinality(S) = Job!Cardinality(S)
  BY DEF Lax!Cardinality, Job!Cardinality
<1>2. \A row : Lax!Write(row) <=> Job!Write(row)
  BY <1>1 DEF Lax!Write, Job!Write, Lax!Window, Job!Window
<1>3. Lax!Window(startTimestamp) = Job!Window(startTimestamp)
  BY DEF Lax!Window, Job!Window
<1>4. Lax!Insert => Job!Insert BY <1>2, <1>3 DEF Lax!Insert, Job!Insert
<1>5. Lax!Fail => Job!Fail BY <1>2, <1>3 DEF Lax!Fail, Job!Fail
<1>6. QED
  BY <1>4, <1>5 DEF Lax!Clear, Job!Clear, Lax!Choose, Job!Choose,
     Lax!StartAgain, Job!StartAgain, Lax!vars, Job!vars, Lax!Init, Job!Init

\* Every step of the process is one of the job, or none.
LEMMA RefinesStep == IInv /\ [Next]_vars => [Job!Next]_(Job!vars)
<1> SUFFICES ASSUME IInv, [Next]_vars PROVE Job!Next \/ UNCHANGED Job!vars
  OBVIOUS
<1>1. OwnStep BY StepKinds DEF IInv, ProcessInv, Typed, OwnInv
<1>2. CASE Succeeds
  <2>1. mode = "prepare" => Cardinality(Slots \ rows) <= LoaderThreads
    BY <1>2, FewAreMissing DEF Succeeds
  <2>2. Job!Window(startTimestamp) = Slots BY DEF Job!Window, Slots
  <2>3. \A S : Job!Cardinality(S) = Cardinality(S)
    BY DEF Job!Cardinality, Cardinality
  <2>4. JobPhase = "loading" /\ JobPhase' = "done"
    BY <1>2 DEF Succeeds, JobPhase, Alive, IInv, ProcessInv, Locals
  <2>5. Job!Succeed
    BY <1>2, <2>1, <2>2, <2>3, <2>4 DEF Succeeds, Job!Succeed
  <2>6. QED BY <2>5 DEF Job!Next
<1>3. QED
  BY <1>1, <1>2, JobStep, JobIsLax DEF IInv, Job!Next

\* The database sees one load after the other, each of fresh minutes and in
\* order but for what other threads hold; when a prepare reports success no
\* more is missing than the threads hold.
THEOREM RefinesLoadJob == Spec => ImplementsLoadJob
<1>1. Init => Job!Init BY InitJob, JobIsLax
<1>2. QED
  BY <1>1, RefinesStep, Invariance, PTL DEF Spec, ImplementsLoadJob, Job!Spec
=============================================================================
