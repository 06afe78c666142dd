---------------------------- MODULE MySQLDriver ----------------------------
(***************************************************************************)
(* metricbench with --driver=mysql: the process of Preparer with the       *)
(* threads and the virtual functions of MySQLDriver.cpp.                   *)
(*                                                                         *)
(* A thread that runs InsertData goes "connect", then round its loop:      *)
(* "loop" reads processingComplete, "drain" is the other half of the       *)
(* condition, "peek" the test that the queue is not empty, "pop" the call  *)
(* of wait_and_pop, "exec" BEGIN .. COMMIT, "record" recordLatency and the *)
(* push to statQueue.  The one that runs SelectData goes between "loop"    *)
(* and "query".  Any statement may throw; no thread catches what           *)
(* InsertQuery, SelectQuery or connect throws.                             *)
(***************************************************************************)
EXTENDS Preparer

-----------------------------------------------------------------------------
(* The virtual functions, called by the main thread.                       *)

\* Mutated form of CreateSchema: CREATE TABLE IF NOT EXISTS, without DROP.
CreateSchema_without_drop ==
  /\ main = "CreateSchema"
  /\ tables' = Tables
  /\ main' = "Prep"
  /\ UNCHANGED <<rows, loopVars, reportVars, flags, queueVars, threadVars>>

\* Each statement of CreateSchema commits by itself: the tables up to k are
\* new and empty; of an attempt that failed, table k+1 may be gone.
CreateSchema ==
  /\ main = "CreateSchema"
  /\ \/ /\ tables' = Tables
        /\ rows' = {}
        /\ main' = "Prep"
        /\ UNCHANGED flags
     \/ \E k \in 0..DBTables : \E gone \in SUBSET {k + 1} :
          /\ tables' = (tables \cup 1..k) \ gone
          /\ rows' = {r \in rows : r.table_id \in tables' \ 1..k}
          /\ CaughtByMain
  /\ UNCHANGED <<loopVars, reportVars, queueVars, threadVars>>

Prep ==
  /\ main = "Prep"
  /\ Spawn(Workers, Workers)
  /\ main' = "startReporter"
  /\ UNCHANGED <<dbVars, loopVars, reportVars, flags, queueVars>>

Run ==
  /\ main = "Run"
  /\ Spawn(DriverThreads, DriverThreads)
  /\ main' = "startReporter"
  /\ UNCHANGED <<dbVars, loopVars, reportVars, flags, queueVars>>

\* Mutated form of TablesScanned: the last table stands for all.
TablesScanned_last(tid) == {IF tid = 0 THEN DBTables ELSE tid}

\* The tables getTimestampRange looks at: the inner start_table shadows the
\* one the loop starts from.
TablesScanned(tid) == 1..(IF tid = 0 THEN DBTables ELSE tid)

\* min(ts) and max(ts) of those tables and of StartTimestamp; the NULL of an
\* empty table reads as 0.
TimestampRanges(tid) ==
  LET scanned == TablesScanned(tid)
      empty == \E table \in scanned : \A r \in rows : r.table_id # table
      times == {r.ts : r \in {r \in rows : r.table_id \in scanned}}
               \cup {StartTimestamp}
  IN  {range \in [min : times \cup {0}, max : times] :
         /\ \A x \in times : range.min <= x /\ x <= range.max
         /\ empty => range.min = 0
         /\ ~empty => range.min \in times}

\* A query on a table that does not exist throws.
getTimestampRange ==
  /\ main = "range"
  /\ tables = Tables
  /\ \E range \in TimestampRanges(0) : UseRange(range)
  /\ UNCHANGED <<dbVars, reportVars, flags, queueVars, threadVars>>

\* In Prep the exception unwinds past threadReporter, in Run main catches it.
RangeThrows ==
  /\ main = "range"
  /\ IF mode = "prepare" THEN Terminate ELSE CaughtByMain
  /\ UNCHANGED <<dbVars, loopVars, reportVars, queueVars, threadVars>>
-----------------------------------------------------------------------------
(* InsertData.                                                             *)

Connect(t) ==
  \/ Goto(t, "connect", "loop")
  \/ Throw(t, "connect") /\ UNCHANGED <<dbVars, committed>>

\* After the loop: close() of the statement and the connection.
Leave(t, from) ==
  \/ Goto(t, from, "exited")
  \/ Throw(t, from) /\ UNCHANGED <<dbVars, committed>>

\* Mutated forms of InsertLoop: while(!processingComplete), and && for ||.
InsertLoop_leaves_queue(w) ==
  \/ ~processingComplete /\ Goto(w, "loop", "peek")
  \/ processingComplete /\ Leave(w, "loop")

InsertLoop_with_and(w) ==
  \/ ~processingComplete /\ Goto(w, "loop", "drain")
  \/ processingComplete /\ Leave(w, "loop")
  \/ ~tsQueueEmpty /\ Goto(w, "drain", "peek")
  \/ tsQueueEmpty /\ Leave(w, "drain")

\* while(!Config::processingComplete || !tsQueue.empty())
InsertLoop(w) ==
  \/ ~processingComplete /\ Goto(w, "loop", "peek")
  \/ processingComplete /\ Goto(w, "loop", "drain")
  \/ ~tsQueueEmpty /\ Goto(w, "drain", "peek")
  \/ tsQueueEmpty /\ Leave(w, "drain")

\* Mutated form of Peek: no test.
Peek_without_test(w) == Goto(w, "peek", "pop")

\* if (!tsQueue.empty()): another thread may be faster to pop.
Peek(w) ==
  \/ ~tsQueueEmpty /\ Goto(w, "peek", "pop")
  \/ tsQueueEmpty /\ Goto(w, "peek", "loop")

InsertQuery(w) ==
  /\ Alive
  /\ pc[w] = "exec"
  /\ pc' = [pc EXCEPT ![w] = "record"]
  /\ rows' = rows \cup {RowOf(hand[w])}
  /\ committed' = committed \cup {hand[w]}
  /\ UNCHANGED <<tables, loopVars, reportVars, flags, queueVars, threads, hand,
                 recorded, main>>

\* Mutated form of InsertThrows: the error is printed and the thread goes on.
InsertThrows_goes_on(w) ==
  /\ Alive
  /\ pc[w] = "exec"
  /\ pc' = [pc EXCEPT ![w] = "loop"]
  /\ hand' = [hand EXCEPT ![w] = 0]
  /\ UNCHANGED <<dbVars, loopVars, reportVars, flags, queueVars, threads,
                 committed, recorded, main>>

\* The transaction is lost, or only the answer to its COMMIT is.
InsertThrows(w) ==
  /\ Throw(w, "exec")
  /\ \/ UNCHANGED <<rows, committed>>
     \/ /\ rows' = rows \cup {RowOf(hand[w])}
        /\ committed' = committed \cup {hand[w]}
  /\ UNCHANGED tables

Record(w) ==
  /\ Alive
  /\ pc[w] = "record"
  /\ pc' = [pc EXCEPT ![w] = "loop"]
  /\ recorded' = recorded \cup {hand[w]}
  /\ hand' = [hand EXCEPT ![w] = 0]
  /\ UNCHANGED <<dbVars, loopVars, reportVars, flags, queueVars, threads,
                 committed, main>>

InsertData(w) ==
  \/ Connect(w)
  \/ InsertLoop(w)
  \/ Peek(w)
  \/ WaitAndPop(w)
  \/ InsertQuery(w)
  \/ InsertThrows(w)
  \/ Record(w)

SelectQuery ==
  \/ Goto(SelectThread, "query", "loop")
  \/ Throw(SelectThread, "query") /\ UNCHANGED <<dbVars, committed>>

\* Mutated form of SelectData: while(true).
SelectData_for_ever ==
  \/ Connect(SelectThread)
  \/ Goto(SelectThread, "loop", "query")
  \/ SelectQuery

\* Queries until processingComplete.
SelectData ==
  \/ Connect(SelectThread)
  \/ ~processingComplete /\ Goto(SelectThread, "loop", "query")
  \/ processingComplete /\ Leave(SelectThread, "loop")
  \/ SelectQuery
-----------------------------------------------------------------------------
Main ==
  \/ MainStep
  \/ CreateSchema
  \/ Prep
  \/ Run
  \/ getTimestampRange
  \/ RangeThrows

Next ==
  \/ Main
  \/ ReporterExits
  \/ \E w \in Workers : InsertData(w)
  \/ SelectData
  \/ Kill
  \/ Restart

Spec == Init /\ [][Next]_vars

\* Every thread that can take a step takes one eventually: the scheduler runs
\* all threads and the server answers every statement, perhaps with an error.
Fairness ==
  /\ WF_vars(Main)
  /\ WF_vars(ReporterExits)
  /\ \A w \in Workers : WF_vars(InsertData(w))
  /\ WF_vars(SelectData)

FairSpec == Spec /\ Fairness
-----------------------------------------------------------------------------
Places == {"unborn", "connect", "loop", "drain", "peek", "pop", "exec",
           "record", "query", "exited"}

TypeOK == ProcessTypeOK /\ pc \in [DriverThreads -> Places]

\* When main prints the latency statistics no driver thread runs any more,
\* and every message it ever pushed is in the database and in the statistics
\* (metricbench.cpp:271-276).
JoinedMeansDone ==
  main \in {"display", "exited"} =>
    /\ \A t \in DriverThreads : pc[t] \in {"unborn", "exited"}
    /\ popped = Len(sent)
    /\ recorded = 1..Len(sent)
    /\ committed = recorded

\* A prepare that returns success leaves the whole load and nothing else in
\* the database, whatever was there before (Preparer.cpp:39-88).
Load == [table_id : Tables, device_id : 1..MaxDevices,
         ts : startTimestamp..(startTimestamp + LoadMins - 1)]
PreparedMeansLoaded ==
  main = "exited" /\ mode = "prepare" /\ retval = "success" => rows = Load

\* "get the max timestamp so we don't duplicate existing rows"
\* (MySQLDriver.cpp:33): a message about to be inserted, or waiting, is of a
\* device, minute and table without rows, whatever earlier processes left.
FreshKey ==
  \A i \in 1..Len(sent) : i \notin committed => RowOf(i) \notin rows

\* The threads never all block in wait_and_pop: a thread calls it when it has
\* seen the queue non-empty, and the one that took the last message goes
\* round its loop (MySQLDriver.cpp:153-157).
NotAllStranded ==
  tsQueueEmpty => \E w \in Workers : pc[w] # "pop"

\* A process ends, or hangs for one reason only: it has written everything, and
\* every thread that has not exited blocks in wait_and_pop on a queue that
\* stays empty (MySQLDriver.cpp:155-157, 225; metricbench.cpp:271-278).  With
\* NotAllStranded: it always ends with one loader thread.
OnlyStrandedAreLeft ==
  /\ main = "JoinThreads"
  /\ committed = 1..Len(sent)
  /\ \A t \in threads : pc[t] \in {"pop", "exited"}
EndsUnlessStranded == []<>(~Alive \/ OnlyStrandedAreLeft)

\* The whole of it: whatever the threads, errors, kills and restarts, the
\* database sees one load after the other, each of fresh minutes, in order
\* but for the rows other threads still hold, and complete when a prepare
\* says so (Preparer.cpp:39-159, MySQLDriver.cpp:33-193).
Job == INSTANCE LoadJob WITH phase <- JobPhase, first <- startTimestamp,
                             Behind <- LoaderThreads - 1, Missing <- 0
ImplementsLoadJob == Job!Spec
=============================================================================
