--------------------------- MODULE MongoDBDriver ---------------------------
(***************************************************************************)
(* metricbench with --driver=mongodb: the process of Preparer with the     *)
(* threads and the virtual functions of MongoDBDriver.cpp.                 *)
(*                                                                         *)
(* The threads run InsertData, for ever: "connect", then "pop", "exec" and *)
(* "record" in turn.  They are detached, so main does not wait for them.   *)
(* getConnection reports a failure by a result nobody looks at; the first  *)
(* use of such a connection throws a DBException, which is not a           *)
(* runtime_error: only CreateSchema catches it.  A collection comes to     *)
(* exist with its first document, so nothing here depends on `tables'.     *)
(***************************************************************************)
EXTENDS Preparer

-----------------------------------------------------------------------------
(* The virtual functions, called by the main thread.                       *)

\* Drops and creates one collection after the other; where one of these
\* calls throws, the collections that follow keep their documents and Prep
\* goes on.
CreateSchema ==
  /\ main = "CreateSchema"
  /\ \E k \in 0..DBTables : rows' = {r \in rows : r.table_id > k}
  /\ main' = "Prep"
  /\ UNCHANGED <<tables, loopVars, reportVars, flags, queueVars, threadVars>>

\* Mutated form of Prep: the threads are kept for JoinThreads.
Prep_joinable ==
  /\ main = "Prep"
  /\ Spawn(Workers, Workers)
  /\ main' = "startReporter"
  /\ UNCHANGED <<dbVars, loopVars, reportVars, flags, queueVars>>

Prep ==
  /\ main = "Prep"
  /\ Spawn(Workers, {})
  /\ main' = "startReporter"
  /\ UNCHANGED <<dbVars, loopVars, reportVars, flags, queueVars>>

\* Run starts no thread for queries.
Run ==
  /\ main = "Run"
  /\ Spawn(Workers, {})
  /\ main' = "startReporter"
  /\ UNCHANGED <<dbVars, loopVars, reportVars, flags, queueVars>>

\* Mutated form of TimestampRanges: sorted the other way, the oldest document.
TimestampRanges_oldest(cid) ==
  LET times == {r.ts : r \in rows} \cup {StartTimestamp}
  IN  {range \in [min : {StartTimestamp}, max : times] :
         \A x \in times : range.max <= x}

\* min stays at StartTimestamp; max comes from the newest document of each
\* collection.  As in MySQLDriver, the inner start_table is another variable.
TimestampRanges(cid) ==
  LET scanned == 1..(IF cid = 0 THEN DBTables ELSE cid)
      times == {r.ts : r \in {r \in rows : r.table_id \in scanned}}
               \cup {StartTimestamp}
  IN  {range \in [min : {StartTimestamp}, max : times] :
         \A x \in times : x <= range.max}

getTimestampRange ==
  /\ main = "range"
  /\ \E range \in TimestampRanges(0) : UseRange(range)
  /\ UNCHANGED <<dbVars, reportVars, flags, queueVars, threadVars>>

RangeThrows ==
  /\ main = "range"
  /\ Terminate
  /\ UNCHANGED <<dbVars, loopVars, reportVars, queueVars, threadVars>>
-----------------------------------------------------------------------------
(* InsertData.                                                             *)

Connect(w) == Goto(w, "connect", "pop")

InsertQuery(w) ==
  /\ Alive
  /\ pc[w] = "exec"
  /\ pc' = [pc EXCEPT ![w] = "record"]
  /\ rows' = rows \cup {RowOf(hand[w])}
  /\ committed' = committed \cup {hand[w]}
  /\ UNCHANGED <<tables, loopVars, reportVars, flags, queueVars, threads, hand,
                 recorded, main>>

\* Mutated form of InsertThrows: the error is printed and the thread goes on.
InsertThrows_goes_on(w) ==
  /\ Alive
  /\ pc[w] = "exec"
  /\ pc' = [pc EXCEPT ![w] = "pop"]
  /\ hand' = [hand EXCEPT ![w] = 0]
  /\ UNCHANGED <<dbVars, loopVars, reportVars, flags, queueVars, threads,
                 committed, recorded, main>>

\* The bulk insert throws, before or after it has written documents.
InsertThrows(w) ==
  /\ Throw(w, "exec")
  /\ \/ UNCHANGED <<rows, committed>>
     \/ /\ rows' = rows \cup {RowOf(hand[w])}
        /\ committed' = committed \cup {hand[w]}
  /\ UNCHANGED tables

\* The push to statQueue and the end of the loop's body.
Record(w) ==
  /\ Alive
  /\ pc[w] = "record"
  /\ pc' = [pc EXCEPT ![w] = "pop"]
  /\ recorded' = recorded \cup {hand[w]}
  /\ hand' = [hand EXCEPT ![w] = 0]
  /\ UNCHANGED <<dbVars, loopVars, reportVars, flags, queueVars, threads,
                 committed, main>>

InsertData(w) ==
  \/ Connect(w)
  \/ WaitAndPop(w)
  \/ InsertQuery(w)
  \/ InsertThrows(w)
  \/ Record(w)
-----------------------------------------------------------------------------
Main ==
  \/ MainStep
  \/ CreateSchema
  \/ Prep
  \/ Run
  \/ getTimestampRange
  \/ RangeThrows

Next ==
  \/ Main
  \/ ReporterExits
  \/ \E w \in Workers : InsertData(w)
  \/ Kill
  \/ Restart

Spec == Init /\ [][Next]_vars

\* The scheduler runs every thread, and the server answers every request.
Fairness ==
  /\ WF_vars(Main)
  /\ WF_vars(ReporterExits)
  /\ \A w \in Workers : WF_vars(InsertData(w))

FairSpec == Spec /\ Fairness
-----------------------------------------------------------------------------
\* Documents are never written twice for one device, minute and collection,
\* even when an earlier prepare failed to drop a collection
\* (MongoDBDriver.cpp:82-123, Preparer.cpp:53-54, 94-102).
FreshKey ==
  \A i \in 1..Len(sent) : i \notin committed => RowOf(i) \notin rows

\* What a main that does not wait for its threads can lose: of a prepare the
\* messages in the threads' hands, of a run the queue's content as well.
Missing == (1..Len(sent)) \ committed
ExitLoss ==
  main = "exited" =>
    Cardinality(Missing) <=
      LoaderThreads + (IF mode = "prepare" THEN 0
                       ELSE LoaderThreads * RunQueueFactor)

\* The database sees one load after the other, as with MySQL; but a prepare
\* that reports success may have left out what its threads held
\* (MongoDBDriver.cpp:50-237).
Job == INSTANCE LoadJob WITH phase <- JobPhase, first <- startTimestamp,
                             Behind <- LoaderThreads - 1,
                             Missing <- LoaderThreads
ImplementsLoadJob == Job!Spec
=============================================================================
