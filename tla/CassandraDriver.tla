-------------------------- MODULE CassandraDriver --------------------------
(***************************************************************************)
(* metricbench with --driver=cassandra: the process of Preparer with the   *)
(* threads and the virtual functions of CassandraDriver.cpp.               *)
(*                                                                         *)
(* A thread that runs InsertData exits when it cannot connect and loops    *)
(* for ever otherwise: "pop", "exec", "record".  Nothing throws: errors    *)
(* are printed.  All messages go to one table, which no prepare drops and  *)
(* in which a row is a device, a metric and a time.                        *)
(***************************************************************************)
EXTENDS Preparer

TheTable == 1   \* metricsdata2.metrics

-----------------------------------------------------------------------------
(* The virtual functions, called by the main thread.                       *)

\* Creates what does not exist yet; an error is printed.
CreateSchema ==
  /\ main = "CreateSchema"
  /\ tables' \in {tables, {TheTable}}
  /\ main' = "Prep"
  /\ UNCHANGED <<rows, loopVars, reportVars, flags, queueVars, threadVars>>

Prep ==
  /\ main = "Prep"
  /\ Spawn(Workers, Workers)
  /\ main' = "startReporter"
  /\ UNCHANGED <<dbVars, loopVars, reportVars, flags, queueVars>>

Run ==
  /\ main = "Run"
  /\ Spawn(DriverThreads, DriverThreads)
  /\ main' = "startReporter"
  /\ UNCHANGED <<dbVars, loopVars, reportVars, flags, queueVars>>

getTimestampRange ==
  /\ main = "range"
  /\ UseRange([min |-> StartTimestamp, max |-> StartTimestamp])
  /\ UNCHANGED <<dbVars, reportVars, flags, queueVars, threadVars>>
-----------------------------------------------------------------------------
(* InsertData; SelectData returns at once.                                 *)

Connect(w) ==
  \/ Goto(w, "connect", "pop")
  \/ Goto(w, "connect", "exited")

SelectData == Goto(SelectThread, "connect", "exited")

\* The statement ignores the message's table.
UpsertedRow(i) == [RowOf(i) EXCEPT !.table_id = TheTable]

InsertQuery(w) ==
  /\ Alive
  /\ pc[w] = "exec"
  /\ pc' = [pc EXCEPT ![w] = "record"]
  /\ \/ /\ tables # {}
        /\ rows' = rows \cup {UpsertedRow(hand[w])}
        /\ committed' = committed \cup {hand[w]}
     \/ UNCHANGED <<rows, committed>>            \* the batch fails
  /\ UNCHANGED <<tables, loopVars, reportVars, flags, queueVars, threads, hand,
                 recorded, main>>

\* The push to statQueue, whether the batch failed or not.
Record(w) ==
  /\ Alive
  /\ pc[w] = "record"
  /\ pc' = [pc EXCEPT ![w] = "pop"]
  /\ recorded' = recorded \cup {hand[w]}
  /\ hand' = [hand EXCEPT ![w] = 0]
  /\ UNCHANGED <<dbVars, loopVars, reportVars, flags, queueVars, threads,
                 committed, main>>

InsertData(w) ==
  \/ Connect(w)
  \/ WaitAndPop(w)
  \/ InsertQuery(w)
  \/ Record(w)
-----------------------------------------------------------------------------
Main ==
  \/ MainStep
  \/ CreateSchema
  \/ Prep
  \/ Run
  \/ getTimestampRange

Next ==
  \/ Main
  \/ ReporterExits
  \/ \E w \in Workers : InsertData(w)
  \/ SelectData
  \/ Kill
  \/ Restart

Spec == Init /\ [][Next]_vars

\* The scheduler runs every thread, and the client library gives every
\* future a result.
Fairness ==
  /\ WF_vars(Main)
  /\ WF_vars(ReporterExits)
  /\ \A w \in Workers : WF_vars(InsertData(w))
  /\ WF_vars(SelectData)

FairSpec == Spec /\ Fairness
-----------------------------------------------------------------------------
\* The load comes to an end as long as one thread has connected
\* (CassandraDriver.cpp:109-140).
NobodyConnected == \A w \in Workers : pc[w] = "exited"
ProducerFinishesIfConnected == []<>(AfterAll \/ NobodyConnected)

\* Every message taken from the queue reaches the statistics once, whether its
\* batch succeeded or not: until it is counted it is in the hand of one thread,
\* after that of none, and no two threads have the same one.  Whether its rows
\* are in the database is not said (CassandraDriver.cpp:112-120, 212-240).
PoppedIsCountedOnce ==
  /\ \A i \in 1..popped : i \in recorded <=> \A w \in Workers : hand[w] # i
  /\ \A v, w \in Workers : hand[v] = hand[w] /\ hand[v] # 0 => v = w

\* "get the max timestamp so we don't duplicate existing rows"
\* (CassandraDriver.cpp:57): while a message has not been written, the database
\* has no row of its device and minute.
FreshKey ==
  \A i \in 1..Len(sent) : i \notin committed => UpsertedRow(i) \notin rows
=============================================================================
