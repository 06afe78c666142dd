---------------------------- MODULE SampledStats ----------------------------
(***************************************************************************)
(* The --csvstream report: SampledStats.cpp and the loop of the driver     *)
(* thread that owns the object.  After each query the thread adds its time *)
(* and, when displayFreq seconds have passed, writes a line for each       *)
(* operation of its list; and once more when it exits.                     *)
(*                                                                         *)
(* The arrays have MAX_OPTYPES = sizeof(MessageType) = 4 elements; the     *)
(* boost arrays assert that an index is smaller, and abort the process.    *)
(***************************************************************************)
EXTENDS RunningMean, Sequences, FiniteSets

CONSTANTS
  maxsamples,   \* Config::maxsamples
  Roles,        \* the threads that occur, of the four below
  Latencies,    \* model bound: the times in ms that occur
  MaxOps        \* model bound: queries of the thread

InsertMetric == 2
DeleteDevice == 3
Select_K1 == 4
Select_K2 == 5
Select_K3 == 6
MAX_OPTYPES == 4
OpTypes == 0..(MAX_OPTYPES - 1)

\* What a thread adds, and its showStats.  InsertData in prepare mode; in run
\* mode of MongoDB, of MySQL and Cassandra; SelectData of MySQL.
PrepareInsert == [adds |-> {InsertMetric}, showStats |-> <<InsertMetric>>]
MongoRunInsert ==
  [adds |-> {InsertMetric}, showStats |-> <<InsertMetric, DeleteDevice>>]
runStats == <<InsertMetric, DeleteDevice, Select_K1, Select_K2>>
RunInsert == [adds |-> {InsertMetric}, showStats |-> runStats]
RunSelect ==
  [adds |-> {Select_K1, Select_K2, Select_K3}, showStats |-> runStats]

ASSUME SampledAssumption ==
  /\ maxsamples \in Nat \ {0}
  /\ Roles \subseteq {PrepareInsert, MongoRunInsert, RunInsert, RunSelect}
  /\ Latencies \subseteq Nat
  /\ MaxOps \in Nat

VARIABLES
  role,         \* which thread this is
  pc,           \* "query", "check" (the time), "exited", "aborted"
  numops, errors, opsSinceReset, minimums, maximums,    \* [type]
  samples,      \* [type]: maxsamples times
  lines,        \* [type]: the last line written, or NoLine
  added         \* history, [type]: all times given to addStats

counters == <<numops, errors, opsSinceReset, minimums, maximums, added>>
vars == <<role, pc, counters, samples, lines>>

NoLine == [totalops |-> 0]
Each(x) == [type \in OpTypes |-> x]

Init ==
  /\ role \in Roles
  /\ pc = "query"
  /\ numops = Each(0) /\ errors = Each(0) /\ opsSinceReset = Each(0)
  /\ minimums = Each(0) /\ maximums = Each(0)
  /\ samples = Each([i \in 1..maxsamples |-> 0])
  /\ lines = Each(NoLine)
  /\ added = Each(<< >>)
-----------------------------------------------------------------------------
\* The sample after a time is added: the new time has the probability
\* maxsamples/opIndex to replace some other, which is 1 for the first one.
Sampled(kept, opIndex, timetaken) ==
  IF opIndex < maxsamples
    THEN {[kept EXCEPT ![opIndex + 1] = timetaken]}
    ELSE {[kept EXCEPT ![i] = timetaken] : i \in 1..maxsamples}
         \cup (IF opIndex > maxsamples THEN {kept} ELSE {})

\* The errors[type] or minimums[type] of an index that is too large aborts.
addStats(type, timetaken, error) ==
  /\ type \in OpTypes
  /\ errors' = [errors EXCEPT ![type] = IF error THEN @ + 1 ELSE @]
  /\ minimums' = [minimums EXCEPT ![type] =
                    IF @ = 0 \/ @ > timetaken THEN timetaken ELSE @]
  /\ maximums' = [maximums EXCEPT ![type] =
                    IF timetaken > @ THEN timetaken ELSE @]
  /\ numops' = [numops EXCEPT ![type] = @ + 1]
  /\ opsSinceReset' = [opsSinceReset EXCEPT ![type] = @ + 1]
  /\ \E s \in Sampled(samples[type], opsSinceReset[type], timetaken) :
       samples' = [samples EXCEPT ![type] = s]
  /\ added' = [added EXCEPT ![type] = Append(@, timetaken)]

\* The orders of the elements up to end in which they do not decrease.
Sortings(s, end) ==
  {p \in [1..end -> 1..end] :
     \A i, j \in 1..end : i < j => p[i] # p[j] /\ s[p[i]] <= s[p[j]]}

SortedPart(s, end) ==
  LET p == CHOOSE p \in Sortings(s, end) : TRUE IN [i \in 1..end |-> s[p[i]]]

\* Mutated forms of SortedTo: sorts the whole array; keeps the sorted part.
SortedTo_all(s, end) == SortedPart(s, Len(s))
SortedTo_short(s, end) == SortedPart(s, end)

\* std::sort of the elements before end.
SortedTo(s, end) ==
  [i \in DOMAIN s |-> IF i <= end THEN SortedPart(s, end)[i] ELSE s[i]]

\* Mutated form of Indices: the quartiles swapped.
Indices_swapped(elems) ==
  [min |-> 0, p25 |-> elems - 1 - elems \div 4, p50 |-> elems \div 2,
   p75 |-> elems \div 4, p90 |-> elems - 1 - elems \div 10,
   p95 |-> elems - 1 - elems \div 20, p99 |-> elems - 1 - elems \div 100,
   max |-> elems - 1]

\* Where displayStats finds its columns in the sorted sample, from 0.
Indices(elems) ==
  [min |-> 0, p25 |-> elems \div 4, p50 |-> elems \div 2,
   p75 |-> elems - 1 - elems \div 4, p90 |-> elems - 1 - elems \div 10,
   p95 |-> elems - 1 - elems \div 20, p99 |-> elems - 1 - elems \div 100,
   max |-> elems - 1]

Elems(type) ==
  IF maxsamples < opsSinceReset[type] THEN maxsamples ELSE opsSinceReset[type]

\* The RunningMean of the elements up to the last, and its weighted value.
MeanOf(s, last) ==
  LET mean[n \in 1..last] ==
        IF n = 1 THEN NewMean(s[1]) ELSE addSample(mean[n - 1], s[n])
  IN  WeightedMean(mean[last])

\* A line; "mean" is the mean times the elements.  Without elements the
\* columns of the sample are empty.
LineOf(type, sorted) ==
  LET elems == Elems(type)
  IN  [totalops |-> numops[type], totalerrors |-> errors[type],
       sampleOps |-> elems, mean |-> MeanOf(sorted, elems),
       columns |-> [c \in DOMAIN Indices(elems) |->
                      sorted[Indices(elems)[c] + 1]]]
EmptyLine(type) ==
  [totalops |-> numops[type], totalerrors |-> errors[type], sampleOps |-> 0]

\* displayStats over showStats: opsSinceReset[type] of an index that is too
\* large aborts, after the lines before it.
displayStats(next) ==
  LET shown == {role.showStats[i] : i \in 1..Len(role.showStats)}
      types == shown \cap OpTypes
  IN  /\ samples' = [type \in OpTypes |->
           IF type \in types THEN SortedTo(samples[type], Elems(type))
           ELSE samples[type]]
      /\ lines' = [type \in OpTypes |->
           IF type \notin types THEN lines[type]
           ELSE IF Elems(type) = 0 THEN EmptyLine(type)
           ELSE LineOf(type, samples'[type])]
      /\ pc' = IF shown \subseteq OpTypes THEN next ELSE "aborted"
-----------------------------------------------------------------------------
(* The loop of InsertData and SelectData.                                  *)

Query ==
  /\ pc = "query"
  /\ \E type \in role.adds, time \in Latencies : addStats(type, time, FALSE)
  /\ pc' = "check"
  /\ UNCHANGED <<role, lines>>

\* Mutated form of QueryFails: the thread goes on.
QueryFails_goes_on ==
  /\ pc = "query"
  /\ \E type \in role.adds, time \in Latencies : addStats(type, time, TRUE)
  /\ pc' = "check"
  /\ UNCHANGED <<role, lines>>

\* The catch block of MySQL's queries adds the time, and throws.
QueryFails ==
  /\ pc = "query"
  /\ role # MongoRunInsert
  /\ \E type \in role.adds, time \in Latencies : addStats(type, time, TRUE)
  /\ pc' = "aborted"
  /\ UNCHANGED <<role, lines>>

\* addStats of a type without an element.
QueryAborts ==
  /\ pc = "query"
  /\ role.adds \ OpTypes # {}
  /\ pc' = "aborted"
  /\ UNCHANGED <<role, counters, samples, lines>>

\* if (ostreamSet && endTime - lastDisplayTime > displayFreq * 1000)
Check ==
  /\ pc = "check"
  /\ \/ pc' = "query" /\ UNCHANGED <<samples, lines>>
     \/ displayStats("query")
  /\ UNCHANGED <<role, counters>>

\* After the loop; MongoDB's never ends.
Exit ==
  /\ pc = "query"
  /\ role # MongoRunInsert
  /\ displayStats("exited")
  /\ UNCHANGED <<role, counters>>

Next ==
  \/ /\ \A type \in OpTypes : numops[type] < MaxOps
     /\ Query \/ QueryFails
  \/ QueryAborts
  \/ Check
  \/ Exit

Spec == Init /\ [][Next]_vars
-----------------------------------------------------------------------------
Line == [totalops : Nat, totalerrors : Nat, sampleOps : 1..maxsamples,
         mean : Nat, columns : [DOMAIN Indices(1) -> Nat]]
NoSampleLine == [totalops : Nat, totalerrors : Nat, sampleOps : {0}]

TypeOK ==
  /\ role \in Roles
  /\ pc \in {"query", "check", "exited", "aborted"}
  /\ numops \in [OpTypes -> Nat] /\ errors \in [OpTypes -> Nat]
  /\ opsSinceReset \in [OpTypes -> Nat]
  /\ minimums \in [OpTypes -> Nat] /\ maximums \in [OpTypes -> Nat]
  /\ samples \in [OpTypes -> [1..maxsamples -> Nat]]
  /\ lines \in [OpTypes -> {NoLine} \cup Line \cup NoSampleLine]
  /\ added \in [OpTypes -> Seq(Nat)]

Occurrences(x, s) == Cardinality({i \in DOMAIN s : s[i] = x})
Sample(type) == [i \in 1..Elems(type) |-> samples[type][i]]

\* The sample is drawn from what was added, each time at most as often as it
\* was, although displays sort it in place between additions
\* (SampledStats.cpp:73-84, 126-127).
SampleIsDrawn ==
  \A type \in OpTypes : \A i \in 1..Elems(type) :
    LET x == samples[type][i]
    IN  Occurrences(x, Sample(type)) <= Occurrences(x, added[type])

\* A line is consistent in itself: the percentiles are ordered, the mean is
\* between minimum and maximum, and the extreme columns were measured
\* (SampledStats.cpp:126-152).
LineIsOrdered ==
  \A type \in OpTypes : lines[type] \in Line =>
    LET l == lines[type]
        c == l.columns
    IN  /\ c.min <= c.p25 /\ c.p25 <= c.p50 /\ c.p50 <= c.p75
        /\ c.p75 <= c.p90 /\ c.p90 <= c.p95 /\ c.p95 <= c.p99 /\ c.p99 <= c.max
        /\ c.min * l.sampleOps <= l.mean /\ l.mean <= c.max * l.sampleOps
        /\ Occurrences(c.min, added[type]) > 0 /\ Occurrences(c.max, added[type]) > 0

\* The column totalerrors is 0 in every line: the thread that counts an error
\* takes the process with it (SampledStats.cpp:57-59, 115; MySQLDriver.cpp:
\* 342-356).
NoErrorIsPrinted ==
  \A type \in OpTypes : lines[type] # NoLine => lines[type].totalerrors = 0

\* "CSV periodic streaming stats file." (metricbench.cpp:78), "used to print out
\* stats at given intervals" (SampledStats.cpp:17): a thread that writes its
\* lines goes on to the next interval; only a query that fails stops it.
LinesKeepComing ==
  pc = "aborted" => \E type \in OpTypes : errors[type] > 0
=============================================================================
