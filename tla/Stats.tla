------------------------------- MODULE Stats -------------------------------
(***************************************************************************)
(* The two detached threads of Stats.cpp: Stats::Run takes the reports of  *)
(* the loader threads from statQueue and counts them, Stats::statsPrint    *)
(* wakes every displayFreq seconds, prints what was counted and clears it. *)
(* They share Counts and execTimes under lockCounts, and end when main     *)
(* returns, wherever they are.                                             *)
(*                                                                         *)
(* Places of Run: "pop", "lock", "count" and "time" (the two statements    *)
(* under the lock); of statsPrint: "sleep", "lock", "print", "clear".      *)
(***************************************************************************)
EXTENDS Integers, Sequences, FiniteSets

CONSTANTS
  Reports,      \* the StatMessages that occur: [op, time_us, cnt]
  MaxReports    \* model bound: elements of any op pushed

InsertMetric == 2
DeleteDevice == 3
Ops == 2..6          \* InsertMetric, DeleteDevice, Select_K1 .. Select_K3

\* cnt is the number of metrics inserted, at least 1, or 1.
ASSUME ReportsAssumption ==
  /\ Reports \subseteq [op : Ops, time_us : Nat, cnt : Nat \ {0}]
  /\ MaxReports \in Nat

VARIABLES
  statQueue,    \* tsqueue<StatMessage>
  runPc, sm,    \* Stats::Run: its place and its local variable
  lockCounts,   \* "free", or who holds it: "Run", "statsPrint"
  Counts, execTimes,        \* of each op; absent in the maps: 0 and << >>
  printPc, totalInserted,   \* Stats::statsPrint: its place and its local
  running,      \* main has not returned
  pushed, popped, printed   \* history: sums of cnt of each op

runVars == <<runPc, sm>>
countVars == <<Counts, execTimes>>
printVars == <<printPc, totalInserted>>
vars == <<statQueue, runVars, lockCounts, countVars, printVars, running,
          pushed, popped, printed>>

Zero == [op \in Ops |-> 0]
NoReport == [op |-> 0, time_us |-> 0, cnt |-> 0]

Init ==
  /\ statQueue = << >>
  /\ runPc = "pop" /\ sm = NoReport
  /\ lockCounts = "free"
  /\ Counts = Zero
  /\ execTimes = [op \in Ops |-> << >>]
  /\ printPc = "sleep" /\ totalInserted = 0
  /\ running = TRUE
  /\ pushed = Zero /\ popped = Zero /\ printed = Zero
-----------------------------------------------------------------------------
\* A driver thread: statQueue.push at the end of a query.
Report(report) ==
  /\ running
  /\ statQueue' = Append(statQueue, report)
  /\ pushed' = [pushed EXCEPT ![report.op] = @ + report.cnt]
  /\ UNCHANGED <<runVars, lockCounts, countVars, printVars, running, popped,
                 printed>>

\* main() returns: no thread of the process takes another step.
MainReturns ==
  /\ running
  /\ running' = FALSE
  /\ UNCHANGED <<statQueue, runVars, lockCounts, countVars, printVars, pushed,
                 popped, printed>>
-----------------------------------------------------------------------------
(* Stats::Run.                                                             *)

\* Mutated form of RunPops: does not wait.
RunPops_no_wait ==
  /\ running /\ runPc = "pop"
  /\ \/ /\ statQueue # << >>
        /\ sm' = Head(statQueue)
        /\ statQueue' = Tail(statQueue)
        /\ popped' = [popped EXCEPT ![sm'.op] = @ + sm'.cnt]
     \/ statQueue = << >> /\ UNCHANGED <<sm, statQueue, popped>>
  /\ runPc' = "lock"
  /\ UNCHANGED <<lockCounts, countVars, printVars, running, pushed, printed>>

RunPops ==
  /\ running /\ runPc = "pop"
  /\ statQueue # << >>
  /\ sm' = Head(statQueue)
  /\ statQueue' = Tail(statQueue)
  /\ popped' = [popped EXCEPT ![sm'.op] = @ + sm'.cnt]
  /\ runPc' = "lock"
  /\ UNCHANGED <<lockCounts, countVars, printVars, running, pushed, printed>>

\* Mutated form of RunLocks: no lock.
RunLocks_not ==
  /\ running /\ runPc = "lock"
  /\ runPc' = "count"
  /\ UNCHANGED <<statQueue, sm, lockCounts, countVars, printVars, running,
                 pushed, popped, printed>>

RunLocks ==
  /\ running /\ runPc = "lock"
  /\ lockCounts = "free"
  /\ lockCounts' = "Run"
  /\ runPc' = "count"
  /\ UNCHANGED <<statQueue, sm, countVars, printVars, running, pushed, popped,
                 printed>>

RunAddsCount ==
  /\ running /\ runPc = "count"
  /\ Counts' = [Counts EXCEPT ![sm.op] = @ + sm.cnt]
  /\ runPc' = "time"
  /\ UNCHANGED <<statQueue, sm, lockCounts, execTimes, printVars, running,
                 pushed, popped, printed>>

\* Mutated form of RunAddsTime: keeps the lock.
RunAddsTime_locked ==
  /\ running /\ runPc = "time"
  /\ execTimes' = [execTimes EXCEPT ![sm.op] = Append(@, sm.time_us)]
  /\ runPc' = "pop"
  /\ UNCHANGED <<statQueue, sm, lockCounts, Counts, printVars, running, pushed,
                 popped, printed>>

RunAddsTime ==
  /\ running /\ runPc = "time"
  /\ execTimes' = [execTimes EXCEPT ![sm.op] = Append(@, sm.time_us)]
  /\ lockCounts' = "free"
  /\ runPc' = "pop"
  /\ UNCHANGED <<statQueue, sm, Counts, printVars, running, pushed, popped,
                 printed>>
-----------------------------------------------------------------------------
(* Stats::statsPrint.                                                      *)

\* The offset of percentile(.., 0.99), which divides by 100 once more.
nthIndex(size) == (99 * size) \div 10000

\* The value nth_element puts at an offset: at most that many elements are
\* smaller, and more are not greater.
Below(times, x) == {i \in 1..Len(times) : times[i] < x}
UpTo(times, x) == {i \in 1..Len(times) : times[i] <= x}
IsNth(times, x, offset) ==
  /\ Cardinality(Below(times, x)) <= offset
  /\ Cardinality(UpTo(times, x)) > offset

percentile(times) ==
  CHOOSE x \in {times[i] : i \in 1..Len(times)} :
    IsNth(times, x, nthIndex(Len(times)))

PrintWakes ==
  /\ running /\ printPc = "sleep"
  /\ printPc' = "lock"
  /\ UNCHANGED <<statQueue, runVars, lockCounts, countVars, totalInserted,
                 running, pushed, popped, printed>>

PrintLocks ==
  /\ running /\ printPc = "lock"
  /\ lockCounts = "free"
  /\ lockCounts' = "statsPrint"
  /\ printPc' = "print"
  /\ UNCHANGED <<statQueue, runVars, countVars, totalInserted, running, pushed,
                 popped, printed>>

\* One line for InsertMetric, and one for each other op with a count.
PrintLines ==
  /\ running /\ printPc = "print"
  /\ totalInserted' = totalInserted + Counts[InsertMetric]
  /\ printed' = [op \in Ops |-> printed[op] + Counts[op]]
  /\ printPc' = "clear"
  /\ UNCHANGED <<statQueue, runVars, lockCounts, countVars, running, pushed,
                 popped>>

\* Mutated form of PrintClears: the times stay.
PrintClears_counts ==
  /\ running /\ printPc = "clear"
  /\ Counts' = Zero
  /\ lockCounts' = "free"
  /\ printPc' = "sleep"
  /\ UNCHANGED <<statQueue, runVars, execTimes, totalInserted, running, pushed,
                 popped, printed>>

PrintClears ==
  /\ running /\ printPc = "clear"
  /\ Counts' = Zero
  /\ execTimes' = [op \in Ops |-> << >>]
  /\ lockCounts' = "free"
  /\ printPc' = "sleep"
  /\ UNCHANGED <<statQueue, runVars, totalInserted, running, pushed, popped,
                 printed>>
-----------------------------------------------------------------------------
Run == RunPops \/ RunLocks \/ RunAddsCount \/ RunAddsTime
statsPrint == PrintWakes \/ PrintLocks \/ PrintLines \/ PrintClears

Next ==
  \/ \E report \in Reports :
       /\ pushed[report.op] + report.cnt <= MaxReports
       /\ Report(report)
  \/ Run
  \/ statsPrint
  \/ MainReturns

Spec == Init /\ [][Next]_vars

\* The scheduler runs both threads.  A thread that waits for lockCounts gets
\* it if it is free again and again: statsPrint leaves it free for seconds,
\* Run while it waits for the queue.
Fairness ==
  /\ WF_vars(Run) /\ SF_vars(RunLocks)
  /\ WF_vars(statsPrint) /\ SF_vars(PrintLocks)

FairSpec == Spec /\ Fairness
-----------------------------------------------------------------------------
TypeOK ==
  /\ statQueue \in Seq(Reports)
  /\ runPc \in {"pop", "lock", "count", "time"}
  /\ sm \in Reports \cup {NoReport}
  /\ runPc # "pop" => sm \in Reports
  /\ lockCounts \in {"free", "Run", "statsPrint"}
  /\ Counts \in [Ops -> Nat]
  /\ execTimes \in [Ops -> Seq(Nat)]
  /\ printPc \in {"sleep", "lock", "print", "clear"}
  /\ totalInserted \in Nat
  /\ running \in BOOLEAN
  /\ pushed \in [Ops -> Nat]
  /\ popped \in [Ops -> Nat]
  /\ printed \in [Ops -> Nat]

\* Every report taken from the queue is in exactly one interval: in the hand
\* of Run, in the counters, or in the lines printed so far; the cumulative
\* number of inserts is their sum (Stats.cpp:23-87, 105-111).
InHand(op) == IF runPc \in {"lock", "count"} /\ sm.op = op THEN sm.cnt ELSE 0
InCounts(op) == IF printPc = "clear" THEN 0 ELSE Counts[op]
InLines(op) == IF op = InsertMetric THEN totalInserted ELSE printed[op]
IntervalsAddUp ==
  \A op \in Ops : popped[op] = InHand(op) + InCounts(op) + InLines(op)

\* A line of times is printed from the times of the operations it counts, and
\* never from an empty vector, whose maximum and percentile read past its end
\* (Stats.cpp:31-35, 50-55, 69-74).
TimesMatchCounts ==
  printPc = "print" =>
    \A op \in Ops : Counts[op] > 0 <=> execTimes[op] # << >>

\* Every report is printed in the end, unless main returns first
\* (Stats.cpp:18-89, 103-127).
EveryReportIsPrinted ==
  \A op \in Ops : \A n \in 1..MaxReports :
    pushed[op] >= n ~> (~running \/ printed[op] >= n)

\* "99% time(μs)" (Stats.cpp:45, 61, 80): of the operations a line counts, at
\* least 99 of 100 took no longer than the time printed under that label.
NinetyNineAreCovered ==
  printPc = "print" =>
    \A op \in Ops : Counts[op] > 0 =>
      LET times == execTimes[op]
      IN  100 * Cardinality(UpTo(times, percentile(times))) >= 99 * Len(times)
=============================================================================
