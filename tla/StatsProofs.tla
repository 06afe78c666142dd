----------------------------- MODULE StatsProofs -----------------------------
(***************************************************************************)
(* Proofs about Stats, for any reports and any number of them: no report   *)
(* is counted twice or dropped between two intervals, and the times that   *)
(* are printed belong to the operations that are counted.                  *)
(***************************************************************************)
EXTENDS Stats, FiniteSetTheorems, WellFoundedInduction, TLAPS

\* The offset of the percentile is inside a vector that is not empty, and 0
\* up to 101 elements (Stats.cpp:5-10).
THEOREM NthIndexInside ==
  ASSUME NEW size \in Nat \ {0}
  PROVE  /\ nthIndex(size) \in 0..(size - 1)
         /\ nthIndex(size) = 0 <=> size <= 101
BY SMT DEF nthIndex

\* A set of numbers that is not empty has a least element.
LEMMA Least ==
  ASSUME NEW T, T \subseteq Nat, T # {}
  PROVE  \E x \in T : \A y \in T : x <= y
<1> DEFINE Before == OpToRel(<, Nat)
<1>1. IsWellFoundedOn(Before, Nat)
  BY NatLessThanWellFounded
<1>2. \A x, y \in Nat : <<y, x>> \in Before <=> y < x
  BY DEF OpToRel
<1> HIDE DEF Before
<1>3. PICK x \in T : \A y \in T : <<y, x>> \notin Before
  BY <1>1, WFMin
<1>4. \A y \in T : ~(y < x)
  BY <1>2, <1>3
<1> QED BY <1>4

\* And a greatest one, if it is bounded.
LEMMA Greatest ==
  ASSUME NEW T, T \subseteq Nat, T # {}, NEW n \in Nat, \A x \in T : x <= n
  PROVE  \E x \in T : \A y \in T : y <= x
<1> DEFINE Gaps == {n - x : x \in T}
<1>1. PICK gap \in Gaps : \A other \in Gaps : gap <= other
  <2>1. \A x \in T : n - x \in Nat
    OBVIOUS
  <2>2. Gaps \subseteq Nat /\ Gaps # {}
    BY <2>1
  <2> HIDE DEF Gaps
  <2> QED BY <2>2, Least
<1>2. PICK x \in T : gap = n - x
  OBVIOUS
<1>3. \A y \in T : n - x <= n - y
  BY <1>1, <1>2
<1>4. \A y \in T : y \in Nat
  OBVIOUS
<1> HIDE DEF Gaps
<1> QED BY <1>3, <1>4

\* As many positions as elements.
LEMMA UpToLength ==
  ASSUME NEW n \in Nat
  PROVE  IsFiniteSet(1..n) /\ Cardinality(1..n) = n
BY FS_Interval

\* The positions of the elements up to a value.
LEMMA Positions ==
  ASSUME NEW times \in Seq(Nat), NEW x
  PROVE  /\ Below(times, x) \subseteq 1..Len(times)
         /\ UpTo(times, x) \subseteq 1..Len(times)
         /\ IsFiniteSet(Below(times, x)) /\ Cardinality(Below(times, x)) \in Nat
         /\ IsFiniteSet(UpTo(times, x)) /\ Cardinality(UpTo(times, x)) \in Nat
         /\ Cardinality(UpTo(times, x)) <= Len(times)
<1>1. Below(times, x) \subseteq 1..Len(times) /\ UpTo(times, x) \subseteq 1..Len(times)
  BY DEF Below, UpTo
<1>2. IsFiniteSet(1..Len(times)) /\ Cardinality(1..Len(times)) = Len(times)
  <2>1. Len(times) \in Nat
    OBVIOUS
  <2> QED BY <2>1, UpToLength
<1>3. /\ IsFiniteSet(Below(times, x)) /\ IsFiniteSet(UpTo(times, x))
      /\ Cardinality(UpTo(times, x)) <= Len(times)
  BY <1>1, <1>2, FS_Subset
<1> QED BY <1>1, <1>3, FS_CardinalityType

\* Up to the greatest element there are all of them.
LEMMA GreatestElement ==
  ASSUME NEW times \in Seq(Nat), times # << >>
  PROVE  \E x \in {times[i] : i \in 1..Len(times)} :
           Cardinality(UpTo(times, x)) = Len(times)
<1> DEFINE Values == {times[i] : i \in 1..Len(times)}
           Sizes == {Cardinality(UpTo(times, x)) : x \in Values}
<1>0. Values \subseteq Nat /\ Values # {}
  OBVIOUS
<1>1. PICK size \in Sizes : \A other \in Sizes : other <= size
  <2> HIDE DEF Values
  <2>0. \A x : /\ Cardinality(UpTo(times, x)) \in Nat
               /\ Cardinality(UpTo(times, x)) <= Len(times)
    BY Positions
  <2>1. /\ Sizes \subseteq Nat /\ Sizes # {} /\ Len(times) \in Nat
        /\ \A n \in Sizes : n <= Len(times)
    <3>1. Len(times) \in Nat
      OBVIOUS
    <3>2. PICK x \in Values : TRUE
      BY <1>0
    <3>3. Cardinality(UpTo(times, x)) \in Sizes
      OBVIOUS
    <3>4. Sizes \subseteq Nat /\ \A n \in Sizes : n <= Len(times)
      BY <2>0
    <3> QED BY <3>1, <3>3, <3>4
  <2> HIDE DEF Sizes
  <2> QED BY <2>1, Greatest
<1>2. PICK x \in Values : size = Cardinality(UpTo(times, x))
  OBVIOUS
<1>3. ASSUME NEW i \in 1..Len(times), times[i] > x PROVE FALSE
  <2>1. times[i] \in Nat /\ x \in Nat /\ times[i] \in Values
    BY <1>0
  <2>2. UpTo(times, x) \cup {i} \subseteq UpTo(times, times[i])
    <3>1. ASSUME NEW j \in UpTo(times, x) PROVE j \in UpTo(times, times[i])
      <4>1. times[j] \in Nat /\ times[j] <= x /\ j \in 1..Len(times)
        BY DEF UpTo
      <4> QED BY <1>3, <2>1, <4>1 DEF UpTo
    <3>2. i \in UpTo(times, times[i])
      BY <2>1 DEF UpTo
    <3> QED BY <3>1, <3>2
  <2>3. i \notin UpTo(times, x)
    BY <1>3, <2>1 DEF UpTo
  <2> HIDE DEF Values
  <2>4. Cardinality(UpTo(times, x)) + 1 <= Cardinality(UpTo(times, times[i]))
    <3>1. Cardinality(UpTo(times, x) \cup {i}) = Cardinality(UpTo(times, x)) + 1
      BY <2>3, Positions, FS_AddElement
    <3>2. Cardinality(UpTo(times, x) \cup {i}) <= Cardinality(UpTo(times, times[i]))
      BY <2>2, Positions, FS_Subset
    <3> QED BY <3>1, <3>2
  <2>5. Cardinality(UpTo(times, times[i])) <= Cardinality(UpTo(times, x))
    BY <1>1, <1>2, <2>1
  <2> QED BY <2>4, <2>5, Positions
<1>4. \A i \in 1..Len(times) : times[i] <= x
  <2>1. x \in Nat /\ \A i \in 1..Len(times) : times[i] \in Nat
    BY <1>0
  <2> HIDE DEF Values
  <2> QED BY <1>3, <2>1
<1>5. UpTo(times, x) = 1..Len(times)
  BY <1>4 DEF UpTo
<1>6. Cardinality(1..Len(times)) = Len(times)
  <2>1. Len(times) \in Nat
    OBVIOUS
  <2> QED BY <2>1, UpToLength
<1> QED BY <1>2, <1>5, <1>6

\* Every offset inside a vector has an element: the CHOOSE of percentile is
\* never from an empty set (Stats.cpp:5-10).
THEOREM NthExists ==
  ASSUME NEW times \in Seq(Nat), NEW offset \in 0..(Len(times) - 1)
  PROVE  \E x \in {times[i] : i \in 1..Len(times)} : IsNth(times, x, offset)
<1> DEFINE Values == {times[i] : i \in 1..Len(times)}
           Enough == {x \in Values : Cardinality(UpTo(times, x)) > offset}
<1>0. Values \subseteq Nat /\ Len(times) \in Nat /\ times # << >>
  OBVIOUS
<1>1. PICK x \in Enough : \A y \in Enough : x <= y
  <2>1. Enough # {}
    BY <1>0, GreatestElement
  <2>2. Enough \subseteq Nat
    BY <1>0
  <2> HIDE DEF Enough
  <2> QED BY <2>1, <2>2, Least
<1>2. Cardinality(Below(times, x)) <= offset
  <2> SUFFICES ASSUME Cardinality(Below(times, x)) > offset PROVE FALSE
    BY Positions
  <2> DEFINE Smaller == {times[i] : i \in Below(times, x)}
  <2>1. Below(times, x) # {}
    <3>1. offset \in Nat /\ Cardinality({}) = 0
      BY FS_EmptySet
    <3>2. Cardinality(Below(times, x)) # 0
      BY <3>1, Positions
    <3> QED BY <3>1, <3>2
  <2>2. PICK y \in Smaller : \A z \in Smaller : z <= y
    <3>1. x \in Nat
      BY <1>0
    <3>2. Smaller \subseteq Nat /\ Smaller # {}
      <4>1. Below(times, x) \subseteq 1..Len(times)
        BY Positions
      <4>2. \A i \in 1..Len(times) : times[i] \in Nat
        OBVIOUS
      <4> QED BY <2>1, <4>1, <4>2
    <3>3. \A z \in Smaller : z <= x
      BY <3>1 DEF Below
    <3> HIDE DEF Smaller
    <3> QED BY <3>1, <3>2, <3>3, Greatest
  <2>3. y \in Values /\ y < x
    BY DEF Below
  <2>4. Below(times, x) \subseteq UpTo(times, y)
    BY <2>2 DEF Below, UpTo
  <2>5. Cardinality(Below(times, x)) <= Cardinality(UpTo(times, y))
    BY <2>4, Positions, FS_Subset
  <2>6. y \in Enough
    <3> HIDE DEF Values
    <3> QED BY <2>3, <2>5, Positions
  <2>7. x \in Nat /\ y \in Nat
    BY <1>0, <2>3
  <2> HIDE DEF Enough
  <2> QED BY <1>1, <2>3, <2>6, <2>7
<1> QED BY <1>1, <1>2 DEF IsNth
-----------------------------------------------------------------------------
(* The inductive invariant.                                                *)

\* Who holds lockCounts is under it.
LockHeld ==
  /\ lockCounts = "Run" <=> runPc \in {"count", "time"}
  /\ lockCounts = "statsPrint" <=> printPc \in {"print", "clear"}

\* Between the two statements of Run one op has a count without its time.
CountsHaveTimes ==
  \A op \in Ops :
    \/ Counts[op] > 0 <=> execTimes[op] # << >>
    \/ runPc = "time" /\ sm.op = op

\* Run between its statements has a report whose count is not 0 any more.
CountedIsPositive == runPc = "time" => Counts[sm.op] > 0

TotalIsPrinted == totalInserted = printed[InsertMetric]

IInv ==
  /\ TypeOK
  /\ LockHeld
  /\ CountsHaveTimes
  /\ CountedIsPositive
  /\ TotalIsPrinted
  /\ IntervalsAddUp

\* What a report contains (ReportsAssumption).
LEMMA ReportTypes ==
  ASSUME NEW r \in Reports
  PROVE  r.op \in Ops /\ r.time_us \in Nat /\ r.cnt \in Nat /\ r.cnt > 0
BY ReportsAssumption

\* IInv holds before the threads start.
LEMMA InitIInv == ASSUME Init PROVE IInv
<1>1. TypeOK
  BY DEF Init, TypeOK, Zero, Ops
<1>2. LockHeld /\ CountsHaveTimes /\ CountedIsPositive
  BY DEF Init, LockHeld, CountsHaveTimes, CountedIsPositive, Zero
<1>3. TotalIsPrinted /\ IntervalsAddUp
  BY DEF Init, TotalIsPrinted, IntervalsAddUp, InHand, InCounts, InLines, Zero,
         Ops, InsertMetric
<1> QED BY <1>1, <1>2, <1>3 DEF IInv

\* Reports are pushed without the lock and touch the queue only.
LEMMA ReportKeepsIInv ==
  ASSUME IInv, NEW r \in Reports, Report(r) PROVE IInv'
<1> USE DEF IInv
<1>1. TypeOK'
  BY ReportTypes DEF Report, TypeOK, runVars, countVars, printVars
<1>2. UNCHANGED <<runPc, sm, lockCounts, Counts, execTimes, printPc,
                  totalInserted, popped, printed>>
  BY DEF Report, runVars, countVars, printVars
<1>3. (LockHeld /\ CountsHaveTimes /\ CountedIsPositive)'
  BY <1>2 DEF LockHeld, CountsHaveTimes, CountedIsPositive
<1>4. TotalIsPrinted' /\ IntervalsAddUp'
  BY <1>2 DEF TotalIsPrinted, IntervalsAddUp, InHand, InCounts, InLines
<1> QED BY <1>1, <1>3, <1>4

\* A report goes from the queue into the hand of Run (Stats.cpp:103-105).
LEMMA RunPopsKeepsIInv == ASSUME IInv, RunPops PROVE IInv'
<1> USE DEF IInv
<1>1. sm' \in Reports /\ sm' = Head(statQueue) /\ statQueue' \in Seq(Reports)
  BY DEF RunPops, TypeOK
<1>2. TypeOK'
  BY <1>1, ReportTypes DEF RunPops, TypeOK, countVars, printVars
<1>3. (LockHeld /\ CountsHaveTimes /\ CountedIsPositive)'
  BY <1>1 DEF RunPops, LockHeld, CountsHaveTimes, CountedIsPositive, countVars,
              printVars
<1>4. TotalIsPrinted'
  BY DEF RunPops, TotalIsPrinted, printVars
<1>5. IntervalsAddUp'
  BY <1>1, ReportTypes
     DEF RunPops, IntervalsAddUp, InHand, InCounts, InLines, countVars,
         printVars, TypeOK
<1> QED BY <1>2, <1>3, <1>4, <1>5

\* Run gets a free lock.
LEMMA RunLocksKeepsIInv == ASSUME IInv, RunLocks PROVE IInv'
<1> USE DEF IInv
<1>1. TypeOK'
  BY DEF RunLocks, TypeOK, countVars, printVars
<1>2. (LockHeld /\ CountsHaveTimes /\ CountedIsPositive)'
  BY DEF RunLocks, LockHeld, CountsHaveTimes, CountedIsPositive, countVars,
         printVars
<1>3. TotalIsPrinted' /\ IntervalsAddUp'
  BY DEF RunLocks, TotalIsPrinted, IntervalsAddUp, InHand, InCounts, InLines,
         countVars, printVars
<1> QED BY <1>1, <1>2, <1>3

\* The count of the report is added, its time is not there yet.
LEMMA RunAddsCountKeepsIInv == ASSUME IInv, RunAddsCount PROVE IInv'
<1> USE DEF IInv
<1>1. sm \in Reports /\ sm.op \in Ops /\ sm.cnt \in Nat /\ sm.cnt > 0
  BY ReportTypes DEF RunAddsCount, TypeOK
<1>2. TypeOK'
  BY <1>1 DEF RunAddsCount, TypeOK, printVars
<1>3. LockHeld' /\ CountedIsPositive'
  BY <1>1 DEF RunAddsCount, LockHeld, CountedIsPositive, printVars, TypeOK
<1>4. CountsHaveTimes'
  BY <1>1 DEF RunAddsCount, CountsHaveTimes, TypeOK
<1>5. TotalIsPrinted'
  BY DEF RunAddsCount, TotalIsPrinted, printVars
<1>6. printPc # "clear"
  BY DEF RunAddsCount, LockHeld
<1>7. IntervalsAddUp'
  BY <1>1, <1>6
     DEF RunAddsCount, IntervalsAddUp, InHand, InCounts, InLines, printVars,
         TypeOK
<1> QED BY <1>2, <1>3, <1>4, <1>5, <1>7

\* The time is added and the lock released.
LEMMA RunAddsTimeKeepsIInv == ASSUME IInv, RunAddsTime PROVE IInv'
<1> USE DEF IInv
<1>1. sm \in Reports /\ sm.op \in Ops /\ sm.time_us \in Nat
  BY ReportTypes DEF RunAddsTime, TypeOK
<1>2. TypeOK'
  BY <1>1 DEF RunAddsTime, TypeOK, printVars
<1>3. LockHeld' /\ CountedIsPositive'
  BY DEF RunAddsTime, LockHeld, CountedIsPositive, printVars
<1>4. CountsHaveTimes'
  <2> SUFFICES ASSUME NEW op \in Ops
               PROVE  (Counts[op] > 0 <=> execTimes[op] # << >>)'
    BY DEF CountsHaveTimes
  <2>1. CASE op = sm.op
    <3>1. execTimes'[op] = Append(execTimes[op], sm.time_us) /\ Counts' = Counts
      BY <2>1 DEF RunAddsTime, TypeOK
    <3>2. execTimes[op] \in Seq(Nat)
      BY DEF TypeOK
    <3>3. Append(execTimes[op], sm.time_us) # << >>
      BY <1>1, <3>2
    <3> QED BY <2>1, <3>1, <3>3 DEF RunAddsTime, CountedIsPositive
  <2>2. CASE op # sm.op
    BY <2>2 DEF RunAddsTime, CountsHaveTimes, TypeOK
  <2> QED BY <2>1, <2>2
<1>5. TotalIsPrinted' /\ IntervalsAddUp'
  BY DEF RunAddsTime, TotalIsPrinted, IntervalsAddUp, InHand, InCounts, InLines,
         printVars
<1> QED BY <1>2, <1>3, <1>4, <1>5

\* statsPrint comes to its lines with the lock.
LEMMA PrintMovesKeepIInv == ASSUME IInv, PrintWakes \/ PrintLocks PROVE IInv'
<1> USE DEF IInv
<1>1. /\ UNCHANGED <<statQueue, runPc, sm, Counts, execTimes, totalInserted,
                     running, pushed, popped, printed>>
      /\ printPc' \in {"lock", "print"} /\ printPc # "clear"
  BY DEF PrintWakes, PrintLocks, runVars, countVars
<1>2. TypeOK'
  BY DEF PrintWakes, PrintLocks, TypeOK, runVars, countVars
<1>3. LockHeld'
  BY DEF PrintWakes, PrintLocks, LockHeld, runVars
<1>4. CountsHaveTimes' /\ CountedIsPositive' /\ TotalIsPrinted'
  BY <1>1 DEF CountsHaveTimes, CountedIsPositive, TotalIsPrinted
<1>5. IntervalsAddUp'
  BY <1>1 DEF IntervalsAddUp, InHand, InCounts, InLines
<1> QED BY <1>2, <1>3, <1>4, <1>5

\* The lines move what was counted to what is printed.
LEMMA PrintLinesKeepsIInv == ASSUME IInv, PrintLines PROVE IInv'
<1> USE DEF IInv
<1>1. UNCHANGED <<runPc, sm, Counts, execTimes, popped>>
  BY DEF PrintLines, runVars, countVars
<1>2. TypeOK'
  <2>1. Counts \in [Ops -> Nat] /\ printed \in [Ops -> Nat] /\ InsertMetric \in Ops
    BY DEF TypeOK, Ops, InsertMetric
  <2>2. printed' \in [Ops -> Nat] /\ totalInserted' \in Nat
    BY <2>1 DEF PrintLines, TypeOK
  <2> QED BY <2>2 DEF PrintLines, TypeOK, runVars, countVars
<1>3. LockHeld'
  BY DEF PrintLines, LockHeld, runVars
<1>4. CountsHaveTimes' /\ CountedIsPositive'
  BY <1>1 DEF CountsHaveTimes, CountedIsPositive
<1>5. TotalIsPrinted'
  BY DEF PrintLines, TotalIsPrinted, Ops, InsertMetric
<1>6. IntervalsAddUp'
  <2> SUFFICES ASSUME NEW op \in Ops
               PROVE  (popped[op] = InHand(op) + InCounts(op) + InLines(op))'
    BY DEF IntervalsAddUp
  <2>1. popped'[op] = popped[op] /\ InHand(op)' = InHand(op)
    BY <1>1 DEF InHand
  <2>2. InCounts(op)' = 0 /\ InCounts(op) = Counts[op]
    BY DEF InCounts, PrintLines
  <2>3. InLines(op)' = InLines(op) + Counts[op]
    BY DEF InLines, PrintLines
  <2>4. InHand(op) \in Int /\ Counts[op] \in Int /\ InLines(op) \in Int
    BY ReportTypes DEF InHand, InLines, TypeOK, LockHeld
  <2>5. popped[op] = InHand(op) + InCounts(op) + InLines(op)
    BY DEF IntervalsAddUp
  <2> HIDE DEF IInv
  <2> QED BY <2>1, <2>2, <2>3, <2>4, <2>5
<1> QED BY <1>2, <1>3, <1>4, <1>5, <1>6

\* Counts and times are cleared together.
LEMMA PrintClearsKeepsIInv == ASSUME IInv, PrintClears PROVE IInv'
<1> USE DEF IInv
<1>1. UNCHANGED <<runPc, sm, totalInserted, popped, printed>>
  BY DEF PrintClears, runVars
<1>2. TypeOK'
  BY DEF PrintClears, TypeOK, runVars, Zero
<1>3. LockHeld'
  BY DEF PrintClears, LockHeld, runVars
<1>4. runPc \notin {"count", "time"}
  BY DEF PrintClears, LockHeld
<1>5. CountsHaveTimes' /\ CountedIsPositive'
  BY <1>1, <1>4 DEF PrintClears, CountsHaveTimes, CountedIsPositive, Zero
<1>6. TotalIsPrinted'
  BY <1>1 DEF TotalIsPrinted
<1>7. \A op \in Ops : InCounts(op)' = InCounts(op)
  BY DEF PrintClears, InCounts, Zero
<1>8. IntervalsAddUp'
  BY <1>1, <1>7 DEF IntervalsAddUp, InHand, InLines
<1> QED BY <1>2, <1>3, <1>5, <1>6, <1>8

\* IInv is an invariant.
LEMMA Invariance == Spec => []IInv
<1>1. Init => IInv
  BY InitIInv
<1>2. IInv /\ [Next]_vars => IInv'
  <2> SUFFICES ASSUME IInv, [Next]_vars PROVE IInv'
    OBVIOUS
  <2>1. CASE \E report \in Reports : Report(report)
    BY <2>1, ReportKeepsIInv
  <2>2. CASE Run
    BY <2>2, RunPopsKeepsIInv, RunLocksKeepsIInv, RunAddsCountKeepsIInv,
       RunAddsTimeKeepsIInv DEF Run
  <2>3. CASE statsPrint
    BY <2>3, PrintMovesKeepIInv, PrintLinesKeepsIInv, PrintClearsKeepsIInv
       DEF statsPrint
  <2>4. CASE MainReturns \/ UNCHANGED vars
    <3>1. UNCHANGED <<statQueue, runPc, sm, lockCounts, Counts, execTimes,
                      printPc, totalInserted, pushed, popped, printed>>
      BY <2>4 DEF MainReturns, vars, runVars, countVars, printVars
    <3>2. running' \in BOOLEAN
      BY <2>4 DEF MainReturns, vars, IInv, TypeOK
    <3>3. TypeOK'
      BY <3>1, <3>2 DEF IInv, TypeOK
    <3>4. (LockHeld /\ CountsHaveTimes /\ CountedIsPositive /\ TotalIsPrinted)'
      BY <3>1 DEF IInv, LockHeld, CountsHaveTimes, CountedIsPositive,
                  TotalIsPrinted
    <3>5. IntervalsAddUp'
      BY <3>1 DEF IInv, IntervalsAddUp, InHand, InCounts, InLines
    <3> QED BY <3>3, <3>4, <3>5 DEF IInv
  <2> QED BY <2>1, <2>2, <2>3, <2>4 DEF Next
<1> QED BY <1>1, <1>2, PTL DEF Spec

\* Stats keeps its types for any reports (Stats.hpp:19-24).
THEOREM TypeCorrect == Spec => []TypeOK
<1>1. IInv => TypeOK
  BY DEF IInv
<1> QED BY <1>1, Invariance, PTL

\* No report is dropped or counted twice where an interval ends, and the
\* printed total of inserts is the sum of the intervals (Stats.cpp:23-111).
THEOREM NothingMiscounted == Spec => []IntervalsAddUp
<1>1. IInv => IntervalsAddUp
  BY DEF IInv
<1> QED BY <1>1, Invariance, PTL

\* statsPrint never takes the maximum of an empty vector, and prints times
\* whenever it prints a count (Stats.cpp:31-36, 50-56, 69-75).
THEOREM TimesAreThere == Spec => []TimesMatchCounts
<1>1. IInv => TimesMatchCounts
  <2> SUFFICES ASSUME IInv, printPc = "print", NEW op \in Ops
               PROVE  Counts[op] > 0 <=> execTimes[op] # << >>
    BY DEF TimesMatchCounts
  <2>1. runPc # "time"
    BY DEF IInv, LockHeld
  <2> QED BY <2>1 DEF IInv, CountsHaveTimes
<1> QED BY <1>1, Invariance, PTL

\* What is printed as the 99% time of up to 101 operations is the shortest of
\* their times (Stats.cpp:5-10, 32, 44).
NinetyNineIsShortest ==
  printPc = "print" =>
    \A op \in Ops : Counts[op] > 0 /\ Len(execTimes[op]) <= 101 =>
      \A i \in 1..Len(execTimes[op]) :
        percentile(execTimes[op]) <= execTimes[op][i]

\* The finding of NinetyNineAreCovered for any reports: percentile divides by
\* 100 once too often.
THEOREM NinetyNineIsMinimum == Spec => []NinetyNineIsShortest
<1>1. ASSUME NEW times \in Seq(Nat), times # << >>, Len(times) <= 101,
             NEW i \in 1..Len(times)
      PROVE  percentile(times) <= times[i]
  <2>1. Len(times) \in Nat \ {0} /\ 0 \in 0..(Len(times) - 1)
    BY <1>1
  <2>2. nthIndex(Len(times)) = 0
    BY <1>1, <2>1, NthIndexInside
  <2>3. /\ percentile(times) \in {times[j] : j \in 1..Len(times)}
        /\ IsNth(times, percentile(times), 0)
    BY <2>1, <2>2, NthExists DEF percentile
  <2>4. percentile(times) \in Nat /\ times[i] \in Nat
    BY <2>3
  <2>5. Below(times, percentile(times)) = {}
    BY <2>3, Positions, FS_EmptySet DEF IsNth
  <2> QED BY <2>4, <2>5 DEF Below
<1>2. IInv => NinetyNineIsShortest
  <2> SUFFICES ASSUME IInv, printPc = "print", NEW op \in Ops, Counts[op] > 0,
                      Len(execTimes[op]) <= 101, NEW i \in 1..Len(execTimes[op])
               PROVE  percentile(execTimes[op]) <= execTimes[op][i]
    BY DEF NinetyNineIsShortest
  <2>1. execTimes[op] \in Seq(Nat) /\ execTimes[op] # << >>
    BY DEF IInv, TypeOK, LockHeld, CountsHaveTimes
  <2> QED BY <1>1, <2>1
<1> QED BY <1>2, Invariance, PTL
=============================================================================
