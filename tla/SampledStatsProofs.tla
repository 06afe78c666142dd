------------------------- MODULE SampledStatsProofs -------------------------
(***************************************************************************)
(* Proofs about SampledStats: the columns of a line are read inside the    *)
(* sample and in order for a sample of any size, and which processes the   *)
(* types of the run mode's lists and arrays let live.                      *)
(***************************************************************************)
EXTENDS SampledStats, FiniteSetTheorems, WellFoundedInduction, TLAPS

\* Every column is inside the sorted elements and no column of a higher
\* percentile is before one of a lower, from one element on
\* (SampledStats.cpp:134-141).
THEOREM IndicesInsideAndOrdered ==
  ASSUME NEW elems \in Nat \ {0}
  PROVE  LET at == Indices(elems)
         IN  /\ at.min = 0 /\ at.max = elems - 1
             /\ at.min <= at.p25 /\ at.p25 <= at.p50 /\ at.p50 <= at.p75
             /\ at.p75 <= at.p90 /\ at.p90 <= at.p95 /\ at.p95 <= at.p99
             /\ at.p99 <= at.max
BY SMT DEF Indices

\* The shown types of run mode do not fit the arrays, those of the others do.
LEMMA ShownFit ==
  /\ RunInsert.showStats[3] \notin OpTypes
  /\ Len(RunInsert.showStats) = 4
  /\ RunInsert.showStats = RunSelect.showStats
  /\ RunSelect.adds \cap OpTypes = {}
BY DEF RunInsert, RunSelect, runStats, OpTypes, MAX_OPTYPES, InsertMetric,
       DeleteDevice, Select_K1, Select_K2, Select_K3

\* With --csvstream the first display of a thread in run mode of MySQL or
\* Cassandra ends the process, and so does the first query of SelectData: the
\* lists name operations the arrays have no element for (SampledStats.cpp:
\* 61, 165-168; MySQLDriver.cpp:19, 473).
RunModeAborts ==
  role \in {RunInsert, RunSelect} =>
    /\ pc # "exited"
    /\ (\E type \in OpTypes : lines[type] # NoLine) => pc = "aborted"

\* What keeps RunModeAborts: a display is the last step.
AInv ==
  /\ role \in Roles
  /\ role \in {RunInsert, RunSelect} =>
       /\ pc \in {"query", "check", "aborted"}
       /\ (\E type \in OpTypes : lines[type] # NoLine) => pc = "aborted"

\* The third type of their list has no element (SampledStats.cpp:165-168).
LEMMA DisplayAborts ==
  ASSUME role \in {RunInsert, RunSelect}, NEW next, displayStats(next)
  PROVE  pc' = "aborted"
<1>1. Len(role.showStats) = 4 /\ role.showStats[3] \notin OpTypes
  BY ShownFit
<1>2. 3 \in 1..Len(role.showStats)
  BY <1>1
<1>3. ~({role.showStats[i] : i \in 1..Len(role.showStats)} \subseteq OpTypes)
  BY <1>1, <1>2
<1> QED BY <1>3 DEF displayStats

\* The finding of LinesKeepComing in general: run mode of MySQL and Cassandra
\* with --csvstream ends in an abort whatever the size of the sample and the
\* number of queries (SampledStats.cpp:165-168; MySQLDriver.cpp:19;
\* CassandraDriver.cpp:19).
THEOREM RunModeDisplayAborts == Spec => []RunModeAborts
<1>1. Init => AInv
  BY DEF Init, AInv, Each
<1>2. AInv /\ [Next]_vars => AInv'
  <2> SUFFICES ASSUME AInv, [Next]_vars PROVE AInv'
    OBVIOUS
  <2>1. CASE Query \/ QueryFails
    BY <2>1 DEF Query, QueryFails, AInv
  <2>2. CASE QueryAborts
    BY <2>2 DEF QueryAborts, AInv
  <2>3. CASE Check
    <3>1. CASE pc' = "query" /\ UNCHANGED <<samples, lines>>
      BY <2>3, <3>1 DEF Check, AInv
    <3>2. CASE displayStats("query")
      BY <2>3, <3>2, DisplayAborts DEF Check, AInv
    <3> QED BY <2>3, <3>1, <3>2 DEF Check
  <2>4. CASE Exit
    BY <2>4, DisplayAborts DEF Exit, AInv
  <2>5. CASE UNCHANGED vars
    BY <2>5 DEF vars, AInv
  <2> QED BY <2>1, <2>2, <2>3, <2>4, <2>5 DEF Next
<1>3. AInv => RunModeAborts
  BY DEF AInv, RunModeAborts
<1> QED BY <1>1, <1>2, <1>3, PTL DEF Spec
-----------------------------------------------------------------------------
(* Sorting and counting.                                                   *)

\* A set of numbers that is not empty has a least element.
LEMMA Least ==
  ASSUME NEW T, T \subseteq Nat, T # {}
  PROVE  \E x \in T : \A y \in T : x <= y
<1> DEFINE Before == OpToRel(<, Nat)
<1>1. IsWellFoundedOn(Before, Nat)
  BY NatLessThanWellFounded
<1>2. \A x, y \in Nat : <<y, x>> \in Before <=> y < x
  BY DEF OpToRel
<1> HIDE DEF Before
<1>3. PICK x \in T : \A y \in T : <<y, x>> \notin Before
  BY <1>1, WFMin
<1>4. \A y \in T : ~(y < x)
  BY <1>2, <1>3
<1> QED BY <1>4

\* Induction, for a set of numbers.
LEMMA Induction ==
  ASSUME NEW T, 0 \in T, \A n \in Nat : n \in T => n + 1 \in T
  PROVE  Nat \subseteq T
<1> SUFFICES ASSUME Nat \ T # {} PROVE FALSE
  OBVIOUS
<1>1. PICK n \in Nat \ T : \A m \in Nat \ T : n <= m
  <2> DEFINE Rest == Nat \ T
  <2>1. Rest \subseteq Nat /\ Rest # {}
    OBVIOUS
  <2> HIDE DEF Rest
  <2>2. \E x \in Rest : \A y \in Rest : x <= y
    BY <2>1, Least
  <2> QED BY <2>2 DEF Rest
<1>2. n # 0 /\ n - 1 \in Nat
  OBVIOUS
<1>3. n - 1 \in T
  BY <1>1, <1>2
<1>4. (n - 1) + 1 \in T
  BY <1>2, <1>3
<1> QED BY <1>4
-----------------------------------------------------------------------------
\* Numbers can be sorted: SortedTo never chooses from an empty set
\* (SampledStats.cpp:126-127).
LEMMA SortingExists ==
  ASSUME NEW m \in Nat, NEW s \in [1..m -> Nat], NEW end \in 0..m
  PROVE  Sortings(s, end) # {}
<1> DEFINE Done == {n \in Nat : n <= m => Sortings(s, n) # {}}
<1>1. 0 \in Done
  <2> DEFINE p == [i \in 1..0 |-> i]
  <2>1. p \in Sortings(s, 0)
    BY DEF Sortings
  <2> QED BY <2>1
<1>2. ASSUME NEW n \in Nat, n \in Done PROVE n + 1 \in Done
  <2> SUFFICES ASSUME n + 1 <= m PROVE Sortings(s, n + 1) # {}
    OBVIOUS
  <2>1. PICK p \in Sortings(s, n) : TRUE
    BY <1>2
  <2>2. /\ p \in [1..n -> 1..n]
        /\ \A i, j \in 1..n : i < j => p[i] # p[j] /\ s[p[i]] <= s[p[j]]
    BY DEF Sortings
  <2> DEFINE After == {i \in 1..(n + 1) : i = n + 1 \/ s[p[i]] > s[n + 1]}
  <2>3. PICK k \in After : \A i \in After : k <= i
    <3>1. After \subseteq Nat /\ n + 1 \in After
      OBVIOUS
    <3> HIDE DEF After
    <3> QED BY <3>1, Least
  <2>4. /\ k \in 1..(n + 1)
        /\ \A i \in 1..n : i < k => s[p[i]] <= s[n + 1]
    <3>1. \A i \in 1..n : i < k => i \notin After
      BY <2>3
    <3>2. \A i \in 1..n : s[p[i]] \in Nat
      BY <2>2
    <3>3. s[n + 1] \in Nat
      OBVIOUS
    <3> QED BY <3>1, <3>2, <3>3
  <2>5. \A i \in 1..n : i >= k => s[n + 1] <= s[p[i]]
    <3> SUFFICES ASSUME NEW i \in 1..n, i >= k PROVE s[n + 1] <= s[p[i]]
      OBVIOUS
    <3>1. k \in 1..n /\ s[p[k]] > s[n + 1]
      BY <2>3
    <3>2. p[k] \in 1..n /\ p[i] \in 1..n
      BY <2>2, <3>1
    <3>3. s[p[k]] \in Nat /\ s[p[i]] \in Nat /\ s[n + 1] \in Nat
      BY <3>2
    <3>4. s[p[k]] <= s[p[i]]
      <4>1. CASE i = k
        BY <3>3, <4>1
      <4>2. CASE i # k
        <5>1. k < i
          BY <3>1, <4>2
        <5> HIDE DEF After
        <5> QED BY <2>2, <3>1, <5>1
      <4> QED BY <4>1, <4>2
    <3> QED BY <3>1, <3>3, <3>4
  <2> HIDE DEF After
  <2> DEFINE q == [i \in 1..(n + 1) |->
                     IF i < k THEN p[i] ELSE IF i = k THEN n + 1 ELSE p[i - 1]]
  <2>6. \A i \in 1..(n + 1) :
          /\ i < k => q[i] = p[i] /\ i \in 1..n
          /\ i = k => q[i] = n + 1
          /\ i > k => q[i] = p[i - 1] /\ i - 1 \in 1..n
    BY <2>4
  <2>7. q \in [1..(n + 1) -> 1..(n + 1)]
    <3>1. ASSUME NEW i \in 1..(n + 1) PROVE q[i] \in 1..(n + 1)
      <4> HIDE DEF q
      <4>1. CASE i < k
        <5>1. q[i] = p[i] /\ i \in 1..n
          BY <2>6, <4>1
        <5>2. p[i] \in 1..n
          BY <2>2, <5>1
        <5> QED BY <5>1, <5>2
      <4>2. CASE i = k
        BY <2>6, <4>2
      <4>3. CASE i > k
        <5>1. q[i] = p[i - 1] /\ i - 1 \in 1..n
          BY <2>6, <4>3
        <5>2. p[i - 1] \in 1..n
          BY <2>2, <5>1
        <5> QED BY <5>1, <5>2
      <4> QED BY <2>4, <4>1, <4>2, <4>3
    <3>2. DOMAIN q = 1..(n + 1) /\ q = [i \in 1..(n + 1) |-> q[i]]
      OBVIOUS
    <3> HIDE DEF q
    <3> QED BY <3>1, <3>2
  <2> HIDE DEF q
  <2>8. ASSUME NEW i \in 1..(n + 1), NEW j \in 1..(n + 1), i < j
        PROVE  q[i] # q[j] /\ s[q[i]] <= s[q[j]]
    <3>1. CASE j < k
      <4>1. q[i] = p[i] /\ i \in 1..n /\ q[j] = p[j] /\ j \in 1..n
        BY <2>4, <2>6, <2>8, <3>1
      <4> QED BY <2>2, <2>8, <4>1
    <3>2. CASE j = k
      <4>1. i \in 1..n /\ i < k /\ q[i] = p[i] /\ q[j] = n + 1
        BY <2>6, <2>8, <3>2
      <4>2. p[i] \in 1..n
        BY <2>2, <4>1
      <4> QED BY <2>4, <4>1, <4>2
    <3>3. CASE j > k /\ i < k
      <4>1. q[i] = p[i] /\ i \in 1..n /\ q[j] = p[j - 1] /\ j - 1 \in 1..n
        BY <2>6, <3>3
      <4>2. i < j - 1
        BY <2>4, <3>3
      <4> QED BY <2>2, <4>1, <4>2
    <3>4. CASE j > k /\ i = k
      <4>1. q[i] = n + 1 /\ q[j] = p[j - 1] /\ j - 1 \in 1..n
        BY <2>6, <3>4
      <4>2. p[j - 1] \in 1..n /\ j - 1 >= k
        BY <2>2, <2>4, <3>4, <4>1
      <4> QED BY <2>5, <4>1, <4>2
    <3>5. CASE j > k /\ i > k
      <4>1. /\ q[i] = p[i - 1] /\ i - 1 \in 1..n
            /\ q[j] = p[j - 1] /\ j - 1 \in 1..n
        BY <2>6, <3>5
      <4>2. i - 1 < j - 1
        BY <2>8
      <4> QED BY <2>2, <4>1, <4>2
    <3> QED BY <2>4, <2>8, <3>1, <3>2, <3>3, <3>4, <3>5
  <2>9. q \in Sortings(s, n + 1)
    BY <2>7, <2>8 DEF Sortings
  <2> QED BY <2>9
<1> HIDE DEF Done
<1>3. Nat \subseteq Done
  BY <1>1, <1>2, Induction
<1> QED BY <1>3 DEF Done
\* What addSample adds is the sample (RunningMean.cpp:9-15).
LEMMA AddSampleExact ==
  ASSUME NEW m \in [v1 : Nat, n : Nat, running : Int], NEW us \in Nat
  PROVE  /\ WeightedMean(addSample(m, us)) = WeightedMean(m) + us
         /\ addSample(m, us).n = m.n + 1
         /\ addSample(m, us) \in [v1 : Nat, n : Nat, running : Int]
<1> DEFINE a == addSample(m, us)
<1>1. /\ a \in [v1 : Nat, n : Nat, running : Int]
      /\ a.v1 = m.v1 /\ a.n = m.n + 1
      /\ a.running = m.running + (us - m.v1)
  BY DEF addSample
<1>2. (m.n + 1) * m.v1 = m.n * m.v1 + m.v1
  <2> DEFINE v == m.v1
             n == m.n
  <2>1. v \in Nat /\ n \in Nat
    OBVIOUS
  <2> HIDE DEF v, n
  <2>2. (n + 1) * v = n * v + v
    BY <2>1
  <2> QED BY <2>2 DEF v, n
<1>3. WeightedMean(a) = (m.n + 1) * m.v1 + (m.running + (us - m.v1))
  BY <1>1 DEF WeightedMean
<1>4. WeightedMean(m) = m.n * m.v1 + m.running
  BY DEF WeightedMean
<1> DEFINE p == m.n * m.v1
           v == m.v1
           r == m.running
<1>5. p \in Int /\ v \in Int /\ r \in Int
  OBVIOUS
<1>6. WeightedMean(a) = p + v + (r + (us - v)) /\ WeightedMean(m) = p + r
  BY <1>2, <1>3, <1>4
<1> HIDE DEF p, v, r, a
<1>7. p + v + (r + (us - v)) = p + r + us
  BY <1>5
<1> QED BY <1>1, <1>6, <1>7 DEF a


\* The mean of the loop exists and is between two bounds of all elements
\* (SampledStats.cpp:129-132).
LEMMA MeanBetween ==
  ASSUME NEW m \in Nat, NEW s \in [1..m -> Nat], NEW last \in 1..m,
         NEW lo \in Nat, NEW hi \in Nat,
         \A i \in 1..last : lo <= s[i] /\ s[i] <= hi
  PROVE  /\ MeanOf(s, last) \in Nat
         /\ lo * last <= MeanOf(s, last) /\ MeanOf(s, last) <= hi * last
<1> DEFINE Mean == [v1 : Nat, n : Nat, running : Int]
           Step(g, n) == IF n = 1 THEN NewMean(s[1]) ELSE addSample(g[n - 1], s[n])
           Computed(g, k) == \A n \in 1..k : g[n] = Step(g, n)
           mean == CHOOSE g : g = [n \in 1..last |-> Step(g, n)]
<1>1. \E g \in [1..last -> Mean] : Computed(g, last)
  <2> DEFINE Done == {k \in Nat : k <= last =>
                        \E g \in [1..last -> Mean] : Computed(g, k)}
  <2>1. 0 \in Done
    <3> DEFINE g == [n \in 1..last |-> NewMean(0)]
    <3>1. g \in [1..last -> Mean] /\ Computed(g, 0)
      BY DEF NewMean
    <3> QED BY <3>1
  <2>2. ASSUME NEW k \in Nat, k \in Done PROVE k + 1 \in Done
    <3> SUFFICES ASSUME k + 1 <= last
                 PROVE  \E g \in [1..last -> Mean] : Computed(g, k + 1)
      OBVIOUS
    <3>1. PICK g \in [1..last -> Mean] : Computed(g, k)
      BY <2>2
    <3>2. Step(g, k + 1) \in Mean
      <4>1. CASE k = 0
        <5>1. s[1] \in Nat
          OBVIOUS
        <5> QED BY <4>1, <5>1 DEF NewMean
      <4>2. CASE k # 0
        <5>1. g[k] \in Mean /\ s[k + 1] \in Nat
          BY <4>2
        <5>2. addSample(g[k], s[k + 1]) \in Mean
          BY <5>1, AddSampleExact
        <5>3. Step(g, k + 1) = addSample(g[k], s[k + 1])
          BY <4>2
        <5> QED BY <5>2, <5>3
      <4> QED BY <4>1, <4>2
    <3> DEFINE h == [g EXCEPT ![k + 1] = Step(g, k + 1)]
    <3>3. h \in [1..last -> Mean]
      BY <3>2
    <3>4. h[k + 1] = Step(g, k + 1) /\ \A n \in 1..k : h[n] = g[n]
      OBVIOUS
    <3> HIDE DEF h
    <3>5. ASSUME NEW n \in 1..(k + 1) PROVE h[n] = Step(h, n)
      <4>1. Step(h, n) = Step(g, n)
        <5>1. CASE n = 1
          BY <5>1
        <5>2. CASE n # 1
          <6>1. n - 1 \in 1..k
            BY <5>2
          <6> QED BY <3>4, <5>2, <6>1
        <5> QED BY <5>1, <5>2
      <4>2. h[n] = Step(g, n)
        <5>1. CASE n = k + 1
          BY <3>4, <5>1
        <5>2. CASE n # k + 1
          <6>1. n \in 1..k
            BY <5>2
          <6> HIDE DEF Step
          <6> QED BY <3>1, <3>4, <6>1
        <5> QED BY <5>1, <5>2
      <4> QED BY <4>1, <4>2
    <3> QED BY <3>3, <3>5
  <2> HIDE DEF Done
  <2>3. Nat \subseteq Done
    BY <2>1, <2>2, Induction
  <2>4. last \in Done
    BY <2>3
  <2> HIDE DEF Computed
  <2> QED BY <2>4 DEF Done
<1>2. mean = [n \in 1..last |-> Step(mean, n)]
  <2>1. PICK g \in [1..last -> Mean] : Computed(g, last)
    BY <1>1
  <2>2. g = [n \in 1..last |-> Step(g, n)]
    BY <2>1
  <2> QED BY <2>2
<1>3. MeanOf(s, last) = WeightedMean(mean[last])
  BY DEF MeanOf
<1> HIDE DEF mean
<1> DEFINE Ok(n) == /\ mean[n] \in Mean /\ mean[n].n = n
                    /\ lo * n <= WeightedMean(mean[n])
                    /\ WeightedMean(mean[n]) <= hi * n
           Oks == {n \in Nat : n + 1 <= last => Ok(n + 1)}
<1>4. 0 \in Oks
  <2>1. mean[1] = NewMean(s[1]) /\ s[1] \in Nat /\ lo <= s[1] /\ s[1] <= hi
    BY <1>2
  <2>2. Ok(1)
    BY <2>1 DEF NewMean, WeightedMean
  <2> QED BY <2>2
<1>5. ASSUME NEW n \in Nat, n \in Oks PROVE n + 1 \in Oks
  <2> SUFFICES ASSUME (n + 1) + 1 <= last PROVE Ok((n + 1) + 1)
    OBVIOUS
  <2>0. (n + 1) + 1 = n + 2
    OBVIOUS
  <2>1. Ok(n + 1)
    BY <1>5
  <2>2. /\ mean[n + 2] = addSample(mean[n + 1], s[n + 2])
        /\ s[n + 2] \in Nat /\ lo <= s[n + 2] /\ s[n + 2] <= hi
    BY <1>2
  <2>3. /\ mean[n + 2] \in Mean /\ mean[n + 2].n = n + 2
        /\ WeightedMean(mean[n + 2]) = WeightedMean(mean[n + 1]) + s[n + 2]
    BY <2>1, <2>2, AddSampleExact
  <2>4. lo * (n + 2) = lo * (n + 1) + lo /\ hi * (n + 2) = hi * (n + 1) + hi
    OBVIOUS
  <2>5. WeightedMean(mean[n + 1]) \in Int
    BY <2>1 DEF WeightedMean
  <2> DEFINE low == lo * (n + 1)
             high == hi * (n + 1)
             sum == WeightedMean(mean[n + 1])
  <2>6. low \in Int /\ high \in Int /\ sum \in Int /\ low <= sum /\ sum <= high
    BY <2>1, <2>5
  <2>7. /\ lo * (n + 2) = low + lo /\ hi * (n + 2) = high + hi
        /\ WeightedMean(mean[n + 2]) = sum + s[n + 2]
    BY <2>3, <2>4
  <2> HIDE DEF low, high, sum
  <2>8. lo * (n + 2) <= WeightedMean(mean[n + 2])
    BY <2>2, <2>6, <2>7
  <2>9. WeightedMean(mean[n + 2]) <= hi * (n + 2)
    BY <2>2, <2>6, <2>7
  <2>10. Ok(n + 2)
    BY <2>3, <2>8, <2>9
  <2> HIDE DEF Ok
  <2> QED BY <2>0, <2>10
<1> HIDE DEF Oks
<1>6. Nat \subseteq Oks
  BY <1>4, <1>5, Induction
<1>7. Ok(last)
  <2>1. last - 1 \in Nat
    OBVIOUS
  <2>2. last - 1 \in Oks
    BY <1>6, <2>1
  <2> QED BY <2>2 DEF Oks
<1>8. WeightedMean(mean[last]) \in Int /\ lo * last \in Nat
  BY <1>7 DEF WeightedMean
<1> QED BY <1>3, <1>7, <1>8

\* What std::sort does: the elements before end are some of them, none more
\* often than before, and do not decrease (SampledStats.cpp:126-127).
LEMMA SortedToSorts ==
  ASSUME NEW m \in Nat, NEW s \in [1..m -> Nat], NEW end \in 0..m
  PROVE  /\ SortedTo(s, end) \in [1..m -> Nat]
         /\ \A i, j \in 1..end :
              i <= j => SortedTo(s, end)[i] <= SortedTo(s, end)[j]
         /\ \E p \in [1..end -> 1..end] :
              /\ \A i, j \in 1..end : i # j => p[i] # p[j]
              /\ \A i \in 1..end : SortedTo(s, end)[i] = s[p[i]]
<1> DEFINE p == CHOOSE p \in Sortings(s, end) : TRUE
           r == SortedTo(s, end)
<1>1. p \in Sortings(s, end)
  BY SortingExists
<1>2. SortedPart(s, end) = [i \in 1..end |-> s[p[i]]]
  BY DEF SortedPart
<1> HIDE DEF p
<1>3. /\ p \in [1..end -> 1..end]
      /\ \A i, j \in 1..end : i < j => p[i] # p[j] /\ s[p[i]] <= s[p[j]]
  BY <1>1 DEF Sortings
<1>4. r = [i \in 1..m |-> IF i <= end THEN s[p[i]] ELSE s[i]]
  <2>1. \A i \in 1..m : i <= end => SortedPart(s, end)[i] = s[p[i]]
    BY <1>2
  <2>2. r = [i \in 1..m |-> IF i <= end THEN SortedPart(s, end)[i] ELSE s[i]]
    BY DEF SortedTo
  <2> QED BY <2>1, <2>2
<1> HIDE DEF r
<1>5. \A i \in 1..end : p[i] \in 1..end /\ r[i] = s[p[i]] /\ s[p[i]] \in Nat
  <2> SUFFICES ASSUME NEW i \in 1..end
               PROVE  p[i] \in 1..end /\ r[i] = s[p[i]] /\ s[p[i]] \in Nat
    OBVIOUS
  <2>1. p[i] \in 1..end
    BY ONLY <1>3
  <2>2. i \in 1..m /\ i <= end /\ p[i] \in 1..m
    BY <2>1
  <2>3. s[p[i]] \in Nat
    BY ONLY <2>2, s \in [1..m -> Nat]
  <2>4. r[i] = s[p[i]]
    BY ONLY <1>4, <2>2
  <2> QED BY <2>1, <2>3, <2>4
<1>6. r \in [1..m -> Nat]
  <2>1. ASSUME NEW i \in 1..m
        PROVE  (IF i <= end THEN s[p[i]] ELSE s[i]) \in Nat
    BY <1>5
  <2> QED BY <1>4, <2>1
<1>7. \A i, j \in 1..end : i <= j => r[i] <= r[j]
  <2> SUFFICES ASSUME NEW i \in 1..end, NEW j \in 1..end, i <= j
               PROVE  r[i] <= r[j]
    OBVIOUS
  <2>1. CASE i = j
    BY <1>5, <2>1
  <2>2. CASE i < j
    BY <1>3, <1>5, <2>2
  <2> QED BY <2>1, <2>2
<1>8. \A i, j \in 1..end : i # j => p[i] # p[j]
  <2> SUFFICES ASSUME NEW i \in 1..end, NEW j \in 1..end, i # j
               PROVE  p[i] # p[j]
    OBVIOUS
  <2>1. CASE i < j
    BY <1>3, <2>1
  <2>2. CASE j < i
    BY <1>3, <2>2
  <2> QED BY <2>1, <2>2
<1> QED BY <1>3, <1>5, <1>6, <1>7, <1>8 DEF r

\* Positions of a value are finitely many.
LEMMA Finite ==
  ASSUME NEW n \in Nat, NEW S, S \subseteq 1..n
  PROVE  IsFiniteSet(S) /\ Cardinality(S) \in Nat
<1>1. IsFiniteSet(1..n)
  BY FS_Interval
<1>2. IsFiniteSet(S)
  BY <1>1, FS_Subset
<1> QED BY <1>2, FS_CardinalityType

Places(x, s, n) == {i \in 1..n : s[i] = x}

Written(s, j, time) == [s EXCEPT ![j] = time]

\* A write to one place adds it to the places of the value, and to no others.
LEMMA WriteCounts ==
  ASSUME NEW m \in Nat, NEW s \in [1..m -> Nat], NEW n \in 0..m,
         NEW j \in 1..m, NEW next \in 0..m, next <= n \/ (next = n + 1 /\ j = next),
         NEW x \in Nat, NEW time \in Nat
  PROVE  Cardinality(Places(x, Written(s, j, time), next))
           <= Cardinality(Places(x, s, n)) + (IF x = time THEN 1 ELSE 0)
<1> DEFINE old == Places(x, s, n)
           new == Places(x, Written(s, j, time), next)
<1>1. old \subseteq 1..m /\ new \subseteq 1..m
  BY DEF Places
<1>2. new \subseteq old \cup {j} /\ (x # time => new \subseteq old)
  BY DEF Places, Written
<1> HIDE DEF old, new
<1>3. IsFiniteSet(old) /\ Cardinality(old) \in Nat /\ Cardinality(new) \in Nat
  BY <1>1, Finite
<1>4. CASE x = time
  <2>0. /\ IsFiniteSet(old \cup {j})
        /\ Cardinality(old \cup {j})
             = IF j \in old THEN Cardinality(old) ELSE Cardinality(old) + 1
    BY <1>3, FS_AddElement
  <2>1. /\ IsFiniteSet(old \cup {j})
        /\ Cardinality(old \cup {j}) <= Cardinality(old) + 1
    BY <1>3, <2>0
  <2>2. Cardinality(new) <= Cardinality(old \cup {j})
    BY <1>2, <2>1, FS_Subset
  <2>3. Cardinality(old \cup {j}) \in Nat
    BY <2>1, FS_CardinalityType
  <2> QED BY <1>3, <1>4, <2>1, <2>2, <2>3 DEF old, new
<1>5. CASE x # time
  <2>1. Cardinality(new) <= Cardinality(old)
    BY <1>2, <1>3, <1>5, FS_Subset
  <2> QED BY <1>3, <1>5, <2>1 DEF old, new
<1> QED BY <1>4, <1>5

\* Appending a value adds one occurrence of it.
LEMMA AppendCounts ==
  ASSUME NEW a \in Seq(Nat), NEW x \in Nat, NEW time \in Nat
  PROVE  /\ Occurrences(x, a) \in Nat
         /\ Occurrences(x, Append(a, time))
              = Occurrences(x, a) + (IF x = time THEN 1 ELSE 0)
<1> DEFINE old == Places(x, a, Len(a))
           n == Len(a)
           b == Append(a, time)
           new == Places(x, b, n + 1)
<1>1. Occurrences(x, a) = Cardinality(old)
  <2>1. DOMAIN a = 1..Len(a)
    OBVIOUS
  <2> QED BY <2>1 DEF Occurrences, Places
<1>2. Occurrences(x, Append(a, time)) = Cardinality(new)
  <2>1. DOMAIN b = 1..(n + 1)
    OBVIOUS
  <2> HIDE DEF b
  <2> QED BY <2>1 DEF Occurrences, Places, b
<1>3. n \in Nat /\ b[n + 1] = time /\ \A i \in 1..n : b[i] = a[i]
  OBVIOUS
<1> HIDE DEF b
<1>4. /\ old \subseteq 1..n /\ n + 1 \notin old
      /\ new = IF x = time THEN old \cup {n + 1} ELSE old
  BY <1>3 DEF Places
<1> HIDE DEF old, new, n
<1>5. IsFiniteSet(old) /\ Cardinality(old) \in Nat
  BY <1>3, <1>4, Finite
<1>6. Cardinality(old \cup {n + 1}) = Cardinality(old) + 1
  BY <1>4, <1>5, FS_AddElement
<1> QED BY <1>1, <1>2, <1>4, <1>5, <1>6

\* Sorting adds no occurrence of any value.
LEMMA SortCounts ==
  ASSUME NEW m \in Nat, NEW s \in [1..m -> Nat], NEW end \in 0..m, NEW x \in Nat
  PROVE  Cardinality(Places(x, SortedTo(s, end), end))
           <= Cardinality(Places(x, s, end))
<1> DEFINE r == SortedTo(s, end)
           from == Places(x, r, end)
           to == Places(x, s, end)
<1>1. PICK p \in [1..end -> 1..end] :
        /\ \A i, j \in 1..end : i # j => p[i] # p[j]
        /\ \A i \in 1..end : r[i] = s[p[i]]
  BY SortedToSorts
<1> HIDE DEF r
<1> DEFINE f == [i \in from |-> p[i]]
<1>2. f \in Injection(from, to)
  <2>1. f \in [from -> to]
    BY <1>1 DEF Places
  <2>2. \A i, j \in from : f[i] = f[j] => i = j
    BY <1>1 DEF Places
  <2> QED BY <2>1, <2>2 DEF Injection, IsInjective
<1>3. to \subseteq 1..end /\ end \in Nat
  BY DEF Places
<1>4. IsFiniteSet(to)
  <2> HIDE DEF to
  <2> QED BY <1>3, Finite
<1>5. Cardinality(from) <= Cardinality(to)
  <2> HIDE DEF from, to, f
  <2> QED BY <1>2, <1>4, FS_Injection
<1> QED BY <1>5 DEF r
-----------------------------------------------------------------------------
(* The sample and the lines.                                               *)

\* No value is in the sample more often than it was added.
Drawn ==
  \A type \in OpTypes : \A x \in Nat :
    Cardinality(Places(x, samples[type], Elems(type))) <= Occurrences(x, added[type])

\* A thread that has not ended has counted no error, and printed none.
NoErrors ==
  /\ pc # "aborted" => \A type \in OpTypes : errors[type] = 0
  /\ NoErrorIsPrinted

SInv == TypeOK /\ Drawn /\ LineIsOrdered /\ NoErrors

\* How many elements of the array are sampled (SampledStats.cpp:167).
LEMMA ElemsInside ==
  ASSUME TypeOK, NEW type \in OpTypes
  PROVE  /\ Elems(type) \in 0..maxsamples /\ maxsamples \in Nat \ {0}
         /\ Elems(type) = IF maxsamples < opsSinceReset[type] THEN maxsamples
                          ELSE opsSinceReset[type]
         /\ opsSinceReset[type] \in Nat
BY SampledAssumption DEF Elems, TypeOK

\* A time is written to one place of the sample, or nowhere
\* (SampledStats.cpp:70-85).
LEMMA SampledIsWrite ==
  ASSUME NEW kept \in [1..maxsamples -> Nat], NEW n \in Nat, NEW time \in Nat,
         NEW s \in Sampled(kept, n, time)
  PROVE  /\ s \in [1..maxsamples -> Nat]
         /\ \/ n < maxsamples /\ s = Written(kept, n + 1, time)
            \/ n >= maxsamples /\ \E j \in 1..maxsamples : s = Written(kept, j, time)
            \/ n >= maxsamples /\ s = kept
<1>1. maxsamples \in Nat \ {0}
  BY SampledAssumption
<1>2. CASE n < maxsamples
  BY <1>1, <1>2 DEF Sampled, Written
<1>3. CASE n >= maxsamples
  BY <1>1, <1>3 DEF Sampled, Written
<1> QED BY <1>1, <1>2, <1>3

\* Adding a time keeps the types and the sample (SampledStats.cpp:55-86).
LEMMA AddKeeps ==
  ASSUME TypeOK, Drawn, NEW type, NEW time \in Latencies, NEW error \in BOOLEAN,
         addStats(type, time, error), UNCHANGED <<role, lines>>,
         pc' \in {"query", "check", "exited", "aborted"}
  PROVE  TypeOK' /\ Drawn'
<1>0. type \in OpTypes /\ time \in Nat
  BY SampledAssumption DEF addStats
<1>1. PICK s \in Sampled(samples[type], opsSinceReset[type], time) :
        samples' = [samples EXCEPT ![type] = s]
  BY DEF addStats
<1>2. /\ samples[type] \in [1..maxsamples -> Nat]
      /\ opsSinceReset[type] \in Nat
      /\ added[type] \in Seq(Nat)
  BY <1>0 DEF TypeOK
<1>3. /\ s \in [1..maxsamples -> Nat]
      /\ \/ /\ opsSinceReset[type] < maxsamples
            /\ s = Written(samples[type], opsSinceReset[type] + 1, time)
         \/ /\ opsSinceReset[type] >= maxsamples
            /\ \E j \in 1..maxsamples : s = Written(samples[type], j, time)
         \/ /\ opsSinceReset[type] >= maxsamples
            /\ s = samples[type]
  <2> DEFINE kept == samples[type]
             n == opsSinceReset[type]
  <2>1. s \in Sampled(kept, n, time) /\ kept \in [1..maxsamples -> Nat] /\ n \in Nat
    BY <1>2
  <2> HIDE DEF kept, n
  <2>2. /\ s \in [1..maxsamples -> Nat]
        /\ \/ n < maxsamples /\ s = Written(kept, n + 1, time)
           \/ n >= maxsamples /\ \E j \in 1..maxsamples : s = Written(kept, j, time)
           \/ n >= maxsamples /\ s = kept
    BY <1>0, <2>1, SampledIsWrite
  <2> QED BY <2>2 DEF kept, n
<1>4. TypeOK'
  <2>1. samples' \in [OpTypes -> [1..maxsamples -> Nat]]
    BY <1>1, <1>3 DEF TypeOK
  <2>2. Append(added[type], time) \in Seq(Nat)
    BY <1>0, <1>2
  <2>3. added' \in [OpTypes -> Seq(Nat)]
    BY <2>2 DEF TypeOK, addStats
  <2>4. /\ numops' \in [OpTypes -> Nat] /\ errors' \in [OpTypes -> Nat]
        /\ opsSinceReset' \in [OpTypes -> Nat]
    BY DEF TypeOK, addStats
  <2>5. minimums' \in [OpTypes -> Nat] /\ maximums' \in [OpTypes -> Nat]
    BY <1>0 DEF TypeOK, addStats
  <2>6. role' \in Roles /\ lines' \in [OpTypes -> {NoLine} \cup Line \cup NoSampleLine]
    BY DEF TypeOK
  <2> QED BY <2>1, <2>3, <2>4, <2>5, <2>6 DEF TypeOK
<1>5. ASSUME NEW y \in OpTypes, y # type
      PROVE  UNCHANGED <<samples[y], added[y], Elems(y)>>
  BY <1>0, <1>1, <1>5 DEF addStats, TypeOK, Elems
<1>6. ASSUME NEW x \in Nat
      PROVE  Cardinality(Places(x, s, Elems(type)'))
               <= Occurrences(x, Append(added[type], time))
  <2> DEFINE m == maxsamples
             kept == samples[type]
             n == Elems(type)
             next == Elems(type)'
             a == added[type]
  <2>1. /\ m \in Nat \ {0} /\ n \in 0..m /\ next \in 0..m
        /\ IF opsSinceReset[type] < m THEN n = opsSinceReset[type] /\ next = n + 1
           ELSE next = n
    <3>1. opsSinceReset'[type] = opsSinceReset[type] + 1
      BY <1>0 DEF addStats, TypeOK
    <3> QED BY <1>0, <1>2, <3>1, SampledAssumption DEF Elems
  <2>2. \/ \E j \in 1..m : /\ s = Written(kept, j, time)
                            /\ (next <= n \/ (next = n + 1 /\ j = next))
        \/ s = kept /\ next = n
    <3>1. CASE opsSinceReset[type] < m
      <4>1. /\ s = Written(kept, n + 1, time) /\ n + 1 \in 1..m
            /\ next = n + 1
        BY <1>2, <1>3, <2>1, <3>1
      <4> HIDE DEF m, kept, n, next
      <4> QED BY <4>1
    <3>2. CASE opsSinceReset[type] >= m
      <4>1. /\ (\E j \in 1..m : s = Written(kept, j, time)) \/ s = kept
            /\ next = n /\ n \in Nat
        BY <1>2, <1>3, <2>1, <3>2
      <4> HIDE DEF m, kept, n, next
      <4> QED BY <4>1
    <3> QED BY <1>2, <2>1, <3>1, <3>2
  <2>3. Cardinality(Places(x, kept, n)) <= Occurrences(x, a)
    BY <1>0 DEF Drawn
  <2>4. /\ Occurrences(x, a) \in Nat
        /\ Occurrences(x, Append(a, time))
             = Occurrences(x, a) + (IF x = time THEN 1 ELSE 0)
    BY <1>0, <1>2, AppendCounts
  <2>5. Places(x, kept, n) \subseteq 1..m /\ Places(x, s, next) \subseteq 1..m
    BY <2>1 DEF Places
  <2>6. Cardinality(Places(x, kept, n)) \in Nat /\ Cardinality(Places(x, s, next)) \in Nat
    BY <2>1, <2>5, Finite
  <2> HIDE DEF m, kept, n, next, a
  <2>7. Cardinality(Places(x, s, next))
          <= Cardinality(Places(x, kept, n)) + (IF x = time THEN 1 ELSE 0)
    <3>1. CASE s = kept /\ next = n
      BY <2>6, <3>1
    <3>2. ASSUME NEW j \in 1..m, s = Written(kept, j, time),
                 next <= n \/ (next = n + 1 /\ j = next)
          PROVE  Cardinality(Places(x, s, next))
                   <= Cardinality(Places(x, kept, n)) + (IF x = time THEN 1 ELSE 0)
      <4>1. kept \in [1..m -> Nat]
        BY <1>2 DEF kept, m
      <4> QED BY <1>0, <2>1, <3>2, <4>1, WriteCounts
    <3> QED BY <2>2, <3>1, <3>2
  <2>8. Cardinality(Places(x, s, next)) <= Occurrences(x, Append(a, time))
    BY <2>3, <2>4, <2>6, <2>7
  <2> QED BY <2>8 DEF next, a
<1>7. Drawn'
  <2> SUFFICES ASSUME NEW y \in OpTypes, NEW x \in Nat
               PROVE  Cardinality(Places(x, samples'[y], Elems(y)'))
                        <= Occurrences(x, added'[y])
    BY DEF Drawn, Places, Occurrences
  <2>1. CASE y = type
    <3>1. samples'[type] = s /\ added'[type] = Append(added[type], time)
      BY <1>0, <1>1 DEF addStats, TypeOK
    <3> QED BY <1>6, <2>1, <3>1
  <2>2. CASE y # type
    <3>1. samples'[y] = samples[y] /\ added'[y] = added[y] /\ Elems(y)' = Elems(y)
      BY <1>5, <2>2
    <3> QED BY <3>1 DEF Drawn
  <2> QED BY <2>1, <2>2
<1> QED BY <1>4, <1>7

\* The columns of a line are elements of the sample, in their order
\* (SampledStats.cpp:134-152).
LEMMA ColumnsOrdered ==
  ASSUME NEW m \in Nat, NEW elems \in 1..m, NEW r \in [1..m -> Nat],
         \A i, j \in 1..elems : i <= j => r[i] <= r[j]
  PROVE  LET c == [c \in DOMAIN Indices(elems) |-> r[Indices(elems)[c] + 1]]
         IN  /\ c \in [DOMAIN Indices(1) -> Nat]
             /\ c.min = r[1] /\ c.max = r[elems]
             /\ c.min <= c.p25 /\ c.p25 <= c.p50 /\ c.p50 <= c.p75
             /\ c.p75 <= c.p90 /\ c.p90 <= c.p95 /\ c.p95 <= c.p99
             /\ c.p99 <= c.max
<1> DEFINE Columns == {"min", "p25", "p50", "p75", "p90", "p95", "p99", "max"}
           at == Indices(elems)
           c == [x \in DOMAIN at |-> r[at[x] + 1]]
<1>1. DOMAIN Indices(1) = Columns /\ DOMAIN at = Columns
  BY DEF Indices
<1>2. /\ at.min = 0 /\ at.max = elems - 1
      /\ at.min <= at.p25 /\ at.p25 <= at.p50 /\ at.p50 <= at.p75
      /\ at.p75 <= at.p90 /\ at.p90 <= at.p95 /\ at.p95 <= at.p99
      /\ at.p99 <= at.max
  <2>1. elems \in Nat \ {0}
    OBVIOUS
  <2> QED BY <2>1, IndicesInsideAndOrdered
<1>3. /\ at.min \in Int /\ at.p25 \in Int /\ at.p50 \in Int /\ at.p75 \in Int
      /\ at.p90 \in Int /\ at.p95 \in Int /\ at.p99 \in Int /\ at.max \in Int
  BY DEF Indices
<1> HIDE DEF at
<1>4. /\ c.min = r[at.min + 1] /\ c.p25 = r[at.p25 + 1]
      /\ c.p50 = r[at.p50 + 1] /\ c.p75 = r[at.p75 + 1]
      /\ c.p90 = r[at.p90 + 1] /\ c.p95 = r[at.p95 + 1]
      /\ c.p99 = r[at.p99 + 1] /\ c.max = r[at.max + 1]
      /\ DOMAIN c = Columns /\ c = [x \in Columns |-> c[x]]
  BY <1>1
<1> HIDE DEF c
<1>5. /\ at.min + 1 \in 1..elems /\ at.p25 + 1 \in 1..elems
      /\ at.p50 + 1 \in 1..elems /\ at.p75 + 1 \in 1..elems
      /\ at.p90 + 1 \in 1..elems /\ at.p95 + 1 \in 1..elems
      /\ at.p99 + 1 \in 1..elems /\ at.max + 1 \in 1..elems
  <2>1. ASSUME NEW a0 \in Int, NEW a1 \in Int, NEW a2 \in Int, NEW a3 \in Int,
               NEW a4 \in Int, NEW a5 \in Int, NEW a6 \in Int, NEW a7 \in Int,
               a0 = 0, a7 = elems - 1,
               a0 <= a1, a1 <= a2, a2 <= a3, a3 <= a4, a4 <= a5, a5 <= a6,
               a6 <= a7
        PROVE  \A i \in {a0, a1, a2, a3, a4, a5, a6, a7} : i + 1 \in 1..elems
    <3>1. /\ 0 <= a1 /\ 0 <= a2 /\ 0 <= a3 /\ 0 <= a4 /\ 0 <= a5 /\ 0 <= a6
          /\ 0 <= a7
      BY <2>1
    <3>2. /\ a6 < elems /\ a5 < elems /\ a4 < elems /\ a3 < elems /\ a2 < elems
          /\ a1 < elems /\ a0 < elems
      BY <2>1
    <3> QED BY <2>1, <3>1, <3>2
  <2> DEFINE a0 == at.min
             a1 == at.p25
             a2 == at.p50
             a3 == at.p75
             a4 == at.p90
             a5 == at.p95
             a6 == at.p99
             a7 == at.max
  <2>2. /\ a0 \in Int /\ a1 \in Int /\ a2 \in Int /\ a3 \in Int
        /\ a4 \in Int /\ a5 \in Int /\ a6 \in Int /\ a7 \in Int
        /\ a0 = 0 /\ a7 = elems - 1
        /\ a0 <= a1 /\ a1 <= a2 /\ a2 <= a3 /\ a3 <= a4 /\ a4 <= a5
        /\ a5 <= a6 /\ a6 <= a7
    BY <1>2, <1>3
  <2> HIDE DEF a0, a1, a2, a3, a4, a5, a6, a7
  <2>3. \A i \in {a0, a1, a2, a3, a4, a5, a6, a7} : i + 1 \in 1..elems
    BY <2>1, <2>2
  <2>4. /\ a0 + 1 \in 1..elems /\ a1 + 1 \in 1..elems /\ a2 + 1 \in 1..elems
        /\ a3 + 1 \in 1..elems /\ a4 + 1 \in 1..elems /\ a5 + 1 \in 1..elems
        /\ a6 + 1 \in 1..elems /\ a7 + 1 \in 1..elems
    BY <2>3
  <2> QED BY <2>4 DEF a0, a1, a2, a3, a4, a5, a6, a7
<1>6. c \in [Columns -> Nat]
  <2>1. \A i \in 1..elems : r[i] \in Nat
    OBVIOUS
  <2>2. /\ c.min \in Nat /\ c.p25 \in Nat /\ c.p50 \in Nat /\ c.p75 \in Nat
        /\ c.p90 \in Nat /\ c.p95 \in Nat /\ c.p99 \in Nat /\ c.max \in Nat
    BY <1>4, <1>5, <2>1
  <2>3. \A x \in Columns : c[x] \in Nat
    BY <2>2
  <2> QED BY <1>4, <2>3
<1>7. /\ c.min <= c.p25 /\ c.p25 <= c.p50 /\ c.p50 <= c.p75
      /\ c.p75 <= c.p90 /\ c.p90 <= c.p95 /\ c.p95 <= c.p99 /\ c.p99 <= c.max
  <2>1. ASSUME NEW i \in Int, NEW j \in Int, i <= j,
               i + 1 \in 1..elems, j + 1 \in 1..elems
        PROVE  r[i + 1] <= r[j + 1]
    BY <2>1
  <2> QED BY <1>2, <1>3, <1>4, <1>5, <2>1
<1>8. c.min = r[1] /\ c.max = r[elems]
  BY <1>2, <1>4
<1> QED BY <1>1, <1>6, <1>7, <1>8 DEF at, c

\* What a display does to an operation: nothing, or its sample is sorted and
\* its line written (SampledStats.cpp:105-170).
LEMMA DisplayStep ==
  ASSUME TypeOK, NEW next, displayStats(next), UNCHANGED counters,
         NEW type \in OpTypes
  PROVE  /\ Elems(type)' = Elems(type)
         /\ \/ UNCHANGED <<samples[type], lines[type]>>
            \/ /\ samples'[type] = SortedTo(samples[type], Elems(type))
               /\ \/ Elems(type) = 0 /\ lines'[type] = EmptyLine(type)
                  \/ /\ Elems(type) # 0
                     /\ lines'[type] = LineOf(type, samples'[type])
<1>1. Elems(type)' = Elems(type)
  BY DEF counters, Elems
<1> DEFINE types ==
         {role.showStats[i] : i \in 1..Len(role.showStats)} \cap OpTypes
<1>2. /\ samples'[type] = IF type \in types
                            THEN SortedTo(samples[type], Elems(type))
                            ELSE samples[type]
      /\ lines'[type] = IF type \notin types THEN lines[type]
                        ELSE IF Elems(type) = 0 THEN EmptyLine(type)
                        ELSE LineOf(type, samples'[type])
  BY DEF displayStats
<1> HIDE DEF types
<1> QED BY <1>1, <1>2

\* The line of an operation with a sample (SampledStats.cpp:119-165).
LEMMA LineKeeps ==
  ASSUME TypeOK, Drawn, NEW type \in OpTypes, Elems(type) # 0
  PROVE  LET l == LineOf(type, SortedTo(samples[type], Elems(type)))
             c == l.columns
         IN  /\ l \in Line
             /\ c.min <= c.p25 /\ c.p25 <= c.p50 /\ c.p50 <= c.p75
             /\ c.p75 <= c.p90 /\ c.p90 <= c.p95 /\ c.p95 <= c.p99
             /\ c.p99 <= c.max
             /\ c.min * l.sampleOps <= l.mean /\ l.mean <= c.max * l.sampleOps
             /\ Occurrences(c.min, added[type]) > 0
             /\ Occurrences(c.max, added[type]) > 0
<1> DEFINE m == maxsamples
           kept == samples[type]
           elems == Elems(type)
           r == SortedTo(kept, elems)
           c == [x \in DOMAIN Indices(elems) |-> r[Indices(elems)[x] + 1]]
           mean == MeanOf(r, elems)
           a == added[type]
<1>1. /\ m \in Nat /\ elems \in 0..m /\ elems \in 1..m
      /\ kept \in [1..m -> Nat] /\ a \in Seq(Nat)
  BY ElemsInside DEF TypeOK
<1>2. LineOf(type, r) = [totalops |-> numops[type], totalerrors |-> errors[type],
                         sampleOps |-> elems, mean |-> mean, columns |-> c]
  BY DEF LineOf
<1>3. numops[type] \in Nat /\ errors[type] \in Nat
  BY DEF TypeOK
<1>4. \A x \in Nat : Cardinality(Places(x, kept, elems)) <= Occurrences(x, a)
  BY DEF Drawn
<1> HIDE DEF m, kept, elems, a
<1>5. /\ r \in [1..m -> Nat]
      /\ \A i, j \in 1..elems : i <= j => r[i] <= r[j]
  BY <1>1, SortedToSorts
<1>6. ASSUME NEW i \in 1..elems PROVE r[i] \in Nat /\ Occurrences(r[i], a) > 0
  <2>1. r[i] \in Nat
    BY <1>1, <1>5
  <2> DEFINE x == r[i]
             from == Places(x, r, elems)
             to == Places(x, kept, elems)
  <2>2. Cardinality(from) <= Cardinality(to)
    BY <1>1, <2>1, SortCounts
  <2>3. from \subseteq 1..elems /\ to \subseteq 1..elems /\ i \in from
    BY DEF Places
  <2>4. Cardinality(to) <= Occurrences(x, a) /\ Occurrences(x, a) \in Nat
    <3>1. Occurrences(x, a) \in Nat
      BY <1>1, <2>1, AppendCounts
    <3> QED BY <1>4, <2>1, <3>1
  <2> HIDE DEF x, from, to
  <2>5. /\ IsFiniteSet(from)
        /\ Cardinality(from) \in Nat /\ Cardinality(to) \in Nat
    <3>1. elems \in Nat
      BY <1>1
    <3> QED BY <2>3, <3>1, Finite
  <2>6. Cardinality(from) # 0
    BY <2>3, <2>5, FS_EmptySet
  <2>7. Occurrences(x, a) > 0
    BY <2>2, <2>4, <2>5, <2>6
  <2> QED BY <2>1, <2>7 DEF x
<1> HIDE DEF r
<1>7. /\ c \in [DOMAIN Indices(1) -> Nat]
      /\ c.min = r[1] /\ c.max = r[elems]
      /\ c.min <= c.p25 /\ c.p25 <= c.p50 /\ c.p50 <= c.p75
      /\ c.p75 <= c.p90 /\ c.p90 <= c.p95 /\ c.p95 <= c.p99 /\ c.p99 <= c.max
  BY <1>1, <1>5, ColumnsOrdered
<1>8. /\ 1 \in 1..elems /\ elems \in 1..elems
      /\ \A i \in 1..elems : r[1] <= r[i] /\ r[i] <= r[elems]
  BY <1>1, <1>5
<1>9. /\ mean \in Nat /\ r[1] * elems <= mean /\ mean <= r[elems] * elems
  <2>1. r[1] \in Nat /\ r[elems] \in Nat
    BY <1>6, <1>8
  <2> QED BY <1>1, <1>5, <1>8, <2>1, MeanBetween
<1> HIDE DEF c, mean
<1> DEFINE l == LineOf(type, r)
<1>10. /\ l.sampleOps = elems /\ l.mean = mean /\ l.columns = c
  BY <1>2
<1>11. l \in Line
  <2>1. elems \in 1..maxsamples
    BY <1>1 DEF m
  <2> QED BY <1>2, <1>3, <1>7, <1>9, <2>1 DEF Line
<1> HIDE DEF l
<1>12. Occurrences(c.min, a) > 0 /\ Occurrences(c.max, a) > 0
  BY <1>6, <1>7, <1>8
<1> QED BY <1>7, <1>9, <1>10, <1>11, <1>12 DEF l, r, kept, elems, a

\* A line stays in order when a time is added (SampledStats.cpp:55-86).
LEMMA AddKeepsLines ==
  ASSUME TypeOK, LineIsOrdered, NEW type, NEW time \in Latencies,
         NEW error \in BOOLEAN, addStats(type, time, error), UNCHANGED lines
  PROVE  LineIsOrdered'
<1>1. type \in OpTypes /\ time \in Nat
  BY SampledAssumption DEF addStats
<1>2. ASSUME NEW y \in OpTypes, NEW x \in Nat
      PROVE  Occurrences(x, added[y]) > 0 => Occurrences(x, added'[y]) > 0
  <2>1. added[y] \in Seq(Nat)
    BY DEF TypeOK
  <2>2. added'[y] = IF y = type THEN Append(added[y], time) ELSE added[y]
    BY <1>1 DEF TypeOK, addStats
  <2>3. CASE y = type
    <3> DEFINE a == added[y]
    <3>1. a \in Seq(Nat) /\ time \in Nat
      BY <1>1, <2>1
    <3> HIDE DEF a
    <3>2. /\ Occurrences(x, a) \in Nat
          /\ Occurrences(x, Append(a, time))
               = Occurrences(x, a) + (IF x = time THEN 1 ELSE 0)
      BY <3>1, AppendCounts
    <3>3. Occurrences(x, a) > 0 => Occurrences(x, Append(a, time)) > 0
      BY <3>2
    <3> QED BY <2>2, <2>3, <3>3 DEF a
  <2>4. CASE y # type
    BY <2>2, <2>4
  <2> QED BY <2>3, <2>4
<1>3. ASSUME NEW y \in OpTypes, lines[y] \in Line
      PROVE  lines[y].columns.min \in Nat /\ lines[y].columns.max \in Nat
  BY <1>3 DEF Line, Indices
<1> SUFFICES ASSUME NEW y \in OpTypes, lines[y] \in Line
    PROVE  LET l == lines[y]
               c == l.columns
           IN  /\ c.min <= c.p25 /\ c.p25 <= c.p50 /\ c.p50 <= c.p75
               /\ c.p75 <= c.p90 /\ c.p90 <= c.p95 /\ c.p95 <= c.p99
               /\ c.p99 <= c.max
               /\ c.min * l.sampleOps <= l.mean
               /\ l.mean <= c.max * l.sampleOps
               /\ Occurrences(c.min, added'[y]) > 0
               /\ Occurrences(c.max, added'[y]) > 0
  BY DEF LineIsOrdered, Occurrences, Line, Indices
<1> QED BY <1>2, <1>3 DEF LineIsOrdered

\* A display keeps the types, the sample and the lines
\* (SampledStats.cpp:105-170).
LEMMA DisplayKeeps ==
  ASSUME SInv, NEW next \in {"query", "exited"}, displayStats(next),
         UNCHANGED <<role, counters>>, pc # "aborted"
  PROVE  SInv'
<1>0. TypeOK /\ Drawn /\ LineIsOrdered /\ NoErrors
  BY DEF SInv
<1>1. /\ UNCHANGED <<role, numops, errors, opsSinceReset, minimums, maximums,
                     added>>
      /\ UNCHANGED counters
  BY DEF counters
<1>2. ASSUME NEW y \in OpTypes
      PROVE  /\ Elems(y)' = Elems(y)
             /\ samples'[y] \in [1..maxsamples -> Nat]
             /\ \A x \in Nat : Cardinality(Places(x, samples'[y], Elems(y)))
                                 <= Occurrences(x, added[y])
             /\ \/ lines'[y] = lines[y]
                \/ lines'[y] = EmptyLine(y)
                \/ /\ Elems(y) # 0
                   /\ lines'[y] = LineOf(y, SortedTo(samples[y], Elems(y)))
  <2> DEFINE kept == samples[y]
             elems == Elems(y)
             m == maxsamples
  <2>1. m \in Nat /\ elems \in 0..m /\ kept \in [1..m -> Nat] /\ added[y] \in Seq(Nat)
    BY <1>0, ElemsInside DEF TypeOK
  <2>2. /\ Elems(y)' = elems
        /\ \/ UNCHANGED <<samples[y], lines[y]>>
           \/ /\ samples'[y] = SortedTo(kept, elems)
              /\ \/ elems = 0 /\ lines'[y] = EmptyLine(y)
                 \/ elems # 0 /\ lines'[y] = LineOf(y, samples'[y])
    BY <1>0, <1>1, DisplayStep
  <2>3. \A x \in Nat : Cardinality(Places(x, kept, elems)) <= Occurrences(x, added[y])
    BY <1>0 DEF Drawn
  <2> HIDE DEF elems, m
  <2>4. SortedTo(kept, elems) \in [1..m -> Nat]
    BY <2>1, SortedToSorts
  <2>5. ASSUME NEW x \in Nat
        PROVE  Cardinality(Places(x, SortedTo(kept, elems), elems))
                 <= Occurrences(x, added[y])
    <3>1. Cardinality(Places(x, SortedTo(kept, elems), elems))
            <= Cardinality(Places(x, kept, elems))
      BY <2>1, SortCounts
    <3>2. Occurrences(x, added[y]) \in Nat
      BY <2>1, AppendCounts
    <3>3. /\ Places(x, SortedTo(kept, elems), elems) \subseteq 1..elems
          /\ Places(x, kept, elems) \subseteq 1..elems
      BY DEF Places
    <3>4. /\ Cardinality(Places(x, SortedTo(kept, elems), elems)) \in Nat
          /\ Cardinality(Places(x, kept, elems)) \in Nat
      BY <2>1, <3>3, Finite
    <3> QED BY <2>3, <3>1, <3>2, <3>4
  <2>6. /\ samples'[y] \in [1..m -> Nat]
        /\ \A x \in Nat : Cardinality(Places(x, samples'[y], elems))
                            <= Occurrences(x, added[y])
    <3>1. samples'[y] = kept \/ samples'[y] = SortedTo(kept, elems)
      BY <2>2
    <3> QED BY <2>1, <2>3, <2>4, <2>5, <3>1
  <2>7. \/ lines'[y] = lines[y]
        \/ lines'[y] = EmptyLine(y)
        \/ elems # 0 /\ lines'[y] = LineOf(y, SortedTo(kept, elems))
    BY <2>2
  <2> QED BY <2>2, <2>6, <2>7 DEF elems, m
<1>3. ASSUME NEW y \in OpTypes
      PROVE  EmptyLine(y) \in NoSampleLine /\ EmptyLine(y) \notin Line
  <2>1. numops[y] \in Nat /\ errors[y] \in Nat
    BY <1>0 DEF TypeOK
  <2> QED BY <2>1 DEF EmptyLine, NoSampleLine, Line
<1>4. TypeOK'
  <2>1. samples' \in [OpTypes -> [1..maxsamples -> Nat]]
    <3>1. samples' = [y \in OpTypes |-> samples'[y]]
      BY DEF displayStats
    <3> QED BY <1>2, <3>1
  <2>2. lines' \in [OpTypes -> {NoLine} \cup Line \cup NoSampleLine]
    <3>1. lines' = [y \in OpTypes |-> lines'[y]]
      BY DEF displayStats
    <3>2. ASSUME NEW y \in OpTypes
          PROVE  lines'[y] \in {NoLine} \cup Line \cup NoSampleLine
      <4>1. lines[y] \in {NoLine} \cup Line \cup NoSampleLine
        BY <1>0 DEF TypeOK
      <4>2. Elems(y) # 0 => LineOf(y, SortedTo(samples[y], Elems(y))) \in Line
        BY <1>0, LineKeeps
      <4> QED BY <1>2, <1>3, <4>1, <4>2
    <3> HIDE DEF NoLine
    <3> QED BY <3>1, <3>2
  <2>3. pc' \in {"query", "check", "exited", "aborted"}
    BY DEF displayStats
  <2> QED BY <1>0, <1>1, <2>1, <2>2, <2>3 DEF TypeOK
<1>5. Drawn'
  BY <1>1, <1>2 DEF Drawn, Places, Occurrences
<1>6. LineIsOrdered'
  <2> SUFFICES ASSUME NEW y \in OpTypes, lines'[y] \in Line
      PROVE  LET l == lines'[y]
                 c == l.columns
             IN  /\ c.min <= c.p25 /\ c.p25 <= c.p50 /\ c.p50 <= c.p75
                 /\ c.p75 <= c.p90 /\ c.p90 <= c.p95 /\ c.p95 <= c.p99
                 /\ c.p99 <= c.max
                 /\ c.min * l.sampleOps <= l.mean
                 /\ l.mean <= c.max * l.sampleOps
                 /\ Occurrences(c.min, added[y]) > 0
                 /\ Occurrences(c.max, added[y]) > 0
    BY <1>1 DEF LineIsOrdered, Occurrences, Line, Indices
  <2>1. CASE lines'[y] = lines[y]
    BY <1>0, <2>1 DEF LineIsOrdered
  <2>2. CASE lines'[y] = EmptyLine(y)
    BY <1>3, <2>2
  <2>3. CASE /\ Elems(y) # 0
             /\ lines'[y] = LineOf(y, SortedTo(samples[y], Elems(y)))
    BY <1>0, <2>3, LineKeeps
  <2> QED BY <1>2, <2>1, <2>2, <2>3
<1>7. NoErrors'
  <2>1. \A y \in OpTypes : errors[y] = 0
    BY <1>0 DEF NoErrors
  <2>2. ASSUME NEW y \in OpTypes, lines'[y] # NoLine
        PROVE  lines'[y].totalerrors = 0
    <3>1. CASE lines'[y] = lines[y]
      BY <1>0, <2>2, <3>1 DEF NoErrors, NoErrorIsPrinted
    <3>2. CASE lines'[y] = EmptyLine(y)
      BY <2>1, <3>2 DEF EmptyLine
    <3>3. CASE lines'[y] = LineOf(y, SortedTo(samples[y], Elems(y)))
      BY <2>1, <3>3 DEF LineOf
    <3> QED BY <1>2, <3>1, <3>2, <3>3
  <2> QED BY <1>1, <2>1, <2>2 DEF NoErrors, NoErrorIsPrinted
<1> QED BY <1>4, <1>5, <1>6, <1>7 DEF SInv

\* A query keeps the invariant; one that fails ends the thread before any line
\* counts the error (SampledStats.cpp:55-86; MySQLDriver.cpp:342-356).
LEMMA QueryKeeps ==
  ASSUME SInv, Query \/ QueryFails
  PROVE  SInv'
<1>0. TypeOK /\ Drawn /\ LineIsOrdered /\ NoErrors
  BY DEF SInv
<1>1. PICK type \in role.adds, time \in Latencies, error \in BOOLEAN :
        /\ addStats(type, time, error)
        /\ IF error THEN pc' = "aborted" ELSE pc' = "check"
  <2>1. CASE Query
    BY <2>1 DEF Query
  <2>2. CASE QueryFails
    BY <2>2 DEF QueryFails
  <2> QED BY <2>1, <2>2
<1>2. UNCHANGED <<role, lines>> /\ pc = "query"
  BY DEF Query, QueryFails
<1>3. pc' \in {"query", "check", "exited", "aborted"}
  BY <1>1
<1>4. TypeOK' /\ Drawn'
  BY <1>0, <1>1, <1>2, <1>3, AddKeeps
<1>5. LineIsOrdered'
  BY <1>0, <1>1, <1>2, AddKeepsLines
<1>6. NoErrors'
  <2>1. \A y \in OpTypes : errors[y] = 0
    BY <1>0, <1>2 DEF NoErrors
  <2>2. ~error => errors' = errors
    BY <1>0, <1>1 DEF addStats, TypeOK
  <2>3. pc' # "aborted" => \A y \in OpTypes : errors'[y] = 0
    BY <1>1, <2>1, <2>2
  <2>4. NoErrorIsPrinted'
    BY <1>0, <1>2 DEF NoErrors, NoErrorIsPrinted
  <2> QED BY <2>3, <2>4 DEF NoErrors
<1> QED BY <1>4, <1>5, <1>6 DEF SInv

\* The objects of a thread that starts (SampledStats.cpp:18-46).
LEMMA InitHolds == Init => SInv
<1> SUFFICES ASSUME Init PROVE SInv
  OBVIOUS
<1>1. maxsamples \in Nat \ {0}
  BY SampledAssumption
<1>2. /\ numops = Each(0) /\ errors = Each(0) /\ opsSinceReset = Each(0)
      /\ lines = Each(NoLine) /\ added = Each(<< >>)
  BY DEF Init
<1>3. NoLine \notin Line
  BY DEF NoLine, Line
<1>4. TypeOK
  <2>1. samples \in [OpTypes -> [1..maxsamples -> Nat]]
    BY <1>1 DEF Init, Each
  <2> HIDE DEF NoLine
  <2>2. /\ lines \in [OpTypes -> {NoLine} \cup Line \cup NoSampleLine]
        /\ added \in [OpTypes -> Seq(Nat)]
    BY <1>2 DEF Each
  <2> QED BY <1>2, <2>1, <2>2 DEF TypeOK, Init, Each
<1>5. ASSUME NEW type \in OpTypes, NEW x \in Nat
      PROVE  Cardinality(Places(x, samples[type], Elems(type)))
               <= Occurrences(x, added[type])
  <2>1. Elems(type) = 0
    BY <1>1, <1>2 DEF Elems, Each
  <2>2. Places(x, samples[type], Elems(type)) = {}
    BY <2>1 DEF Places
  <2>3. Occurrences(x, added[type]) = Cardinality({})
    <3>1. added[type] = << >>
      BY <1>2 DEF Each
    <3>2. {i \in DOMAIN added[type] : added[type][i] = x} = {}
      BY <3>1
    <3> QED BY <3>2 DEF Occurrences
  <2>4. Cardinality({}) = 0
    BY FS_EmptySet
  <2> QED BY <2>2, <2>3, <2>4
<1>6. \A type \in OpTypes : lines[type] = NoLine /\ errors[type] = 0
  BY <1>2 DEF Each
<1>7. LineIsOrdered /\ NoErrors
  <2> HIDE DEF NoLine
  <2> QED BY <1>3, <1>6 DEF LineIsOrdered, NoErrors, NoErrorIsPrinted
<1> QED BY <1>4, <1>5, <1>7 DEF SInv, Drawn

\* Every step keeps the invariant.
LEMMA NextHolds == SInv /\ [Next]_vars => SInv'
<1> SUFFICES ASSUME SInv, [Next]_vars PROVE SInv'
  OBVIOUS
<1>1. CASE Query \/ QueryFails
  BY <1>1, QueryKeeps
<1>2. ASSUME UNCHANGED <<role, counters, samples, lines>>,
             pc' \in {"query", "aborted"} \/ pc' = pc, pc # "aborted" \/ pc' = pc
      PROVE  SInv'
  <2>0. TypeOK /\ Drawn /\ LineIsOrdered /\ NoErrors
    BY DEF SInv
  <2>1. UNCHANGED <<role, numops, errors, opsSinceReset, minimums, maximums,
                    added, samples, lines>>
    BY <1>2 DEF counters
  <2>2. TypeOK'
    BY <1>2, <2>0, <2>1 DEF TypeOK
  <2>3. Drawn'
    BY <2>0, <2>1 DEF Drawn, Places, Occurrences, Elems
  <2>4. LineIsOrdered'
    BY <2>0, <2>1 DEF LineIsOrdered, Occurrences, Line, Indices
  <2>5. NoErrors'
    BY <1>2, <2>0, <2>1 DEF NoErrors, NoErrorIsPrinted
  <2> QED BY <2>2, <2>3, <2>4, <2>5 DEF SInv
<1>3. CASE QueryAborts
  BY <1>2, <1>3 DEF QueryAborts
<1>4. CASE Check
  <2>1. CASE pc' = "query" /\ UNCHANGED <<samples, lines>>
    BY <1>2, <1>4, <2>1 DEF Check
  <2>2. CASE displayStats("query")
    BY <1>4, <2>2, DisplayKeeps DEF Check
  <2> QED BY <1>4, <2>1, <2>2 DEF Check
<1>5. CASE Exit
  BY <1>5, DisplayKeeps DEF Exit
<1>6. CASE UNCHANGED vars
  BY <1>2, <1>6 DEF vars
<1> QED BY <1>1, <1>3, <1>4, <1>5, <1>6 DEF Next

\* The types, for samples of any size and any number of queries.
THEOREM TypeCorrect == Spec => []TypeOK
<1>1. SInv => TypeOK
  BY DEF SInv
<1> QED BY InitHolds, NextHolds, <1>1, PTL DEF Spec

\* A sample holds no time more often than it was added, although every display
\* sorts it in place and later times replace elements of the sorted array
\* (SampledStats.cpp:73-84, 126-127).
THEOREM SampleComesFromTimes == Spec => []SampleIsDrawn
<1>1. SInv => SampleIsDrawn
  <2> SUFFICES ASSUME SInv, NEW type \in OpTypes, NEW i \in 1..Elems(type)
      PROVE  Occurrences(samples[type][i], Sample(type))
               <= Occurrences(samples[type][i], added[type])
    BY DEF SampleIsDrawn
  <2>1. TypeOK /\ Drawn
    BY DEF SInv
  <2>2. /\ Elems(type) \in 0..maxsamples /\ maxsamples \in Nat
        /\ samples[type] \in [1..maxsamples -> Nat]
    BY <2>1, ElemsInside DEF TypeOK
  <2>3. i \in 1..maxsamples
    BY <2>2
  <2>4. samples[type][i] \in Nat
    BY <2>2, <2>3
  <2>5. ASSUME NEW x
        PROVE  {j \in DOMAIN Sample(type) : Sample(type)[j] = x}
                 = Places(x, samples[type], Elems(type))
    BY DEF Sample, Places
  <2> QED BY <2>1, <2>4, <2>5 DEF Drawn, Occurrences
<1> QED BY InitHolds, NextHolds, <1>1, PTL DEF Spec

\* Every line is in order, its mean is between its minimum and maximum, and
\* those were measured (SampledStats.cpp:126-152).
THEOREM LinesAreOrdered == Spec => []LineIsOrdered
<1>1. SInv => LineIsOrdered
  BY DEF SInv
<1> QED BY InitHolds, NextHolds, <1>1, PTL DEF Spec

\* No line ever shows an error, however many there are (SampledStats.cpp:57-59,
\* 115; MySQLDriver.cpp:342-356).
THEOREM ErrorsAreNeverPrinted == Spec => []NoErrorIsPrinted
<1>1. SInv => NoErrorIsPrinted
  BY DEF SInv, NoErrors
<1> QED BY InitHolds, NextHolds, <1>1, PTL DEF Spec
=============================================================================
