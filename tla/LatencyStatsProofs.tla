-------------------------- MODULE LatencyStatsProofs --------------------------
(***************************************************************************)
(* Proofs about LatencyStats: the buckets cover the time line without gap  *)
(* or overlap, for every latency; the printed mean and maximum are those   *)
(* of all operations, for any number of threads and operations; and no     *)
(* percentile whose rank is one or more has a bucket.                      *)
(***************************************************************************)
EXTENDS LatencyStats, FiniteSetTheorems, WellFoundedInduction, TLAPS

\* Every latency has a bucket (LatencyStats.cpp:35-53).
LEMMA BucketExists ==
  ASSUME NEW us \in Nat
  PROVE  latencyToBucket(us) \in Buckets
BY SMT DEF latencyToBucket, Buckets, NUM_BUCKETS, SUB_MS_BUCKETS, MS_BUCKETS,
       HUNDREDMS_BUCKETS, SEC_BUCKETS

\* A latency below 100 s lies within the bounds of its bucket: what the unit
\* test samples at multiples of 100 us (test/LatencyStatsTest.cpp:8-15).
THEOREM BucketContainsLatency ==
  ASSUME NEW us \in Nat, us < 100000000
  PROVE  InBucket(us)
BY BucketExists, SMT
   DEF InBucket, bucketBound, latencyToBucket, Buckets, NUM_BUCKETS,
       SUB_MS_BUCKETS, MS_BUCKETS, HUNDREDMS_BUCKETS, SEC_BUCKETS

\* A bucket ends where the next one starts (LatencyStats.cpp:60-84).
THEOREM BucketsTile ==
  ASSUME NEW b \in 0..(NUM_BUCKETS - 2)
  PROVE  bucketBound(b)[2] = bucketBound(b + 1)[1]
BY SMT DEF bucketBound, NUM_BUCKETS, SUB_MS_BUCKETS, MS_BUCKETS,
       HUNDREDMS_BUCKETS, SEC_BUCKETS

\* A longer latency is not in an earlier bucket, so the order of the buckets
\* is the order of the percentiles (LatencyStats.cpp:35-53, 192-206).
THEOREM BucketsOrdered ==
  ASSUME NEW us1 \in Nat, NEW us2 \in Nat, us1 <= us2
  PROVE  latencyToBucket(us1) <= latencyToBucket(us2)
BY SMT DEF latencyToBucket, NUM_BUCKETS, SUB_MS_BUCKETS, MS_BUCKETS,
       HUNDREDMS_BUCKETS, SEC_BUCKETS
-----------------------------------------------------------------------------
(* The mean.                                                               *)

MeanTypeOK ==
  /\ means \in [Threads -> [OpTypes -> [v1 : Nat, n : Nat, running : Int]]]
  /\ spent \in [Threads -> [OpTypes -> Nat]]
  /\ ops \in [Threads -> [OpTypes -> Nat]]
  /\ seen \in [OpTypes -> SUBSET Nat]
  /\ sampleCounts = [type \in OpTypes |-> sampleCounts[type]]
  /\ finalMeans = [type \in OpTypes |-> finalMeans[type]]

\* The running mean of each thread has lost nothing.
MeansExact ==
  \A t \in Threads, type \in OpTypes :
    /\ means[t][type].n = ops[t][type]
    /\ WeightedMean(means[t][type]) = spent[t][type]

MInv == MeanTypeOK /\ MeansExact /\ MeanIsExact

\* What addSample adds is the sample (RunningMean.cpp:9-15).
LEMMA AddSampleExact ==
  ASSUME NEW m \in [v1 : Nat, n : Nat, running : Int], NEW us \in Nat
  PROVE  /\ WeightedMean(addSample(m, us)) = WeightedMean(m) + us
         /\ addSample(m, us).n = m.n + 1
         /\ addSample(m, us) \in [v1 : Nat, n : Nat, running : Int]
<1> DEFINE a == addSample(m, us)
<1>1. /\ a \in [v1 : Nat, n : Nat, running : Int]
      /\ a.v1 = m.v1 /\ a.n = m.n + 1
      /\ a.running = m.running + (us - m.v1)
  BY DEF addSample
<1>2. (m.n + 1) * m.v1 = m.n * m.v1 + m.v1
  <2> DEFINE v == m.v1
             n == m.n
  <2>1. v \in Nat /\ n \in Nat
    OBVIOUS
  <2> HIDE DEF v, n
  <2>2. (n + 1) * v = n * v + v
    BY <2>1
  <2> QED BY <2>2 DEF v, n
<1>3. WeightedMean(a) = (m.n + 1) * m.v1 + (m.running + (us - m.v1))
  BY <1>1 DEF WeightedMean
<1>4. WeightedMean(m) = m.n * m.v1 + m.running
  BY DEF WeightedMean
<1> DEFINE p == m.n * m.v1
           v == m.v1
           r == m.running
<1>5. p \in Int /\ v \in Int /\ r \in Int
  OBVIOUS
<1>6. WeightedMean(a) = p + v + (r + (us - v)) /\ WeightedMean(m) = p + r
  BY <1>2, <1>3, <1>4
<1> HIDE DEF p, v, r, a
<1>7. p + v + (r + (us - v)) = p + r + us
  BY <1>5
<1> QED BY <1>1, <1>6, <1>7 DEF a

\* NoMean and the first sample.
LEMMA NewMeanExact ==
  ASSUME NEW us \in Nat
  PROVE  /\ WeightedMean(NewMean(us)) = us
         /\ NewMean(us).n = 1
         /\ NewMean(us) \in [v1 : Nat, n : Nat, running : Int]
         /\ WeightedMean(NoMean) = 0
         /\ NoMean.n = 0
         /\ NoMean \in [v1 : Nat, n : Nat, running : Int]
BY DEF WeightedMean, NewMean, NoMean

\* It holds of the empty statistics.
LEMMA MInvInit == ASSUME Init PROVE MInv
<1>1. MeanTypeOK
  BY NewMeanExact DEF Init, MeanTypeOK, PerThread, PerType
<1>2. MeansExact
  BY NewMeanExact DEF Init, MeansExact, PerThread
<1>3. MeanIsExact
  BY DEF Init, MeanIsExact
<1> QED BY <1>1, <1>2, <1>3 DEF MInv

\* A recorded latency changes the mean of one thread and type
\* (LatencyStats.cpp:95-99).
LEMMA RecordKeepsMInv ==
  ASSUME MInv,
         NEW t \in Threads, NEW type \in OpTypes, NEW us \in Nat,
         recordLatency(t, type, us)
  PROVE  MInv'
<1> USE DEF MInv
<1> DEFINE Mean == [v1 : Nat, n : Nat, running : Int]
           new == IF means[t][type] = NoMean THEN NewMean(us)
                  ELSE addSample(means[t][type], us)
<1>1. /\ new \in Mean
      /\ new.n = means[t][type].n + 1
      /\ WeightedMean(new) = WeightedMean(means[t][type]) + us
  <2>1. means[t][type] \in Mean
    BY DEF MeanTypeOK
  <2>2. CASE means[t][type] = NoMean
    BY <2>2, NewMeanExact
  <2>3. CASE means[t][type] # NoMean
    BY <2>1, <2>3, AddSampleExact
  <2> QED BY <2>2, <2>3
<1>2. means' = [means EXCEPT ![t] = [means[t] EXCEPT ![type] = new]]
  BY DEF recordLatency
<1> HIDE DEF new
<1>3. MeanTypeOK'
  <2>1. means' \in [Threads -> [OpTypes -> Mean]]
    BY <1>1, <1>2 DEF MeanTypeOK
  <2>2. spent' \in [Threads -> [OpTypes -> Nat]] /\ ops' \in [Threads -> [OpTypes -> Nat]]
    BY DEF recordLatency, MeanTypeOK
  <2>3. seen' \in [OpTypes -> SUBSET Nat]
    BY DEF recordLatency, MeanTypeOK
  <2> QED BY <2>1, <2>2, <2>3 DEF MeanTypeOK, recordLatency, reportVars
<1>4. ASSUME NEW u \in Threads, NEW y \in OpTypes
      PROVE  /\ means[u][y]'.n = ops[u][y]'
             /\ WeightedMean(means[u][y])' = spent[u][y]'
  <2>1. CASE u = t /\ y = type
    <3>1. means'[u][y] = new
      BY <1>2, <2>1 DEF MeanTypeOK
    <3>2. ops'[u][y] = ops[u][y] + 1 /\ spent'[u][y] = spent[u][y] + us
      BY <2>1 DEF recordLatency, MeanTypeOK
    <3>3. WeightedMean(means[u][y])' = WeightedMean(new)
      BY <3>1 DEF WeightedMean
    <3> QED BY <1>1, <2>1, <3>1, <3>2, <3>3 DEF MeansExact
  <2>2. CASE ~(u = t /\ y = type)
    <3>1. means'[u][y] = means[u][y]
      BY <1>2, <2>2 DEF MeanTypeOK
    <3>2. ops'[u][y] = ops[u][y] /\ spent'[u][y] = spent[u][y]
      BY <2>2 DEF recordLatency, MeanTypeOK
    <3> QED BY <3>1, <3>2 DEF MeansExact, WeightedMean
  <2> QED BY <2>1, <2>2
<1>5. MeansExact'
  BY <1>4 DEF MeansExact
<1>6. MeanIsExact'
  BY DEF MeanIsExact, recordLatency, reportVars
<1> QED BY <1>3, <1>5, <1>6

\* The report merges the means (LatencyStats.cpp:150-169).
LEMMA DisplayKeepsMInv == ASSUME MInv, displayLatencyStats PROVE MInv'
<1> USE DEF MInv
<1>1. MeanTypeOK'
  BY DEF displayLatencyStats, calcMeans, recordVars, history, MeanTypeOK
<1>2. MeansExact'
  BY DEF displayLatencyStats, recordVars, history, MeansExact, WeightedMean
<1>3. ASSUME NEW type \in OpTypes
      PROVE  /\ sampleCounts'[type] = OverThreads([t \in Threads |-> ops[t][type]])
             /\ finalMeans'[type] = OverThreads([t \in Threads |-> spent[t][type]])
  <2>1. [t \in Threads |-> means[t][type].n] = [t \in Threads |-> ops[t][type]]
    BY DEF MeansExact
  <2>2. [t \in Threads |-> WeightedMean(means[t][type])]
          = [t \in Threads |-> spent[t][type]]
    BY DEF MeansExact
  <2>3. /\ sampleCounts'[type] = OverThreads([t \in Threads |-> means[t][type].n])
        /\ finalMeans'[type] =
             OverThreads([t \in Threads |-> WeightedMean(means[t][type])])
    BY DEF displayLatencyStats, calcMeans
  <2> QED BY <2>1, <2>2, <2>3
<1>4. UNCHANGED <<ops, spent>>
  BY DEF displayLatencyStats, history
<1>5. MeanIsExact'
  BY <1>3, <1>4 DEF MeanIsExact
<1> QED BY <1>1, <1>2, <1>5

\* MInv is an invariant.
LEMMA MInvInvariant == Spec => []MInv
<1>1. Init => MInv
  BY MInvInit
<1>2. MInv /\ [Next]_vars => MInv'
  <2> SUFFICES ASSUME MInv, [Next]_vars PROVE MInv'
    OBVIOUS
  <2>1. CASE Next
    <3>1. ASSUME NEW t \in Threads, NEW type \in RecordedTypes,
                 NEW us \in Latencies, recordLatency(t, type, us)
          PROVE  MInv'
      <4>1. type \in OpTypes /\ us \in Nat
        BY LatencyAssumption
      <4> QED BY <3>1, <4>1, RecordKeepsMInv
    <3>2. CASE displayLatencyStats
      BY <3>2, DisplayKeepsMInv
    <3> QED BY <2>1, <3>1, <3>2 DEF Next
  <2>2. CASE UNCHANGED vars
    <3>1. UNCHANGED <<means, ops, spent, seen, sampleCounts, finalMeans, displayed>>
      BY <2>2 DEF vars, recordVars, reportVars, history
    <3>2. MeanTypeOK'
      BY <3>1 DEF MInv, MeanTypeOK
    <3>3. MeansExact'
      BY <3>1 DEF MInv, MeansExact, WeightedMean
    <3>4. MeanIsExact'
      BY <3>1 DEF MInv, MeanIsExact
    <3> QED BY <3>2, <3>3, <3>4 DEF MInv
  <2> QED BY <2>1, <2>2
<1> QED BY <1>1, <1>2, PTL DEF Spec

\* The printed count and mean are those of all operations of all threads, for
\* any number of both (LatencyStats.cpp:150-169).
THEOREM MeanCorrect == Spec => []MeanIsExact
<1>1. MInv => MeanIsExact
  BY DEF MInv
<1> QED BY <1>1, MInvInvariant, PTL
-----------------------------------------------------------------------------
(* The buckets of the latencies that are recorded.                         *)

\* In every behaviour each recorded latency below 100 s is within the bounds
\* of the bucket it is counted in (LatencyStats.cpp:35-84).
THEOREM LatenciesInBuckets == Spec => []LatencyInItsBucket
<1> DEFINE Seen == seen \in [OpTypes -> SUBSET Nat]
<1>1. Init => Seen
  BY DEF Init, PerType
<1>2. Seen /\ [Next]_vars => Seen'
  <2> SUFFICES ASSUME Seen, [Next]_vars PROVE Seen'
    OBVIOUS
  <2>1. ASSUME NEW t \in Threads, NEW type \in RecordedTypes,
               NEW us \in Latencies, recordLatency(t, type, us)
        PROVE  Seen'
    BY <2>1, LatencyAssumption DEF recordLatency
  <2>2. CASE displayLatencyStats
    BY <2>2 DEF displayLatencyStats, history
  <2>3. CASE UNCHANGED vars
    BY <2>3 DEF vars, history
  <2> QED BY <2>1, <2>2, <2>3 DEF Next
<1>3. Seen => LatencyInItsBucket
  <2> SUFFICES ASSUME Seen, NEW type \in OpTypes, NEW us \in seen[type],
                      us < 100000000
               PROVE  InBucket(us)
    BY SMT DEF LatencyInItsBucket
  <2>1. us \in Nat
    OBVIOUS
  <2> QED BY <2>1, BucketContainsLatency, SMT
<1> QED BY <1>1, <1>2, <1>3, PTL DEF Spec
-----------------------------------------------------------------------------
(* The maximum.                                                            *)

\* Each type has a thread with the greatest maximum; a maximum was measured,
\* and what was measured is below one.
MaxInv ==
  /\ maxLatency \in [Threads -> [OpTypes -> Nat]]
  /\ seen \in [OpTypes -> SUBSET Nat]
  /\ \A type \in OpTypes :
       /\ \E top \in Threads :
            \A t \in Threads : maxLatency[t][type] <= maxLatency[top][type]
       /\ \A t \in Threads : maxLatency[t][type] \in seen[type] \cup {0}
       /\ \A us \in seen[type] : \E t \in Threads : us <= maxLatency[t][type]

\* A latency raises the maximum of its thread and type, or nothing
\* (LatencyStats.cpp:101-103).
LEMMA RecordKeepsMax ==
  ASSUME MaxInv, NEW t \in Threads, NEW type \in OpTypes, NEW us \in Nat,
         recordLatency(t, type, us)
  PROVE  MaxInv'
<1> DEFINE old == maxLatency[t][type]
           new == IF old < us THEN us ELSE old
<1>1. /\ maxLatency' = [maxLatency EXCEPT ![t] = [maxLatency[t] EXCEPT ![type] = new]]
      /\ seen' = [seen EXCEPT ![type] = seen[type] \cup {us}]
  BY DEF recordLatency
<1>2. old \in Nat /\ new \in Nat /\ old <= new /\ us <= new /\ new \in {old, us}
  BY DEF MaxInv
<1>3. ASSUME NEW u \in Threads, NEW y \in OpTypes
      PROVE  maxLatency'[u][y] = IF u = t /\ y = type THEN new ELSE maxLatency[u][y]
  BY <1>1 DEF MaxInv
<1>4. ASSUME NEW y \in OpTypes
      PROVE  seen'[y] = IF y = type THEN seen[type] \cup {us} ELSE seen[y]
  BY <1>1 DEF MaxInv
<1>5. maxLatency' \in [Threads -> [OpTypes -> Nat]] /\ seen' \in [OpTypes -> SUBSET Nat]
  BY <1>1, <1>2 DEF MaxInv
<1>6. \A u \in Threads, y \in OpTypes : maxLatency[u][y] \in Nat
  BY DEF MaxInv
<1> HIDE DEF new
<1>7. ASSUME NEW y \in OpTypes
      PROVE  \E top \in Threads :
               \A u \in Threads : maxLatency'[u][y] <= maxLatency'[top][y]
  <2>1. PICK top \in Threads :
          \A u \in Threads : maxLatency[u][y] <= maxLatency[top][y]
    BY DEF MaxInv
  <2>2. CASE y = type /\ maxLatency[top][y] <= new
    <3>1. \A u \in Threads : maxLatency[u][y] <= new
      BY <1>2, <1>6, <2>1, <2>2
    <3>2. \A u \in Threads : maxLatency'[u][y] <= maxLatency'[t][y]
      BY <1>2, <1>3, <2>2, <3>1
    <3> QED BY <3>2
  <2>3. CASE ~(y = type /\ maxLatency[top][y] <= new)
    <3>1. maxLatency'[top][y] = maxLatency[top][y]
      BY <1>2, <1>3, <2>3
    <3>2. \A u \in Threads : maxLatency'[u][y] <= maxLatency[top][y]
      BY <1>2, <1>3, <1>6, <2>1, <2>3
    <3> QED BY <3>1, <3>2
  <2> QED BY <2>2, <2>3
<1>8. ASSUME NEW y \in OpTypes, NEW u \in Threads
      PROVE  maxLatency'[u][y] \in seen'[y] \cup {0}
  BY <1>2, <1>3, <1>4 DEF MaxInv
<1>9. ASSUME NEW y \in OpTypes, NEW x \in seen'[y]
      PROVE  \E u \in Threads : x <= maxLatency'[u][y]
  <2>1. CASE y = type /\ x = us
    <3>1. x <= maxLatency'[t][y]
      BY <1>2, <1>3, <2>1
    <3> QED BY <3>1
  <2>2. CASE ~(y = type /\ x = us)
    <3>1. x \in seen[y] /\ x \in Nat
      BY <1>4, <2>2 DEF MaxInv
    <3>2. PICK u \in Threads : x <= maxLatency[u][y]
      BY <3>1 DEF MaxInv
    <3>3. x <= maxLatency'[u][y]
      BY <1>2, <1>3, <1>6, <3>1, <3>2
    <3> QED BY <3>3
  <2> QED BY <2>1, <2>2
<1> QED BY <1>5, <1>7, <1>8, <1>9 DEF MaxInv

\* MaxInv is an invariant.
LEMMA MaxInvInvariant == Spec => []MaxInv
<1>1. Init => MaxInv
  <2> SUFFICES ASSUME Init PROVE MaxInv
    OBVIOUS
  <2>1. 0 \in Threads
    BY LatencyAssumption DEF Threads
  <2>2. /\ maxLatency = [t \in Threads |-> [type \in OpTypes |-> 0]]
        /\ seen = [type \in OpTypes |-> {}]
    BY DEF Init, PerThread, PerType
  <2> QED BY <2>1, <2>2 DEF MaxInv
<1>2. MaxInv /\ [Next]_vars => MaxInv'
  <2> SUFFICES ASSUME MaxInv, [Next]_vars PROVE MaxInv'
    OBVIOUS
  <2>1. ASSUME NEW t \in Threads, NEW type \in RecordedTypes,
               NEW us \in Latencies, recordLatency(t, type, us)
        PROVE  MaxInv'
    <3>1. type \in OpTypes /\ us \in Nat
      BY LatencyAssumption
    <3> QED BY <2>1, <3>1, RecordKeepsMax
  <2>2. CASE UNCHANGED <<maxLatency, seen>>
    BY <2>2 DEF MaxInv
  <2>3. CASE displayLatencyStats
    BY <2>2, <2>3 DEF displayLatencyStats, recordVars, history
  <2>4. CASE UNCHANGED vars
    BY <2>2, <2>4 DEF vars, recordVars, history
  <2> QED BY <2>1, <2>3, <2>4 DEF Next
<1> QED BY <1>1, <1>2, PTL DEF Spec

\* The printed maximum was measured by some thread and nothing above it was, for
\* any number of threads (LatencyStats.cpp:101-103, 241-248).
THEOREM MaxCorrect == Spec => []MaxIsExact
<1>1. MaxInv => MaxIsExact
  <2> SUFFICES ASSUME MaxInv, NEW type \in OpTypes, seen[type] # {}
               PROVE  /\ getMax(type) \in seen[type]
                      /\ \A us \in seen[type] : us <= getMax(type)
    BY DEF MaxIsExact
  <2> DEFINE All == {0} \cup {maxLatency[t][type] : t \in Threads}
             max == getMax(type)
  <2>1. PICK top \in Threads :
          \A t \in Threads : maxLatency[t][type] <= maxLatency[top][type]
    BY DEF MaxInv
  <2>2. \E us \in All : \A t \in Threads : maxLatency[t][type] <= us
    BY <2>1
  <2>3. max \in All /\ \A t \in Threads : maxLatency[t][type] <= max
    BY <2>2 DEF getMax
  <2> HIDE DEF max
  <2>4. \A t \in Threads : maxLatency[t][type] \in Nat
    BY DEF MaxInv
  <2>5. max \in Nat /\ max \in seen[type] \cup {0}
    BY <2>3, <2>4 DEF MaxInv
  <2>6. ASSUME NEW us \in seen[type] PROVE us \in Nat /\ us <= max
    <3>1. us \in Nat
      BY DEF MaxInv
    <3>2. PICK t \in Threads : us <= maxLatency[t][type]
      BY DEF MaxInv
    <3> QED BY <2>3, <2>4, <2>5, <3>1, <3>2
  <2>7. max \in seen[type]
    BY <2>5, <2>6
  <2> QED BY <2>6, <2>7 DEF max
<1> QED BY <1>1, MaxInvInvariant, PTL
-----------------------------------------------------------------------------
(* Sums.                                                                   *)

\* Induction, for a set of numbers.
LEMMA Induction ==
  ASSUME NEW T, 0 \in T, \A n \in Nat : n \in T => n + 1 \in T
  PROVE  Nat \subseteq T
<1> DEFINE Before == OpToRel(<, Nat)
           Rest == Nat \ T
<1> SUFFICES ASSUME Rest # {} PROVE FALSE
  OBVIOUS
<1>1. IsWellFoundedOn(Before, Nat)
  BY NatLessThanWellFounded
<1>2. \A x, y \in Nat : <<y, x>> \in Before <=> y < x
  BY DEF OpToRel
<1>3. Rest \subseteq Nat
  OBVIOUS
<1> HIDE DEF Before, Rest
<1>4. PICK n \in Rest : \A m \in Rest : <<m, n>> \notin Before
  BY <1>1, <1>3, WFMin
<1> USE DEF Rest
<1>5. n # 0 /\ n - 1 \in Nat /\ n - 1 < n
  OBVIOUS
<1>6. n - 1 \in T
  BY <1>2, <1>4, <1>5
<1>7. (n - 1) + 1 \in T
  BY <1>5, <1>6
<1> QED BY <1>7

\* The sum of some numbers that are added in the order of CHOOSE.
SumOver(value, S) == FoldFunctionOnSet(+, 0, value, S)

\* The sum of finitely many numbers of a set that is closed under addition.
LEMMA SumInside ==
  ASSUME NEW V, 0 \in V, \A a, b \in V : a + b \in V,
         NEW S, IsFiniteSet(S), NEW value, \A x \in S : value[x] \in V
  PROVE  SumOver(value, S) \in V
<1> DEFINE Step(g, s) == IF s = {} THEN 0
                         ELSE LET x == CHOOSE x \in s : TRUE
                              IN  value[x] + g[s \ {x}]
           Computed(g, k) == \A s \in SUBSET S : Cardinality(s) <= k => g[s] = Step(g, s)
           iter == CHOOSE g : g = [s \in SUBSET S |-> Step(g, s)]
           Done == {k \in Nat : \E g \in [SUBSET S -> V] : Computed(g, k)}
<1>1. \A s \in SUBSET S : IsFiniteSet(s) /\ Cardinality(s) \in Nat
  BY FS_Subset, FS_CardinalityType
<1>2. ASSUME NEW g \in [SUBSET S -> V], NEW s \in SUBSET S
      PROVE  Step(g, s) \in V
  <2>1. CASE s = {}
    BY <2>1
  <2>2. CASE s # {}
    <3> DEFINE x == CHOOSE x \in s : TRUE
    <3>1. x \in s
      BY <2>2
    <3> HIDE DEF x
    <3>2. value[x] \in V /\ g[s \ {x}] \in V
      BY <3>1
    <3>3. value[x] + g[s \ {x}] \in V
      BY <3>2
    <3> QED BY <2>2, <3>3 DEF x
  <2> QED BY <2>1, <2>2
<1>3. ASSUME NEW s \in SUBSET S, s # {}
      PROVE  LET x == CHOOSE x \in s : TRUE
             IN  /\ x \in s /\ s \ {x} \in SUBSET S
                 /\ Cardinality(s \ {x}) = Cardinality(s) - 1
  <2> DEFINE x == CHOOSE x \in s : TRUE
  <2>1. x \in s
    BY <1>3
  <2> HIDE DEF x
  <2>2. Cardinality(s \ {x}) = Cardinality(s) - 1
    BY <1>1, <2>1, FS_RemoveElement
  <2> QED BY <2>1, <2>2 DEF x
<1>4. 0 \in Done
  <2> DEFINE g == [s \in SUBSET S |-> 0]
  <2>1. ASSUME NEW s \in SUBSET S, Cardinality(s) <= 0 PROVE g[s] = Step(g, s)
    <3>1. s = {}
      BY <1>1, <2>1, FS_EmptySet
    <3> QED BY <3>1
  <2>2. g \in [SUBSET S -> V]
    OBVIOUS
  <2> QED BY <2>1, <2>2
<1>5. ASSUME NEW k \in Nat, k \in Done PROVE k + 1 \in Done
  <2>1. PICK g \in [SUBSET S -> V] : Computed(g, k)
    BY <1>5
  <2> DEFINE h == [s \in SUBSET S |-> Step(g, s)]
  <2>2. h \in [SUBSET S -> V]
    BY <1>2
  <2>3. ASSUME NEW s \in SUBSET S, Cardinality(s) <= k + 1
        PROVE  h[s] = Step(h, s)
    <3>1. CASE s = {}
      BY <3>1
    <3>2. CASE s # {}
      <4> DEFINE x == CHOOSE x \in s : TRUE
                 rest == s \ {x}
      <4>1. rest \in SUBSET S /\ Cardinality(rest) = Cardinality(s) - 1
        BY <1>3, <3>2
      <4>2. Cardinality(rest) <= k
        BY <1>1, <2>3, <4>1
      <4>3. h[rest] = g[rest]
        <5> HIDE DEF rest, Step
        <5> QED BY <2>1, <4>1, <4>2
      <4>4. Step(h, s) = value[x] + h[rest] /\ Step(g, s) = value[x] + g[rest]
        BY <3>2
      <4> HIDE DEF x, rest, Step
      <4>5. h[s] = Step(g, s)
        OBVIOUS
      <4> QED BY <4>3, <4>4, <4>5
    <3> QED BY <3>1, <3>2
  <2> HIDE DEF Step, h
  <2> QED BY <2>2, <2>3
<1> HIDE DEF Done
<1>6. Nat \subseteq Done
  BY <1>4, <1>5, Induction
<1>7. \E g \in [SUBSET S -> V] : g = [s \in SUBSET S |-> Step(g, s)]
  <2>1. Cardinality(S) \in Done /\ Cardinality(S) \in Nat
    BY <1>1, <1>6
  <2> HIDE DEF Step
  <2>2. PICK g \in [SUBSET S -> V] : Computed(g, Cardinality(S))
    BY <2>1 DEF Done
  <2>3. \A s \in SUBSET S : Cardinality(s) <= Cardinality(S)
    BY FS_Subset
  <2>4. g = [s \in SUBSET S |-> g[s]]
    OBVIOUS
  <2>5. g = [s \in SUBSET S |-> Step(g, s)]
    BY <2>2, <2>3, <2>4
  <2> QED BY <2>5
<1>8. iter = [s \in SUBSET S |-> Step(iter, s)]
  <2> HIDE DEF Step
  <2> QED BY <1>7
<1> DEFINE Sums == {k \in Nat : \A s \in SUBSET S : Cardinality(s) = k => iter[s] \in V}
<1> HIDE DEF iter
<1>9. 0 \in Sums
  <2> SUFFICES ASSUME NEW s \in SUBSET S, Cardinality(s) = 0 PROVE iter[s] \in V
    OBVIOUS
  <2>1. s = {}
    BY <1>1, FS_EmptySet
  <2>2. iter[s] = Step(iter, s)
    BY <1>8
  <2> QED BY <2>1, <2>2
<1>10. ASSUME NEW k \in Nat, k \in Sums PROVE k + 1 \in Sums
  <2> SUFFICES ASSUME NEW s \in SUBSET S, Cardinality(s) = k + 1 PROVE iter[s] \in V
    OBVIOUS
  <2> DEFINE x == CHOOSE x \in s : TRUE
             rest == s \ {x}
  <2>1. s # {}
    BY FS_EmptySet
  <2>2. x \in s /\ rest \in SUBSET S /\ Cardinality(rest) = Cardinality(s) - 1
    BY <1>3, <2>1
  <2>3. Cardinality(rest) = k
    BY <2>2
  <2>4. iter[s] = Step(iter, s)
    BY <1>8
  <2>5. Step(iter, s) = value[x] + iter[rest]
    BY <2>1
  <2> HIDE DEF x, rest, Step
  <2>6. iter[rest] \in V /\ value[x] \in V
    BY <1>10, <2>2, <2>3
  <2> QED BY <2>4, <2>5, <2>6
<1> HIDE DEF Sums
<1>11. Nat \subseteq Sums
  BY <1>9, <1>10, Induction
<1>12. iter[S] \in V
  BY <1>1, <1>11 DEF Sums
<1>13. SumOver(value, S) = iter[S]
  BY DEF iter, SumOver, FoldFunctionOnSet, MapThenFoldSet
<1> QED BY <1>12, <1>13

\* The threads are finitely many.
LEMMA ThreadsFinite == IsFiniteSet(Threads)
<1> DEFINE last == maxThreads - 1
<1>1. 0 \in Int /\ last \in Int
  BY LatencyAssumption
<1> HIDE DEF last
<1>2. IsFiniteSet(0..last)
  BY <1>1, FS_Interval
<1> QED BY <1>2 DEF Threads, last

\* A sum over the threads.
LEMMA OverThreadsInside ==
  ASSUME NEW V, 0 \in V, \A a, b \in V : a + b \in V,
         NEW value, \A t \in Threads : value[t] \in V
  PROVE  OverThreads(value) \in V
<1>1. SumOver(value, Threads) \in V
  BY ThreadsFinite, SumInside
<1> QED BY <1>1 DEF OverThreads, SumOver

\* The counts and the means of the report are numbers, for any number of
\* threads (LatencyStats.cpp:150-169).
THEOREM TypeCorrect == Spec => []TypeOK
<1> DEFINE Mean == {NoMean} \cup [v1 : Nat, n : Nat \ {0}, running : Int]
<1>1. Init => TypeOK
  <2> SUFFICES ASSUME Init PROVE TypeOK
    OBVIOUS
  <2>1. /\ means \in [Threads -> [OpTypes -> Mean]]
        /\ maxLatency \in [Threads -> [OpTypes -> Nat]]
        /\ bucketCounts \in [Threads -> [OpTypes -> [Buckets -> Nat]]]
    BY DEF Init, PerThread, NoCounts
  <2>2. sampleCounts \in [OpTypes -> Nat] /\ finalMeans \in [OpTypes -> Int]
    <3>1. sampleCounts = PerType(0) /\ finalMeans = PerType(0)
      BY DEF Init
    <3>2. 0 \in Nat /\ 0 \in Int
      OBVIOUS
    <3> QED BY <3>1, <3>2, Zenon DEF PerType
  <2>4. displayed \in BOOLEAN /\ seen \in [OpTypes -> SUBSET Nat]
    BY DEF Init, PerType
  <2>3. spent \in [Threads -> [OpTypes -> Nat]] /\ ops \in [Threads -> [OpTypes -> Nat]]
    BY DEF Init, PerThread
  <2> QED BY <2>1, <2>2, <2>3, <2>4 DEF TypeOK
<1>2. TypeOK /\ [Next]_vars => TypeOK'
  <2> SUFFICES ASSUME TypeOK, [Next]_vars PROVE TypeOK'
    OBVIOUS
  <2>1. ASSUME NEW t \in Threads, NEW type \in RecordedTypes,
               NEW us \in Latencies, recordLatency(t, type, us)
        PROVE  TypeOK'
    <3>0. type \in OpTypes /\ us \in Nat
      BY LatencyAssumption
    <3> DEFINE new == IF means[t][type] = NoMean THEN NewMean(us)
                      ELSE addSample(means[t][type], us)
    <3>1. new \in Mean
      <4>1. CASE means[t][type] = NoMean
        BY <3>0, <4>1 DEF NewMean
      <4>2. CASE means[t][type] # NoMean
        <5>1. means[t][type] \in [v1 : Nat, n : Nat \ {0}, running : Int]
          BY <3>0, <4>2 DEF TypeOK
        <5>2. addSample(means[t][type], us)
                \in [v1 : Nat, n : Nat \ {0}, running : Int]
          BY <3>0, <5>1 DEF addSample
        <5> QED BY <4>2, <5>2
      <4> QED BY <4>1, <4>2
    <3>2. means' = [means EXCEPT ![t] = [means[t] EXCEPT ![type] = new]]
      BY <2>1 DEF recordLatency
    <3> HIDE DEF new, Mean
    <3>3. means' \in [Threads -> [OpTypes -> Mean]]
      BY <3>1, <3>2 DEF TypeOK, Mean
    <3>4. maxLatency' \in [Threads -> [OpTypes -> Nat]]
      BY <2>1, <3>0 DEF recordLatency, TypeOK
    <3>5. spent' \in [Threads -> [OpTypes -> Nat]] /\ ops' \in [Threads -> [OpTypes -> Nat]]
      BY <2>1, <3>0 DEF recordLatency, TypeOK
    <3>6. seen' \in [OpTypes -> SUBSET Nat]
      BY <2>1, <3>0 DEF recordLatency, TypeOK
    <3> QED BY <2>1, <3>3, <3>4, <3>5, <3>6
            DEF recordLatency, reportVars, TypeOK, Mean
  <2>2. CASE displayLatencyStats
    <3>1. ASSUME NEW type \in OpTypes
          PROVE  /\ OverThreads([t \in Threads |-> means[t][type].n]) \in Nat
                 /\ OverThreads([t \in Threads |-> WeightedMean(means[t][type])]) \in Int
      <4>1. ASSUME NEW t \in Threads
            PROVE  means[t][type].n \in Nat /\ WeightedMean(means[t][type]) \in Int
        <5>1. means[t][type] \in [v1 : Nat, n : Nat, running : Int]
          BY DEF TypeOK, NoMean
        <5> QED BY <5>1 DEF WeightedMean
      <4> DEFINE counts == [t \in Threads |-> means[t][type].n]
                 weights == [t \in Threads |-> WeightedMean(means[t][type])]
      <4>2. (\A t \in Threads : counts[t] \in Nat) /\ \A t \in Threads : weights[t] \in Int
        BY <4>1
      <4> HIDE DEF counts, weights
      <4>3. OverThreads(counts) \in Nat
        <5>1. 0 \in Nat /\ \A a, b \in Nat : a + b \in Nat
          OBVIOUS
        <5> QED BY <4>2, <5>1, OverThreadsInside
      <4>4. OverThreads(weights) \in Int
        <5>1. 0 \in Int /\ \A a, b \in Int : a + b \in Int
          OBVIOUS
        <5> QED BY <4>2, <5>1, OverThreadsInside
      <4> QED BY <4>3, <4>4 DEF counts, weights
    <3>2. sampleCounts' \in [OpTypes -> Nat] /\ finalMeans' \in [OpTypes -> Int]
      BY <2>2, <3>1 DEF displayLatencyStats, calcMeans
    <3>3. UNCHANGED <<means, maxLatency, bucketCounts, spent, ops, seen>>
      BY <2>2 DEF displayLatencyStats, recordVars, history
    <3>4. displayed' \in BOOLEAN
      BY <2>2 DEF displayLatencyStats
    <3> QED BY <3>2, <3>3, <3>4 DEF TypeOK
  <2>3. CASE UNCHANGED vars
    BY <2>3 DEF vars, recordVars, reportVars, history, TypeOK
  <2> QED BY <2>1, <2>2, <2>3 DEF Next
<1> QED BY <1>1, <1>2, PTL DEF Spec
-----------------------------------------------------------------------------
(* What is lost.                                                           *)

\* No bucket is found for a percentile once its rank is one or more, whatever
\* was recorded by whom: recordLatency counts in a copy of the buckets
\* (LatencyStats.cpp:90-93, 192-206).
PercentilesAreLost ==
  \A type \in OpTypes, p \in Percentiles :
    p * sampleCounts[type] >= 100 => bucketNum(type, p) = -1

\* The finding of BucketFound, for any number of threads and operations.
THEOREM NoBucketIsFound == Spec => []PercentilesAreLost
<1> DEFINE Empty == bucketCounts = PerThread(NoCounts)
<1>1. Init => Empty
  BY DEF Init
<1>2. Empty /\ [Next]_vars => Empty'
  <2> SUFFICES ASSUME Empty, [Next]_vars PROVE Empty'
    OBVIOUS
  <2>1. bucketCounts' = bucketCounts
    BY DEF Next, recordLatency, displayLatencyStats, recordVars, vars
  <2> QED BY <2>1 DEF PerThread, Threads, OpTypes, NoCounts, Buckets
<1>3. Empty => \A type \in OpTypes, b \in Buckets : bucketCountsCumulative(type, b) = 0
  <2> SUFFICES ASSUME Empty, NEW type \in OpTypes, NEW b \in Buckets
               PROVE  bucketCountsCumulative(type, b) = 0
    OBVIOUS
  <2>0. 0 \in {0} /\ \A x, y \in {0} : x + y \in {0}
    OBVIOUS
  <2>1. ASSUME NEW t \in Threads
        PROVE  SumOver(bucketCounts[t][type], 0..b) \in {0}
    <3>1. b \in Int /\ 0..b \subseteq Buckets
      BY DEF Buckets, NUM_BUCKETS, SUB_MS_BUCKETS, MS_BUCKETS,
             HUNDREDMS_BUCKETS, SEC_BUCKETS
    <3>2. IsFiniteSet(0..b)
      BY <3>1, FS_Interval
    <3>3. \A x \in 0..b : bucketCounts[t][type][x] \in {0}
      BY <3>1 DEF PerThread, NoCounts
    <3> DEFINE counts == bucketCounts[t][type]
    <3> HIDE DEF counts
    <3>4. \A x \in 0..b : counts[x] \in {0}
      BY <3>3 DEF counts
    <3>5. SumOver(counts, 0..b) \in {0}
      BY <2>0, <3>2, <3>4, SumInside
    <3> QED BY <3>5 DEF counts
  <2> DEFINE sums == [t \in Threads |-> SumOver(bucketCounts[t][type], 0..b)]
  <2>2. \A t \in Threads : sums[t] \in {0}
    BY <2>1
  <2>3. bucketCountsCumulative(type, b) = OverThreads(sums)
    BY DEF bucketCountsCumulative, SumOver
  <2> HIDE DEF sums
  <2>4. OverThreads(sums) \in {0}
    BY <2>0, <2>2, OverThreadsInside
  <2> QED BY <2>3, <2>4
<1>4. Empty /\ TypeOK => PercentilesAreLost
  <2> SUFFICES ASSUME Empty, TypeOK, NEW type \in OpTypes, NEW p \in Percentiles,
                      p * sampleCounts[type] >= 100
               PROVE  bucketNum(type, p) = -1
    BY DEF PercentilesAreLost
  <2> DEFINE rank == (p * sampleCounts[type]) \div 100
  <2>1. rank \in Nat /\ rank >= 1
    <3> DEFINE x == p * sampleCounts[type]
    <3>1. p \in Nat /\ sampleCounts[type] \in Nat
      BY DEF Percentiles, TypeOK
    <3>2. x \in Nat /\ x >= 100
      BY <3>1
    <3> HIDE DEF x
    <3>3. x \div 100 \in Nat /\ x \div 100 >= 1
      BY <3>2
    <3> QED BY <3>3 DEF x
  <2>2. {i \in Buckets : rank <= bucketCountsCumulative(type, i)} = {}
    <3> HIDE DEF rank
    <3>1. ~(rank <= 0)
      BY <2>1
    <3> QED BY <1>3, <3>1
  <2> QED BY <2>2 DEF bucketNum
<1> HIDE DEF Empty
<1> QED BY <1>1, <1>2, <1>4, TypeCorrect, PTL DEF Spec
=============================================================================
