---------------------------- MODULE LatencyStats ----------------------------
(***************************************************************************)
(* The latency report of metricbench: LatencyStats.cpp.  A loader thread   *)
(* records into the rows of its own number, without a lock; after it has   *)
(* joined all threads, main merges the rows and prints (metricbench.cpp:   *)
(* 271-276; MySQLDriver!JoinedMeansDone is why recording is over by then). *)
(*                                                                         *)
(* Times are in microseconds, where the code divides by 1000.0 to print.   *)
(***************************************************************************)
EXTENDS RunningMean, Functions

CONSTANTS
  maxThreads,     \* Config::LoaderThreads
  RecordedTypes,  \* the MessageTypes some thread records
  Latencies,      \* model bound: the latencies that occur
  MaxRecords      \* model bound: records of all threads

SUB_MS_BUCKETS == 10
MS_BUCKETS == 99
HUNDREDMS_BUCKETS == 9
SEC_BUCKETS == 9
NUM_BUCKETS ==
  SUB_MS_BUCKETS + MS_BUCKETS + HUNDREDMS_BUCKETS + SEC_BUCKETS + 1

Threads == 0..(maxThreads - 1)
OpTypes == 0..3                  \* MAX_OPTYPES = sizeof(MessageType) = 4
Buckets == 0..(NUM_BUCKETS - 1)
Percentiles == {25, 50, 75, 95, 99}

ASSUME LatencyAssumption ==
  /\ maxThreads \in Nat \ {0}
  /\ RecordedTypes \subseteq OpTypes
  /\ Latencies \subseteq Nat
  /\ MaxRecords \in Nat

VARIABLES
  means,                    \* [thread][type], NoMean for nullptr
  maxLatency,               \* [thread][type]
  bucketCounts,             \* [thread][type][bucket]
  sampleCounts,             \* [type]
  finalMeans,               \* [type], each times sampleCounts[type]
  displayed,                \* main has called displayLatencyStats
  spent, ops,   \* history: sum and number of the latencies [thread][type]
  seen          \* history: the latencies of each type

recordVars == <<means, maxLatency, bucketCounts>>
reportVars == <<sampleCounts, finalMeans, displayed>>
history == <<spent, ops, seen>>
vars == <<recordVars, reportVars, history>>

NoMean == [v1 |-> 0, n |-> 0, running |-> 0]
PerThread(x) == [t \in Threads |-> [type \in OpTypes |-> x]]
PerType(x) == [type \in OpTypes |-> x]
NoCounts == [bucket \in Buckets |-> 0]

Init ==
  /\ means = PerThread(NoMean)
  /\ maxLatency = PerThread(0)
  /\ bucketCounts = PerThread(NoCounts)
  /\ sampleCounts = PerType(0)
  /\ finalMeans = PerType(0)
  /\ displayed = FALSE
  /\ spent = PerThread(0)
  /\ ops = PerThread(0)
  /\ seen = PerType({})
-----------------------------------------------------------------------------
\* Mutated form of latencyToBucket: 1 ms goes to the second bucket of its kind.
latencyToBucket_off(microTime) ==
  LET msTime == microTime \div 1000
  IN  IF msTime = 0 THEN microTime \div 100
      ELSE IF msTime < 100 THEN SUB_MS_BUCKETS + msTime
      ELSE NUM_BUCKETS - 1

latencyToBucket(microTime) ==
  LET msTime == microTime \div 1000
      upToMS == SUB_MS_BUCKETS + MS_BUCKETS
  IN  IF msTime = 0 THEN microTime \div 100
      ELSE IF msTime < 100 THEN SUB_MS_BUCKETS + msTime - 1
      ELSE IF msTime < 1000 THEN upToMS + msTime \div 100 - 1
      ELSE IF msTime < 10000
        THEN upToMS + HUNDREDMS_BUCKETS + msTime \div 1000 - 1
      ELSE NUM_BUCKETS - 1

\* <<inclusive min, exclusive max>> of a bucket, for any int.  (The code
\* subtracts SEC_BUCKETS where it means HUNDREDMS_BUCKETS: both are 9.)
bucketBound(bucket) ==
  LET ms == 1000
      s == ms * 1000
      msBucket == bucket - SUB_MS_BUCKETS + 1
      hundredMS == bucket - SUB_MS_BUCKETS - MS_BUCKETS + 1
      secBucket == bucket - SUB_MS_BUCKETS - MS_BUCKETS - SEC_BUCKETS + 1
  IN  IF bucket < SUB_MS_BUCKETS
        THEN <<bucket * 100, (bucket + 1) * 100>>
      ELSE IF msBucket <= MS_BUCKETS
        THEN <<msBucket * ms, (msBucket + 1) * ms>>
      ELSE IF hundredMS <= HUNDREDMS_BUCKETS
        THEN <<hundredMS * 100 * ms, (hundredMS + 1) * 100 * ms>>
      ELSE IF bucket < NUM_BUCKETS - 1
        THEN <<secBucket * s, (secBucket + 1) * s>>
      ELSE <<(SEC_BUCKETS + 1) * s, 100 * s>>
-----------------------------------------------------------------------------
\* The bucket is counted in opBuckets, a copy of the thread's counts.
recordLatency(t, type, us) ==
  /\ ~displayed
  /\ means' = [means EXCEPT ![t][type] =
                 IF @ = NoMean THEN NewMean(us) ELSE addSample(@, us)]
  /\ maxLatency' = [maxLatency EXCEPT ![t][type] = IF @ < us THEN us ELSE @]
  /\ spent' = [spent EXCEPT ![t][type] = @ + us]
  /\ ops' = [ops EXCEPT ![t][type] = @ + 1]
  /\ seen' = [seen EXCEPT ![type] = @ \cup {us}]
  /\ UNCHANGED <<bucketCounts, reportVars>>

\* Sum of a number of each thread.
OverThreads(value) == FoldFunctionOnSet(+, 0, value, Threads)

calcMeans ==
  /\ sampleCounts' = [type \in OpTypes |->
                        OverThreads([t \in Threads |-> means[t][type].n])]
  /\ finalMeans' = [type \in OpTypes |->
       OverThreads([t \in Threads |-> WeightedMean(means[t][type])])]

displayLatencyStats ==
  /\ ~displayed
  /\ displayed' = TRUE
  /\ calcMeans
  /\ UNCHANGED <<recordVars, history>>

\* calcCumulativeBuckets: the samples of a type in the buckets up to one.
bucketCountsCumulative(type, bucket) ==
  OverThreads([t \in Threads |->
    FoldFunctionOnSet(+, 0, bucketCounts[t][type], 0..bucket)])

\* What it prints of a type with samples: the bucket of each percentile,
\* of which bucketBound gives the bounds, the maximum and the mean.
bucketNum(type, percentile) ==
  LET neededRank == (percentile * sampleCounts[type]) \div 100
      enough == {i \in Buckets : neededRank <= bucketCountsCumulative(type, i)}
  IN  IF enough = {} THEN -1
      ELSE CHOOSE i \in enough : \A j \in enough : i <= j

\* Mutated form of getMax: of the last thread.
getMax_last(type) == maxLatency[maxThreads - 1][type]

getMax(type) ==
  CHOOSE us \in {0} \cup {maxLatency[t][type] : t \in Threads} :
    \A t \in Threads : maxLatency[t][type] <= us
-----------------------------------------------------------------------------
Next ==
  \/ /\ OverThreads([t \in Threads |-> FoldFunction(+, 0, ops[t])])
          < MaxRecords
     /\ \E t \in Threads, type \in RecordedTypes, us \in Latencies :
          recordLatency(t, type, us)
  \/ displayLatencyStats

Spec == Init /\ [][Next]_vars
-----------------------------------------------------------------------------
TypeOK ==
  /\ means \in [Threads -> [OpTypes ->
                 {NoMean} \cup [v1 : Nat, n : Nat \ {0}, running : Int]]]
  /\ maxLatency \in [Threads -> [OpTypes -> Nat]]
  /\ bucketCounts \in [Threads -> [OpTypes -> [Buckets -> Nat]]]
  /\ sampleCounts \in [OpTypes -> Nat]
  /\ finalMeans \in [OpTypes -> Int]
  /\ displayed \in BOOLEAN
  /\ spent \in [Threads -> [OpTypes -> Nat]]
  /\ ops \in [Threads -> [OpTypes -> Nat]]
  /\ seen \in [OpTypes -> SUBSET Nat]

\* The count and the mean that are printed are those of all operations of all
\* threads, however unevenly they are spread: the running means and their
\* weights lose nothing (LatencyStats.cpp:150-169, RunningMean.cpp:9-15).
MeanIsExact ==
  displayed => \A type \in OpTypes :
    /\ sampleCounts[type] = OverThreads([t \in Threads |-> ops[t][type]])
    /\ finalMeans[type] = OverThreads([t \in Threads |-> spent[t][type]])

\* The maximum that is printed was measured, and nothing above it was, by any
\* thread (LatencyStats.cpp:101-103, 241-248).
MaxIsExact ==
  displayed => \A type \in OpTypes : seen[type] # {} =>
    /\ getMax(type) \in seen[type]
    /\ \A us \in seen[type] : us <= getMax(type)

\* latencyToBucket and bucketBound agree on every latency below 100 s
\* (test/LatencyStatsTest.cpp:8-15; LatencyStats.cpp:35-84).
InBucket(us) ==
  /\ latencyToBucket(us) \in Buckets
  /\ bucketBound(latencyToBucket(us))[1] <= us
  /\ us < bucketBound(latencyToBucket(us))[2]
LatencyInItsBucket ==
  \A type \in OpTypes : \A us \in seen[type] : us < 100000000 => InBucket(us)

\* "should be found" (LatencyStats.cpp:204): every percentile of a type with
\* samples has a bucket.
BucketFound ==
  displayed => \A type \in OpTypes : sampleCounts[type] > 0 =>
    \A p \in Percentiles : bucketNum(type, p) >= 0
=============================================================================
