\* Two threads and all ends of buckets.  After the report there is no step.
SPECIFICATION Spec
CONSTANTS
  maxThreads = 2
  RecordedTypes <- CallersTypes
  Latencies <- Boundaries
  MaxRecords = 3
CHECK_DEADLOCK FALSE
INVARIANTS TypeOK MeanIsExact MaxIsExact LatencyInItsBucket
