\* A few operations, then the report.
SPECIFICATION Spec
CONSTANTS
  maxThreads = 1
  RecordedTypes <- CallersTypes
  Latencies <- TwoLatencies
  MaxRecords = 3
CHECK_DEADLOCK FALSE
INVARIANT BucketFound
