\* The inserting thread of a run.
SPECIFICATION Spec
CONSTANTS
  maxsamples = 3
  Roles <- RunModeInsert
  Latencies <- ThreeTimes
  MaxOps = 5
CHECK_DEADLOCK FALSE
INVARIANT LinesKeepComing
