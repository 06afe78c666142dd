\* A sample of three times and up to five queries of each kind of thread.  A
\* thread that exited or aborted has no step.
SPECIFICATION Spec
CONSTANTS
  maxsamples = 3
  Roles <- AllRoles
  Latencies <- ThreeTimes
  MaxOps = 5
CHECK_DEADLOCK FALSE
INVARIANTS TypeOK SampleIsDrawn LineIsOrdered NoErrorIsPrinted
