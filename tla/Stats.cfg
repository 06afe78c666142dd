\* Up to three inserted metrics and three selects.  After main has returned
\* there is no step.
SPECIFICATION FairSpec
CONSTANTS
  Reports <- ThreeReports
  MaxReports = 3
CHECK_DEADLOCK FALSE
INVARIANTS TypeOK IntervalsAddUp TimesMatchCounts
PROPERTY EveryReportIsPrinted
