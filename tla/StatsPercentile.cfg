\* Intervals with a quick and a slow insert.
SPECIFICATION Spec
CONSTANTS
  Reports <- ThreeReports
  MaxReports = 3
CHECK_DEADLOCK FALSE
INVARIANT NinetyNineAreCovered
