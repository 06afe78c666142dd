\* A second process after the first, on one table.
SPECIFICATION Spec
CONSTANTS
  LoaderThreads = 1
  LoadMins = 1
  DBTables = 1
  MaxDevices = 1
  StartTimestamp = 5
  RunQueueFactor = 1
  Modes <- BothModes
  MaxProcs = 2
CHECK_DEADLOCK FALSE
INVARIANT FreshKey
