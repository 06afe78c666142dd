\* Two loader threads that race for the last message.
SPECIFICATION FairSpec
CONSTANTS
  LoaderThreads = 2
  LoadMins = 1
  DBTables = 1
  MaxDevices = 2
  StartTimestamp = 5
  RunQueueFactor = 1
  Modes <- PrepareMode
  MaxProcs = 1
CHECK_DEADLOCK FALSE
PROPERTY DriverThreadsExit
