\* Two loader threads, both modes, two processes on the same database.  The
\* process hangs in JoinThreads, or in the load when nothing connected.
SPECIFICATION FairSpec
CONSTANTS
  LoaderThreads = 2
  LoadMins = 2
  DBTables = 1
  MaxDevices = 2
  StartTimestamp = 5
  RunQueueFactor = 1
  Modes <- BothModes
  MaxProcs = 2
CHECK_DEADLOCK FALSE
INVARIANT PoppedIsCountedOnce
PROPERTY ProducerFinishesIfConnected
