\* Two loader threads, more devices than a prepare lets wait, both modes, two
\* processes on the same database.  Every process ends, and has no step then.
SPECIFICATION FairSpec
CONSTANTS
  LoaderThreads = 2
  LoadMins = 1
  DBTables = 2
  MaxDevices = 4
  StartTimestamp = 5
  RunQueueFactor = 1
  Modes <- BothModes
  MaxProcs = 2
CHECK_DEADLOCK FALSE
INVARIANTS EveryMessageHasOneHome FreshKey BackPressure ExitLoss
PROPERTIES ProcessEnds ImplementsLoadJob
