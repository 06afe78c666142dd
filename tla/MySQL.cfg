\* Two loader threads, both modes, two processes one after the other on the
\* same database.  A process that ended, or hangs in JoinThreads, has no step.
SPECIFICATION FairSpec
CONSTANTS
  LoaderThreads = 2
  LoadMins = 3
  DBTables = 2
  MaxDevices = 1
  StartTimestamp = 5
  RunQueueFactor = 1
  Modes <- BothModes
  MaxProcs = 2
CHECK_DEADLOCK FALSE
INVARIANTS TypeOK EveryMessageHasOneHome JoinedMeansDone PreparedMeansLoaded
  FreshKey NotAllStranded CrashHoles BackPressure MinuteBarrier
PROPERTIES ProducerFinishes EndsUnlessStranded ImplementsLoadJob
