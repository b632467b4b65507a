SPECIFICATION FairSpec
CONSTANTS
  a = a
  b = b
  Ids <- MCIds
  scheduledTasksMax = 3
  NoTask = NoTask
  TimeMod = 8
  MaxClock = 3
  MaxDelay = 2
INVARIANTS
  PoolAccounted
PROPERTIES
  HandleTerminates
  ImplementsTaskQueue
