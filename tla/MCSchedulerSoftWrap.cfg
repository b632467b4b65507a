SPECIFICATION Spec
CONSTANTS
  a = a
  b = b
  Ids <- MCIds
  scheduledTasksMax = 2
  NoTask = NoTask
  TimeMod = 4
  MaxClock = 5
  MaxDelay = 2
INVARIANT NeverEarly
