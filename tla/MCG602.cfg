SPECIFICATION FairSpec
CONSTANTS
  BaselineLow = 3
  BaselineHigh = 4
  ManualSpeeds <- MCManualSpeeds
  FreeSpeeds <- MCFreeSpeeds
  ActualSpeeds <- MCActualSpeeds
  SentSpeeds <- MCSentSpeeds
  SpeedMax = 5
  CtrlPeriod = 2
  ServiceAwait = 3
  IdlePoll = 1
  PartTimes <- MCPartTimes
  MaxTick = 3
INVARIANTS
  TasksKept
PROPERTIES
  ImplementsCtrl
  AwaitingEnds
  MotorFollows
