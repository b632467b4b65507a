SPECIFICATION Spec
CONSTANTS
  BaselineLow = 3
  BaselineHigh = 4
  ManualSpeeds <- MCManualSpeeds
  FreeSpeeds <- MCFreeSpeeds
  ActualSpeeds <- MCActualSpeeds
INVARIANTS
  Safe
PROPERTIES
  MotorOnOnlyFromRest
  EveryChangeAnnounced
  ImplementsTurntable
