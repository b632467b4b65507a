SPECIFICATION Spec
CONSTANTS
  BaselineLow = 3
  BaselineHigh = 4
  ManualSpeeds <- MCManualSpeeds
  FreeSpeeds <- MCFreeSpeeds
  ActualSpeeds <- MCActualSpeeds
INVARIANT
  LoweredInServiceMode2
