SPECIFICATION RegSpec
CONSTANTS
  Byte = 4
  FracUnit = 4
  Capacity = 1
  SumMod = 4
  Funcs = 10
  ArgvSize = 8
  Absent = Absent
  Gains <- MCGains
  DefaultGains <- MCDefaultGains
  FreeSpeeds <- MCFreeSpeeds
  BaseSpeeds = {10}
  SpeedMax = 15
  Others <- MCOthers
  PulsesMax = 1
  Period = 3
  PerMinute = 5
  PerSecond = 2
  PulsesPerRev = 2
  OutMax = 5
  SamplesMax = 2
INVARIANTS
  RegulatorTold
  ControlIsPID
  StoredIsRestored
PROPERTIES
  GainsComeWhole
CONSTRAINTS
  MCApart
  MCCuts
