SPECIFICATION MCSpec
CONSTANTS
  SpinUnit = 8
  Short <- MCShort
  Rpm = 24
  MaxSetpoint = 48
  Speed33 = 33
  Speed45 = 40
  SpeedAuto = 48
  Length = 3
  DeviceSamples <- MCSamples
  SimResults <- MCResults
  MaxTicks = 2
  MaxApart = 0
  Gains = {"Kp", "Ki"}
  Typed <- MCTyped
  StoredGains <- MCStoredGains
  Decimals = 10
  FracUnit = 4
  MaxGain = 1
  MaxUnderWay = 2
CONSTRAINT MCApart
INVARIANTS
  PlotsInStep
  AmplitudeShown
  SetpointTold
  GainsInStep
