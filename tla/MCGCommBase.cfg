SPECIFICATION CommSpec
CONSTANTS
  Payloads <- MCPayloads
  Noise <- MCNoise
  MaxDamage = 3
  GCOMMBASE_BUF_SIZE = 4
INVARIANTS
  FramesSurvive
  WritesInBounds
PROPERTY
  ImplementsFrameChannel
CHECK_DEADLOCK FALSE
