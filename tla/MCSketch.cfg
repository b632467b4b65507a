SPECIFICATION MCSpec
CONSTANTS
  MillisMod = 8
  DebounceTime = 1
  MaxStep = 2
  FactorMax = 3
  ValueMax = 2
  WeightMod = 5
  IntMod = 16
  Factor = 3
  Order <- MCOrder
  BounceTime <- MCBounceTime
  Digit = 3
  MaxIteration = 1
  PulseMod = 2
  Capacity = 3
  RecalcNum = 2
  Items = {0, 1, 3}
  SumMod = 4
  SizeMod = 16
  RoundMax = 1
INVARIANTS
  InputInv
  MeanFollows
  CountersKept
  SumsOfTheWindow
  ReadInOrder
PROPERTIES
  ToldOnlyIfStable
  HeldIsTold
  EdgesJudged
  EdgesHandled
