SPECIFICATION FairSpec
CONSTANTS
  Modes <- MCModes
  Unknown = Unknown
  Manual <- MCManual
  RUIDS = 12
  MaxConnects = 2
  MaxManual = 1
  MaxChanges = 1
  MaxFaults = 1
INVARIANTS
  RequestsAwaited
  ModeAgrees
PROPERTIES
  IdentificationsFresh
  AnsweredRightly
  SessionReady
CHECK_DEADLOCK FALSE
