SPECIFICATION FairSpec
CONSTANTS
  Started <- MCStarted
  Cancelled <- MCCancelled
  NoType = NoType
INVARIANTS
  PlaysOnce
PROPERTIES
  ShownToTheEnd
  EveryRequestShown
  ImplementsBlinkerTask
