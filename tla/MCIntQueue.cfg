\* Four slots, two interrupt ids, handlers that may fail.
SPECIFICATION FairSpec
CONSTANTS
  QSize = 4
  LastId = 2
  Resnums = {0}
  NoRes = 0
  HandlerErrors = TRUE
INVARIANTS
  TypeOK
  RingHoldsPending
  OverflowIffFull
  HookMatchesQueue
  CleanWhenClosed
PROPERTIES
  OnlyTheOldestLeaves
  WaitingIsServed
