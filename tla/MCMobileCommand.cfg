SPECIFICATION FairSpec
CONSTANTS
  MaxRetries = 1
  MaxPolls = 1
  MaxWatches = 1
  MaxPresses = 2
  Asks <- OnThenOff
INVARIANTS
  TypeOK
  OneCommandPerPress
  ShownIsOfTheLastPress
  ClaimIsTrue
  ConfirmedStateIsReal
PROPERTIES
  ShownMovesForward
  PressEnds
  TrackingEnds
CHECK_DEADLOCK FALSE
