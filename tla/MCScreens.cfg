SPECIFICATION FairSpec
CONSTANTS
  a = a b = b
  Slots = {a, b}
  MaxVersion = 2
  MaxOpenings = 3
INVARIANTS
  TypeOK
  DateGoesWithData
  AlertsNeverSilent
PROPERTIES
  OlderOnlyByOverlap
  LoadingEnds
  EventuallyUpToDate
CHECK_DEADLOCK FALSE
