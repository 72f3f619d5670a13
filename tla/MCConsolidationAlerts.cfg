SPECIFICATION Spec
CONSTANTS
  None = None d1 = d1 d2 = d2 a = a b = b c = c
  Plausible <- Ranges
  Bounds <- Thresholds
  Hysteresis <- Margins
  Messages <- ThermometerMessages
  Devices = {d1}
  Types = {"temperature"}
  Settle = 0
  InsertDelay = 0
  BatchSize = 2
  Ids = {1, 2, 3}
  LastArrival = 0
  MaxTime = 1
  MaxFaults = 1
INVARIANTS
  OneOpenAlert
  AlertsAreTrue
  AlertMatchesLatest
PROPERTIES
  StoredInOrder
  FollowsAlertContract
