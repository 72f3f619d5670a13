SPECIFICATION FairSpec
CONSTANTS
  None = None d1 = d1 d2 = d2 a = a b = b c = c
  Plausible <- Ranges
  Bounds <- Thresholds
  Hysteresis <- Margins
  Messages <- MixedMessages
  Devices = {d1}
  Types = {"temperature", "co2"}
  Settle = 1
  InsertDelay = 1
  BatchSize = 1
  Ids = {1, 2}
  LastArrival = 1
  MaxTime = 3
  MaxFaults = 2
PROPERTIES
  EventuallySettled
