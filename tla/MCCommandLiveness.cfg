SPECIFICATION FairSpec
CONSTANTS
  r1 = r1 r2 = r2 r3 = r3 r4 = r4 r5 = r5 k1 = k1 k2 = k2 d1 = d1 d2 = d2 on = on off = off dim = dim
  Requests = {r1, r3}
  Keys = {k1, k2}
  Devices = {d1}
  Params = {on}
  KeyOf <- PairKeys
  DeviceOf <- PairDevices
  ParamsOf <- PairParams
  Catalog = {on}
  Registered = {d1}
  Modes = {"silent"}
  StrayAcks = {}
  AckTimeout = 1
  Grace = 0
  MemoryMargin = 0
  BatchSize = 1
  MaxTime = 3
  LastSubmit = 1
  MaxFaults = 2
  MaxConcurrentAcks = 1
PROPERTIES
  EventuallyConcluded
  EventuallyAnswered
CHECK_DEADLOCK FALSE
