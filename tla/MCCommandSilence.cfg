SPECIFICATION Spec
CONSTANTS
  r1 = r1 r2 = r2 r3 = r3 r4 = r4 r5 = r5 k1 = k1 k2 = k2 d1 = d1 d2 = d2 on = on off = off dim = dim
  Requests = {r1}
  Keys = {k1, k2}
  Devices = {d1}
  Params = {on}
  KeyOf <- SoloKeys
  DeviceOf <- SoloDevices
  ParamsOf <- SoloParams
  Catalog = {on}
  Registered = {d1}
  Modes = {"normal"}
  StrayAcks = {}
  AckTimeout = 1
  Grace = 1
  MemoryMargin = 2
  BatchSize = 1
  MaxTime = 4
  LastSubmit = 0
  MaxFaults = 1
  MaxConcurrentAcks = 1
INVARIANTS
  TimeoutMeansNoAck
CHECK_DEADLOCK FALSE
