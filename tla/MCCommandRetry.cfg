SPECIFICATION Spec
CONSTANTS
  r1 = r1 r2 = r2 r3 = r3 r4 = r4 r5 = r5 k1 = k1 k2 = k2 d1 = d1 d2 = d2 on = on off = off dim = dim
  Requests = {r1, r2, r3, r4, r5}
  Keys = {k1, k2}
  Devices = {d1, d2}
  Params = {on, off, dim}
  KeyOf <- RetryKeys
  DeviceOf <- RetryDevices
  ParamsOf <- RetryParams
  Catalog = {on, dim}
  Registered = {d1}
  Modes = {"normal"}
  StrayAcks <- RetryStrays
  AckTimeout = 1
  Grace = 0
  MemoryMargin = 0
  BatchSize = 1
  MaxTime = 2
  LastSubmit = 0
  MaxFaults = 1
  MaxConcurrentAcks = 1
SYMMETRY RetrySymmetry
INVARIANTS
  ExecutedIsTrue
  WordOfTheDevice
  OneCommandPerIntention
  ReplyIsTrue
CHECK_DEADLOCK FALSE
