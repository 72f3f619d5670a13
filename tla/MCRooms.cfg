SPECIFICATION Spec
CONSTANTS
  Unset = Unset
  d1 = d1 d2 = d2 foreign = foreign r1 = r1 r2 = r2 u1 = u1 a = a b = b
  MaxBuckets = 2
  DefaultSpan = 2
  MaxSpan = 4
  Sizes = {1, 2, 4}
  RoomIds = {r1, r2}
  Metrics <- OneEach
  Queries <- SomeQueries
  Users = {u1}
  StaleThreshold = 0
  MaxTime = 2
  MaxStored = 3
  Codes = {d1, foreign}
  MaxScans = 2
  Calls = {a, b}
SYMMETRY RoomSymmetry
INVARIANTS
  HistoryIsFaithful
  SilentIsSignalled
  AssociatedIsTrue
CHECK_DEADLOCK FALSE
