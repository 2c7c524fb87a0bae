SPECIFICATION MemorySpec
CONSTANTS
  UpdateIDs = {1, 2}
  Pairs = {p1}
  Keys = {k1}
  NoKey = NoKey
  Providers = {"fake"}
  Times <- MCTimes
  BatchSize = 1
  VisibilityTimeout = 1
  MaxInt = 2
INVARIANTS
  MemoryTypeOK
  IndexAgrees
  ClaimMirrors
PROPERTIES
  ImplementsStore
CHECK_DEADLOCK FALSE
