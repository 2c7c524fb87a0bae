SPECIFICATION StoreSpec
CONSTANTS
  UpdateIDs = {u1, u2}
  Pairs = {p1, p2}
  Keys = {k1}
  NoKey = NoKey
  Providers = {"fake"}
  Times <- MCTimes
  BatchSize = 1
  VisibilityTimeout = 1
  MaxInt = 2
SYMMETRY MCSymmetry
INVARIANTS
  TypeOK
  ResultLinked
  ErrorExplains
  JournalUnique
PROPERTIES
  TransitionsLegal
  KeepsPromise
CHECK_DEADLOCK FALSE
