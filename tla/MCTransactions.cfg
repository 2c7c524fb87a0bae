SPECIFICATION TxSpec
CONSTANTS
  Sessions = {s1, s2}
  QuoteIDs = {q1, q2}
  NoEntry = NoEntry
  Codes = {"provider"}
  UpdateIDs = {u1, u2}
  Pairs = {p1}
  Keys = {k1}
  NoKey = NoKey
  Providers = {"fake"}
  Times <- MCTimes
  CreationTimes = {1}
  BatchSize = 1
  VisibilityTimeout = 1
  MaxInt = 1
SYMMETRY MCSymmetry
INVARIANTS
  TxTypeOK
PROPERTIES
  ImplementsTables
  ShortClaimDrains
CHECK_DEADLOCK FALSE
