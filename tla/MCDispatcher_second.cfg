SPECIFICATION Spec
CONSTANTS
  UpdateIDs = {u1, u2}
  Pairs = {p1}
  Keys = {}
  NoKey = NoKey
  Providers = {"fake"}
  Times <- MCTimes
  BatchSize = 2
  VisibilityTimeout = 3
  MaxInt = 3
  Replicas = {r1}
  Offset <- MCOffset
  MaxSkew = 0
  PoolSize = 2
  PassTimeout = 2
  MaxAttempts = 2
  MaxLifetime = 20
  BaseBackoff = 1
  MaxBackoff = 2
  JitterQuarters = {3}
  RetryAfters = {1}
  QuotedAgo = {0}
  TTLs = {2}
  MaxQuotedAtSkew = 1
  CommitLag = 1
  MaxClock = 6
  Prompt = TRUE
INVARIANTS
  NoSecondFetch
CHECK_DEADLOCK FALSE
