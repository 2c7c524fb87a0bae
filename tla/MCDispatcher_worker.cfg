SPECIFICATION Spec
CONSTANTS
  UpdateIDs = {u1, u2}
  Pairs = {p1}
  Keys = {}
  NoKey = NoKey
  Providers = {"fake"}
  Times <- MCTimes
  BatchSize = 2
  VisibilityTimeout = 1
  MaxInt = 3
  Replicas = {r1}
  Offset <- MCOffset
  MaxSkew = 0
  PoolSize = 2
  PassTimeout = 1
  MaxAttempts = 1
  MaxLifetime = 20
  BaseBackoff = 1
  MaxBackoff = 2
  JitterQuarters = {3}
  RetryAfters = {1}
  QuotedAgo <- MCQuotedAgo
  TTLs = {1}
  MaxQuotedAtSkew = 1
  CommitLag = 1
  MaxClock = 4
  Prompt = FALSE
INVARIANTS
  WorkerTypeOK
  ReuseIsFresh
PROPERTIES
  ReuseIsRecent
CHECK_DEADLOCK FALSE
