SPECIFICATION Spec
CONSTANTS
  UpdateIDs = {u1}
  Pairs = {p1}
  Keys = {}
  NoKey = NoKey
  Providers = {"fake"}
  Times <- MCTimes
  BatchSize = 1
  VisibilityTimeout = 3
  MaxInt = 3
  Replicas = {r1, r2}
  Offset <- MCOffset
  MaxSkew = 1
  PoolSize = 1
  PassTimeout = 1
  MaxAttempts = 2
  MaxLifetime = 2
  BaseBackoff = 1
  MaxBackoff = 2
  JitterQuarters = {3}
  RetryAfters = {1}
  QuotedAgo = {0}
  TTLs = {1}
  MaxQuotedAtSkew = 1
  CommitLag = 1
  MaxClock = 6
  Prompt = FALSE
INVARIANTS
  LeaseHeld
  LeaseExclusive
  AttemptsBounded
PROPERTIES
  RetriedInLifetime
CHECK_DEADLOCK FALSE
