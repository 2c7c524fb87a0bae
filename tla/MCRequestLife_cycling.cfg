SPECIFICATION FairLifeSpec
CONSTANTS
  Width = 5
  Second = 2
  BaseBackoff = 2
  MaxBackoff = 3
  MaxAttempts = 6
  MaxLifetime = 11
  VisibilityTimeout = 3
  FetchTimeout = 2
  ClientTimeout = 2
  JitterQuarters = {3, 5}
  WindowWaits = {1}
  HTTPStatuses = {200, 429, 500}
  Headers <- MCHeaders
  Rates <- MCRates
  Skew = 1
  MaxNumeric = 1
PROPERTY
  Terminates
