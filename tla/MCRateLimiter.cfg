SPECIFICATION Spec
CONSTANTS
  Callers = {c1, c2}
  Minute = 2
  Hour = 6
  PerMinute = 2
  PerHour = 3
  RetryAfters = {2}
  ReadLag = 1
  MaxClock = 9
SYMMETRY MCSymmetry
INVARIANTS
  TypeOK
  MinuteBudget
  HourBudget
  DenialWaits
PROPERTIES
  CoolDownHolds
CHECK_DEADLOCK FALSE
