CONSTANTS
  Requests = {r1, r2, r3}
  Limit = 1
  Window = 3
  PerSecond = 2
  MaxResends = 1

SPECIFICATION FairSpec
INVARIANTS
  QuotaInv
  RefusalsAreEarned
  RetryAfterIsHonest
PROPERTIES
  UndisturbedWindowEnds

\* Every request may have been answered: the system has nothing left to do
CHECK_DEADLOCK FALSE
