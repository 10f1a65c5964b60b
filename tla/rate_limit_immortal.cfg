CONSTANTS
  Requests = {r1, r2}
  Limit = 1
  Window = 2
  PerSecond = 2
  MaxResends = 1

SPECIFICATION FairSpec
PROPERTIES
  WindowEnds

\* Every request may have been answered: the system has nothing left to do
CHECK_DEADLOCK FALSE
