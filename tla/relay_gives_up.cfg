CONSTANTS
  x1 = x1
  x2 = x2
  x3 = x3
  p1 = p1
  p2 = p2
  EventCount = 1
  Executions = {x1}
  Processes = {p1}
  ProcessOf <- OneServer
  MaxAttempts = 5
  BatchSize = 50
  MaxMishaps = 1

SPECIFICATION Spec
INVARIANTS
  GivesUpAfterFailedPublishes

\* Once every event is settled the relay has nothing left to do
CHECK_DEADLOCK FALSE
