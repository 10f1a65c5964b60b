CONSTANTS
  x1 = x1
  x2 = x2
  x3 = x3
  p1 = p1
  p2 = p2
  EventCount = 2
  Executions = {x1, x2, x3}
  Processes = {p1, p2}
  ProcessOf <- WithReplica
  MaxAttempts = 2
  BatchSize = 2
  MaxMishaps = 1

SPECIFICATION FairSpec
INVARIANTS
  TypeOK
  PublishedWasSent
  DuplicatesArePaidFor
  ParkedAtMaxAttempts
PROPERTIES
  EventsSettle

\* Once every event is settled the relay has nothing left to do
CHECK_DEADLOCK FALSE
