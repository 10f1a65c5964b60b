CONSTANTS
  x = x
  p1 = p1
  p2 = p2
  garbled = garbled
  empty = empty
  NoMessage = NoMessage
  EventCount = 1
  Executions = {x}
  Processes = {p1, p2}
  ProcessOf <- OneRelays
  MaxAttempts = 2
  BatchSize = 1
  MaxMishaps = 2
  Foreign = {garbled, empty}
  Garbled = {garbled}
  MaxReceives = 2

SPECIFICATION FairSpec
INVARIANTS
  QueueInv
  RedeliveriesArePaidFor
  DeadLettersAreEarned
PROPERTIES
  QueueDrains
  EveryEventArrives

\* Once every message is settled nothing is left to do
CHECK_DEADLOCK FALSE
