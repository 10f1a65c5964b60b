CONSTANTS
  Transactions = {t1}
  Requests = {r1, r2, r3}
  Null = Null
  NoExternalId = NoExternalId
  NoTransaction = NoTransaction

SPECIFICATION FairSpec
INVARIANTS
  ReservationInv
  CompletedIsCharged
  OutboxTellsTheStory
  AnswerIsDurable
  NoSpuriousConflict
  EveryChargeAnnounced
PROPERTIES
  SequentialRetriesAreSafe
  IdealSpec
  ReservationSettles

\* Every request may have been answered: the system has nothing left to do
CHECK_DEADLOCK FALSE
