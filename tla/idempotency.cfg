CONSTANTS
  Requests = {r1, r2, r3}
  NoToken = NoToken
  NoResponse = NoResponse
  Corrupt = Corrupt
  InitialResponses <- EmptyOrJunk

SPECIFICATION FairSpec
INVARIANTS
  LeaseInv
  AnswersAreGenuine
  AnsweredMeansReleased
PROPERTIES
  RetryAfterSuccessReplays
  OnlyOwnerFrees
  HolderLetsGo

\* Every request may have been answered: the system has nothing left to do
CHECK_DEADLOCK FALSE
