CONSTANTS
  Requests = {r1, r2}
  NoToken = NoToken
  NoResponse = NoResponse
  Corrupt = Corrupt
  InitialResponses <- EmptyOrJunk

SPECIFICATION Spec
INVARIANTS
  CachedInsteadOfReexecuted

\* Every request may have been answered: the system has nothing left to do
CHECK_DEADLOCK FALSE
