CONSTANTS
  Transactions = {t1}
  Requests = {r1, r2}
  Null = Null
  NoExternalId = NoExternalId
  NoTransaction = NoTransaction

SPECIFICATION Spec
SYMMETRY Interchangeable
INVARIANTS
  AtMostOneCharge

\* Every request may have been answered: the system has nothing left to do
CHECK_DEADLOCK FALSE
