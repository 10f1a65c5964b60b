CONSTANTS
  a = a
  b = b
  c1 = c1
  c2 = c2
  T1 = T1
  T2 = T2
  Clients = {a, b}
  Connections = {c1, c2}
  Deployments <- SevenDeployments
  Tenants = {T1, T2}
  NotAUuid = NotAUuid
  NoTenant = NoTenant
  NoConnection = NoConnection
  RowCount = 3
  CreatedAt <- OneTie
  LimitOf <- OddLimits
  MaxLimit = 2

SPECIFICATION FairSpec
INVARIANTS
  IsolationInv
  TenantsAreApart
  PolicyIsExact
PROPERTIES
  ConnectionsReturn
  WalkMissesNothing
