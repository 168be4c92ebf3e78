CONSTANTS
  r1 = r1
  r2 = r2
  k1 = k1
  NoKey = NoKey
  Requests = {r1, r2}
  Keys = {k1}
  Quotas = {1, 2}
  ReadQuota = 1
  Ttl = 1
  Lag = 1
  Window = 2
  MaxQuota = 2
  FaultSets = {{"db"}}
SPECIFICATION Spec
INVARIANTS
  TypeOK
  UncountedIsExcused
PROPERTIES
  QuotaHolds
  NoStalePrincipal
  RejectIsSpent
SYMMETRY Interchangeable
