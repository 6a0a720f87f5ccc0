SPECIFICATION Spec
CONSTANTS
  acme = acme
  globex = globex
  t1 = t1
  t2 = t2
  Workers = {w1, w2}
  Orgs = {acme, globex}
  Tokens = {t1, t2}
  TokenOrg <- MCTokenOrg
  Keys = {k1, k2}
  SnapshotIds = {s1}
  NoOrg = NoOrg
  BodyOrgs = {NoOrg, globex}
  TtlDays = 1
  Limits <- MCLimits
  DefaultLimits <- MCDefaultLimits
  MaxRequests = 3
  MaxClock = 2
SYMMETRY Symmetry
INVARIANTS
  TypeOK
  TokensMatchMachines
  IdentitiesAreUnique
  AuditIsTruthful

  
CHECK_DEADLOCK FALSE
