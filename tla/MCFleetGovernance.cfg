SPECIFICATION Spec
CONSTANTS
  ann = ann
  max = max
  Workers = {w1, w2}
  Accounts = {ann, max}
  AccountOrg <- MCAccountOrg
  AccountRole <- MCAccountRole
  Projects = {p1}
  Emails = {max}
  Docs = {d1, d2}
  ExceptionDays = 1
  MaxRequests = 3
  MaxClock = 1
SYMMETRY MCSymmetry
INVARIANTS
  AuthorityHolds
  LatestRespectsRealTime
  TrailIsTrue
PROPERTIES
  ExceptionsEnd
  LifeSpec
CHECK_DEADLOCK FALSE
