SPECIFICATION FairSpec
CONSTANTS
  Lines <- MCLines
  Ids = {"1", "2"}
  Root = "root"
  Inside = {"root", "app"}
  KnownRules = {"PY001"}
  CacheSeconds = 2
  MaxLines = 3
  MaxClock = 3
INVARIANTS
  AnswersAreSound
  RequestsAnsweredInOrder
PROPERTIES
  RequestsAreSettled
CHECK_DEADLOCK FALSE
