SPECIFICATION Spec
SYMMETRY Symmetry
CONSTANTS
  Savers = {s1, s2, s3}
  Stray = Stray
  Scenarios <- MCScenarios
INVARIANTS
  SavesAreRecorded
  QuietHistoryVerifies
  TamperIsEvident
CHECK_DEADLOCK FALSE
