SPECIFICATION Spec
CONSTANTS
  Ids <- MCIds
  ProbeIds <- MCProbeIds
  PoolSizes <- MCPoolSizes
  Timeout = 2
  NoResult = NoResult
  Exited = Exited
INVARIANTS
  ReportIsComplete
PROPERTIES
  TimeoutsAreFair
  ScanEnds
CHECK_DEADLOCK FALSE
