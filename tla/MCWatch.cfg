SPECIFICATION WatchFairSpec
CONSTANTS
  Names = {manifest, lockfile}
  Contents = {c1, c2}
  Absent = Absent
  Partial = Partial
  Interval = 2
  QuietPeriod = 3
  SaveTime = 2
  MaxEdits = 3
INVARIANTS
  ScansAreSettled
PROPERTIES
  ChangesAreComplete
  NothingIsMissed
CHECK_DEADLOCK FALSE
