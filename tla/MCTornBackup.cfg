SPECIFICATION BackupSpec
CONSTANTS
  p1 = p1
  p2 = p2
  Pages = {p1, p2}
  None = None
  Missing = Missing
  Garbage = Garbage
  Damages = {"member", "stream", "manifest"}
  MaxWrites = 1
  MaxFaults = 0
INVARIANT
  ReplacesByWorkingDatabase
CHECK_DEADLOCK FALSE
