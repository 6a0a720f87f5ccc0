SPECIFICATION BackupSpec
CONSTANTS
  p1 = p1
  p2 = p2
  Pages = {p1, p2}
  None = None
  Missing = Missing
  Garbage = Garbage
  Damages = {"member", "stream", "manifest", "declarations"}
  MaxWrites = 1
  MaxFaults = 3
SYMMETRY MCSymmetry
INVARIANTS
  DatabaseIsSound
  RoundTrip
CHECK_DEADLOCK FALSE
