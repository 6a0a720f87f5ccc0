SPECIFICATION MonitorSpec
CONSTANTS
  cron = cron
  hand = hand
  python = python
  v1 = v1
  v2 = v2
  Runners = {cron, hand}
  Tools = {python}
  Versions = {v1, v2}
  Absent = Absent
  Unreadable = Unreadable
  Interval = 3
  Depth = 2
  MaxTime = 6
  MaxChanges = 2
  MaxFiles = 3
  Moves <- MCMoves
  MaxBack = 2
SYMMETRY MCSymmetry
INVARIANTS
  MonitorIsSteady
  TimelineReplays
CHECK_DEADLOCK FALSE
