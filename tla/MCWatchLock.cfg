\* Two watch processes with four starts and two crashes; three pids, of which
\* another program may get one.
SPECIFICATION FairSpec
CONSTANTS
  Procs = {p1, p2}
  Pids = {101, 102, 103}
  MaxStarts = 4
  MaxCrashes = 2
  MaxForeign = 1
INVARIANTS
  OneWatcherUnlessOverlap
PROPERTY StartDecides
CHECK_DEADLOCK FALSE
