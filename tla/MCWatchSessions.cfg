\* Three requests at once, two directories, four watchers.
SPECIFICATION SessionSpec
CONSTANTS
  Handlers = {h1, h2, h3}
  Dirs = {in1, in2}
  MaxCalls = 4
INVARIANTS
  WatchersAreKept
CHECK_DEADLOCK FALSE
