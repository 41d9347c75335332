\* Two files dropped one after the other at one path; every fault once; with
\* all folders, without a processing folder, and with none.
SPECIFICATION FairSpec
CONSTANTS
  f1 = f1
  f2 = f2
  p1 = p1
  n1 = n1
  x = x
  g1 = g1
  g2 = g2
  Files = {f1, f2}
  Paths = {p1}
  PathOf <- MCPathOf
  NameOf <- MCNameOf
  DataOf <- MCDataOf
  Removable = {f2}
  Setups = {{"processing", "processed", "failed"}, {"processed", "failed"}, {}}
  Goroutines = {g1, g2}
  StableFor = 1
  MaxAge = 2
  Writes <- MCWrites
  Faults = {"overflow", "move", "store", "crash"}
  MaxFaults = 1
INVARIANTS
  TypeOK
  LossNeedsRace
  PendingHasTimer
  
PROPERTY EveryFileSettles
CHECK_DEADLOCK FALSE
