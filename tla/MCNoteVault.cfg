\* Two processes that ingest and a correction command; five calls.
SPECIFICATION Spec
CONSTANTS
  Docs = {1, 2, 3, 4}
  Laid = {1, 2}
  Stem <- MCStem
  Writers = {w1, w2}
  Reviewers = {r1}
  MaxSuffix = 3
  MaxCalls = 5
  MaxEdits = 1
  MaxFaults = 1
INVARIANTS
  TypeOK
  EditsAreKept
  RowIsItsNote
CHECK_DEADLOCK FALSE
