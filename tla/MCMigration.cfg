\* Two documents and one that comes later; four commands, one change.
SPECIFICATION Spec
CONSTANTS
  Docs = {1, 2, 3}
  Initial = {1, 2}
  FileOf <- MCFileOf
  ContentOf <- MCContentOf
  TagOf <- MCTagOf
  Labels = {"tax", "bank"}
  IdLists <- MCIdLists
  Limits = {0, 1}
  Minima = {0, 2}
  MaxChanges = 1
  MaxRuns = 4
INVARIANTS
  TypeOK
  ReadyMeansMigrated
  ReviewNamesBlockers
CHECK_DEADLOCK FALSE
