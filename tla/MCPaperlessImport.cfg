\* Two documents of the same bytes, one of them late, two workers, two runs;
\* two faults.
SPECIFICATION FairSpec
CONSTANTS
  d1 = d1
  d2 = d2
  x = x
  w1 = w1
  w2 = w2
  m1 = m1
  m2 = m2
  None = None
  Docs = {d1, d2}
  ContentOf <- MCContentOf
  Preset <- MCPreset
  RuleFor <- MCRuleFor
  Initial <- MCInitial
  Late = {d2}
  Removable = {d1}
  IdLists <- MCIdLists
  Modes = {"import", "retry-failed", "plan"}
  Workers = {w1, w2}
  PageSize = 1
  Faults = {"list", "read", "import", "store", "cancel", "crash"}
  MaxFaults = 2
  MaxRuns = 2
INVARIANTS
  TypeOK
  RowIsBacked
  OneNoteEach
  ListingIsComplete
  CleanRunVerifies
  ReportIsComplete
  DocumentIsFiled
PROPERTY CancelEndsRun
CHECK_DEADLOCK FALSE
