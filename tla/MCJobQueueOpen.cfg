\* Two watch processes on one database, a one-shot process, every fault,
\* operators that retry jobs of any status.
SPECIFICATION Spec
CONSTANTS
  d1 = d1
  d2 = d2
  w1 = w1
  w2 = w2
  c1 = c1
  c2 = c2
  NoDoc = NoDoc
  Docs = {d1}
  Workers = {w1, w2}
  Clients = {c1}
  Folders = {"processed", "failed"}
  Retryable = {"pending", "running", "completed", "failed", "skipped"}
  QuietStart = FALSE
  Faults = {"crash", "client_crash", "store_error"}
  MaxJobs = 2
  MaxStarts = 2
  MaxRetries = 1
SYMMETRY Symmetry
INVARIANTS
  TypeOK
  StoreNeverLies
  MovedAfterStored
  GivenUpAfterAttempts
  AttemptsNeedRestarts
  WaitingHasJob
PROPERTY ImplementsIntake
CHECK_DEADLOCK FALSE
