\* Operators retry failed jobs only and a watch process starts while nobody
\* is at work; workers may die at any step and come up again.
SPECIFICATION FairSpec
CONSTANTS
  d1 = d1
  d2 = d2
  w1 = w1
  w2 = w2
  c1 = c1
  c2 = c2
  NoDoc = NoDoc
  Docs = {d1}
  Workers = {w1, w2}
  Clients = {c1}
  Folders = {"processed", "failed"}
  Retryable = {"failed"}
  QuietStart = TRUE
  Faults = {"crash"}
  MaxJobs = 2
  MaxStarts = 3
  MaxRetries = 1
INVARIANTS
  Exclusive
PROPERTIES
  CompletedIsFinal
  EveryJobSettles
  ImplementsFairIntake
CHECK_DEADLOCK FALSE
