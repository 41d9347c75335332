\* One process; three messages, one without a Message-ID and of an unknown
\* kind; every fault; the folder may be rebuilt once.
SPECIFICATION FairSpec
CONSTANTS
  m1 = m1
  m2 = m2
  m3 = m3
  a = a
  b = b
  x = x
  y = y
  z = z
  p1 = p1
  p2 = p2
  Names = {a, b}
  Contents = {x, y, z}
  Parts <- MCGarbledParts
  Messages = {m1, m2, m3}
  Truncated = {m2}
  Anonymous = {m3}
  Unsupported = {z}
  Deletable = {m1}
  Pollers = {p1}
  Action = "mark_seen"
  Faults = {"connection", "action", "message", "crash", "shutdown"}
  MaxFaults = 2
  MaxValidity = 2
INVARIANTS
  CursorPassesOnlySettled
  TrackedIsRecorded
PROPERTY EveryMessageRecorded
CHECK_DEADLOCK FALSE
