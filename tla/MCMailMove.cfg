\* One process that moves what it has ingested, no fault; the third message
\* is of an unknown kind.
SPECIFICATION Spec
CONSTANTS
  m1 = m1
  m2 = m2
  m3 = m3
  a = a
  b = b
  x = x
  y = y
  z = z
  p1 = p1
  p2 = p2
  Names = {a, b}
  Contents = {x, y, z}
  Parts <- MCParts
  Messages = {m1, m2, m3}
  Truncated = {}
  Anonymous = {}
  Unsupported = {z}
  Deletable = {}
  Pollers = {p1}
  Action = "move"
  Faults = {}
  MaxFaults = 0
  MaxValidity = 1
INVARIANT ActedIsRecorded
CHECK_DEADLOCK FALSE
