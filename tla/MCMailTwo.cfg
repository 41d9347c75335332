\* Two processes poll one folder and move what they have ingested; every
\* fault once; an attachment in common.
SPECIFICATION Spec
CONSTANTS
  m1 = m1
  m2 = m2
  m3 = m3
  a = a
  b = b
  x = x
  y = y
  z = z
  p1 = p1
  p2 = p2
  Names = {a, b}
  Contents = {x, y, z}
  Parts <- MCParts
  Messages = {m1, m2}
  Truncated = {}
  Anonymous = {}
  Unsupported = {}
  Deletable = {m1, m2}
  Pollers = {p1, p2}
  Action = "move"
  Faults = {"connection", "action", "message", "crash", "shutdown"}
  MaxFaults = 1
  MaxValidity = 1
SYMMETRY Symmetry
INVARIANT DocumentHasItsJob
CHECK_DEADLOCK FALSE
