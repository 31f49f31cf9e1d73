CONSTANTS
  s1 = s1
  s2 = s2
  c1 = c1
  c2 = c2
  None = None
  OldGen = OldGen
  Msg = {1, 2, 3}
  Fenced = {2}
  Backlog = {1}
  Leased = {}
  Bad = {1}
  Sender = {s1}
  Conn = {c1, c2}
  Scoped = TRUE
  GcEnabled = TRUE
  MaxPending = 3
  MaxFaults = 1
  MaxCrashes = 1
SPECIFICATION Spec
SYMMETRY Symmetric
VIEW Relevant
INVARIANTS   NoStaleRun
CHECK_DEADLOCK FALSE
