CONSTANTS
  s1 = s1
  s2 = s2
  c1 = c1
  c2 = c2
  None = None
  OldGen = OldGen
  Msg = {1}
  Fenced = {}
  Backlog = {}
  Leased = {}
  Bad = {}
  Sender = {s1}
  Conn = {c1}
  Scoped = FALSE
  GcEnabled = TRUE
  MaxPending = 3
  MaxFaults = 0
  MaxCrashes = 0
SPECIFICATION Spec
SYMMETRY Symmetric
VIEW Relevant
INVARIANT GcLossless
CHECK_DEADLOCK FALSE
