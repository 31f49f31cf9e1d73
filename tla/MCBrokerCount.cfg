CONSTANTS
  s1 = s1
  s2 = s2
  c1 = c1
  c2 = c2
  None = None
  OldGen = OldGen
  Msg = {1, 2, 3, 4}
  Fenced = {}
  Backlog = {1, 2}
  Leased = {1}
  Bad = {}
  Sender = {s1, s2}
  Conn = {c1}
  Scoped = FALSE
  GcEnabled = FALSE
  MaxPending = 2
  MaxFaults = 1
  MaxCrashes = 1
SPECIFICATION Spec
SYMMETRY Symmetric
VIEW Relevant
INVARIANTS TypeOK CountNeverUnder BacklogBound
 
CHECK_DEADLOCK FALSE
