CONSTANTS
  s1 = s1
  s2 = s2
  c1 = c1
  c2 = c2
  None = None
  OldGen = OldGen
  Msg = {1, 2}
  Fenced = {2}
  Backlog = {1}
  Leased = {}
  Bad = {}
  Sender = {s1}
  Conn = {c1, c2}
  Scoped = TRUE
  GcEnabled = FALSE
  MaxPending = 2
  MaxFaults = 0
  MaxCrashes = 0
SPECIFICATION FairSpec
PROPERTIES DeliverAnswered Redelivered
CHECK_DEADLOCK FALSE
