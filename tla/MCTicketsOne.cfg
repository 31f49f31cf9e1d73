SPECIFICATION Spec
CONSTANTS
  w1 = w1
  w2 = w2
  g1 = g1
  g2 = g2
  None = None
  Work = {w1}
  Goal = {}
  Parent <- Flat
  MayDepend <- NoDep
  Area = {x}
  Session = {s1}
  Kinds = {"approval"}
  MaxGen = 1
  MaxRev = 2
  MaxEpoch = 2
  ReportUnknown = TRUE
INVARIANTS AcceptedSound
CHECK_DEADLOCK FALSE
