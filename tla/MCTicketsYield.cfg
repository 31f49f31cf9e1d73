SPECIFICATION FairSpec
CONSTANTS
  w1 = w1
  w2 = w2
  g1 = g1
  g2 = g2
  None = None
  Work = {w1}
  Goal = {}
  Parent <- Flat
  MayDepend <- NoDep
  Area = {}
  Session = {s1}
  Kinds = {"question"}
  MaxGen = 2
  MaxRev = 2
  MaxEpoch = 2
  ReportUnknown = FALSE
INVARIANTS YieldReleased Exclusive
PROPERTIES OwnYieldResumes
CHECK_DEADLOCK FALSE
