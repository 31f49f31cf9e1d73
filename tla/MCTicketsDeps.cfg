SPECIFICATION Spec
CONSTANTS
  w1 = w1
  w2 = w2
  g1 = g1
  g2 = g2
  None = None
  Work = {w1, w2}
  Goal = {g1, g2}
  Parent <- Nested
  MayDepend <- Mutual
  Area = {}
  Session = {s1}
  Kinds = {}
  MaxGen = 1
  MaxRev = 1
  MaxEpoch = 1
  ReportUnknown = FALSE
INVARIANTS InputsCurrent
PROPERTIES NestedGoalReviewed
CHECK_DEADLOCK FALSE
