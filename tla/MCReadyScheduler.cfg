SPECIFICATION FairSpec
CONSTANTS
  Task = {t1, t2}
  Work = {w1, w2}
  Capacity = 1
  None = None
  MaxGen = 3
  MaxSeq = 2
INVARIANTS NoLateAdmission
PROPERTIES  CapacityKept RevokeReturns 
