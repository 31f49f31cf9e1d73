SPECIFICATION FairSpec
CONSTANTS
  Op = {a, b}
  None = None
  MaxErrors = 2
  MaxLosses = 1
  MaxCrashes = 1
INVARIANTS HeadLoads AckedSurvives
PROPERTIES ImplementsDurableLog 
CHECK_DEADLOCK FALSE
