SPECIFICATION FairSpec
CONSTANTS
  None = None
  Broken = Broken
  Intent = Intent
  User = User
  Limit = 2
  Window = 2
  LongDelay = 2
  MaxNow = 3
  MaxEpoch = 2
  MaxSeq = 1
  MaxFaults = 1
  MaxBack = 1
INVARIANTS ChargedBeforeEntry PermitCurrent OneOpenStart
 
CHECK_DEADLOCK FALSE
