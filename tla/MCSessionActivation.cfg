SPECIFICATION FairSpec
CONSTANTS
  None = None
  MaxMsg = 2
  MaxRun = 6
  MaxEntries = 1
  MaxDrops = 1
  MaxErrors = 1
  MaxWakes = 1
CHECK_DEADLOCK FALSE
INVARIANTS OneRun   LaunchedOnce
PROPERTIES OwnerKept WaitEnds ImplementsSessionTurns
