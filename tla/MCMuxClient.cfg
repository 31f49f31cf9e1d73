SPECIFICATION FairSpec
CONSTANTS
  Req = {r1, r2}
  None = None
  MaxConn = 2
  MaxEvents = 2
  MaxFaults = 1
CHECK_DEADLOCK FALSE
INVARIANTS OkMeansConsumed LiveReplyKept 
PROPERTIES NoHang ImplementsRequestReply
