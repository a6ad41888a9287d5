CONSTANTS
  NThread = 1
  NTurn = 2
  NRequest = 2
  Kinds = {"forbidden", "ask", "elicit"}
  TextIds = TRUE
  MaxFaults = 1
SPECIFICATION FairSpec
INVARIANT PendingLive
PROPERTY RequestSettles
CHECK_DEADLOCK FALSE
