CONSTANTS
  NMsg = 3
  NRun = 6
  MaxFaults = 2
  MaxReset = 1
  Faults <- MCRecovery
SPECIFICATION FairSpec
INVARIANTS GateTracksTurn  
  
\* The runs end when every message has been dealt with.
CHECK_DEADLOCK FALSE
