CONSTANTS
  NMsg = 2
  NRun = 6
  MaxFaults = 2
  MaxReset = 1
  Faults <- MCAllFaults
SPECIFICATION Spec
INVARIANTS TypeOK  
 
\* The runs end when every message has been dealt with.
CHECK_DEADLOCK FALSE
