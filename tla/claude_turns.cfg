SPECIFICATION FairSpec
CONSTANTS
  NProc = 3
  NInput = 3
  MaxFaults = 1
 
PROPERTY BufferedLeaves
CHECK_DEADLOCK FALSE
