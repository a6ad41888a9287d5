CONSTANTS
  NRun = 2
  NReq = 2
  MaxFaults = 2
  MaxRestart = 1
  MaxManual = 0
  GraceTurns = 1
SPECIFICATION FairSpec
INVARIANTS EventsNeverMissed
PROPERTIES SupersededPersisted SuccessorSettles
\* The runs end when the dispatches are used up.
CHECK_DEADLOCK FALSE
