CONSTANTS
  NRun = 2
  NReq = 2
  MaxFaults = 2
  MaxRestart = 1
  MaxManual = 1
  GraceTurns = 2
SPECIFICATION Spec
INVARIANTS TypeOK CompletedIsSettled  GraceOnlyCompleted
\* The runs end when the dispatches are used up.
CHECK_DEADLOCK FALSE
