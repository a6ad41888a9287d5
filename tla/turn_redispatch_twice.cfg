CONSTANTS
  NMsg = 2
  NRun = 6
  MaxFaults = 2
  MaxReset = 0
  Faults <- MCTransport
SPECIFICATION Spec
INVARIANTS DispatchedAtMostTwice
\* The runs end when every message has been dealt with.
CHECK_DEADLOCK FALSE
