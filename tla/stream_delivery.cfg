CONSTANTS
  NRun = 2
  NItem = 2
  NInbound = 2
  MaxRetry = 1
  MaxFaults = 2
  MaxRestart = 1
SPECIFICATION Spec
INVARIANTS ShownOnceInOrder OnlyCompactSilent
PROPERTIES ReplyAccounted
\* The runs end when the bounds are used up.
CHECK_DEADLOCK FALSE
