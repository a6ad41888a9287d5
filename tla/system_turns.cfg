SPECIFICATION FairSpec
CONSTANTS
  NReminder = 1
  NCheckin = 2
  Threshold = 1
  MaxUser = 1
  MaxFaults = 1
INVARIANTS MessageOnce 
PROPERTY ReminderServed
CHECK_DEADLOCK FALSE
