SPECIFICATION Spec
CONSTANTS
  Poll = 6
  Check = 2
  Enabled = TRUE
  Retry = 1
  Second = 2
  MaxPass = 1
  Skew = 1
  Faults = {"detect", "query", "rows", "status", "crash"}
  Horizon = 22
  MaxEvents = 1
  MaxChanges = 1
  MaxFaults = 1
INVARIANTS TypeOK WakePending FullPassInTime ChangeReadInTime ChangeDetectedInTime
CHECK_DEADLOCK FALSE
