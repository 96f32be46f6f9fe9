SPECIFICATION Spec
CONSTANTS
  Day = 3
  Servers = {s1}
  Schedules <- MCSchedules
  Horizon = 4
  MaxChanges = 1
  MaxAsks = 1
  MaxCrashes = 1
  MaxErrors = 1
INVARIANT NextRunShown
CHECK_DEADLOCK FALSE
