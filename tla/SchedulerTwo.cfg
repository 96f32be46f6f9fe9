SPECIFICATION Spec
CONSTANTS
  Day = 3
  Servers = {s1, s2}
  Schedules <- MCSchedules
  Horizon = 2
  MaxChanges = 1
  MaxAsks = 2
  MaxCrashes = 1
  MaxErrors = 0
SYMMETRY Symmetry
INVARIANTS ClaimedOnce NoReplay
CHECK_DEADLOCK FALSE
