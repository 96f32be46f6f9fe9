SPECIFICATION FairSpec
CONSTANTS
  Day = 3
  Servers = {s1}
  Schedules <- MCSchedules
  Horizon = 3
  MaxChanges = 1
  MaxAsks = 1
  MaxCrashes = 1
  MaxErrors = 1
INVARIANTS TypeOK MarkerMatches
PROPERTIES Refreshed FirstCollectionMade
CHECK_DEADLOCK FALSE
