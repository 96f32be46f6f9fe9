SPECIFICATION StatsSpec
CONSTANTS
  Workers = {w1}
  Sources = {"feed"}
  Items <- MCItems
  Roundups = {"issue"}
  Provenance = {"letter"}
  TooOld = {"letter", "stale"}
  Urls <- MCUrls
  NonEditorial = {"video"}
  Feed <- MCFeed
  Links <- MCLinks
  Landing <- MCLanding
  Batch = 2
  MaxFailures = 2
  MaxFaults = 2
  Commands = {"daily", "unanalyzed", "collect", "gather", "process"}
  ClockLag = FALSE
INVARIANTS TypeOK DrainComplete NothingLost StoredIsCreator DuplicateWasKnown
PROPERTIES StatisticsAgree ImplementsBacklog
CHECK_DEADLOCK FALSE
