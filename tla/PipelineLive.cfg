SPECIFICATION FairSpec
CONSTANTS
  Workers = {w1}
  Sources = {"feed"}
  Items <- LiveItems
  Roundups = {"issue"}
  Provenance = {}
  TooOld = {}
  Urls = {"a", "video"}
  NonEditorial = {"video"}
  Feed <- LiveFeed
  Links <- MCLinks
  Landing <- LiveLanding
  Batch = 1
  MaxFailures = 2
  MaxFaults = 2
  Commands = {"daily", "unanalyzed", "collect", "gather", "process"}
  ClockLag = TRUE
PROPERTIES EverythingSettles ImplementsFairBacklog
CHECK_DEADLOCK FALSE
