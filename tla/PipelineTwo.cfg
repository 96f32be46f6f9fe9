SPECIFICATION Spec
CONSTANTS
  Workers = {w1, w2}
  Sources = {"feed"}
  Items <- TwoItems
  Roundups = {"issue"}
  Provenance = {}
  TooOld = {}
  Urls = {"a"}
  NonEditorial = {}
  Feed <- TwoFeed
  Links <- MCLinks
  Landing <- TwoLanding
  Batch = 1
  MaxFailures = 2
  MaxFaults = 1
  Commands = {"daily", "process"}
  ClockLag = FALSE
SYMMETRY Symmetry
INVARIANTS AttemptedOnce DrainComplete NothingLost SettledNotGivenUp
PROPERTY ImplementsBacklog
CHECK_DEADLOCK FALSE
