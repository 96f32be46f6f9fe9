SPECIFICATION Spec
CONSTANTS
  Tabs = {t1, t2}
  Collectors = {c1}
  Topics = {ai, science}
  Keys = {k1, k2}
  MaxRequests = 3
  MaxRuns = 2
SYMMETRY Symmetry
INVARIANT TurnedOffNotCollected
CHECK_DEADLOCK FALSE
