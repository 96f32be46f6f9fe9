SPECIFICATION FairSpec
CONSTANTS
  Feeds = {"f1", "f2", "f3"}
  Hosts = {"h1"}
  Interval = 1
  Jobs = {"j1", "j2", "j3"}
  Limit = 1
  LookBack = 2
  MaxMessages = 1
  MaxMail = 2
  Browsers = {"b1", "b2"}
  Letters = "letters"
  HostOf <- MCHostOf
  Plans <- MCPlans
  MailPlans <- MCMailPlans
  Parallel = 2
  Timeout = 5
  MaxHops = 1
INVARIANTS TypeOK PermitsAccounted NoIdlePermit NoMailMissed HealthyIsCollected
PROPERTIES Polite QueuedIsServed CollectionEnds
