SPECIFICATION FairSpec
CONSTANTS
  Parts = {"digest", "archive", "linkwarden"}
  Stored = 2
  CollectedAt <- MCCollectedAt
  Textless = {1}
  Runs = {r1, r2}
  Topics = {"go", "art"}
  Levels = {1, 2, 3}
  Verdicts <- MCVerdicts
  Choices <- MCChoices
  Day = 1
  PageSize = 1
  Horizon = 1
  MaxClicks = 1
  MaxSaves = 1
  Pages = {p1, p2}
  Configurations = {"home", "work", "token"}
  WithToken = {"token"}
  MaxTagPages = 2
INVARIANTS TypeOK OneSelection NoneSkipped SummaryShown SentWhereMeant
PROPERTIES PageAnswered
CHECK_DEADLOCK FALSE
