SPECIFICATION FairSpec
CONSTANTS
  Tiers = {"edge"}
  Brats = TRUE
  Environments <- EdgePool
  Kept = {"edge"}
  MaxCommits = 3
  MaxFailures = 1
  MaxReruns = 1
INVARIANTS TypeOK MasterIsTested
PROPERTY NewestIsTested
CHECK_DEADLOCK FALSE
