SPECIFICATION Spec
CONSTANTS
  Tiers = {"edge"}
  Brats = TRUE
  Environments <- EdgePool
  Kept = {"edge"}
  MaxCommits = 2
  MaxFailures = 0
  MaxReruns = 0
INVARIANT StatusIsTested
CHECK_DEADLOCK FALSE
