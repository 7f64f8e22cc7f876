CONSTANTS
  NumPools = 1
  MaxReplicas = 1
  Scenarios <- SeedFails
SPECIFICATION FairSpec
CHECK_DEADLOCK FALSE
PROPERTY EventuallySeedsLabelled
