CONSTANTS
  NumPools = 1
  MaxReplicas = 2
  Scenarios <- Progress
SPECIFICATION FairSpec
CHECK_DEADLOCK FALSE
PROPERTIES EventuallySpecMet EventuallySeedsLabelled NothingOutlivesCluster
