CONSTANTS
  NumPools = 2
  ConfigMaps <- Names
  MaxReplicas = 2
  MaxVersion = 2
  DataPools <- Second
  MasterPools <- First
  Edits <- AllEdits
  Scenarios <- AllScenarios
SPECIFICATION FairSpec
INVARIANT TypeOK
PROPERTY AnnotationTruthful UpgradedFromTheTop DrainedBeforeScaleDown  PoolsConverge PausedShown
CHECK_DEADLOCK FALSE
