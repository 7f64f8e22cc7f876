CONSTANTS
  NumPools = 2
  ConfigMaps <- Names
  MaxReplicas = 2
  MaxVersion = 2
  DataPools <- First
  MasterPools <- Second
  Edits <- EmptyPoolEdits
  Scenarios <- EmptyPool
SPECIFICATION Spec
PROPERTY AnnotationTruthful
CHECK_DEADLOCK FALSE
