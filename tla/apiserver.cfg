CONSTANTS
  Scenarios <- AllScenarios
SPECIFICATION FairSpec
INVARIANTS TypeOK SpecAsSubmitted  CacheAsDelivered ReplicasKnown SplitBrainExcluded NamespaceFound
PROPERTIES  TerminationCompletes
CHECK_DEADLOCK FALSE
