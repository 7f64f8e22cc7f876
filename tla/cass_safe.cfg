CONSTANTS
  NumPools = 2
  MaxReplicas = 2
  Scenarios <- Safety
SPECIFICATION Spec
CHECK_DEADLOCK FALSE
INVARIANTS TypeOK JoinsInSeries FilledInOrder WithinRequested
PROPERTIES GrowsByOneWhenReady PausedMeansNoAction ForeignUntouched
