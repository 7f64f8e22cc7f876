CONSTANTS
  Keys = {k1}
  None = None
  Workers = {w1, w2}
  MaxUid = 3
  MaxErrors = 2
SPECIFICATION FairSpec
INVARIANT TypeOK
PROPERTY NeverHandedOn EveryPodPiloted
CHECK_DEADLOCK FALSE
