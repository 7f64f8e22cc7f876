CONSTANTS
  p1 = p1
  p2 = p2
  Pilots = {p1}
  This = p1
  Root <- Alone
  Timers = {t1, t2}
  None = None
  MaxRevision = 1
  MaxErrors = 0
SPECIFICATION FairSpec
CHECK_DEADLOCK FALSE
PROPERTY
  ResyncedForever
