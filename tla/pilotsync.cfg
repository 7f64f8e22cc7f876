CONSTANTS
  p1 = p1
  p2 = p2
  Pilots = {p1, p2}
  This = p1
  Root <- TwoPeers
  Timers = {t1, t2}
  None = None
  MaxRevision = 2
  MaxErrors = 1
SPECIFICATION FairSpec
CHECK_DEADLOCK FALSE
INVARIANTS TypeOK NoLostWakeup
PROPERTIES UsesScheduler LatestSynced DeletedForgotten
