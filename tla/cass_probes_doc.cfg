CONSTANTS
  Databases = {"cassandra"}
  Files = {yaml}
  Plugins = {}
  Self = self
  Peers = {peer}
  MaxFaults = 1
  MaxChanges = 3
SPECIFICATION Spec
INVARIANT StartingNodeSpared
CHECK_DEADLOCK FALSE
