SPECIFICATION Spec
CONSTANTS
  Nodes = {"n1"}
  CacheSize = 1
  Filters <- MCAll
  None = None
  MaxSeq = 0
  MaxTimers = 1
  MaxEvents = 1
  MaxCommands = 1
  MaxRestarts = 0
PROPERTIES ScanLasts
CHECK_DEADLOCK FALSE
