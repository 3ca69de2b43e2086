SPECIFICATION Spec
CONSTANTS
  Nodes = {"n1"}
  CacheSize = 1
  Filters <- MCAll
  None = None
  MaxSeq = 0
  MaxTimers = 2
  MaxEvents = 1
  MaxCommands = 1
  MaxRestarts = 1
INVARIANTS ProvisioningOwned TimedScanEnds ScanAgrees
CHECK_DEADLOCK FALSE
