SPECIFICATION Spec
CONSTANTS
  Nodes = {"n1", "n2"}
  CacheSize = 1
  Filters <- MCFilters
  None = None
  MaxSeq = 1
  MaxTimers = 0
  MaxEvents = 1
  MaxCommands = 1
  MaxRestarts = 0
INVARIANTS TypeOK AddressesDistinct StoredRight RxAlive Heard
CHECK_DEADLOCK FALSE
