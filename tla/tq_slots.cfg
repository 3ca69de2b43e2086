SPECIFICATION FairSpec
CONSTANTS
  MaxRetries = 1
  SleepTimes = {5}
  Legacy = FALSE
  on = on
  low = low
  NoNode = NoNode
  Nodes = {on, low}
  LowPower = {low}
  MaxConfigNodes = 1
  CbTasks <- OneRate
  Messages = {"wake_reset", "notify0", "ack_wait", "ack_alive"}
  ApiTasks = {}
  ApiOps = {"listener"}
  MaxLoad = 2
  MaxPending = 2
  MaxQueue = 1
  MaxExpiries = 1
INVARIANTS SlotBound
PROPERTIES SlotsFreed
CHECK_DEADLOCK FALSE
