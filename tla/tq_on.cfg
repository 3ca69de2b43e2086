SPECIFICATION Spec
CONSTANTS
  MaxRetries = 1
  SleepTimes = {5}
  Legacy = FALSE
  on = on
  low = low
  NoNode = NoNode
  Nodes = {on}
  LowPower = {}
  MaxConfigNodes = 1
  CbTasks <- OneCmd
  Messages = {"wake_reset", "notify0", "ack_wait", "ack_alive", "ack_cmd", "node_reset"}
  ApiTasks = {"cmd", "reset"}
  ApiOps = {"unlist", "whitelist", "provision"}
  MaxLoad = 2
  MaxPending = 2
  MaxQueue = 1
  MaxExpiries = 1
INVARIANTS HeadReady ConfiguringOwned SlotTimed
CHECK_DEADLOCK FALSE
