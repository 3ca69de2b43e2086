SPECIFICATION SettlingSpec
CONSTANTS
  MaxRetries = 1
  SleepTimes = {5}
  Legacy = FALSE
  on = on
  NoNode = NoNode
  Nodes = {on}
  LowPower = {}
  MaxConfigNodes = 1
  CbTasks <- OneRate
  Messages = {"notify0", "ack_wait", "ack_task"}
  ApiTasks = {"rate"}
  ApiOps = {"whitelist", "unlist", "listener", "cancel"}
  MaxLoad = 2
  MaxPending = 1
  MaxQueue = 1
  MaxExpiries = 1
PROPERTIES CommandsSettle
CHECK_DEADLOCK FALSE
