SPECIFICATION Spec
CONSTANTS
  MaxRetries = 2
  SleepTimes = {5, 7}
  Legacy = TRUE
  on = on
  low = low
  NoNode = NoNode
  Nodes = {low}
  LowPower = {low}
  MaxConfigNodes = 1
  CbTasks <- OneRate
  Messages = {"notify", "notify0", "ack_wait", "ack_task", "ack_delete", "ack_sleep"}
  ApiTasks = {"rate"}
  ApiOps = {"sleep_time", "cancel"}
  MaxLoad = 2
  MaxPending = 2
  MaxQueue = 3
  MaxExpiries = 1
INVARIANTS TypeOK HeadReady QueueShape
PROPERTIES PendingKept
CHECK_DEADLOCK FALSE
