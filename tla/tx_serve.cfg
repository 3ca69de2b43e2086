SPECIFICATION FairSpec
CONSTANTS
  Messages = {"to_k1", "to_k2", "to_k3"}
  LowPriority = {}
  Keys = {"k1", "k2", "k3"}
  Addrs = {"a1", "a2"}
  AddrOf <- MCAddrOf
  Dst <- MCDst
  KeyHandles = {1, 2}
  AddrHandles = {1, 2, 3}
  MaxDevkeys = 1
  MaxAddresses = 1
  MaxInFlight = 1
  NoHandle = NoHandle
  NoMsg = NoMsg
  Early = {}
  MaxRestarts = 1
  MaxPowerCycles = 1
INVARIANTS TypeOK CachedHandles TxAlive RightDestination
PROPERTIES Served ServiceSpec
CHECK_DEADLOCK FALSE
