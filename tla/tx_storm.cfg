SPECIFICATION Spec
CONSTANTS
  Messages = {"to_k1", "low_a2"}
  LowPriority = {"low_a2"}
  Keys = {"k1", "k2", "k3"}
  Addrs = {"a1", "a2"}
  AddrOf <- MCAddrOf
  Dst <- MCDst
  KeyHandles = {1, 2}
  AddrHandles = {1, 2, 3}
  MaxDevkeys = 1
  MaxAddresses = 1
  MaxInFlight = 1
  NoHandle = NoHandle
  NoMsg = NoMsg
  Early = {"low_a2"}
  MaxRestarts = 1
  MaxPowerCycles = 1
INVARIANTS InFlight QuietAnswers
PROPERTIES ServiceSpec
CHECK_DEADLOCK FALSE
