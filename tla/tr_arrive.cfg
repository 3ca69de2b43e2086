SPECIFICATION Spec
CONSTANTS
  Messages = {"eight"}
  Loads = {{"eight"}}
  Size <- MCSize
  FragSize = 5
  ShortSize = 7
  SeqBlock = 4
  None = None
  Empty = Empty
  MaxQueued = 2
  MaxInAir = 1
  MaxCrashes = 0
INVARIANTS Arrives
CHECK_DEADLOCK FALSE
