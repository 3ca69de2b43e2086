SPECIFICATION Spec
CONSTANTS
  Messages = {"short", "eight", "ten"}
  Loads = {{"eight", "ten"}, {"short", "eight"}}
  Size <- MCSize
  FragSize = 5
  ShortSize = 7
  SeqBlock = 2
  None = None
  Empty = Empty
  MaxQueued = 1
  MaxInAir = 2
  MaxCrashes = 1
INVARIANTS TypeOK Intact NumbersRise PutTogether
CHECK_DEADLOCK FALSE
