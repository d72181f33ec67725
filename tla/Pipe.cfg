SPECIFICATION Spec
CONSTANTS
  Delay = 3
  InitialSize = 2
  MaxPkts = 7
  MaxTime = 6
CHECK_DEADLOCK FALSE
INVARIANTS OneEventForHead
PROPERTY LineSpec
