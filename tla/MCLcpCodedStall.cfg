SPECIFICATION FairSpec
CONSTANTS
  FlowPkts = 2
  ErasureCoded = TRUE
  Group = 2
  Capacity = 1
  RtoReduceCwnd = FALSE
  Windows <- LiveWindows
  MaxWake = 1
  MaxLoss = 1
  MaxSpurious = 0
PROPERTIES
  FlowFinishes
\* The flow ends: no action is enabled once its last packet is gone.
CHECK_DEADLOCK FALSE
