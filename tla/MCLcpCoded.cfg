SPECIFICATION FairSpec
CONSTANTS
  FlowPkts = 4
  ErasureCoded = TRUE
  Group = 3
  Capacity = 1
  RtoReduceCwnd = FALSE
  Windows <- CodedWindows
  MaxWake = 1
  MaxLoss = 2
  MaxSpurious = 0
INVARIANTS
  BatchMatchesReassembly
  SenderBehindSink
  NewPacketNotStale
PROPERTIES
  AbsSpec
  FinishesOrStalls
\* The flow ends: no action is enabled once its last packet is gone.
CHECK_DEADLOCK FALSE
