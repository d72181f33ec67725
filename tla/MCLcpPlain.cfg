SPECIFICATION FairSpec
CONSTANTS
  FlowPkts = 4
  ErasureCoded = FALSE
  Group = 1
  Capacity = 0
  RtoReduceCwnd = TRUE
  Windows <- PlainWindows
  MaxWake = 1
  MaxLoss = 2
  MaxSpurious = 2
INVARIANTS
  TypeOK
  InFlightBound
  SackFindsEntry
  SackNeverOldest
  AckedWasReceived
  LostIsPending
PROPERTIES
  AbsSpec
  FlowFinishes
\* The flow ends: no action is enabled once its last packet is gone.
CHECK_DEADLOCK FALSE
