CONSTANTS
  Pkts = 4
  MaxCwnd = 100
  StartCwnd = 50
  AiBytes = 25
  BaseRtt = 1
  TargetRtt = 2
  QaTriggerRtt = 3
  Rto = 3
  FiThreshold = 2
  Keeps <- MCKeeps
  Settings <- MCSettings
  MaxTime = 6
  MaxRtt = 4

SPECIFICATION MCSpec

INVARIANTS
  TypeOK
  EwmaIsNumber
  RoundsMatchEpochs
  EpochsLostOnlyWhenStarved

PROPERTIES
  QaCutsApart
  QaLandsOnDelivered

\* A flow that has finished does nothing more.
CHECK_DEADLOCK FALSE
