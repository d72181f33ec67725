SPECIFICATION FairSpec
CONSTANTS
  none = none
  single = single
  barrier = barrier
  multi = multi
  FlowCount = 8
  Triggers = {single, barrier, multi}
  NoTrigger = none
  Kind <- MCKind
  Count <- MCCount
  Start <- MCStart
  TriggeredBy <- MCTriggeredBy
  SendDone <- MCSendDone
  RecvDone <- NoneDone
  Transfers = {1, 2}
  Straggle = 1
  ScanPeriod = 2
  EndTimes = {3, 20}
INVARIANTS ReleasedExactly NoTimeInTriggers
PROPERTIES MatrixSpec AllRun
CHECK_DEADLOCK FALSE
