SPECIFICATION FairSpec
CONSTANTS
  none = none
  single = single
  barrier = barrier
  multi = multi
  FlowCount = 2
  Triggers = {single}
  NoTrigger = none
  Kind <- RecvKind
  Count <- RecvCount
  Start <- RecvStart
  TriggeredBy <- RecvTriggeredBy
  SendDone <- RecvSendDone
  RecvDone <- RecvRecvDone
  Transfers = {1, 2}
  Straggle = 1
  ScanPeriod = 2
  EndTimes = {10}
PROPERTY AllRun
CHECK_DEADLOCK FALSE
