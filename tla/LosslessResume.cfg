SPECIFICATION Spec
CONSTANTS
  Hosts <- OneHost
  Outputs <- SpreadOutputs
  Flows <- SpreadFlows
  Source <- SpreadSource
  Dest <- SpreadDest
  Prio <- SpreadPrio
  High = 2
  Low = 1
  HostTime = 2
  OutTime = 2
  WireTime = 0
  SwitchTime = 0
  Transports <- SpreadTransports
  FlowPkts <- SpreadPkts
  MaxPauses = 3
INVARIANTS
  BeginFindsPacket
CHECK_DEADLOCK FALSE
