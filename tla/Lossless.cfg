SPECIFICATION FairSpec
CONSTANTS
  Hosts <- TwoHosts
  Outputs <- SharedOutput
  Flows <- SharedFlows
  Source <- SharedSource
  Dest <- SharedDest
  Prio <- SharedPrio
  High = 3
  Low = 2
  HostTime = 1
  OutTime = 1
  WireTime = 0
  SwitchTime = 0
  Transports <- SharedTransports
  FlowPkts <- SharedPkts
  MaxPauses = 1
INVARIANTS
  DropsStayCharged
  PauseAgrees
  HeadroomSuffices
  OneServiceAtATime
  IteratorValid
 
CHECK_DEADLOCK FALSE
