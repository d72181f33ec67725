CONSTANTS
  Delays = {2, 4}
  Windows = {1, 2}
  FlowPkts = 4
  Gate = 1
  MaxTimeouts = 2
  Horizon = 4
SPECIFICATION Spec
INVARIANTS
  OnePacerEvent
  BurstBounded
PROPERTIES
  SilentAfterFinish
  SendsOn
