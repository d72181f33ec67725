CONSTANTS
  DataSizes = {1, 2}
  HeaderSize = 1
  MaxSize = 2
  HighLimit = 2
  RatioHigh = 2
  RatioLow = 1
  PhantomSize = 1
  PhantomStep = 1
  PhantomDrain = 3
  UsePhantom = TRUE
  FlowsActive = TRUE
  Horizon = 3
SPECIFICATION Spec
INVARIANTS TypeOK EventsMatch WorkConserving BoundedOvertaking
PROPERTIES EveryQueueServed
