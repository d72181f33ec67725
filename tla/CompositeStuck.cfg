CONSTANTS
  DataSizes = {2}
  HeaderSize = 1
  MaxSize = 2
  HighLimit = 2
  RatioHigh = 2
  RatioLow = 1
  PhantomSize = 2
  PhantomStep = 2
  PhantomDrain = 3
  UsePhantom = TRUE
  FlowsActive = FALSE
  Horizon = 3
SPECIFICATION Spec
PROPERTY HeadersServed
