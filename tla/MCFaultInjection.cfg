CONSTANTS
  Levels = 4
  IntRange = 32
  NumInstruments = 3
  MaxOrderId = 3
  MaxDrift = 1
  MaxOffset = 1
  MaxQty = 2
  MaxMessages = 3
  Scenarios = 2
  Orders = 4
  StartPrices <- MCStartPrices
  VenueReference = 10
SPECIFICATION MCHarnessSpec
INVARIANTS
  NbboIsBestResting
  InversionIsReported
  GuardIsExact
  HarnessPasses
  OrdersAreLive
  DepthIsLive
  OracleAgrees
CHECK_DEADLOCK FALSE
