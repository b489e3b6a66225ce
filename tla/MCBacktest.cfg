CONSTANTS
  Levels = 4
  IntRange = 10
  NumInstruments = 1
  MaxOrderId = 3
  MaxDrift = 0
  MaxOffset = 2
  MaxQty = 2
  MaxMessages = 7
  StartPrices <- MCStartPrices
  PlacementInterval = 2
  Ttl = 3
SPECIFICATION BacktestSpec
INVARIANTS
  TrackersMatchOracle
  BooksAgree
  EveryOrderOnce
  NaiveFillsFirst
PROPERTIES
  FillsFromTheFront
CHECK_DEADLOCK FALSE
