CONSTANTS
  Levels = 5
  IntRange = 32
  NumInstruments = 1
  MaxOrderId = 3
  MaxDrift = 0
  MaxOffset = 3
  MaxQty = 2
  MaxMessages = 3
  StartPrices <- MCStartPrices
  ReferencePrice <- MCReferencePrice
SPECIFICATION ReaderSpec
INVARIANTS
  TouchIsRecent
  DepthIsRecent
PROPERTIES
  ImplementsReplay
CHECK_DEADLOCK FALSE
