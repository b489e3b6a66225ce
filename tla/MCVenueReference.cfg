CONSTANTS
  Levels = 4
  IntRange = 32
  NumInstruments = 1
  MaxOrderId = 3
  MaxDrift = 1
  MaxOffset = 1
  MaxQty = 2
  MaxMessages = 5
  StartPrices <- MCStartPrices
  VenueReference = 30
SPECIFICATION VenueSpec
INVARIANTS
  WalksAroundVenueReference
CHECK_DEADLOCK FALSE
