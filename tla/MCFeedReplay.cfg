CONSTANTS
  Levels = 4
  IntRange = 32
  NumInstruments = 3
  NumShards = 2
  MaxOrderId = 2
  Room = 1
  MaxRefusals = 1
  MaxDrift = 1
  MaxOffset = 1
  MaxQty = 2
  MaxMessages = 3
  ReferencePrice <- MCReferencePrice
  StartPrices <- MCStartPrices
SPECIFICATION MCFeedSpec
INVARIANTS
  LevelsAreOrders
  MatchesReference
PROPERTIES
  DrainTerminates
  ImplementsReplay
CHECK_DEADLOCK FALSE
