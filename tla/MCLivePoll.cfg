CONSTANTS
  Levels = 4
  IntRange = 32
  NumInstruments = 1
  NumShards = 1
  MaxOrderId = 3
  Room = 1
  MaxRefusals = 2
  MaxDrift = 0
  MaxOffset = 1
  MaxQty = 1
  MaxMessages = 2
  MaxPayload = 66
  Capacity = 2
  SocketRoom = 1
  MaxStarts = 1
  ReferencePrice <- MCReferencePrice
  StartPrices <- MCStartPrices
SPECIFICATION LiveSpec
PROPERTIES
  PollTerminates
CHECK_DEADLOCK FALSE
