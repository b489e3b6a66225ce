CONSTANTS
  Levels = 4
  IntRange = 32
  NumInstruments = 3
  NumShards = 2
  MaxOrderId = 2
  Room = 2
  MaxRefusals = 1
  MaxAccepted = 4
  ReferencePrice <- MCReferencePrice
SPECIFICATION MCSpec
INVARIANTS
  TypeOK
  TopOfBook
  DrainComplete
CHECK_DEADLOCK FALSE
