CONSTANTS
  Capacity = 4
  MaxItems = 9
SPECIFICATION FairSpec
INVARIANTS
  TypeOK
  NoSlotRace
  FifoOrder
  DrainComplete
PROPERTIES
  DrainTerminates
  ImplementsFifo
