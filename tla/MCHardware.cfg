SPECIFICATION AllFairSpec
CONSTANTS
  nwkKey = nwkKey
  name = name
  Pages = 3
  PageSize = 2
  Id = {nwkKey, name}
  hotIds = {nwkKey}
  Size <- EqualSizes
  Value = {v1, v2}
  TornErase = TRUE
  TX_MAX = 3
  CharTicks = 1
  TickMod = 4
  PowerTask = {app}
INVARIANTS
  WellFormed
  ReadsStored
  NothingSleptOver
PROPERTIES
  ImplementsStore
  BootEnds
  BytesInOrder
  EverythingSent
  Served
  GoesToSleep
CHECK_DEADLOCK FALSE
