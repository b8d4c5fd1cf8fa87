SPECIFICATION Spec
CONSTANTS
  coord = coord
  door = door
  other = other
  Node = {coord, door, other}
  Coord = Coord
  DoorLight = DoorLight
  DoorLight2 = DoorLight2
  Sensor = Sensor
  Long = Long
  OtherName = Long
  Name = {Coord, DoorLight, Long}
  LightName = {DoorLight}
  CachedName <- MCCachedName
  Prefix <- MCPrefix
  a0 = a0
  a1 = a1
  a2 = a2
  a3 = a3
  Addr = {a0, a1, a2, a3}
  CoordAddr = a0
  Broadcast = Broadcast
  NoEntry = NoEntry
  InitName <- MCInitName
  Fitting <- MCFitting
  InitAddr <- MCInitAddr
  NAME_ADDR_CACHE_SIZE = 2
  TransIDMod = 4
  Command = {"Toggle"}
  Commander = {coord}
  Patient = FALSE
  SingleHop = FALSE
  MaxCommands = 2
  MaxFaults = 1
  MaxRenames = 1
  MaxResets = 1
  MaxRejoins = 1
INVARIANTS
  TypeOK
  OnlyTruthsCached
PROPERTIES
  LightObeysOwnName
CHECK_DEADLOCK FALSE
