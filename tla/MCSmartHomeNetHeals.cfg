SPECIFICATION PersistentSpec
CONSTANTS
  coord = coord
  door = door
  other = other
  Node = {coord, door, other}
  Coord = Coord
  DoorLight = DoorLight
  DoorLight2 = DoorLight2
  Sensor = Sensor
  Long = Long
  OtherName = Sensor
  Name = {Coord, DoorLight, Sensor}
  LightName = {DoorLight}
  CachedName <- MCCachedName
  Prefix <- MCPrefix
  a0 = a0
  a1 = a1
  a2 = a2
  a3 = a3
  Addr = {a0, a1, a2, a3}
  CoordAddr = a0
  Broadcast = Broadcast
  NoEntry = NoEntry
  InitName <- MCInitName
  Fitting <- MCFitting
  InitAddr <- MCInitAddr
  NAME_ADDR_CACHE_SIZE = 2
  TransIDMod = 2
  Command = {"Toggle"}
  Commander = {coord}
  Patient = TRUE
  SingleHop = TRUE
  MaxCommands = 0
  MaxFaults = 0
  MaxRenames = 0
  MaxResets = 0
  MaxRejoins = 3
PROPERTIES
  LightsAnswer
CHECK_DEADLOCK FALSE
