SPECIFICATION Spec
CONSTANTS
  Name = {n1, n2}
  Addr = {a0, a1, a2}
  CoordAddr = a0
  MyAddr = a1
  Broadcast = Broadcast
  NoEntry = NoEntry
  NAME_ADDR_CACHE_SIZE = 2
  TransIDMod = 3
  MaxOpen = 2
INVARIANTS
  TypeOK
  MatchIsOwn
