SPECIFICATION Spec
CONSTANTS
  Name = {n1, n2, n3, n4}
  Addr = {a1, a2, a3, a4}
  Broadcast = Broadcast
  NoEntry = NoEntry
  NAME_ADDR_CACHE_SIZE = 3
INVARIANTS
  TypeOK
  OneToOne
PROPERTIES
  ImplementsDirectory
