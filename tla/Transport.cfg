\* Two connections that use one descriptor after each other.
SPECIFICATION Spec
CONSTANTS
  Senders = {s1}
  Writers = {w1, w2}
  Readers = {r1, r2}
  MaxConns = 2
  Loads <- MCLoads
  MaxPacks = 2
  PackCells = 2
  SockCap = 2
  MaxLine = 2
  QueueCap = 1
INVARIANTS
  TypeOK
  OwnInOrder
  DeliveredOnce
PROPERTIES
  OutChannel
  InChannel
  OutDelivers
  InDelivers
CHECK_DEADLOCK FALSE
