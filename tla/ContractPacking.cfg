SPECIFICATION Spec
CONSTANTS
  x = x
  y = y
  z = z
  m1 = m1
  m2 = m2
  own = own
  Txs = {1, 2, 3, 4}
  Contracts = {x, y, z}
  Calls <- MCCalls
  Msgs = {m1, m2, own}
  Own = {own}
  Loads <- MCLoads
  Moving = {x}
INVARIANTS
  TypeOK
  RestsOnBlock
  OneAfterAnother
  LostForCause
PROPERTIES
  LockFreed
CHECK_DEADLOCK FALSE
