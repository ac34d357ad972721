\* Peers return the disputed block.
SPECIFICATION Spec
CONSTANTS
  g = g
  a = a
  rival = rival
  b = b
  c = c
  Blocks = {g, a, b}
  Genesis = g
  Height <- MCHeight
  Time <- MCTime
  Prev <- MCPrev
  Spends <- MCSpends
  Unstakes = {}
  Broadcasted = {a, b}
  Synced = {}
  Sought = {}
  Disputed = {a}
  MaxLag = 1
  PendingLag = 2
  PendingCap = 2
  PeersConfirm = TRUE
  DbFails = FALSE
PROPERTIES
  RollbackPolled
CHECK_DEADLOCK FALSE
