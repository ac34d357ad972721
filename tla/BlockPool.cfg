\* Broadcast and synchronised blocks, one pair of which conflicts,
\* failing reads, and a rollback the peers may confirm.
SPECIFICATION Spec
CONSTANTS
  g = g
  a = a
  rival = rival
  b = b
  c = c
  Blocks = {g, a, rival, b}
  Genesis = g
  Height <- MCHeight
  Time <- MCTime
  Prev <- MCPrev
  Spends <- MCSpends
  Unstakes = {a}
  Broadcasted = {a, rival, b}
  Synced = {a}
  Sought = {b}
  Disputed = {rival}
  MaxLag = 1
  PendingLag = 0
  PendingCap = 2
  PeersConfirm = TRUE
  DbFails = TRUE
INVARIANTS
  TypeOK
  PendingTried
  RecursionClimbs
PROPERTIES
  PolledUnlessStopped
  PendingReleased
  TriedBeforeDropped
CHECK_DEADLOCK FALSE
