\* Requests that arrive while a flush runs.
SPECIFICATION Spec
CONSTANTS
  a = a
  b = b
  c = c
  free = free
  x = x
  y = y
  node = node
  dispatcher = dispatcher
  Nodes = {node, dispatcher}
  Requests = {a, b}
  Origin <- OriginAtNode
  Dispatchers = {dispatcher}
  Addresses = {x, y}
  Deps <- MCDeps
  Parts = 8
  ForceAge = 1
  MaxAge = 1
  SendFails = FALSE
  PackFails = FALSE
INVARIANTS
  StoredUntilFlushed
CHECK_DEADLOCK FALSE
