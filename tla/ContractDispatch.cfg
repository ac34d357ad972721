\* Three requests that share addresses, a node and a dispatcher.
SPECIFICATION Spec
CONSTANTS
  a = a
  b = b
  c = c
  free = free
  x = x
  y = y
  node = node
  dispatcher = dispatcher
  Nodes = {node, dispatcher}
  Requests = {a, b, c}
  Origin <- OriginAtNode
  Dispatchers = {dispatcher}
  Addresses = {x, y}
  Deps <- MCDeps
  Parts = 8
  ForceAge = 1
  MaxAge = 1
  SendFails = FALSE
  PackFails = FALSE
INVARIANTS
  TypeOK
  HeldUntilSent
  SharedTogether
PROPERTIES
  HeldReleased
CHECK_DEADLOCK FALSE
