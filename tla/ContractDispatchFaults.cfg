\* Two dispatchers, failing sends and packagers, more groups than parts.
SPECIFICATION Spec
CONSTANTS
  a = a
  b = b
  c = c
  free = free
  x = x
  y = y
  node = node
  dispatcher = dispatcher
  Nodes = {node, dispatcher}
  Requests = {a, b, free}
  Origin <- OriginApart
  Dispatchers = {node, dispatcher}
  Addresses = {x, y}
  Deps <- MCDeps
  Parts = 1
  ForceAge = 1
  MaxAge = 1
  SendFails = TRUE
  PackFails = TRUE
INVARIANTS
  SentOnce
  FlushedOnce
CHECK_DEADLOCK FALSE
