SPECIFICATION Spec
CONSTANTS
  b1 = b1
  b2 = b2
  t1 = t1
  t2 = t2
  n1 = n1
  n2 = n2
  n3 = n3
  n4 = n4
  Self = Self
  None = None
  Blocks = {b1, b2}
  FirstBlock = b1
  Accepted = {b1, b2}
  Txs = {t1, t2}
  ContractTxs = {t2}
  VerifyNodes = {n1, n2}
  Level1Nodes = {n2}
  kConsensus = 3
  KReSend_node_threshold = 2
  MaxSigns = 3
  Duplicated = TRUE
INVARIANTS BroadcastOnce
PROPERTIES FlowReleased StatusReleased
CHECK_DEADLOCK FALSE
