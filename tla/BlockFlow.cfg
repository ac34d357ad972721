SPECIFICATION Spec
CONSTANTS
  b1 = b1
  b2 = b2
  t1 = t1
  t2 = t2
  n1 = n1
  n2 = n2
  n3 = n3
  n4 = n4
  Self = Self
  None = None
  Blocks = {b1, b2}
  FirstBlock = b1
  Accepted = {b1}
  Txs = {t1, t2}
  ContractTxs = {}
  VerifyNodes = {n1, n2}
  Level1Nodes = {n1, n3, n4}
  kConsensus = 2
  KReSend_node_threshold = 2
  MaxSigns = 3
  Duplicated = FALSE
INVARIANTS TypeOK RebuiltAfterBroadcast OneRebuildPerPhase DropNeedsQuorum
CHECK_DEADLOCK FALSE
SYMMETRY MCSymmetry
