SPECIFICATION FairSpec
CONSTANTS
  Txs = {t1}
  None = None
  Heights <- OneHeight
  MaxJobs = 1
  Threshold = 1
  MapLimit = 100
  GoodTimes <- SlowDef
  BadTimes <- BadDef
  MaxFailures = 0
PROPERTY
  PackedInTheEnd
CHECK_DEADLOCK FALSE
