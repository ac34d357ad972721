SPECIFICATION FairSpec
CONSTANTS
  Txs = {t1, t2}
  None = None
  Heights <- HeightsDef
  MaxJobs = 2
  Threshold = 2
  MapLimit = 0
  GoodTimes <- QuickDef
  BadTimes <- BadDef
  MaxFailures = 1
INVARIANTS
  TypeOK
  LookupFound
  FailedOnce
PROPERTY
  PackedInTheEnd
CHECK_DEADLOCK FALSE
