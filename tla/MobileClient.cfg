SPECIFICATION FairSpec
CONSTANTS
  Txns = {t1, t2}
  Writers = {t2}
  MaxNotOpen = 1
  MaxIds = 6
  t1 = t1
  t2 = t2
INVARIANTS TypeOK OwnAnswer Released
PROPERTY Settles
CHECK_DEADLOCK FALSE
