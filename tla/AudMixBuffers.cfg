CONSTANTS
  Buffer = {b1, b2}
  Thread = {t1, t2}
  NULL = NULL
  DestSize = 2
  MaxData = 2
SPECIFICATION FairSpec
INVARIANTS ListsOK HandsOK SourceOK
PROPERTIES PoolSpec WaiterWakes
