CONSTANTS
  Kinds <- AllKinds
  Buffer = {1, 2, 3}
  Initial = 2
  MaxSize = 1
  NULL = NULL
SPECIFICATION FairSpec
INVARIANTS BuffersAccounted NothingOutlives
PROPERTIES ClientOwnerSpec UnlinkReturns
CHECK_DEADLOCK FALSE
