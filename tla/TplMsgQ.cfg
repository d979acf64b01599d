CONSTANTS
  Node = {n1, n2, n3}
  Data = {d1, d2}
  Big = {d2}
  NULL = NULL
  NoData = NoData
  Receiver = {r1, r2}
  iMsgQSize = 2
  MaxPosts = 2
  Wrap = 4
SPECIFICATION FairSpec
INVARIANTS TypeOK QueueOK NoneUnannounced
PROPERTIES FifoSpec ReceiverWakes
