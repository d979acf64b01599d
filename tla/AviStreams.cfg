CONSTANTS
  a = a
  v = v
  Stream = {a, v}
  Last <- LastEntry
  KeyFrames <- Keys
  FrameSize <- Sizes
  MaxBufSize = 2
  NULL = NULL
SPECIFICATION FairSpec
INVARIANTS OwnFrames
PROPERTIES DecoderContinuous ClockOfRun FetchReturns
