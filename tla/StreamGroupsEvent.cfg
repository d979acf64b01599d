CONSTANTS
  Node = {a, v}
  Entry <- OneEach
  pNode <- NodeOf
  Audio = {a}
  Video = {v}
  Capable = {a, v}
  Refusing = {}
  Reporting = {a, v}
  Group = {g1}
  NoGroup = NoGroup
  NoNode = NoNode
  NoEntry = NoEntry
  QueueSize = 1
SPECIFICATION Spec
INVARIANTS EventReadsLiveEntry
