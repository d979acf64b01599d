CONSTANTS
  Node = {a, v, s}
  Entry <- OneEach
  pNode <- NodeOf
  Audio = {a}
  Video = {v}
  Capable = {a, v}
  Refusing = {v}
  Reporting = {a, v}
  Group = {g1}
  NoGroup = NoGroup
  NoNode = NoNode
  NoEntry = NoEntry
  QueueSize = 1
SPECIFICATION FairSpec
INVARIANTS MainIsBest CapsCombined NobodyStuck
PROPERTIES CallsReturn
