CONSTANTS
  Node = {a, s}
  Entry <- TwoAudio
  pNode <- NodeOf
  Audio = {a}
  Video = {}
  Capable = {a}
  Refusing = {}
  Reporting = {a}
  Group = {g1, g2}
  NoGroup = NoGroup
  NoNode = NoNode
  NoEntry = NoEntry
  QueueSize = 0
SYMMETRY Symmetry
SPECIFICATION Spec
INVARIANTS MembersOwned DirectionsAgree
PROPERTIES TargetSpec
