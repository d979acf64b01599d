CONSTANTS
  Node = {1, 2, 3, 4, 5, 6, 7, 8, 9, 10, 11, 12}
  Root = Root
  NULL = NULL
  file = file
  gbm = gbm
  vout = vout
  nullout = nullout
  Plugin = {file, gbm, vout, nullout}
  Instance = {1, 2, 3, 4, 5, 6, 7}
  Usable <- PluginsFor
  Shape <- PluginShapes
  OpenLevels = {5, 6}
SPECIFICATION FairSpec
INVARIANTS TreeOK RefsExact RestOK
PROPERTIES OldTreesKept UseSpec CallsReturn
CHECK_DEADLOCK FALSE
