CONSTANTS
  Process = {p1, p2}
  Admin = admin
  Client = {c1, c2}
  Chunk = chunk
  Nil = Nil
  TimesOut = {"area", "list", "client"}
SPECIFICATION Spec
SYMMETRY Symmetry
INVARIANTS ListedAllocated AnswerTrue
PROPERTIES ShutdownOnlyOnRequest
CHECK_DEADLOCK FALSE
