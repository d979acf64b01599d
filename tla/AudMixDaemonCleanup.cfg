CONSTANTS
  Process = {p1, p2}
  Admin = admin
  Client = {c1, c2}
  Chunk = chunk
  Nil = Nil
  TimesOut = {"result"}
SPECIFICATION Spec
INVARIANTS UnlinkedBeforeCleanup
CHECK_DEADLOCK FALSE
