CONSTANTS
  Process = {p1, p2}
  Admin = admin
  Client = {c1}
  Chunk = chunk
  Nil = Nil
  TimesOut = {"client"}
SPECIFICATION FairSpec
INVARIANTS ExitCleansUp
PROPERTIES CallReturns
CHECK_DEADLOCK FALSE
