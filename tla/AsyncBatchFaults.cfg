SPECIFICATION FairSpec
CONSTANTS
  c1 = c1
  c2 = c2
  b1 = b1
  b2 = b2
  x = x
  y = y
  oom = oom
  None = None
  Gone = Gone
  Calls = {c1, c2}
  SetCalls = {c2}
  Buffers = {b1}
  Contents = {x, y}
  ErrorKinds = {oom}
  Stuck = {c1}
  MaxInputs = 1
  Faults = {"setup", "queue", "cancel", "status", "match", "result", "terminate"}
INVARIANTS
  BorrowedStaysIntact
  NothingRetained
PROPERTIES
  EveryBatchSettles
