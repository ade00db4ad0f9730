SPECIFICATION Spec
CONSTANTS
  c1 = c1
  c2 = c2
  b1 = b1
  b2 = b2
  x = x
  y = y
  oom = oom
  None = None
  Gone = Gone
  Calls = {c1}
  SetCalls = {c1}
  Buffers = {b1, b2}
  Contents = {x, y}
  ErrorKinds = {oom}
  Stuck = {}
  MaxInputs = 2
  Faults = {"match", "queue"}
SYMMETRY Symm
INVARIANTS
  TypeOK
  ResolvesToSubmitted
