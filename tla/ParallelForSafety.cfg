SPECIFICATION Spec
CONSTANTS
  s1 = s1
  s2 = s2
  s3 = s3
  None = None
  Requests <- MCRequests
  MCSizes = {0, 1, 3, 4}
  MCBytes = {3}
  MCBatchSizes = {0, 2}
  Batches = {s1}
  Observers = {}
  kMaxBatchInputCount = 4
  kBatchBytesPerThread = 1
  kBatchesPerThread = 2
  SizeMax = 15
  OpenMp = TRUE
  available = 6
  thread_limit = 8
  MayRaise = TRUE
INVARIANTS
  TypeOK
PROPERTIES
  ImplementsForEach
