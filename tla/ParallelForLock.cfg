SPECIFICATION FairSpec
CONSTANTS
  s1 = s1
  s2 = s2
  s3 = s3
  None = None
  Requests <- MCRequests
  MCSizes = {2}
  MCBytes = {2}
  MCBatchSizes = {0, 1, 3}
  Batches = {s1, s2, s3}
  Observers = {s3}
  kMaxBatchInputCount = 2
  kBatchBytesPerThread = 1
  kBatchesPerThread = 2
  SizeMax = 15
  OpenMp = TRUE
  available = 4
  thread_limit = 8
  MayRaise = TRUE
INVARIANTS
  OneTeam
  StaysOnCaller
PROPERTIES
  EveryBatchEnds
