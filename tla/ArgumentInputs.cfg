SPECIFICATION ArgumentsSpec
CONSTANTS
  kBatchBytesPerThread = 2
  kBatchesPerThread = 3
  SizeMax = 15
  OpenMp = TRUE
  available = 12
  thread_limit = 7
  kMaxSafeInteger = 13
  Sizes = {0, 1, 2, 5, 11}
  Numbers <- MCNumbers
  MaxHalves = 28
INVARIANTS
  PlanCovers
  ThreadsEarnTheirKeep
  AutomaticChunks
  RangeIsDocumented
  OmittedLengthIsTheRest
  BatchSizeIsDocumented
