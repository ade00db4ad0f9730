SPECIFICATION Spec
CONSTANTS
  b1 = b1
  b2 = b2
  Buffers = {b1, b2}
  Contents <- MCContents
  Values <- MCValues
  Numbers <- MCNumbers
  Refused <- MCRefused
  kMaxBatchInputCount = 2
  kMaxSetPatternCount = 2
  kMaxPatternBytes = 3
  MaxCount = 3
  WordBytes = 2
  ByteBase = 2
  kBatchBytesPerThread = 2
  kBatchesPerThread = 3
  SizeMax = 3
  OpenMp = TRUE
  available = 12
  thread_limit = 7
  kMaxSafeInteger = 3
INVARIANTS
  CallTypeOK
  TextsAreInputs
  SnapshotIsInputs
  KeyHoldsPatterns
  LimitsAreExact
