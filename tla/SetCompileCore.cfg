SPECIFICATION Spec
CONSTANTS
  c1 = c1
  c2 = c2
  c3 = c3
  c4 = c4
  k1 = k1
  k2 = k2
  k3 = k3
  bad = bad
  e1 = e1
  e2 = e2
  None = None
  Calls = {c1, c2, c3, c4}
  Envs = {e1, e2}
  Keys = {k1, k2, k3}
  InvalidKeys = {}
  KeyBytes <- MCKeyBytes
  PoolSize = 2
  kSetCompileCacheMaxSize = 2
  kSetCompileCacheMaxKeyBytes = 4
  Faults = {"terminate"}
SYMMETRY Symm
INVARIANTS
  SingleFlight
  KeyBytesExact
  TeardownIsIsolated
PROPERTIES
  CompiledIsCached
