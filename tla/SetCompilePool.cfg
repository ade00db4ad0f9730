SPECIFICATION FairSpec
CONSTANTS
  c1 = c1
  c2 = c2
  c3 = c3
  c4 = c4
  k1 = k1
  k2 = k2
  k3 = k3
  bad = bad
  e1 = e1
  e2 = e2
  None = None
  Calls = {c1, c2, c3}
  Envs = {e1, e2}
  Keys = {k1}
  InvalidKeys = {}
  KeyBytes <- MCKeyBytes
  PoolSize = 1
  kSetCompileCacheMaxSize = 1
  kSetCompileCacheMaxKeyBytes = 4
  Faults = {"queue", "cancel", "compile", "terminate"}
INVARIANTS
  WaiterBehindOwner
PROPERTIES
  EveryCallSettles
