\* A session of two volumes: one pass dies, an operator intervenes once.
SPECIFICATION Spec
CONSTANTS
  v1 = v1
  v2 = v2
  Volumes = {v1, v2}
  MaxCrashes = 1
  MaxHands = 1
  MayRevive = TRUE
CHECK_DEADLOCK FALSE
INVARIANTS CleansWhole
PROPERTIES LiveSpared StorageFreed
