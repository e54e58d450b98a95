SPECIFICATION Spec
CONSTANTS
  None = None
  Window = 1
  PartLimit = 1
  MaxMessages = 2
  MaxParts = 2
  MaxSize = 3
  MaxCached = 1
  MaxDirty = 1
  MaxChanges = 3
  MaxFaults = 1
INVARIANTS
  CacheAgrees
PROPERTIES
  FreshReadIsFresh
  PassSeesEverything
CHECK_DEADLOCK FALSE
