\* Two plugins of one system collection, one never cached, and reloads that disable the cache.
CONSTANTS
  r1 = r1
  r2 = r2
  None = None
  Keys = {"cpu", "fs"}
  Kind <- MCKind
  Held = {"fs"}
  Requests = {r1, r2}
  TTLs <- PartlyCachedTTLs
  MaxStoreDelay = 1
  MaxTime = 3
SPECIFICATION Spec
SYMMETRY RequestSymmetry
INVARIANTS
  HonestTimestamps
PROPERTIES
  BoundedAge
  ZeroDisablesCaching
