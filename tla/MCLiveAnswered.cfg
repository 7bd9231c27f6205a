\* Requests that fail at every step, and the collector, on one mutex.
CONSTANTS
  r1 = r1
  r2 = r2
  None = None
  Keys = {"programs", "smart"}
  Kind <- MCKind
  Held = {}
  Requests = {r1, r2}
  TTLs <- PartlyCachedTTLs
  MaxStoreDelay = 1
  MaxTime = 1
SPECIFICATION FairSpec
PROPERTY RequestsAreAnswered
