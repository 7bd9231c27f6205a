\* SMART refreshes with the cache of the plugin enabled.
CONSTANTS
  r1 = r1
  r2 = r2
  None = None
  Keys = {"smart"}
  Kind <- MCKind
  Held = {}
  Requests = {r1, r2}
  TTLs <- ReloadedTTLs
  MaxStoreDelay = 1
  MaxTime = 3
SPECIFICATION Spec
SYMMETRY RequestSymmetry
INVARIANT RefreshAnswersRefreshed
