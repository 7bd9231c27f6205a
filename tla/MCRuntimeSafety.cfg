\* Every source of reloads, with a handler that ends within server shutdown and one that may not.
CONSTANTS
  h1 = h1
  h2 = h2
  c1 = c1
  c2 = c2
  Handlers = {h1, h2}
  Configs = {c1, c2}
  ReloadSources = {"sighup", "command"}
  MaxReloads = 3
  SlowHandlers = {h2}
SPECIFICATION Spec
INVARIANTS
  CollectorUsesLiveResources
  CommandsSeeOpenStore
  NothingRunsAfterExit
\* A reload that waits for the channel stops the event loop for good.
CHECK_DEADLOCK FALSE
