\* Two reloads by SIGHUP in a row.
CONSTANTS
  h1 = h1
  h2 = h2
  c1 = c1
  c2 = c2
  Handlers = {h1}
  Configs = {c1, c2}
  ReloadSources = {"sighup"}
  MaxReloads = 2
  SlowHandlers = {h1}
SPECIFICATION FairSpec
PROPERTY ReloadReachesTicker
\* A reload that waits for the channel stops the event loop for good.
CHECK_DEADLOCK FALSE
