\* One reload by SIGHUP; two units that change twice; seven machines with GPUs.
CONSTANTS
  h1 = h1
  h2 = h2
  c1 = c1
  c2 = c2
  Handlers = {h1}
  Configs = {c1, c2}
  ReloadSources = {"sighup"}
  MaxReloads = 1
  SlowHandlers = {h1}
  u1 = u1
  u2 = u2
  r1 = r1
  NoService = NoService
  Units = {u1, u2}
  Requests = {r1}
  MaxUnitChanges = 2
  MaxSystemdErrors = 1
  NoList = NoList
  Machines <- MCMachines
  MaxRetries = 2
SPECIFICATION StartStopSpec
INVARIANTS
  ConfigInForce
  PartsTypeOK
  OneSourcePerVendor
  NoCollectorAfterStop
PROPERTIES
  ShutdownCompletes
  ReloadReachesTicker
  ServicesConverge
  StopGpuReturns
\* Nothing has to go on once it is stopped.
CHECK_DEADLOCK FALSE
