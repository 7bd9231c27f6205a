\* Two intervals; machines of a CPU, of two disks, of two interfaces and a filtered one.
CONSTANTS
  dflt = dflt
  live = live
  cpu = cpu
  sda = sda
  sdb = sdb
  eth = eth
  tun = tun
  lo = lo
  None = None
  Intervals = {dflt, live}
  Default = dflt
  Disks = {sda, sdb}
  Root = sda
  Nics = {eth, tun, lo}
  NicConfig <- MCNicConfig
  AutoSkipped = {lo}
  CPU = cpu
  Machines <- MCMachines
  MinElapsed = 2
  MaxDiskRate = 1
  MaxNetRate = 2
  PerSecond = 2
  Wrap = 12
  UsageCache = 2
  MaxBytes = 3
  MaxPlugs = 2
  MaxTime = 3
SPECIFICATION Spec
INVARIANT TypeOK
PROPERTIES
  RatesImplementPromise
  BandwidthIsTraffic
  UsageIsRecent
\* The clock is bounded: a behaviour may end when it reaches MaxTime.
CHECK_DEADLOCK FALSE
