\* Three databases, a schema of two statements, up to two rows, moves not interrupted;
\* three commands, starts, menus or edits of the configuration; an interval of a
\* quarter of the cache time, as 15 s are of 60 s; machines with one or two drives, two
\* of which are changed; up to three GPUs with two samples each.
CONSTANTS
  None = None
  SchemaSteps = 2
  MaxCommits = 4
  MaxGen = 3
  MovesInterrupted = FALSE
  s1 = s1
  s2 = s2
  Commanders = {s1, s2}
  Settable = {"a", "b"}
  DefaultValue = "a"
  BadValue = "bad"
  Overrides <- MCOverrides
  MaxFileChanges = 3
  MaxSaveFailures = 1
  Missing = Missing
  Empty = Empty
  Torn = Torn
  NoRow = NoRow
  Interval = 1
  CacheTime = 4
  MaxDuration = 1
  MaxTime = 9
  NoData = NoData
  Drives <- MCDrives
  DriveSets <- MCDriveSets
  Settings <- MCSettings
  Namespace <- MCNamespace
  MaxDriveChanges = 2
  card0 = card0
  h0 = h0
  h1 = h1
  GpuMachines <- MCGpuMachines
  Others = {card0}
  Keys = {h0, h1}
  MaxSlots = 3
  MaxSamples = 2
SPECIFICATION KeptStateSpec
INVARIANTS
  KeptTypeOK
  NothingLost
  OnlyValidInForce
  RowsAreRecent
  ExcludedNeverRead
  EntriesKeepTheirName
PROPERTIES
  HealthyStays
  CheckIsHonest
  RepairRestores
  SetIsAllOrNothing
  VerifiedDevicesStay
  SleepersAreLeftAlone
  ReportsCoverNewSamples
\* The clock is bounded: a behaviour of the collector ends when it reaches MaxTime.
CHECK_DEADLOCK FALSE
