\* The collector alone: ticks, missed ticks, outages and crashes.
CONSTANTS
  Plugins = {cpu}
  SmartPlugins = {}
  TopLevel = 3
  Window <- MCWindow
  MinRows <- MCMinRows
  Retention <- MCRetention
  Commands = {}
  MaxTime = 13
  MaxAdvance = 2
  MaxStepBack = 0
SPECIFICATION Spec
INVARIANTS
  CompleteAggregates
  CaughtUpBeforeDelete
\* The clock is bounded: a behaviour ends when it reaches MaxTime.
CHECK_DEADLOCK FALSE
