\* The collector beside db.maintain, smart refreshes and reloads and clock steps at any time.
CONSTANTS
  Plugins = {smart}
  SmartPlugins = {smart}
  TopLevel = 2
  Window <- MCWindow2
  MinRows <- MCMinRows2
  Retention <- MCRetention2
  Commands = {"maintain", "refresh", "reload"}
  MaxTime = 3
  MaxAdvance = 2
  MaxStepBack = 1
SPECIFICATION Spec
INVARIANT
  NoDoubleAggregation
PROPERTY HistoryIsKept
\* The clock is bounded: a behaviour may end when it reaches MaxTime.
CHECK_DEADLOCK FALSE
