\* Calls for two intervals that fail or are cancelled at any step.
CONSTANTS
  c1 = c1
  c2 = c2
  i1 = i1
  i2 = i2
  Containers = {c1, c2}
  Intervals = {i1, i2}
  None = None
  Capacity = 1
  MaxCalls = 3
SPECIFICATION Spec
SYMMETRY DockerSymmetry
INVARIANTS
  NoWorkerOutlivesCall
  RatesAreExact
  TokensComeBack
PROPERTIES
  AnswerIsFresh
\* The number of calls is bounded.
CHECK_DEADLOCK FALSE
