\* Three databases, a schema of two statements and up to two rows; moves are not interrupted.
CONSTANTS
  None = None
  SchemaSteps = 2
  MaxCommits = 4
  MaxGen = 3
  MovesInterrupted = FALSE
SPECIFICATION Spec
INVARIANT AdviceHelps
