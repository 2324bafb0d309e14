SPECIFICATION FairSpec
CONSTANTS
  Statuses <- MCStatuses
  MaxCall = 2
INVARIANTS WithinBudget FailsClosed NoFalseDowngrade CachedFromOk
PROPERTIES WalkEnds
