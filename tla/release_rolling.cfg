SPECIFICATION Spec
CONSTANTS
  N = 2
  Image = {a, b}
  None = None
  MaxTasks = 5
  ReportsBeforeRetry = TRUE
  Operators = {}
INVARIANTS
  OneBusyStep
  CompletedRunsTarget
PROPERTIES
  ImplementsStagedRollout
SYMMETRY ImageSymmetry
CHECK_DEADLOCK FALSE
