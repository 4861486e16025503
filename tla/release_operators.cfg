SPECIFICATION Spec
CONSTANTS
  N = 1
  Image = {a, b}
  None = None
  MaxTasks = 2
  ReportsBeforeRetry = TRUE
  Operators = {"maintenance", "exitDuringRelease", "monitoring", "action"}
INVARIANTS
  GuardCovers
  NoStrandedInstance
SYMMETRY ImageSymmetry
CHECK_DEADLOCK FALSE
