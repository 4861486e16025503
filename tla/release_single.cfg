SPECIFICATION FairSpec
CONSTANTS
  N = 1
  Image = {a, b}
  None = None
  MaxTasks = 4
  ReportsBeforeRetry = TRUE
  Operators = {"maintenance"}
INVARIANTS
  TypeOK
  NotRoutedDuringUpdate
  OneEffectiveUpdate
PROPERTIES
  GuardDeletedDrained
  EventuallyEnds
CHECK_DEADLOCK FALSE
