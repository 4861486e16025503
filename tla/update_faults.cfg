SPECIFICATION FairSpec
CONSTANTS
  FaultKinds = {"refuse", "timeout", "startup", "crash", "lost"}
  MaxFaults = 4
  MaxAttempts = 5
INVARIANTS
  TypeOK
  OneRunning
  OldKept
  FailureRestores
  SuccessReplaces
PROPERTIES
  EventuallyReported
  ImplementsAtomicUpdate
CHECK_DEADLOCK FALSE
