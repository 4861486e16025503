SPECIFICATION Spec
CONSTANTS
  FaultKinds = {"crash"}
  MaxFaults = 1
  MaxAttempts = 2
INVARIANTS
  SuccessInPlace
CHECK_DEADLOCK FALSE
