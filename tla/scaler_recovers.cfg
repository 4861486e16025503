SPECIFICATION FairSpec
CONSTANTS
    Pod = {p1, p2}
    MinReplicas = 0
    MaxReplicas = 2
    ScaleUpStep = 1
    FailoverReplicas = 1
    Faults = {"refuse", "timeout", "lost", "short"}
INVARIANT TypeOK
PROPERTY EventuallyMinimum
CHECK_DEADLOCK FALSE
