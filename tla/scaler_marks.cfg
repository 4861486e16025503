SPECIFICATION Spec
CONSTANTS
    Pod = {p1, p2, p3}
    MinReplicas = 0
    MaxReplicas = 2
    ScaleUpStep = 1
    FailoverReplicas = 1
    Faults = {"refuse", "slow"}
INVARIANT RemovalsMarked
SYMMETRY PodSymmetry
CHECK_DEADLOCK FALSE
