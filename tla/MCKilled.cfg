SPECIFICATION Spec
CONSTANTS
    c1 = c1
    c2 = c2
    p1 = p1
    Calls = {c1}
    Planners = {p1}
    Times = {1, 2, 3, 4}
    Restarts <- MCRestarts
    CheckpointEvery = 2
    Cadence = 2
    MaxPerCluster = 2
    CostLimit = 2
    PlanHistoryLimit = 1
    MaxSends = 2
    MaxPlans = 1
    MaxStarts = 2
INVARIANT
    AnyOOMRaisesTheFloor
\* The bounds are used up: no more requests, no more restarts.
CHECK_DEADLOCK FALSE
