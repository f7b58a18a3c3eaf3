CONSTANTS
    n1 = n1  n2 = n2  p1 = p1  p2 = p2  w1 = w1
    Nodes <- MCNodes
    Pods <- MCPods
    Workloads = {}
    Containers = {}
    WorkloadOf <- MCWorkloadOf
    Unset = 0
    Sizes = {0}
    OptOut = {}
    Stateful = {p1}
    Plans <- MCPlans
    Configs <- MCConfigs
    RegressWindow = 1
    QuarantineFor = 2
    CooldownInterval = 2
    BudgetWindow = 2
    MaxEvictions = 1
    EvictAttempts = 2
    Outcomes = {TRUE, FALSE}
    MaxPending = 1
    MaxTime = 2
    MaxHarm = 0
    MaxChaos = 1
SYMMETRY NodeSymmetry
SPECIFICATION Spec
CHECK_DEADLOCK FALSE
PROPERTY RefusalAborts
