CONSTANTS
    n1 = n1  c1 = c1  c2 = c2  w1 = w1
    Nodes = {n1}
    Pods = {}
    Workloads = {w1}
    Containers = {c1, c2}
    WorkloadOf <- MCWorkloadOf
    Unset = 0
    Sizes = {1, 2}
    OptOut = {}
    Stateful = {}
    Plans <- MCPlans
    Configs <- MCConfigs
    Outcomes = {TRUE, FALSE}
    RegressWindow = 1
    QuarantineFor = 2
    CooldownInterval = 2
    BudgetWindow = 2
    MaxEvictions = 1
    EvictAttempts = 2
    MaxPending = 1
    MaxTime = 3
    MaxHarm = 1
    MaxChaos = 1
SPECIFICATION PromptSpec
CHECK_DEADLOCK FALSE
INVARIANTS
    TypeOK
    WatchedIsRevertible
    OneResizePerWorkload
    DryRunWritesNothing
PROPERTIES
    
    StartsApproved
    
