SPECIFICATION Spec
CONSTANTS
    Nodes <- MCNodes
    Pods <- MCPods
    Workloads <- MCWorkloads
    WorkloadOf <- MCWorkloadOf
    Budgets <- MCBudgets
    Covers <- MCCovers
    Allowances <- MCAllowances
    Alloc <- MCAlloc
    Cost <- MCCost
    Zone <- MCZone
    Requests <- MCRequests
    Homes <- MCHomes
    Admits <- MCAdmits
    MaxSkew <- MCMaxSkew
    Target <- MCTarget
    Apart = {"db"}
    DaemonSets = {"agent"}
    Guarded = {"task"}
    Bound = {6}
    OutOfBounds = {}
    Declared = {"api"}
    MinUtilization = 60
    Headroom = 20
    MaxNodeRemovals = 2
    MaxPodsPerNode = 4
INVARIANT
    HeadroomIsUsable
\* The plan is built: the planner stops.
CHECK_DEADLOCK FALSE
