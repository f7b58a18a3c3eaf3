---- MODULE Planner ----
(***************************************************************************)
(* plan.Build of pkg/plan: rightsizing, then the removal of one node after *)
(* another, each tried out on a copy of the cluster (tryRemove, pkg/       *)
(* binpack) against the disruption budgets of the snapshot.  A removal     *)
(* stands for its steps: the cordon, an eviction per pod, the deletion.    *)
(* Resources are natural numbers, one vCPU and 4 GiB being the same size.  *)
(***************************************************************************)
EXTENDS Safety, Sequences, FiniteSetsExt

CONSTANTS
    Nodes, Pods,                \* natural numbers: nodes are ordered by name, pods by UID
    Workloads, WorkloadOf,      \* WorkloadOf[p]: the workload of pod p
    Budgets, Covers,            \* Covers[b]: the pods disruption budget b selects
    Alloc, Cost,                \* Alloc[n][d]: what node n can give; Cost[n]: its price
    Requests, Allowances, Homes, \* the requests, allowed disruptions and placements of a snapshot
    Admits,                     \* Admits[p]: the nodes p's selectors, affinity and tolerations allow
    Zone, Apart, MaxSkew,       \* topology: Apart workloads never share a zone, MaxSkew[w] bounds the others
    DaemonSets, Guarded,        \* workloads that run on every node; workloads not in apply mode
    Bound,                      \* pods nobody would recreate elsewhere: bare, or with local storage
    OutOfBounds,                \* control-plane nodes and those another autoscaler manages
    Declared, Target,           \* declared workloads; Target[w]: a confident recommendation
    MinUtilization, Headroom,   \* percentages
    MaxNodeRemovals, MaxPodsPerNode

Dims == {"cpu", "mem"}
Nowhere == 0

ASSUME SnapshotAssumption ==
    /\ Nodes \subseteq Nat \ {Nowhere} /\ IsFiniteSet(Nodes)
    /\ Pods \subseteq Nat /\ IsFiniteSet(Pods)
    /\ WorkloadOf \in [Pods -> Workloads]
    /\ Covers \in [Budgets -> SUBSET Pods]
    /\ Allowances \subseteq [Budgets -> Int]
    /\ Homes \subseteq [Pods -> Nodes \cup {Nowhere}]
    /\ Alloc \in [Nodes -> [Dims -> Nat \ {0}]] /\ Cost \in [Nodes -> Nat]
    /\ Requests \subseteq [Pods -> [Dims -> Nat]]
    /\ Target \in [DOMAIN Target -> [Dims -> Nat]]
    /\ MaxNodeRemovals \in Nat /\ MaxPodsPerNode \in Nat

VARIABLES
    allowed, lively,                    \* the snapshot: budgets, nodes that are ready and not cordoned
    home,                               \* and the pods' nodes
    req, nodes, place, ledger,          \* the authoritative copy that the accepted removals evolve
    plan, resizes, targeted,            \* the plan so far and the nodes it counts on
    pc, tried, victim, reserved, assign \* one round, one tryRemove

snapVars == <<allowed, lively, home>>
planVars == <<req, nodes, place, plan, resizes, targeted>>
vars == <<snapVars, planVars, ledger, pc, tried, victim, reserved, assign>>

NoAssignment == [p \in {} |-> Nowhere]

Init ==
    /\ allowed \in Allowances /\ lively \in SUBSET Nodes /\ home \in Homes
    /\ req \in Requests /\ nodes = Nodes /\ place = home /\ ledger = PDBLedger(allowed)
    /\ plan = <<>> /\ resizes = {} /\ targeted = {}
    /\ pc = "rightsize" /\ tried = {} /\ victim = Nowhere /\ reserved = {} /\ assign = NoAssignment

(* ---- Rightsizing ---- *)

\* The accepted recommendations resize the copies of the pods; one that meets no pod and no
\* declared workload is stale and yields no step.
Rightsize ==
    /\ pc = "rightsize"
    /\ LET accepted == DOMAIN Target \ Guarded IN
       /\ req' = [p \in Pods |-> IF WorkloadOf[p] \in accepted THEN Target[WorkloadOf[p]] ELSE req[p]]
       /\ resizes' = {w \in accepted : w \in Declared \/ \E p \in Pods : WorkloadOf[p] = w}
    /\ pc' = "pick"
    /\ UNCHANGED <<snapVars, nodes, place, plan, targeted, ledger, tried, victim, reserved, assign>>

(* ---- The candidates of a round, best first ---- *)

Requested(S, d) == MapThenSumSet(LAMBDA p : req[p][d], S)
PlacedOn(n) == {p \in Pods : place[p] = n}

IsDaemon(p) == WorkloadOf[p] \in DaemonSets
BlocksDrain(p) == ~IsDaemon(p) /\ (p \in Bound \/ WorkloadOf[p] \in Guarded)

\* Mutant: a node that this plan moved pods to may be removed next.
CandidatesAgain ==
    {n \in nodes \ tried :
        /\ n \in lively /\ n \notin OutOfBounds
        /\ \A p \in PlacedOn(n) : ~BlocksDrain(p)
        /\ \A d \in Dims : 100 * Requested(PlacedOn(n), d) < MinUtilization * Alloc[n][d]}

Candidates ==
    {n \in nodes \ tried :
        /\ n \in lively /\ n \notin OutOfBounds /\ n \notin targeted
        /\ \A p \in PlacedOn(n) : ~BlocksDrain(p)
        /\ \A d \in Dims : 100 * Requested(PlacedOn(n), d) < MinUtilization * Alloc[n][d]}

\* The least used node first, then the dearest, then by name.
LessUsed(m, n) ==
    \A d \in Dims : \E e \in Dims :
        Requested(PlacedOn(m), d) * Alloc[n][e] < Requested(PlacedOn(n), e) * Alloc[m][d]
RanksBefore(m, n) ==
    \/ LessUsed(m, n)
    \/ ~LessUsed(n, m) /\ (Cost[m] > Cost[n] \/ (Cost[m] = Cost[n] /\ m < n))

Pick ==
    /\ pc = "pick" /\ Len(plan) < MaxNodeRemovals
    /\ \E n \in Candidates :
        /\ \A m \in Candidates \ {n} : RanksBefore(n, m)
        /\ victim' = n
    /\ pc' = "reserve" /\ reserved' = {} /\ assign' = NoAssignment
    /\ UNCHANGED <<snapVars, planVars, ledger, tried>>

\* Every removal allowed is made, or no candidate of the round can go.
Stop ==
    /\ pc = "pick" /\ (Len(plan) >= MaxNodeRemovals \/ Candidates = {})
    /\ pc' = "done"
    /\ UNCHANGED <<snapVars, planVars, ledger, tried, victim, reserved, assign>>

(* ---- tryRemove: reserve, place, look at the headroom, commit or roll back ---- *)

Evictable == {p \in PlacedOn(victim) : ~IsDaemon(p)}
Covering(p) == {b \in Budgets : p \in Covers[b]}

\* One disruption from every budget that covers the pod.
Reserve(p) ==
    /\ pc = "reserve" /\ p \in Evictable \ reserved
    /\ CanReserve(ledger, Covering(p))
    /\ ledger' = Reserved(ledger, Covering(p)) /\ reserved' = reserved \cup {p}
    /\ UNCHANGED <<snapVars, planVars, pc, tried, victim, assign>>

\* Mutant: the candidate is given up with what it has reserved.
RefusedForGood(p) ==
    /\ pc = "reserve" /\ p \in Evictable \ reserved
    /\ ~CanReserve(ledger, Covering(p))
    /\ pc' = "pick" /\ tried' = tried \cup {victim} /\ reserved' = {}
    /\ UNCHANGED <<snapVars, planVars, ledger, victim, assign>>

\* A budget is spent: what was reserved for this candidate goes back.
Refused(p) ==
    /\ pc = "reserve" /\ p \in Evictable \ reserved
    /\ ~CanReserve(ledger, Covering(p))
    /\ pc' = "rollback"
    /\ UNCHANGED <<snapVars, planVars, ledger, tried, victim, reserved, assign>>

AllReserved ==
    /\ pc = "reserve" /\ reserved = Evictable
    /\ pc' = "place"
    /\ UNCHANGED <<snapVars, planVars, ledger, tried, victim, reserved, assign>>

Release(p) ==
    /\ pc = "rollback" /\ p \in reserved
    /\ ledger' = Released(ledger, PDBLedger(allowed), Covering(p)) /\ reserved' = reserved \ {p}
    /\ UNCHANGED <<snapVars, planVars, pc, tried, victim, assign>>

\* Mutant: the round starts again with the candidate it has just given up.
NextCandidateAgain ==
    /\ pc = "rollback" /\ reserved = {}
    /\ pc' = "pick" /\ victim' = Nowhere /\ assign' = NoAssignment
    /\ UNCHANGED <<snapVars, planVars, ledger, tried, reserved>>

NextCandidate ==
    /\ pc = "rollback" /\ reserved = {}
    /\ pc' = "pick" /\ tried' = tried \cup {victim} /\ victim' = Nowhere /\ assign' = NoAssignment
    /\ UNCHANGED <<snapVars, planVars, ledger, reserved>>

\* The simulation: the victim and its daemons are gone, its other pods where they were placed so far.
Survivors == nodes \ {victim}
SimOn(n) == {p \in Pods : IF p \in DOMAIN assign THEN assign[p] = n ELSE place[p] = n}

\* Mutant: the pods this simulation has placed are not counted.
FreeBefore(n, d) == Alloc[n][d] - Requested(PlacedOn(n), d)

Free(n, d) == Alloc[n][d] - Requested(SimOn(n), d)

Count(w, z) ==
    Cardinality({p \in Pods : WorkloadOf[p] = w /\ \E n \in Survivors : Zone[n] = z /\ p \in SimOn(n)})
LeastCount(w) == Min({Count(w, Zone[n]) : n \in Survivors \cap lively} \cup {Cardinality(Pods)})

\* Mutant: pods of one workload are kept apart on nodes, not in zones.
AllowsOnNode(p, n) ==
    LET w == WorkloadOf[p] IN
    IF w \in Apart THEN \A q \in SimOn(n) : WorkloadOf[q] # w
    ELSE Count(w, Zone[n]) + 1 - LeastCount(w) <= MaxSkew[w]

\* Self-anti-affinity, or the skew between zones.
TopologyAllows(p, n) ==
    LET w == WorkloadOf[p] IN
    IF w \in Apart THEN Count(w, Zone[n]) = 0
    ELSE Count(w, Zone[n]) + 1 - LeastCount(w) <= MaxSkew[w]

FitsOn(p, n) ==
    /\ n \in Survivors \cap lively \cap Admits[p]
    /\ Cardinality(SimOn(n)) < MaxPodsPerNode
    /\ \A d \in Dims : req[p][d] <= Free(n, d)
    /\ TopologyAllows(p, n)

\* Best fit: the least normalized capacity left over, then by name.
Leftover(p, n) == (Free(n, "cpu") - req[p]["cpu"]) * Alloc[n]["mem"]
                  + (Free(n, "mem") - req[p]["mem"]) * Alloc[n]["cpu"]
Size(n) == Alloc[n]["cpu"] * Alloc[n]["mem"]
Tighter(p, m, n) ==
    LET a == Leftover(p, m) * Size(n)
        b == Leftover(p, n) * Size(m)
    IN a < b \/ (a = b /\ m < n)

\* Decreasing: the pod with the largest dominant request first, then by UID.
Dominant(p) == Max({req[p][d] : d \in Dims})
Unplaced == Evictable \ DOMAIN assign
ComesFirst(p) ==
    \A q \in Unplaced \ {p} : Dominant(p) > Dominant(q) \/ (Dominant(p) = Dominant(q) /\ p < q)

PlacePod(p, n) ==
    /\ pc = "place" /\ p \in Unplaced /\ ComesFirst(p)
    /\ FitsOn(p, n) /\ \A m \in Survivors \ {n} : FitsOn(p, m) => Tighter(p, n, m)
    /\ assign' = [q \in DOMAIN assign \cup {p} |-> IF q = p THEN n ELSE assign[q]]
    /\ UNCHANGED <<snapVars, planVars, ledger, pc, tried, victim, reserved>>

CannotPlace(p) ==
    /\ pc = "place" /\ p \in Unplaced /\ ComesFirst(p)
    /\ \A n \in Survivors : ~FitsOn(p, n)
    /\ pc' = "rollback"
    /\ UNCHANGED <<snapVars, planVars, ledger, tried, victim, reserved, assign>>

\* What is free on all the surviving nodes, as a share of what they have.
HasHeadroom ==
    \A d \in Dims :
        LET alloc == MapThenSumSet(LAMBDA n : Alloc[n][d], Survivors)
            free  == MapThenSumSet(LAMBDA n : Free(n, d), Survivors)
        IN alloc > 0 => 100 * free >= Headroom * alloc

NoHeadroom ==
    /\ pc = "place" /\ Unplaced = {} /\ ~HasHeadroom
    /\ pc' = "rollback"
    /\ UNCHANGED <<snapVars, planVars, ledger, tried, victim, reserved, assign>>

\* The reservations stand; a new round ranks the nodes that are left.
Commit ==
    /\ pc = "place" /\ Unplaced = {} /\ HasHeadroom
    /\ plan' = Append(plan, [node |-> victim, to |-> assign])
    /\ nodes' = Survivors
    /\ place' = [p \in Pods |-> IF p \in DOMAIN assign THEN assign[p]
                                ELSE IF place[p] = victim THEN Nowhere ELSE place[p]]
    /\ targeted' = targeted \cup {assign[p] : p \in DOMAIN assign}
    /\ pc' = "pick" /\ tried' = {} /\ victim' = Nowhere /\ reserved' = {} /\ assign' = NoAssignment
    /\ UNCHANGED <<snapVars, req, resizes, ledger>>

Next ==
    \/ Rightsize \/ Pick \/ Stop
    \/ \E p \in Pods : Reserve(p) \/ Refused(p) \/ Release(p) \/ CannotPlace(p)
    \/ AllReserved \/ NextCandidate \/ NoHeadroom \/ Commit
    \/ \E p \in Pods, n \in Nodes : PlacePod(p, n)

\* Build is one call: it runs until it returns.
Spec == Init /\ [][Next]_vars /\ WF_vars(Next)

(* ---- Properties ---- *)

Removal == [node: Nodes, to: UNION {[S -> Nodes] : S \in SUBSET Pods}]

TypeOK ==
    /\ allowed \in Allowances /\ lively \subseteq Nodes /\ home \in Homes
    /\ req \in [Pods -> [Dims -> Nat]]
    /\ nodes \subseteq Nodes /\ place \in [Pods -> Nodes \cup {Nowhere}]
    /\ ledger \in [Budgets -> Nat]
    /\ plan \in Seq(Removal) /\ resizes \subseteq DOMAIN Target /\ targeted \subseteq Nodes
    /\ pc \in {"rightsize", "pick", "reserve", "rollback", "place", "done"}
    /\ tried \subseteq Nodes /\ victim \in Nodes \cup {Nowhere} /\ reserved \subseteq Pods
    /\ DOMAIN assign \subseteq Pods /\ assign \in [DOMAIN assign -> Nodes]

Evicted == UNION {DOMAIN plan[i].to : i \in DOMAIN plan}

\* A plan never asks a budget for more than the snapshot allows, and what a candidate had
\* reserved comes back when it is given up: no leak, at any point of the search.
LedgerBalanced ==
    \A b \in Budgets :
        ledger[b] + Cardinality(Covers[b] \cap (Evicted \cup reserved))
            = PDBLedger(allowed)[b]

\* Whatever a step counts on is still there when the plan is through: a target is never removed,
\* and with everything that was moved to it its requests fit and its pods are not too many.
TargetsHold ==
    \A n \in targeted :
        /\ n \in nodes \cap lively
        /\ \A d \in Dims : Requested(PlacedOn(n), d) <= Alloc[n][d]
        /\ Cardinality(PlacedOn(n)) <= MaxPodsPerNode

\* A removed node is emptied by its own steps: each of the snapshot's pods there that is not a
\* daemon is evicted by that removal, and no pod is evicted twice in a plan.
DrainsAreComplete ==
    \A i \in DOMAIN plan :
        DOMAIN plan[i].to = {p \in Pods : home[p] = plan[i].node /\ ~IsDaemon(p)}

\* A pod that a plan moves meets no pod of its workload in its new zone, if they must stay apart.
ApartStayApart ==
    \A p \in Evicted, q \in Pods :
        p # q /\ WorkloadOf[p] = WorkloadOf[q] /\ WorkloadOf[p] \in Apart
              /\ place[p] # Nowhere /\ place[q] # Nowhere
        => Zone[place[p]] # Zone[place[q]]

\* docs/safety.md: the surviving cluster keeps its headroom free, on nodes that can take pods.
HeadroomIsUsable ==
    \A d \in Dims :
        LET alloc == MapThenSumSet(LAMBDA n : Alloc[n][d], nodes \cap lively)
            used  == MapThenSumSet(LAMBDA n : Requested(PlacedOn(n), d), nodes \cap lively)
        IN plan # <<>> => 100 * (alloc - used) >= Headroom * alloc

\* The search ends, however many candidates it gives up.
Terminates == <>(pc = "done")
====
