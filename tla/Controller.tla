---- MODULE Controller ----
(***************************************************************************)
(* The controller of cmd/kilter: one reconcile at a time, each a sequence  *)
(* of API calls between which the cluster, the brain and the clock move.   *)
(* It composes the actuator (pkg/actuate), the disruption rules            *)
(* (pkg/safety), the circuit breaker (pkg/guard) and the emergency drain   *)
(* (pkg/plan/spot.go).  Plans come from the brain: a member of Plans that  *)
(* fitted the cluster when the brain last saw it.                          *)
(***************************************************************************)
EXTENDS Safety, Sequences

CONSTANTS
    Nodes, Pods,
    Workloads, Containers, WorkloadOf,  \* WorkloadOf[c]: the workload container c belongs to
    Sizes, Unset,                       \* request sizes; Unset: the template names none
    OptOut, Stateful,                   \* pods never to evict; pods whose name survives a replacement
    Plans,                              \* the plans plan.Build can return
    Configs,                            \* the flags the controller is started with
    RegressWindow, QuarantineFor, CooldownInterval,
    BudgetWindow, MaxEvictions, EvictAttempts,
    Outcomes,                           \* what an API call may return: TRUE is success
    MaxPending,                         \* the breaker's pending-pod limit
    MaxTime, MaxHarm, MaxChaos          \* bounds of the environment, see Tick, PodFails and Chaos

Pending == "pending"

ResizeStep == [type: {"resize"}, ctr: Containers, from: Sizes, to: Sizes]
CordonStep == [type: {"cordon"}, node: Nodes]
EvictStep  == [type: {"evict"}, node: Nodes, pod: Pods]
DeleteStep == [type: {"delete"}, node: Nodes]
Step == ResizeStep \cup CordonStep \cup EvictStep \cup DeleteStep

\* What the actuator relies on in a plan: surgery on a node starts with its cordon.
CordonFirst(p) ==
    \A j \in DOMAIN p : p[j].type \in {"evict", "delete"} =>
        \E i \in DOMAIN p : i < j /\ p[i].type = "cordon" /\ p[i].node = p[j].node

ASSUME PlansAssumption == Plans \subseteq Seq(Step) /\ \A p \in Plans : CordonFirst(p)
ASSUME ConfigsAssumption ==
    Configs \subseteq [mode: {"apply", "dry-run"}, approval: BOOLEAN, provider: BOOLEAN]
ASSUME UniverseAssumption ==
    /\ Pending \notin Nodes
    /\ WorkloadOf \in [Containers -> Workloads]
    /\ OptOut \subseteq Pods /\ Stateful \subseteq Pods
    /\ IsFiniteSet(Nodes) /\ IsFiniteSet(Pods)
ASSUME BoundsAssumption ==
    /\ Outcomes \subseteq BOOLEAN
    /\ {RegressWindow, QuarantineFor, CooldownInterval, BudgetWindow} \subseteq Nat \ {0}
    /\ {MaxEvictions, EvictAttempts} \subseteq Nat \ {0}
    /\ {MaxPending, MaxTime, MaxHarm, MaxChaos} \subseteq Nat

VARIABLES
    now, chaos,                         \* the clock; adverse events so far
    present, cordoned, notReady, doomed, instances, loc, leaving, template, harm, frozen,
    offer, approvals,                   \* the brain
    cfg, cooldown, applied, watch, quarantine, events,   \* the process's memory
    pc, reverts, emergencies, seen, plan, todo, done, job, tries,  \* one reconcile
    log                                 \* history: every grant of this process's budget

clusterVars == <<present, cordoned, notReady, doomed, instances, loc, leaving, template, harm, frozen>>
brainVars == <<offer, approvals>>
memVars == <<cooldown, applied, watch, quarantine>>
budgetVars == <<events, log>>
runVars == <<pc, reverts, emergencies, seen, plan, todo, done, job, tries>>
vars == <<now, chaos, clusterVars, brainVars, cfg, memVars, budgetVars, runVars>>

NothingSeen == [harm |-> [w \in Workloads |-> 0], open |-> FALSE]

Keys == Workloads \cup Nodes
NoStep == [type |-> "none"]

Init ==
    /\ now = 0 /\ chaos = 0
    /\ present = Nodes /\ cordoned = {} /\ notReady = {} /\ doomed = {} /\ instances = Nodes
    /\ loc \in [Pods -> Nodes] /\ leaving = {}
    /\ template \in [Containers -> Sizes] /\ harm = [w \in Workloads |-> 0] /\ frozen = FALSE
    /\ offer = <<>> /\ approvals = {}
    /\ cfg \in Configs
    /\ cooldown = [k \in Keys |-> Never] /\ applied = [w \in Workloads |-> NoStep]
    /\ watch = [w \in Workloads |-> NoWatch] /\ quarantine = [w \in Workloads |-> Never]
    /\ events = {} /\ log = {}
    /\ pc = "idle" /\ reverts = {} /\ emergencies = {} /\ job = "none" /\ tries = 0
    /\ seen = NothingSeen /\ plan = <<>> /\ todo = {} /\ done = {}

(* ---- The cluster, the brain and the operator: everything that moves between two calls ---- *)

Tick == now < MaxTime /\ now' = now + 1
        /\ UNCHANGED <<chaos, clusterVars, brainVars, cfg, memVars, budgetVars, runVars>>

Schedulable(n) == n \in present \ (cordoned \cup notReady)

\* The scheduler binds a pending pod to a node that takes pods.
Bind(p, n) ==
    /\ loc[p] = Pending /\ Schedulable(n)
    /\ loc' = [loc EXCEPT ![p] = n]
    /\ UNCHANGED <<now, chaos, present, cordoned, notReady, doomed, instances, leaving, template,
                   harm, frozen, brainVars, cfg, memVars, budgetVars, runVars>>

\* An evicted pod ends its grace period; its replacement waits for a node.
Leave(p) ==
    /\ p \in leaving
    /\ leaving' = leaving \ {p} /\ loc' = [loc EXCEPT ![p] = Pending]
    /\ UNCHANGED <<now, chaos, present, cordoned, notReady, doomed, instances, template, harm,
                   frozen, brainVars, cfg, memVars, budgetVars, runVars>>

\* A pod of w is OOM-killed or restarts once too often.
PodFails(w) ==
    /\ harm[w] < MaxHarm
    /\ harm' = [harm EXCEPT ![w] = @ + 1]
    /\ UNCHANGED <<now, chaos, present, cordoned, notReady, doomed, instances, loc, leaving, template,
                   frozen, brainVars, cfg, memVars, budgetVars, runVars>>

\* At most MaxChaos adverse events in a behaviour.
Chaos == chaos < MaxChaos /\ chaos' = chaos + 1

NodeFails(n) ==
    /\ Chaos /\ n \in present \ notReady
    /\ notReady' = notReady \cup {n}
    /\ UNCHANGED <<now, present, cordoned, doomed, instances, loc, leaving, template, harm, frozen,
                   brainVars, cfg, memVars, budgetVars, runVars>>

NodeRecovers(n) ==
    /\ n \in notReady
    /\ notReady' = notReady \ {n}
    /\ UNCHANGED <<now, chaos, present, cordoned, doomed, instances, loc, leaving, template, harm,
                   frozen, brainVars, cfg, memVars, budgetVars, runVars>>

\* A termination handler taints a spot node; some time later the cloud takes it.
SpotNotice(n) ==
    /\ Chaos /\ n \in present \ doomed
    /\ doomed' = doomed \cup {n}
    /\ UNCHANGED <<now, present, cordoned, notReady, instances, loc, leaving, template, harm, frozen,
                   brainVars, cfg, memVars, budgetVars, runVars>>

On(n) == {p \in Pods : loc[p] = n}

\* What becomes of the pods of a node that goes away.
Displaced(n) ==
    /\ loc' = [p \in Pods |-> IF loc[p] = n THEN Pending ELSE loc[p]]
    /\ leaving' = leaving \ On(n)

Reclaim(n) ==
    /\ n \in doomed
    /\ present' = present \ {n} /\ doomed' = doomed \ {n} /\ instances' = instances \ {n}
    /\ cordoned' = cordoned \ {n} /\ notReady' = notReady \ {n} /\ Displaced(n)
    /\ UNCHANGED <<now, chaos, template, harm, frozen, brainVars, cfg, memVars, budgetVars, runVars>>

\* kilter.dev/freeze is set on or taken off kube-system.
ToggleFreeze ==
    /\ Chaos /\ frozen' = ~frozen
    /\ UNCHANGED <<now, present, cordoned, notReady, doomed, instances, loc, leaving, template, harm,
                   brainVars, cfg, memVars, budgetVars, runVars>>

\* The owner of a workload deploys other requests.
UserEdits(c, s) ==
    /\ Chaos /\ s # template[c]
    /\ template' = [template EXCEPT ![c] = s]
    /\ UNCHANGED <<now, present, cordoned, notReady, doomed, instances, loc, leaving, harm, frozen,
                   brainVars, cfg, memVars, budgetVars, runVars>>

\* plan.Build on the cluster as it is: no surgery on a node that is gone, cordoned or not
\* ready, or that runs a pod that must stay; one eviction per pod there; From is the template.
Fits(p) ==
    \A i \in DOMAIN p :
        /\ p[i].type = "resize" => p[i].from = template[p[i].ctr]
        /\ p[i].type = "cordon" =>
              /\ Schedulable(p[i].node) /\ On(p[i].node) \cap OptOut = {}
              /\ On(p[i].node) = {p[j].pod : j \in {j \in DOMAIN p : /\ p[j].type = "evict"
                                                                    /\ p[j].node = p[i].node}}

\* The agent pushes a snapshot; the brain's plan is about that snapshot until the next one.
BrainLearns(p) ==
    /\ p \in Plans \cup {<<>>} /\ p # offer /\ Fits(p)
    /\ offer' = p
    /\ UNCHANGED <<now, chaos, clusterVars, approvals, cfg, memVars, budgetVars, runVars>>

\* What plan.fingerprint hashes of a step: not the sizes it starts from.
Content(s) == IF s.type = "resize" THEN [type |-> s.type, ctr |-> s.ctr, to |-> s.to] ELSE s
Fingerprint(p) == [i \in DOMAIN p |-> Content(p[i])]

\* kilter approve, and an approval's 24 hours running out.
Approve ==
    /\ cfg.approval /\ offer # <<>> /\ Fingerprint(offer) \notin approvals
    /\ approvals' = approvals \cup {Fingerprint(offer)}
    /\ UNCHANGED <<now, chaos, clusterVars, offer, cfg, memVars, budgetVars, runVars>>

Expire(f) ==
    /\ Chaos /\ f \in approvals
    /\ approvals' = approvals \ {f}
    /\ UNCHANGED <<now, clusterVars, offer, cfg, memVars, budgetVars, runVars>>

(* ---- reconcile: what it has read, and the plan it is executing ---- *)

\* guard.Breaker: no nodes, more than a fifth of them not ready, or too many pods pending.
BreakerOpen ==
    \/ present = {}
    \/ 5 * Cardinality(notReady) > Cardinality(present)
    \/ Cardinality({p \in Pods : loc[p] = Pending}) > MaxPending

\* plan.EmergencyDrainPlan: cordon, then evict what may be evicted, and leave the node.
Orders(S) == {f \in [1..Cardinality(S) -> S] : \A i, j \in DOMAIN f : i # j => f[i] # f[j]}
EmergencyDrainPlans(n, pods) ==
    {[i \in 1..(Cardinality(pods \ OptOut) + 1) |->
        IF i = 1 THEN [type |-> "cordon", node |-> n]
        ELSE [type |-> "evict", node |-> n, pod |-> f[i - 1]]] : f \in Orders(pods \ OptOut)}

\* Mutant: what an execution did is not forgotten with its plan.
RestRemembering ==
    /\ pc' = "idle" /\ reverts' = {} /\ emergencies' = {} /\ seen' = NothingSeen
    /\ plan' = <<>> /\ todo' = {} /\ done' = done /\ job' = "none" /\ tries' = 0

\* The end of a reconcile: the loop waits for the ticker with nothing in hand.
Rest ==
    /\ pc' = "idle" /\ reverts' = {} /\ emergencies' = {} /\ seen' = NothingSeen
    /\ plan' = <<>> /\ todo' = {} /\ done' = {} /\ job' = "none" /\ tries' = 0

\* Mutant: a regression is reported and its watch stays armed.
KeepsWatching(bad) ==
    [w \in Workloads |-> IF WatchLapsed(watch, w, RegressWindow, now) THEN NoWatch ELSE watch[w]]

\* A regression is reported once, and a lapsed watch is dropped.
Unwatched(bad) ==
    [w \in Workloads |-> IF w \in bad \/ WatchLapsed(watch, w, RegressWindow, now)
                         THEN NoWatch ELSE watch[w]]

\* Mutant: the circuit breaker holds back the reverts too.
RevertsWhenCalm(bad) == {w \in bad : applied[w] # NoStep /\ ~BreakerOpen}

\* The regressed workloads there is a change to take back of.
ToRevert(bad) == {w \in bad : applied[w] # NoStep}

\* Snapshot, the freeze switch and RegressionDetector.Check.  A failed collection, or a
\* frozen cluster, ends the reconcile before anything is done.
Collect ==
    /\ pc = "idle" /\ ~frozen
    /\ LET bad == Regressed(watch, harm, RegressWindow, now) IN
       /\ quarantine' = [w \in Workloads |->
                            IF w \in bad THEN now + QuarantineFor
                            ELSE IF Quarantined(quarantine, w, now) THEN quarantine[w] ELSE Never]
       /\ watch' = Unwatched(bad) /\ reverts' = ToRevert(bad)
    /\ emergencies' = {[node |-> n, pods |-> On(n)] : n \in doomed}
    /\ seen' = [harm |-> harm, open |-> BreakerOpen]
    /\ pc' = "revert"
    /\ UNCHANGED <<now, chaos, clusterVars, brainVars, cfg, cooldown, applied, budgetVars,
                   plan, todo, done, job, tries>>

\* ResizeWorkload: a size the patch leaves out keeps its current value.
Patched(c, s) == IF s = Unset THEN template ELSE [template EXCEPT ![c] = s]

\* Revert one regressed workload.  A failed patch is logged and the change forgotten all the same.
Revert(w, ok) ==
    /\ pc = "revert" /\ w \in reverts
    /\ template' = IF ok THEN Patched(applied[w].ctr, applied[w].from) ELSE template
    /\ applied' = [applied EXCEPT ![w] = NoStep]
    /\ reverts' = reverts \ {w}
    /\ UNCHANGED <<now, chaos, present, cordoned, notReady, doomed, instances, loc, leaving, harm,
                   frozen, brainVars, cfg, cooldown, watch, quarantine, budgetVars,
                   pc, emergencies, seen, plan, todo, done, job, tries>>

Execute(p, kept, kind) ==
    /\ pc' = "exec" /\ plan' = p /\ todo' = kept /\ done' = {} /\ job' = kind /\ tries' = 0

\* The next interrupted node is drained, whatever the cooldowns and the breaker say.
StartDrain(e, p) ==
    /\ pc = "revert" /\ reverts = {} /\ e \in emergencies
    /\ p \in EmergencyDrainPlans(e.node, e.pods)
    /\ emergencies' = emergencies \ {e}
    /\ Execute(p, DOMAIN p, "drain")
    /\ UNCHANGED <<now, chaos, clusterVars, brainVars, cfg, memVars, budgetVars, reverts, seen>>

\* The circuit breaker: closed, the reconcile goes on to the plan.
ConsiderPlan ==
    /\ pc = "revert" /\ reverts = {} /\ emergencies = {}
    /\ IF seen.open THEN Rest
       ELSE pc' = "fetch" /\ UNCHANGED <<reverts, emergencies, seen, plan, todo, done, job, tries>>
    /\ UNCHANGED <<now, chaos, clusterVars, brainVars, cfg, memVars, budgetVars>>

\* Mutant: the cooldown is looked up before the steps and touched after them.
KeptResizeOfEach(p) ==
    {i \in DOMAIN p :
        /\ p[i].type = "resize"
        /\ ~Quarantined(quarantine, WorkloadOf[p[i].ctr], now)
        /\ CooldownOver(cooldown, WorkloadOf[p[i].ctr], CooldownInterval, now)}

\* Mutant: only the cooldown is asked.
KeptResizeAnyway(p) ==
    {i \in DOMAIN p :
        /\ p[i].type = "resize"
        /\ CooldownOver(cooldown, WorkloadOf[p[i].ctr], CooldownInterval, now)
        /\ \A h \in DOMAIN p : h < i /\ p[h].type = "resize" =>
              WorkloadOf[p[h].ctr] # WorkloadOf[p[i].ctr]}

\* The steps that pass quarantine, cooldowns and the change window: a workload is resized once
\* per interval, so of two steps for one workload the first wins; evictions and the deletion
\* go with their cordon.
KeptResize(p) ==
    {i \in DOMAIN p :
        /\ p[i].type = "resize"
        /\ ~Quarantined(quarantine, WorkloadOf[p[i].ctr], now)
        /\ CooldownOver(cooldown, WorkloadOf[p[i].ctr], CooldownInterval, now)
        /\ \A h \in DOMAIN p : h < i /\ p[h].type = "resize" =>
              WorkloadOf[p[h].ctr] # WorkloadOf[p[i].ctr]}
KeptCordon(p, inWindow) ==
    {i \in DOMAIN p :
        p[i].type = "cordon" /\ inWindow /\ CooldownOver(cooldown, p[i].node, CooldownInterval, now)}

\* Mutant: the steps of a node whose cordon was filtered out stay.
KeepsOrphans(p, cordons) == {i \in DOMAIN p : p[i].type \in {"evict", "delete"}}

dropOrphanedNodeSteps(p, cordons) ==
    {i \in DOMAIN p :
        p[i].type \in {"evict", "delete"} /\ \E j \in cordons : p[j].node = p[i].node}

Filter(p, inWindow) ==
    LET resizes == KeptResize(p)
        cordons == KeptCordon(p, inWindow)
        kept == resizes \cup cordons \cup dropOrphanedNodeSteps(p, cordons)
    IN /\ cooldown' = Touched(cooldown, {WorkloadOf[p[i].ctr] : i \in resizes}
                                        \cup {p[i].node : i \in cordons}, now)
       /\ IF kept = {} THEN Rest
          ELSE Execute(p, kept, "plan") /\ UNCHANGED <<reverts, emergencies, seen>>

NeedsApproval == cfg.approval /\ cfg.mode = "apply"

\* GetPlan: an error, an empty plan and, when nothing is resized, savings under the threshold
\* all end the reconcile.
FetchPlan(inWindow) ==
    /\ pc = "fetch"
    /\ \/ Rest /\ UNCHANGED cooldown
       \/ offer # <<>> /\ NeedsApproval
          /\ pc' = "approval" /\ plan' = offer
          /\ UNCHANGED <<cooldown, reverts, emergencies, seen, todo, done, job, tries>>
       \/ offer # <<>> /\ ~NeedsApproval /\ Filter(offer, inWindow)
    /\ UNCHANGED <<now, chaos, clusterVars, brainVars, cfg, applied, watch, quarantine, budgetVars>>

\* Mutant: it is the brain's newest plan that has to be approved.
ChecksNewest(inWindow) ==
    /\ pc = "approval"
    /\ \/ Rest /\ UNCHANGED cooldown
       \/ Fingerprint(offer) \in approvals /\ Filter(plan, inWindow)
    /\ UNCHANGED <<now, chaos, clusterVars, brainVars, cfg, applied, watch, quarantine, budgetVars>>

\* GetApprovals, in a call of its own: the plan is the one fetched before.
CheckApproval(inWindow) ==
    /\ pc = "approval"
    /\ \/ Rest /\ UNCHANGED cooldown
       \/ Fingerprint(plan) \in approvals /\ Filter(plan, inWindow)
    /\ UNCHANGED <<now, chaos, clusterVars, brainVars, cfg, applied, watch, quarantine, budgetVars>>

(* ---- ExecutePlan: one step at a time, the kept ones in plan order ---- *)

Current == CHOOSE i \in todo : \A j \in todo : i <= j
At(type) == pc = "exec" /\ todo # {} /\ plan[Current].type = type /\ cfg.mode = "apply"

StepDone == pc' = "exec" /\ todo' = todo \ {Current} /\ tries' = 0
StepFailed == StepDone                       \* a resize or an eviction: go on with the next step
Abort == pc' = "exec" /\ todo' = {} /\ tries' = 0   \* a cordon or a deletion: stop the plan

\* Mutant: a preview counts as a step that was done.
PreviewIsDone ==
    /\ pc = "exec" /\ todo # {} /\ cfg.mode = "dry-run"
    /\ todo' = {} /\ done' = {i \in todo : plan[i].type = "resize"}
    /\ UNCHANGED <<now, chaos, clusterVars, brainVars, cfg, memVars, budgetVars,
                   pc, reverts, emergencies, seen, plan, job, tries>>

\* A dry run previews every step and calls nothing.
DryRun ==
    /\ pc = "exec" /\ todo # {} /\ cfg.mode = "dry-run"
    /\ todo' = {}
    /\ UNCHANGED <<now, chaos, clusterVars, brainVars, cfg, memVars, budgetVars,
                   pc, reverts, emergencies, seen, plan, done, job, tries>>

Resize(ok) ==
    /\ At("resize")
    /\ IF ok THEN /\ template' = Patched(plan[Current].ctr, plan[Current].to)
                  /\ done' = done \cup {Current} /\ StepDone
             ELSE StepFailed /\ UNCHANGED <<template, done>>
    /\ UNCHANGED <<now, chaos, present, cordoned, notReady, doomed, instances, loc, leaving, harm,
                   frozen, brainVars, cfg, memVars, budgetVars, reverts, emergencies, seen, plan, job>>

\* Patching a node that is gone is an error too.
Cordon(ok) ==
    /\ At("cordon")
    /\ IF ok THEN /\ plan[Current].node \in present
                  /\ cordoned' = cordoned \cup {plan[Current].node} /\ StepDone
             ELSE Abort /\ UNCHANGED cordoned
    /\ UNCHANGED <<now, chaos, present, notReady, doomed, instances, loc, leaving, template, harm,
                   frozen, brainVars, cfg, memVars, budgetVars,
                   reverts, emergencies, seen, plan, done, job>>

\* EvictPod takes its slot of the budget before the first call, and keeps it whatever follows.
TakeBudget ==
    /\ At("evict")
    /\ LET grant == [id |-> Cardinality(log), at |-> now]
           kept == Live(events, BudgetWindow, now)
       IN IF BudgetAllows(events, MaxEvictions, BudgetWindow, now)
          THEN /\ events' = kept \cup {grant} /\ log' = log \cup {grant}
               /\ pc' = "evict" /\ tries' = 1 /\ UNCHANGED todo
          ELSE events' = kept /\ StepFailed /\ UNCHANGED log
    /\ UNCHANGED <<now, chaos, clusterVars, brainVars, cfg, memVars,
                   reverts, emergencies, seen, plan, done, job>>

\* The step names the pod, not its node: it reaches a pod that moved but kept its name.
Named(s) == loc[s.pod] = s.node \/ (s.pod \in Stateful /\ loc[s.pod] # Pending)

EvictAccepted ==
    /\ pc = "evict" /\ Named(plan[Current])
    /\ leaving' = leaving \cup {plan[Current].pod} /\ StepDone
    /\ UNCHANGED <<now, chaos, present, cordoned, notReady, doomed, instances, loc, template, harm,
                   frozen, brainVars, cfg, memVars, budgetVars,
                   reverts, emergencies, seen, plan, done, job>>

EvictNotFound ==
    /\ pc = "evict" /\ ~(loc[plan[Current].pod] = plan[Current].node) /\ StepDone
    /\ UNCHANGED <<now, chaos, clusterVars, brainVars, cfg, memVars, budgetVars,
                   reverts, emergencies, seen, plan, done, job>>

\* 429, a disruption budget says not now: wait and try again, a few times.
EvictRefused ==
    /\ pc = "evict" /\ Named(plan[Current])
    /\ IF tries < EvictAttempts THEN tries' = tries + 1 /\ UNCHANGED <<pc, todo>> ELSE StepFailed
    /\ UNCHANGED <<now, chaos, clusterVars, brainVars, cfg, memVars, budgetVars,
                   reverts, emergencies, seen, plan, done, job>>

EvictError ==
    /\ pc = "evict" /\ StepFailed
    /\ UNCHANGED <<now, chaos, clusterVars, brainVars, cfg, memVars, budgetVars,
                   reverts, emergencies, seen, plan, done, job>>

\* Mutant: a pod that is being deleted no longer counts.
WaitsForTheRest(outcome) ==
    /\ At("delete")
    /\ CASE outcome = "empty" -> On(plan[Current].node) \ leaving = {} /\ pc' = "getnode" /\ UNCHANGED <<todo, tries>>
         [] outcome = "timeout" -> On(plan[Current].node) # {} /\ Abort
         [] outcome = "error" -> Abort
    /\ UNCHANGED <<now, chaos, clusterVars, brainVars, cfg, memVars, budgetVars,
                   reverts, emergencies, seen, plan, done, job>>

\* WaitNodeEmpty: leaving pods still count.  Pods that remain are polled again until the
\* timeout, which may come at any poll that still sees one; a failed List ends the wait too.
WaitNodeEmpty(outcome) ==
    /\ At("delete")
    /\ CASE outcome = "empty" -> On(plan[Current].node) = {} /\ pc' = "getnode" /\ UNCHANGED <<todo, tries>>
         [] outcome = "timeout" -> On(plan[Current].node) # {} /\ Abort
         [] outcome = "error" -> Abort
    /\ UNCHANGED <<now, chaos, clusterVars, brainVars, cfg, memVars, budgetVars,
                   reverts, emergencies, seen, plan, done, job>>

\* DeleteNode reads the provider's id first: with a provider, no id, no deletion.
GetNode(ok) ==
    /\ pc = "getnode"
    /\ IF ok \/ ~cfg.provider THEN pc' = "delete" /\ UNCHANGED <<todo, tries>> ELSE Abort
    /\ UNCHANGED <<now, chaos, clusterVars, brainVars, cfg, memVars, budgetVars,
                   reverts, emergencies, seen, plan, done, job>>

DeleteNode(ok) ==
    /\ pc = "delete"
    /\ LET n == plan[Current].node IN
       IF ok THEN /\ present' = present \ {n} /\ doomed' = doomed \ {n}
                  /\ cordoned' = cordoned \ {n} /\ notReady' = notReady \ {n} /\ Displaced(n)
                  /\ IF cfg.provider THEN pc' = "terminate" /\ UNCHANGED <<todo, tries>> ELSE StepDone
             ELSE Abort /\ UNCHANGED <<present, doomed, cordoned, notReady, loc, leaving>>
    /\ UNCHANGED <<now, chaos, instances, template, harm, frozen, brainVars, cfg, memVars, budgetVars,
                   reverts, emergencies, seen, plan, done, job>>

TerminateNode(ok) ==
    /\ pc = "terminate"
    /\ IF ok THEN instances' = instances \ {plan[Current].node} /\ StepDone
             ELSE Abort /\ UNCHANGED instances
    /\ UNCHANGED <<now, chaos, present, cordoned, notReady, doomed, loc, leaving, template, harm,
                   frozen, brainVars, cfg, memVars, budgetVars,
                   reverts, emergencies, seen, plan, done, job>>

\* ExecutePlan returns.  After a drain the loop goes on to the next node; after the plan the
\* resizes that were done become revertible and watched, against the counters collected before.
Changed(w) == {i \in done : WorkloadOf[plan[i].ctr] = w}
Finish ==
    /\ pc = "exec" /\ todo = {}
    /\ IF job = "drain"
       THEN /\ pc' = "revert" /\ plan' = <<>> /\ done' = {} /\ job' = "none"
            /\ UNCHANGED <<reverts, emergencies, seen, todo, tries, applied, watch>>
       ELSE /\ Rest
            /\ applied' = [w \in Workloads |-> IF Changed(w) = {} THEN applied[w]
                                               ELSE plan[CHOOSE i \in Changed(w) : TRUE]]
            /\ watch' = [w \in Workloads |-> IF Changed(w) = {} THEN watch[w]
                                             ELSE [at |-> now, base |-> seen.harm[w]]]
    /\ UNCHANGED <<now, chaos, clusterVars, brainVars, cfg, cooldown, quarantine, budgetVars>>

\* The process dies between any two calls and starts again with nothing in memory.
Restart ==
    /\ Chaos
    /\ cooldown' = [k \in Keys |-> Never] /\ applied' = [w \in Workloads |-> NoStep]
    /\ watch' = [w \in Workloads |-> NoWatch] /\ quarantine' = [w \in Workloads |-> Never]
    /\ events' = {} /\ log' = {}
    /\ Rest
    /\ UNCHANGED <<now, clusterVars, brainVars, cfg>>

Surroundings ==
    \/ \E p \in Pods : Leave(p) \/ \E n \in Nodes : Bind(p, n)
    \/ \E w \in Workloads : PodFails(w)
    \/ \E n \in Nodes : NodeFails(n) \/ NodeRecovers(n) \/ SpotNotice(n) \/ Reclaim(n)
    \/ ToggleFreeze
    \/ \E c \in Containers, s \in Sizes : UserEdits(c, s)
    \/ \E p \in Plans \cup {<<>>} : BrainLearns(p)
    \/ Approve
    \/ \E f \in approvals : Expire(f)

Environment == Tick \/ Surroundings

Reconcile ==
    \/ Collect
    \/ \E w \in Workloads, ok \in Outcomes : Revert(w, ok)
    \/ \E e \in emergencies : \E p \in EmergencyDrainPlans(e.node, e.pods) : StartDrain(e, p)
    \/ ConsiderPlan
    \/ \E inWindow \in BOOLEAN : FetchPlan(inWindow) \/ CheckApproval(inWindow)
    \/ DryRun
    \/ \E ok \in Outcomes : Resize(ok) \/ Cordon(ok) \/ GetNode(ok) \/ DeleteNode(ok) \/ TerminateNode(ok)
    \/ TakeBudget
    \/ EvictAccepted \/ EvictNotFound \/ EvictRefused \/ EvictError
    \/ \E outcome \in {"empty", "timeout", "error"} : WaitNodeEmpty(outcome)
    \/ Finish

Next == Environment \/ Reconcile \/ Restart

Spec == Init /\ [][Next]_vars

\* The controller reconciles every five minutes, many times in a unit of this clock: a
\* regression there is to see is seen before the clock moves.  The loop keeps running.
PromptTick == Tick /\ Regressed(watch, harm, RegressWindow, now) = {}
PromptNext == PromptTick \/ Surroundings \/ Reconcile \/ Restart
PromptSpec == Init /\ [][PromptNext]_vars /\ WF_vars(Reconcile)

(* ---- Properties ---- *)

Times == Nat \cup {Never}

ClusterTypeOK ==
    /\ now \in Nat /\ chaos \in Nat
    /\ present \subseteq Nodes /\ cordoned \subseteq Nodes /\ notReady \subseteq Nodes
    /\ doomed \subseteq Nodes /\ instances \subseteq Nodes
    /\ loc \in [Pods -> Nodes \cup {Pending}] /\ leaving \subseteq Pods
    /\ template \in [Containers -> Sizes]
    /\ harm \in [Workloads -> Nat] /\ frozen \in BOOLEAN

MemoryTypeOK ==
    /\ offer \in Plans \cup {<<>>} /\ cfg \in Configs
    /\ cooldown \in [Keys -> Times]
    /\ applied \in [Workloads -> ResizeStep \cup {NoStep}]
    /\ watch \in [Workloads -> [at: Times, base: Nat]]
    /\ quarantine \in [Workloads -> Times]
    /\ events \subseteq Grants /\ log \subseteq Grants

RunTypeOK ==
    /\ pc \in {"idle", "revert", "fetch", "approval", "exec", "evict", "getnode", "delete", "terminate"}
    /\ reverts \subseteq Workloads
    /\ emergencies \subseteq [node: Nodes, pods: SUBSET Pods]
    /\ seen \in [harm: [Workloads -> Nat], open: BOOLEAN]
    /\ plan \in Seq(Step) /\ todo \subseteq DOMAIN plan
    /\ done \subseteq {i \in DOMAIN plan : plan[i].type = "resize"}
    /\ job \in {"none", "drain", "plan"} /\ tries \in Nat

\* Every variable keeps its type: the cluster's, the brain's and the process's, the reconcile's.
TypeOK == ClusterTypeOK /\ MemoryTypeOK /\ RunTypeOK

\* docs/safety.md, "what apply mode can never do": the controller removes a Node object only
\* when the node is cordoned and no pod that a drain counts is left on it, though pods are
\* bound, evicted and lost while it works; and terminates the instance only after that.
D == INSTANCE Drain WITH open <- present \ cordoned, closed <- cordoned, running <- instances,
                         place <- loc, Nowhere <- Pending
DrainsSafely == D!Spec

\* An eviction only ever starts on a node that is already closed to new pods, or gone: however
\* steps were filtered and whichever failed, no pod is evicted from a node still being filled.
EvictsBehindACordon ==
    pc \in {"evict", "getnode", "delete"} => plan[Current].node \in cordoned \cup (Nodes \ present)

\* Budget.Allow over a whole process: the grants in any window ending at a grant stay
\* within the budget, for plans and emergency drains together.
BudgetHeld ==
    \A g \in log :
        Cardinality({e \in log : e.id <= g.id /\ e.at > g.at - BudgetWindow}) <= MaxEvictions

\* Whatever is watched can be put back: the step that undoes the change is kept as long as
\* the watch, so Check never reports a regression the loop has nothing to revert with.
WatchedIsRevertible ==
    \A w \in Workloads : Watched(watch, w) =>
        applied[w] # NoStep /\ WorkloadOf[applied[w].ctr] = w

\* One execution changes a workload at most once: with a second container changed in it, the
\* revert would put back one of the two.
OneResizePerWorkload ==
    job = "plan" => \A i, j \in todo \cup done :
        /\ plan[i].type = "resize" /\ plan[j].type = "resize"
        /\ WorkloadOf[plan[i].ctr] = WorkloadOf[plan[j].ctr]
        => i = j

(* ---- The inductive invariant: what keeps the properties true between steps ---- *)

Closed(n) == n \in cordoned \/ n \notin present

\* Every eviction and deletion still to come has its cordon done or still before it, nothing is
\* still to come between executions, and from the moment the wait ends the node to delete is
\* closed and empty.
DrainInv ==
    /\ cordoned \subseteq present
    /\ pc = "approval" => plan \in Plans
    /\ pc \in {"idle", "revert", "fetch", "approval"} => todo = {} /\ done = {}
    /\ pc \in {"evict", "getnode", "delete", "terminate"} =>
          todo # {} /\ plan[Current].type = IF pc = "evict" THEN "evict" ELSE "delete"
    /\ \A j \in todo : plan[j].type \in {"evict", "delete"} =>
          \/ Closed(plan[j].node)
          \/ \E i \in todo : i < j /\ plan[i].type = "cordon" /\ plan[i].node = plan[j].node
    /\ pc \in {"getnode", "delete"} => On(plan[Current].node) = {}
    /\ pc = "terminate" => plan[Current].node \notin present

\* events holds every grant that is still in the window, and ids tell the grants apart.
BudgetInv ==
    /\ IsFiniteSet(log) /\ events \subseteq log
    /\ \A g \in log : g.id < Cardinality(log) /\ g.at <= now
    /\ Live(log, BudgetWindow, now) \subseteq events
    /\ BudgetHeld

\* What is being reverted is no longer watched, and nothing else runs meanwhile.
RevertInv ==
    /\ WatchedIsRevertible
    /\ \A w \in reverts : applied[w] # NoStep /\ ~Watched(watch, w)
    /\ pc # "revert" => reverts = {}

\* A termination notice dies with its node.
NoticeInv == doomed \subseteq present

IInv == TypeOK /\ DrainInv /\ BudgetInv /\ RevertInv /\ NoticeInv

\* No planned resize lands on a workload that regressed less than QuarantineFor ago, however long
\* the plan waited for its approval and however late its step comes.
QuarantineHolds ==
    [][\A i \in done' \ done : ~Quarantined(quarantine, WorkloadOf[plan[i].ctr], now)]_vars

\* A dry run leaves no trace: nothing cordoned, evicted or counted as applied, so the revert
\* path, which does not look at the mode, never has anything to write.
DryRunWritesNothing ==
    cfg.mode = "dry-run" =>
        /\ cordoned = {} /\ leaving = {} /\ log = {}
        /\ \A w \in Workloads : applied[w] = NoStep

\* With --require-approval, the plan that starts is the one whose fingerprint is approved, even
\* if the brain has offered another since it was fetched.
StartsApproved ==
    [][NeedsApproval /\ job # "plan" /\ job' = "plan" => Fingerprint(plan') \in approvals]_vars

\* A regression is acted on within the watch, unless the operator froze the cluster: the change
\* is taken off the books, which only the revert path does.
RegressionHandled ==
    \A w \in Workloads :
        (w \in Regressed(watch, harm, RegressWindow, now)) ~> (applied[w] = NoStep \/ frozen)

\* docs/safety.md and docs/trust.md: where every patch succeeds, a revert leaves the template
\* with the requests the change started from.
RevertsExactly ==
    [][\A w \in reverts \ reverts' : template'[applied[w].ctr] = applied[w].from]_vars

\* docs/safety.md: an eviction that disruption budgets keep refusing aborts the plan.
RefusalAborts ==
    [][EvictRefused /\ tries = EvictAttempts => todo' = {}]_vars
====
