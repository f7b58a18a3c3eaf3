---- MODULE ControllerProofs ----
(* Proofs about Controller, for every cluster, every set of plans and every bound. *)
EXTENDS Controller, FiniteSetTheorems, SequenceTheorems, WellFoundedInduction, TLAPS

USE BoundsAssumption, UniverseAssumption, PlansAssumption, ConfigsAssumption

(* ---- The model's helpers ---- *)

\* The step being executed is the first of those left: todo is a set of positive integers.
LEMMA CurrentIsFirst ==
    ASSUME TypeOK, todo # {}
    PROVE  Current \in todo /\ \A j \in todo : Current <= j
<1>1. todo \subseteq Nat
  BY DEF TypeOK, RunTypeOK
<1>2. \E i \in todo : \A j \in todo : ~(<<j, i>> \in OpToRel(<, Nat))
  BY <1>1, WFMin, NatLessThanWellFounded
<1>3. PICK i \in todo : \A j \in todo : ~(<<j, i>> \in OpToRel(<, Nat))
  BY <1>2
<1>4. \A j \in todo : <<j, i>> \in Nat \X Nat /\ <<j, i>>[1] = j /\ <<j, i>>[2] = i
  BY <1>1
<1>5. \A j \in todo : ~(j < i)
  BY <1>3, <1>4 DEF OpToRel
<1>6. \A j \in todo : i <= j
  BY <1>1, <1>5
<1>. QED
  BY <1>6 DEF Current

\* What a step carries, by its type.
LEMMA StepParts ==
    ASSUME NEW s \in Step
    PROVE  /\ s.type \in {"resize", "cordon", "evict", "delete"}
           /\ s.type = "resize" => s \in ResizeStep /\ s.ctr \in Containers
                                   /\ s.from \in Sizes /\ s.to \in Sizes
           /\ s.type # "resize" => s.node \in Nodes
           /\ s.type = "evict" => s.pod \in Pods
  BY DEF Step, ResizeStep, CordonStep, EvictStep, DeleteStep

\* An emergency drain is a plan: it cordons its node before it evicts, and resizes nothing.
LEMMA EmergencyPlansAreOrdered ==
    ASSUME NEW n \in Nodes, NEW S \in SUBSET Pods, NEW p \in EmergencyDrainPlans(n, S)
    PROVE  p \in Seq(Step) /\ CordonFirst(p) /\ \A i \in DOMAIN p : p[i].type # "resize"
<1>. DEFINE k == Cardinality(S \ OptOut)
<1>1. k \in Nat
  BY FS_Subset, FS_CardinalityType
<1>2. PICK f \in [1..k -> S \ OptOut] :
         p = [i \in 1..(k + 1) |-> IF i = 1 THEN [type |-> "cordon", node |-> n]
                                   ELSE [type |-> "evict", node |-> n, pod |-> f[i - 1]]]
  BY DEF EmergencyDrainPlans, Orders
<1>. HIDE DEF k
<1>3. \A i \in 1..(k + 1) : p[i] \in Step /\ p[i].node = n
                            /\ p[i].type = IF i = 1 THEN "cordon" ELSE "evict"
  <2>. SUFFICES ASSUME NEW i \in 1..(k + 1)
                PROVE  p[i] \in Step /\ p[i].node = n /\ p[i].type = IF i = 1 THEN "cordon" ELSE "evict"
    OBVIOUS
  <2>1. CASE i = 1
    BY <1>2, <2>1 DEF Step, CordonStep
  <2>2. CASE i # 1
    <3>1. i - 1 \in 1..k
      BY <1>1, <2>2
    <3>2. f[i - 1] \in Pods
      BY <1>2, <3>1
    <3>3. p[i] = [type |-> "evict", node |-> n, pod |-> f[i - 1]]
      BY <1>2, <2>2
    <3>. QED
      BY <2>2, <3>2, <3>3 DEF Step, EvictStep
  <2>. QED
    BY <2>1, <2>2
<1>4. p \in [1..(k + 1) -> Step]
  <2>1. DOMAIN p = 1..(k + 1) /\ p = [i \in 1..(k + 1) |-> p[i]]
    BY <1>2, Zenon
  <2>. QED
    BY <1>3, <2>1, Zenon
<1>5. p \in Seq(Step)
  <2>1. k + 1 \in Nat
    BY <1>1
  <2>. QED
    BY <2>1, <1>4
<1>6. DOMAIN p = 1..(k + 1) /\ 1 \in DOMAIN p
  BY <1>1, <1>2
<1>7. CordonFirst(p)
  <2>. SUFFICES ASSUME NEW j \in DOMAIN p, p[j].type \in {"evict", "delete"}
                PROVE  1 < j /\ p[1].type = "cordon" /\ p[1].node = p[j].node
    BY <1>6 DEF CordonFirst
  <2>1. j \in 1..(k + 1) /\ 1 \in 1..(k + 1)
    BY <1>6
  <2>2. j # 1
    BY <2>1, <1>3
  <2>. QED
    BY <2>1, <2>2, <1>1, <1>3
<1>. QED
  BY <1>3, <1>5, <1>6, <1>7

\* The brain's plans are plans too, and so is having none.
LEMMA OffersAreOrdered ==
    ASSUME NEW p \in Plans \cup {<<>>}
    PROVE  p \in Seq(Step) /\ CordonFirst(p)
<1>1. CASE p \in Plans
  BY <1>1
<1>2. CASE p = <<>>
  BY <1>2, EmptySeq DEF CordonFirst
<1>. QED
  BY <1>1, <1>2

(* ---- Types ---- *)

\* Ending a reconcile leaves every part of its state in its type.
LEMMA RestType == Rest => RunTypeOK'
<1>1. <<>> \in Seq(Step) /\ DOMAIN <<>> = {}
  BY EmptySeq
<1>. QED
  BY <1>1 DEF Rest, RunTypeOK, NothingSeen

\* So does starting an execution of the kept steps of a plan.
LEMMA ExecuteType ==
    ASSUME TypeOK, NEW p \in Seq(Step), NEW kept \in SUBSET DOMAIN p, NEW kind \in {"drain", "plan"},
           Execute(p, kept, kind), UNCHANGED <<reverts, seen>>, emergencies' \subseteq emergencies
    PROVE  RunTypeOK'
  BY DEF TypeOK, RunTypeOK, Execute

\* The three ways a step of a plan ends keep the types of the execution.
LEMMA StepEndType ==
    ASSUME TypeOK, StepDone \/ Abort, UNCHANGED <<reverts, emergencies, seen, plan, done, job>>
    PROVE  RunTypeOK'
  BY DEF TypeOK, RunTypeOK, StepDone, Abort

\* The initial states are of the right types.
LEMMA InitType == Init => TypeOK
<1>. SUFFICES ASSUME Init PROVE TypeOK
  OBVIOUS
<1>1. ClusterTypeOK
  BY DEF Init, ClusterTypeOK
<1>2. MemoryTypeOK
  BY DEF Init, MemoryTypeOK, Times, NoWatch, Never
<1>3. RunTypeOK
  <2>1. <<>> \in Seq(Step) /\ DOMAIN <<>> = {}
    BY EmptySeq
  <2>. QED
    BY <2>1 DEF Init, RunTypeOK, NothingSeen
<1>. QED
  BY <1>1, <1>2, <1>3 DEF TypeOK

\* So is what the environment makes of them, whatever moves.
LEMMA EnvironmentKeepsTypes == TypeOK /\ Environment => TypeOK'
<1>. SUFFICES ASSUME TypeOK, Environment PROVE TypeOK'
  OBVIOUS
<1>. USE DEF TypeOK, clusterVars, brainVars, memVars, budgetVars, runVars
<1>1. ASSUME UNCHANGED <<brainVars, cfg, memVars, budgetVars, runVars>>
      PROVE  MemoryTypeOK' /\ RunTypeOK'
  BY <1>1 DEF MemoryTypeOK, RunTypeOK
<1>2. ASSUME UNCHANGED <<now, clusterVars, runVars>>, chaos' \in Nat
      PROVE  ClusterTypeOK' /\ RunTypeOK'
  BY <1>2 DEF ClusterTypeOK, RunTypeOK
<1>3. CASE Tick
  BY <1>3, <1>1 DEF Tick, ClusterTypeOK
<1>4. CASE \E p \in Pods, n \in Nodes : Bind(p, n)
  BY <1>4, <1>1 DEF Bind, Schedulable, ClusterTypeOK
<1>5. CASE \E p \in Pods : Leave(p)
  BY <1>5, <1>1 DEF Leave, ClusterTypeOK
<1>6. CASE \E w \in Workloads : PodFails(w)
  BY <1>6, <1>1, SMTT(20) DEF PodFails, ClusterTypeOK
<1>7. CASE \E n \in Nodes : NodeFails(n)
  BY <1>7, <1>1 DEF NodeFails, Chaos, ClusterTypeOK
<1>8. CASE \E n \in Nodes : NodeRecovers(n)
  BY <1>8, <1>1 DEF NodeRecovers, ClusterTypeOK
<1>9. CASE \E n \in Nodes : SpotNotice(n)
  BY <1>9, <1>1 DEF SpotNotice, Chaos, ClusterTypeOK
<1>10. CASE \E n \in Nodes : Reclaim(n)
  BY <1>10, <1>1 DEF Reclaim, Displaced, ClusterTypeOK
<1>11. CASE ToggleFreeze
  BY <1>11, <1>1 DEF ToggleFreeze, Chaos, ClusterTypeOK
<1>12. CASE \E c \in Containers, s \in Sizes : UserEdits(c, s)
  BY <1>12, <1>1 DEF UserEdits, Chaos, ClusterTypeOK
<1>13. CASE \E p \in Plans \cup {<<>>} : BrainLearns(p)
  <2>1. MemoryTypeOK' /\ chaos' \in Nat
    BY <1>13 DEF BrainLearns, MemoryTypeOK, ClusterTypeOK
  <2>. QED
    BY <1>13, <1>2, <2>1 DEF BrainLearns
<1>14. CASE Approve
  <2>1. MemoryTypeOK' /\ chaos' \in Nat
    BY <1>14 DEF Approve, MemoryTypeOK, ClusterTypeOK
  <2>. QED
    BY <1>14, <1>2, <2>1 DEF Approve
<1>15. CASE \E f \in approvals : Expire(f)
  <2>1. MemoryTypeOK' /\ chaos' \in Nat
    BY <1>15, SMTT(20) DEF Expire, Chaos, MemoryTypeOK, ClusterTypeOK
  <2>. QED
    BY <1>15, <1>2, <2>1 DEF Expire, Chaos
<1>. QED
  BY <1>3, <1>4, <1>5, <1>6, <1>7, <1>8, <1>9, <1>10, <1>11, <1>12, <1>13, <1>14, <1>15 DEF Environment, Surroundings

\* The step being executed is a step of the plan.
LEMMA CurrentIsAStep ==
    ASSUME TypeOK, todo # {}
    PROVE  Current \in todo /\ Current \in DOMAIN plan /\ plan[Current] \in Step
<1>1. Current \in todo /\ Current \in DOMAIN plan
  BY CurrentIsFirst DEF TypeOK, RunTypeOK
<1>2. plan \in Seq(Step)
  BY DEF TypeOK, RunTypeOK
<1>. QED
  BY <1>1, <1>2, ElementOfSeq, LenProperties

\* Resizes kept by the filter, and every other step it keeps, are steps of the plan.
LEMMA FilterType ==
    ASSUME TypeOK, NEW p \in Seq(Step), NEW inWindow, Filter(p, inWindow), UNCHANGED now
    PROVE  RunTypeOK' /\ cooldown' \in [Keys -> Times]
<1>. DEFINE resizes == KeptResize(p)
            cordons == KeptCordon(p, inWindow)
            kept == resizes \cup cordons \cup dropOrphanedNodeSteps(p, cordons)
<1>1. kept \in SUBSET DOMAIN p
  BY DEF KeptResize, KeptCordon, dropOrphanedNodeSteps
<1>2. cooldown' \in [Keys -> Times]
  BY DEF Filter, Touched, TypeOK, MemoryTypeOK, ClusterTypeOK, Times, Keys
<1>3. CASE kept = {}
  BY <1>2, <1>3, RestType DEF Filter
<1>4. CASE kept # {}
  <2>1. Execute(p, kept, "plan") /\ UNCHANGED <<reverts, emergencies, seen>>
    BY <1>4 DEF Filter
  <2>. HIDE DEF kept
  <2>. QED
    BY <1>1, <1>2, <2>1, ExecuteType
<1>. QED
  BY <1>3, <1>4

\* Every call of the reconcile keeps the types, given that a plan is only executed while it has a
\* current step and only a recorded change is reverted.
LEMMA ReconcileKeepsTypes == IInv /\ Reconcile => TypeOK'
<1>. SUFFICES ASSUME TypeOK, DrainInv, BudgetInv, RevertInv, Reconcile PROVE TypeOK'
  BY DEF IInv
<1>. USE DEF TypeOK, clusterVars, brainVars, memVars, budgetVars
<1>1. ASSUME UNCHANGED <<now, chaos, clusterVars>> PROVE ClusterTypeOK'
  BY <1>1 DEF ClusterTypeOK
<1>2. ASSUME UNCHANGED <<brainVars, cfg, memVars, budgetVars>> PROVE MemoryTypeOK'
  BY <1>2 DEF MemoryTypeOK
<1>3. CASE Collect
  <2>1. ClusterTypeOK'
    BY <1>3, <1>1 DEF Collect
  <2>2. MemoryTypeOK'
    <3>1. now + QuarantineFor \in Times
      BY DEF ClusterTypeOK, Times
    <3>2. quarantine' \in [Workloads -> Times]
      BY <1>3, <3>1 DEF Collect, MemoryTypeOK, Times
    <3>3. NoWatch \in [at: Times, base: Nat]
      BY DEF NoWatch, Times
    <3>4. watch' \in [Workloads -> [at: Times, base: Nat]]
      BY <1>3, <3>3 DEF Collect, Unwatched, MemoryTypeOK
    <3>. QED
      BY <1>3, <3>2, <3>4 DEF Collect, MemoryTypeOK
  <2>3. RunTypeOK'
    <3>1. reverts' \subseteq Workloads
      BY <1>3 DEF Collect, ToRevert, Regressed, MemoryTypeOK
    <3>2. emergencies' \subseteq [node: Nodes, pods: SUBSET Pods]
      BY <1>3 DEF Collect, On, ClusterTypeOK
    <3>3. BreakerOpen \in BOOLEAN
      BY DEF BreakerOpen
    <3>4. seen' \in [harm: [Workloads -> Nat], open: BOOLEAN]
      BY <1>3, <3>3 DEF Collect, ClusterTypeOK
    <3>. QED
      BY <1>3, <3>1, <3>2, <3>4 DEF Collect, RunTypeOK
  <2>. QED
    BY <2>1, <2>2, <2>3
<1>4. CASE \E w \in Workloads, ok \in Outcomes : Revert(w, ok)
  <2>1. PICK w \in Workloads, ok \in Outcomes : Revert(w, ok)
    BY <1>4
  <2>2. applied[w] \in ResizeStep
    BY <2>1 DEF Revert, RevertInv, MemoryTypeOK
  <2>3. applied[w].ctr \in Containers /\ applied[w].from \in Sizes
    BY <2>2 DEF ResizeStep
  <2>4. template' \in [Containers -> Sizes]
    BY <2>1, <2>3 DEF Revert, Patched, ClusterTypeOK
  <2>5. ClusterTypeOK'
    BY <2>1, <2>4 DEF Revert, ClusterTypeOK
  <2>6. MemoryTypeOK'
    BY <2>1 DEF Revert, MemoryTypeOK
  <2>7. RunTypeOK'
    BY <2>1 DEF Revert, RunTypeOK
  <2>. QED
    BY <2>5, <2>6, <2>7
<1>5. CASE \E e \in emergencies : \E p \in EmergencyDrainPlans(e.node, e.pods) : StartDrain(e, p)
  <2>1. PICK e \in emergencies : \E p \in EmergencyDrainPlans(e.node, e.pods) : StartDrain(e, p)
    BY <1>5
  <2>2. PICK p \in EmergencyDrainPlans(e.node, e.pods) : StartDrain(e, p)
    BY <2>1
  <2>3. e.node \in Nodes /\ e.pods \in SUBSET Pods
    BY DEF RunTypeOK
  <2>4. p \in Seq(Step)
    BY <2>3, EmergencyPlansAreOrdered
  <2>5. RunTypeOK'
    BY <2>2, <2>4, ExecuteType DEF StartDrain
  <2>. QED
    BY <2>2, <2>5, <1>1, <1>2 DEF StartDrain
<1>6. CASE ConsiderPlan
  <2>1. RunTypeOK'
    BY <1>6, RestType DEF ConsiderPlan, RunTypeOK
  <2>. QED
    BY <1>6, <2>1, <1>1, <1>2 DEF ConsiderPlan
<1>7. CASE \E inWindow \in BOOLEAN : FetchPlan(inWindow) \/ CheckApproval(inWindow)
  <2>1. PICK inWindow \in BOOLEAN : FetchPlan(inWindow) \/ CheckApproval(inWindow)
    BY <1>7
  <2>2. offer \in Seq(Step)
    BY OffersAreOrdered DEF MemoryTypeOK
  <2>3. plan \in Seq(Step)
    BY DEF RunTypeOK
  <2>4. UNCHANGED now
    BY <2>1 DEF FetchPlan, CheckApproval
  <2>5. RunTypeOK' /\ cooldown' \in [Keys -> Times]
    <3>1. CASE Rest /\ UNCHANGED cooldown
      BY <3>1, RestType DEF MemoryTypeOK
    <3>2. CASE \E p \in {offer, plan} : Filter(p, inWindow)
      BY <3>2, <2>2, <2>3, <2>4, FilterType
    <3>3. CASE /\ pc' = "approval" /\ plan' = offer
               /\ pc = "fetch" /\ UNCHANGED <<cooldown, reverts, emergencies, seen, todo, done, job, tries>>
      <4>1. todo = {} /\ done = {}
        BY <3>3 DEF DrainInv
      <4>. QED
        BY <3>3, <2>2, <4>1 DEF RunTypeOK, MemoryTypeOK
    <3>. QED
      BY <2>1, <3>1, <3>2, <3>3 DEF FetchPlan, CheckApproval
  <2>6. MemoryTypeOK'
    BY <2>1, <2>5 DEF FetchPlan, CheckApproval, MemoryTypeOK
  <2>. QED
    BY <2>1, <2>5, <2>6, <1>1 DEF FetchPlan, CheckApproval
<1>8. CASE DryRun
  <2>1. RunTypeOK'
    BY <1>8 DEF DryRun, RunTypeOK
  <2>. QED
    BY <1>8, <2>1, <1>1, <1>2 DEF DryRun
<1>9. CASE \E ok \in Outcomes : Resize(ok)
  <2>1. PICK ok \in Outcomes : Resize(ok)
    BY <1>9
  <2>2. /\ Current \in DOMAIN plan /\ plan[Current].type = "resize"
        /\ plan[Current].ctr \in Containers /\ plan[Current].to \in Sizes
    BY <2>1, CurrentIsAStep, StepParts DEF Resize, At
  <2>3. template' \in [Containers -> Sizes]
    BY <2>1, <2>2 DEF Resize, Patched, ClusterTypeOK
  <2>4. RunTypeOK'
    BY <2>1, <2>2 DEF Resize, StepFailed, StepDone, RunTypeOK
  <2>5. ClusterTypeOK'
    BY <2>1, <2>3 DEF Resize, ClusterTypeOK
  <2>. QED
    BY <2>1, <2>4, <2>5, <1>2 DEF Resize
<1>10. CASE \E ok \in Outcomes : Cordon(ok)
  <2>1. PICK ok \in Outcomes : Cordon(ok)
    BY <1>10
  <2>2. RunTypeOK'
    BY <2>1, StepEndType DEF Cordon
  <2>3. ClusterTypeOK'
    BY <2>1 DEF Cordon, ClusterTypeOK
  <2>. QED
    BY <2>1, <2>2, <2>3, <1>2 DEF Cordon
<1>11. CASE TakeBudget
  <2>. DEFINE grant == [id |-> Cardinality(log), at |-> now]
  <2>1. grant \in Grants
    BY FS_CardinalityType DEF Grants, ClusterTypeOK, BudgetInv
  <2>2. events' \subseteq Grants /\ log' \subseteq Grants
    BY <1>11, <2>1 DEF TakeBudget, Live, MemoryTypeOK
  <2>3. MemoryTypeOK'
    BY <1>11, <2>2 DEF TakeBudget, MemoryTypeOK
  <2>4. RunTypeOK'
    BY <1>11 DEF TakeBudget, StepFailed, StepDone, RunTypeOK
  <2>. QED
    BY <1>11, <2>3, <2>4, <1>1 DEF TakeBudget
<1>12. CASE EvictAccepted
  <2>1. plan[Current].pod \in Pods
    BY <1>12, CurrentIsAStep, StepParts DEF EvictAccepted, DrainInv
  <2>2. ClusterTypeOK'
    BY <1>12, <2>1 DEF EvictAccepted, ClusterTypeOK
  <2>3. RunTypeOK'
    BY <1>12, StepEndType DEF EvictAccepted
  <2>. QED
    BY <1>12, <2>2, <2>3, <1>2 DEF EvictAccepted
<1>13. CASE EvictNotFound \/ EvictError
  <2>1. RunTypeOK'
    BY <1>13, StepEndType DEF EvictNotFound, EvictError, StepFailed
  <2>. QED
    BY <1>13, <2>1, <1>1, <1>2 DEF EvictNotFound, EvictError
<1>14. CASE EvictRefused
  <2>1. RunTypeOK'
    <3>1. CASE ~(tries < EvictAttempts)
      BY <1>14, <3>1, StepEndType DEF EvictRefused, StepFailed
    <3>2. CASE tries < EvictAttempts
      BY <1>14, <3>2, SMTT(20) DEF EvictRefused, RunTypeOK
    <3>. QED
      BY <3>1, <3>2
  <2>. QED
    BY <1>14, <2>1, <1>1, <1>2 DEF EvictRefused
<1>15. CASE \E outcome \in {"empty", "timeout", "error"} : WaitNodeEmpty(outcome)
  <2>1. PICK outcome \in {"empty", "timeout", "error"} : WaitNodeEmpty(outcome)
    BY <1>15
  <2>2. RunTypeOK'
    BY <2>1, StepEndType DEF WaitNodeEmpty, RunTypeOK
  <2>. QED
    BY <2>1, <2>2, <1>1, <1>2 DEF WaitNodeEmpty
<1>16. CASE \E ok \in Outcomes : GetNode(ok)
  <2>1. PICK ok \in Outcomes : GetNode(ok)
    BY <1>16
  <2>2. RunTypeOK'
    BY <2>1, StepEndType DEF GetNode, RunTypeOK
  <2>. QED
    BY <2>1, <2>2, <1>1, <1>2 DEF GetNode
<1>17. CASE \E ok \in Outcomes : DeleteNode(ok)
  <2>1. PICK ok \in Outcomes : DeleteNode(ok)
    BY <1>17
  <2>2. RunTypeOK'
    BY <2>1, StepEndType DEF DeleteNode, RunTypeOK
  <2>3. ClusterTypeOK'
    BY <2>1 DEF DeleteNode, Displaced, ClusterTypeOK
  <2>. QED
    BY <2>1, <2>2, <2>3, <1>2 DEF DeleteNode
<1>18. CASE \E ok \in Outcomes : TerminateNode(ok)
  <2>1. PICK ok \in Outcomes : TerminateNode(ok)
    BY <1>18
  <2>2. RunTypeOK'
    BY <2>1, StepEndType DEF TerminateNode
  <2>3. ClusterTypeOK'
    BY <2>1 DEF TerminateNode, ClusterTypeOK
  <2>. QED
    BY <2>1, <2>2, <2>3, <1>2 DEF TerminateNode
<1>19. CASE Finish
  <2>1. RunTypeOK'
    <3>1. CASE job = "drain"
      <4>1. <<>> \in Seq(Step) /\ DOMAIN <<>> = {}
        BY EmptySeq
      <4>. QED
        BY <1>19, <3>1, <4>1 DEF Finish, RunTypeOK
    <3>2. CASE job # "drain"
      BY <1>19, <3>2, RestType DEF Finish
    <3>. QED
      BY <3>1, <3>2
  <2>2. applied' \in [Workloads -> ResizeStep \cup {NoStep}]
    <3>1. \A i \in done : plan[i] \in ResizeStep
      <4>1. \A i \in done : i \in DOMAIN plan /\ plan[i].type = "resize"
        BY DEF RunTypeOK
      <4>2. \A i \in DOMAIN plan : plan[i] \in Step
        BY ElementOfSeq, LenProperties DEF RunTypeOK
      <4>. QED
        BY <4>1, <4>2, StepParts
    <3>2. \A w \in Workloads : Changed(w) # {} => (CHOOSE i \in Changed(w) : TRUE) \in done
      BY DEF Changed
    <3>3. CASE job = "drain"
      BY <1>19, <3>3 DEF Finish, MemoryTypeOK
    <3>4. CASE job # "drain"
      <4>. DEFINE last(w) == plan[CHOOSE i \in Changed(w) : TRUE]
      <4>1. applied' = [w \in Workloads |-> IF Changed(w) = {} THEN applied[w] ELSE last(w)]
        BY <1>19, <3>4 DEF Finish
      <4>2. \A w \in Workloads : Changed(w) # {} => last(w) \in ResizeStep
        BY <3>1, <3>2
      <4>. HIDE DEF last
      <4>. QED
        BY <4>1, <4>2 DEF MemoryTypeOK
    <3>. QED
      BY <3>3, <3>4
  <2>3. watch' \in [Workloads -> [at: Times, base: Nat]]
    <3>1. \A w \in Workloads : [at |-> now, base |-> seen.harm[w]] \in [at: Times, base: Nat]
      BY DEF RunTypeOK, ClusterTypeOK, Times
    <3>2. CASE job = "drain"
      BY <1>19, <3>2 DEF Finish, MemoryTypeOK
    <3>3. CASE job # "drain"
      <4>1. watch' = [w \in Workloads |-> IF Changed(w) = {} THEN watch[w]
                                          ELSE [at |-> now, base |-> seen.harm[w]]]
        BY <1>19, <3>3 DEF Finish
      <4>. QED
        BY <3>1, <4>1 DEF MemoryTypeOK
    <3>. QED
      BY <3>2, <3>3
  <2>4. MemoryTypeOK'
    BY <1>19, <2>2, <2>3 DEF Finish, MemoryTypeOK
  <2>. QED
    BY <1>19, <2>1, <2>4, <1>1 DEF Finish
<1>. QED
  BY <1>3, <1>4, <1>5, <1>6, <1>7, <1>8, <1>9, <1>10, <1>11, <1>12, <1>13, <1>14, <1>15, <1>16,
     <1>17, <1>18, <1>19 DEF Reconcile

\* A restart starts from an empty memory.
LEMMA RestartKeepsTypes == TypeOK /\ Restart => TypeOK'
<1>. SUFFICES ASSUME TypeOK, Restart PROVE TypeOK'
  OBVIOUS
<1>. USE DEF TypeOK, Restart, clusterVars, brainVars
<1>1. ClusterTypeOK'
  BY DEF ClusterTypeOK, Chaos
<1>2. MemoryTypeOK'
  BY DEF MemoryTypeOK, Times, NoWatch
<1>3. RunTypeOK'
  BY RestType
<1>. QED
  BY <1>1, <1>2, <1>3

(* ---- The budget ---- *)

\* A grant is only added while the window has room, and a window never regains what left it.
LEMMA BudgetInvHolds == IInv /\ [Next]_vars => BudgetInv'
<1>. SUFFICES ASSUME IInv, [Next]_vars PROVE BudgetInv'
  OBVIOUS
<1>. USE DEF clusterVars, brainVars, memVars, budgetVars, runVars
<1>0. TypeOK /\ BudgetInv
  BY DEF IInv
<1>1. log \subseteq Grants /\ events \subseteq Grants /\ now \in Nat
  BY <1>0 DEF TypeOK, MemoryTypeOK, ClusterTypeOK
<1>2. CASE UNCHANGED <<now, events, log>>
  <2>1. now' = now /\ events' = events /\ log' = log
    BY <1>2
  <2>. QED
    BY <1>0, <2>1 DEF BudgetInv, BudgetHeld, Live
<1>3. CASE Tick
  <2>1. now' = now + 1 /\ UNCHANGED <<events, log>>
    BY <1>3 DEF Tick
  <2>2. \A g \in log : g.at \in Nat
    BY <1>1 DEF Grants
  <2>3. Live(log, BudgetWindow, now') \subseteq Live(log, BudgetWindow, now)
    <3>1. \A g \in log : g.at > now' - BudgetWindow => g.at > now - BudgetWindow
      <4>. SUFFICES ASSUME NEW g \in log, g.at > now' - BudgetWindow
                    PROVE  g.at > now - BudgetWindow
        OBVIOUS
      <4>1. BudgetWindow \in Nat /\ g.at \in Nat
        BY <2>2
      <4>2. now' = now + 1 /\ now \in Nat
        BY <1>1, <2>1
      <4>. QED
        BY <4>1, <4>2
    <3>. QED
      BY <3>1 DEF Live
  <2>4. \A g \in log : g.at <= now'
    BY <1>0, <1>1, <2>1, <2>2 DEF BudgetInv
  <2>5. BudgetHeld'
    BY <1>0, <2>1 DEF BudgetInv, BudgetHeld
  <2>6. Live(log', BudgetWindow, now') \subseteq events'
    BY <1>0, <2>1, <2>3 DEF BudgetInv
  <2>. QED
    BY <1>0, <2>1, <2>4, <2>5, <2>6 DEF BudgetInv
<1>4. CASE TakeBudget
  <2>. DEFINE grant == [id |-> Cardinality(log), at |-> now]
              kept == Live(events, BudgetWindow, now)
              before(g) == {e \in log : e.id <= g.id /\ e.at > g.at - BudgetWindow}
  <2>1. UNCHANGED now /\ IsFiniteSet(log) /\ kept \subseteq events /\ events \subseteq log
    BY <1>0, <1>4 DEF TakeBudget, BudgetInv, Live
  <2>2. Live(log, BudgetWindow, now) \subseteq kept
    BY <1>0 DEF BudgetInv, Live
  <2>3. CASE events' = kept /\ log' = log
    BY <1>0, <2>1, <2>2, <2>3 DEF BudgetInv, BudgetHeld, Live
  <2>4. CASE /\ Cardinality(kept) < MaxEvictions
             /\ events' = kept \cup {grant} /\ log' = log \cup {grant}
    <3>1. Cardinality(log) \in Nat
      BY <2>1, FS_CardinalityType
    <3>2. \A g \in log : g.id \in Nat /\ g.at \in Nat /\ g.id < Cardinality(log) /\ g.at <= now
      BY <1>0, <1>1 DEF BudgetInv, Grants
    <3>3. grant \notin log
      BY <3>1, <3>2
    <3>4. IsFiniteSet(log') /\ Cardinality(log') = Cardinality(log) + 1
      BY <2>1, <2>4, <3>3, FS_AddElement
    <3>5. \A g \in log' : g.id < Cardinality(log') /\ g.at <= now'
      <4>1. \A g \in log : g.id < Cardinality(log')
        BY <3>1, <3>2, <3>4
      <4>2. grant.id < Cardinality(log') /\ grant.at <= now
        BY <1>1, <3>1, <3>4
      <4>. QED
        BY <2>1, <2>4, <3>2, <4>1, <4>2
    <3>6. Live(log', BudgetWindow, now) \subseteq events'
      <4>1. Live(log', BudgetWindow, now) \subseteq Live(log, BudgetWindow, now) \cup {grant}
        BY <2>4 DEF Live
      <4>. QED
        BY <4>1, <2>2, <2>4
    <3>7. ASSUME NEW g \in log
          PROVE  {e \in log' : e.id <= g.id /\ e.at > g.at - BudgetWindow} = before(g)
      BY <2>4, <3>1, <3>2
    <3>8. {e \in log' : e.id <= grant.id /\ e.at > grant.at - BudgetWindow}
              \subseteq kept \cup {grant}
      BY <2>2, <2>4 DEF Live
    <3>9. /\ IsFiniteSet(kept \cup {grant})
          /\ Cardinality(kept \cup {grant}) <= MaxEvictions
      <4>1. IsFiniteSet(kept) /\ Cardinality(kept) \in Nat
        BY <2>1, FS_Subset, FS_CardinalityType
      <4>2. grant \notin kept
        BY <2>1, <3>3
      <4>3. Cardinality(kept) < MaxEvictions
        BY <2>4
      <4>4. /\ IsFiniteSet(kept \cup {grant})
            /\ Cardinality(kept \cup {grant}) = Cardinality(kept) + 1
        <5>. HIDE DEF kept, grant
        <5>. QED
          BY <4>1, <4>2, FS_AddElement
      <4>5. MaxEvictions \in Nat
        OBVIOUS
      <4>. HIDE DEF kept, grant
      <4>. QED
        BY <4>1, <4>3, <4>4, <4>5
    <3>10. Cardinality({e \in log' : e.id <= grant.id /\ e.at > grant.at - BudgetWindow})
              <= MaxEvictions
      <4>. DEFINE window == {e \in log' : e.id <= grant.id /\ e.at > grant.at - BudgetWindow}
                  full == kept \cup {grant}
      <4>. HIDE DEF window, full
      <4>1. window \subseteq full /\ IsFiniteSet(full) /\ Cardinality(full) <= MaxEvictions
        BY <3>8, <3>9 DEF window, full
      <4>2. Cardinality(window) <= Cardinality(full) /\ Cardinality(window) \in Nat
            /\ Cardinality(full) \in Nat
        BY <4>1, FS_Subset, FS_CardinalityType
      <4>3. Cardinality(window) <= MaxEvictions
        BY <4>1, <4>2
      <4>. QED
        BY <4>3 DEF window
    <3>11. BudgetHeld'
      <4>. SUFFICES ASSUME NEW g \in log'
                    PROVE  Cardinality({e \in log' : e.id <= g.id /\ e.at > g.at - BudgetWindow})
                               <= MaxEvictions
        BY DEF BudgetHeld
      <4>1. CASE g \in log
        BY <1>0, <3>7, <4>1 DEF BudgetInv, BudgetHeld
      <4>2. CASE g = grant
        BY <3>10, <4>2
      <4>. QED
        BY <2>4, <4>1, <4>2
    <3>12. events' \subseteq log'
      BY <2>1, <2>4
    <3>. QED
      BY <2>1, <3>4, <3>5, <3>6, <3>11, <3>12 DEF BudgetInv
  <2>. QED
    BY <1>4, <2>3, <2>4 DEF TakeBudget, BudgetAllows
<1>5. CASE Restart
  <2>1. events' = {} /\ log' = {}
    BY <1>5 DEF Restart
  <2>. QED
    BY <2>1, FS_EmptySet DEF BudgetInv, BudgetHeld, Live
<1>6. CASE Environment /\ ~Tick
  BY <1>6, <1>2 DEF Environment, Surroundings, Bind, Leave, PodFails, NodeFails, NodeRecovers, SpotNotice, Reclaim,
     ToggleFreeze, UserEdits, BrainLearns, Approve, Expire
<1>7. CASE Reconcile /\ ~TakeBudget
  BY <1>7, <1>2 DEF Reconcile, Collect, Revert, StartDrain, ConsiderPlan, FetchPlan, CheckApproval,
     DryRun, Resize, Cordon, EvictAccepted, EvictNotFound, EvictRefused, EvictError, WaitNodeEmpty,
     GetNode, DeleteNode, TerminateNode, Finish
<1>8. CASE UNCHANGED vars
  BY <1>8, <1>2 DEF vars
<1>. QED
  BY <1>3, <1>4, <1>5, <1>6, <1>7, <1>8 DEF Next

(* ---- The drain ---- *)

\* What the step being executed works on is closed: no cordon of it can come later.
LEMMA CurrentIsClosed ==
    ASSUME TypeOK, DrainInv, todo # {}, plan[Current].type \in {"evict", "delete"}
    PROVE  Closed(plan[Current].node)
<1>0. todo \subseteq Nat
  BY DEF TypeOK, RunTypeOK
<1>1. Current \in todo /\ \A i \in todo : Current <= i /\ i \in Nat /\ Current \in Nat
  BY <1>0, CurrentIsFirst
<1>2. ~\E i \in todo : i < Current
  BY <1>1
<1>3. PICK c : c = Current /\ c \in todo
  BY <1>1
<1>4. ~\E i \in todo : i < c
  BY <1>2, <1>3
<1>5. plan[c].type \in {"evict", "delete"}
  BY <1>3
<1>6. \A j \in todo : plan[j].type \in {"evict", "delete"} =>
          \/ Closed(plan[j].node)
          \/ \E i \in todo : i < j /\ plan[i].type = "cordon" /\ plan[i].node = plan[j].node
  BY DEF DrainInv
<1>7. Closed(plan[c].node)
  BY <1>3, <1>4, <1>5, <1>6
<1>. QED
  BY <1>3, <1>7

\* An execution starts with every cordon before the steps that rely on it.
LEMMA ExecuteKeepsDrainInv ==
    ASSUME TypeOK, DrainInv, UNCHANGED <<present, cordoned>>,
           NEW p, NEW kept, NEW kind, Execute(p, kept, kind),
           \A j \in kept : p[j].type \in {"evict", "delete"} =>
               \E i \in kept : i < j /\ p[i].type = "cordon" /\ p[i].node = p[j].node
    PROVE  DrainInv'
  BY DEF DrainInv, Execute, Closed

\* Whatever the filter keeps of a removal, it keeps with its cordon.
LEMMA FilterKeepsDrainInv ==
    ASSUME TypeOK, DrainInv, UNCHANGED <<present, cordoned>>,
           NEW p, CordonFirst(p), NEW inWindow, Filter(p, inWindow)
    PROVE  DrainInv'
<1>. DEFINE cordons == KeptCordon(p, inWindow)
            kept == KeptResize(p) \cup cordons \cup dropOrphanedNodeSteps(p, cordons)
<1>1. CASE kept = {}
  <2>1. Rest
    BY <1>1 DEF Filter
  <2>. QED
    BY <2>1 DEF Rest, DrainInv
<1>2. CASE kept # {}
  <2>1. Execute(p, kept, "plan")
    BY <1>2 DEF Filter
  <2>2. ASSUME NEW j \in kept, p[j].type \in {"evict", "delete"}
        PROVE  \E i \in kept : i < j /\ p[i].type = "cordon" /\ p[i].node = p[j].node
    <3>1. j \in dropOrphanedNodeSteps(p, cordons)
      BY <2>2 DEF KeptResize, KeptCordon
    <3>2. PICK k \in cordons : p[k].node = p[j].node
      BY <3>1 DEF dropOrphanedNodeSteps
    <3>3. PICK i \in DOMAIN p : i < j /\ p[i].type = "cordon" /\ p[i].node = p[j].node
      BY <2>2, <3>1 DEF CordonFirst, dropOrphanedNodeSteps
    <3>4. i \in cordons
      BY <3>2, <3>3 DEF KeptCordon
    <3>. QED
      BY <3>3, <3>4
  <2>. HIDE DEF kept
  <2>. QED
    BY <2>1, <2>2, ExecuteKeepsDrainInv
<1>. QED
  BY <1>1, <1>2

\* The end of a step leaves the later ones behind their cordons.
LEMMA StepEndKeepsDrainInv ==
    ASSUME TypeOK, DrainInv, UNCHANGED plan, cordoned' \subseteq present',
           \A n \in Nodes : Closed(n) => Closed(n)',
           \/ Abort
           \/ StepDone /\ todo # {} /\ \A n \in Nodes :
                 plan[Current].type = "cordon" /\ n = plan[Current].node => Closed(n)'
    PROVE  DrainInv'
<1>1. CASE Abort
  BY <1>1 DEF Abort, DrainInv
<1>2. CASE StepDone /\ todo # {} /\ \A n \in Nodes :
              plan[Current].type = "cordon" /\ n = plan[Current].node => Closed(n)'
  <2>1. pc' = "exec" /\ todo' = todo \ {Current}
    BY <1>2 DEF StepDone
  <2>2. ASSUME NEW j \in todo', plan[j].type \in {"evict", "delete"}
        PROVE  \/ Closed(plan[j].node)'
               \/ \E i \in todo' : i < j /\ plan[i].type = "cordon" /\ plan[i].node = plan[j].node
    <3>1. plan[j].node \in Nodes
      <4>1. plan[j] \in Step
        BY <2>1, ElementOfSeq, LenProperties DEF TypeOK, RunTypeOK
      <4>. QED
        BY <2>2, <4>1, StepParts
    <3>2. CASE Closed(plan[j].node)
      BY <3>1, <3>2
    <3>3. CASE \E i \in todo : i < j /\ plan[i].type = "cordon" /\ plan[i].node = plan[j].node
      <4>1. PICK i \in todo : i < j /\ plan[i].type = "cordon" /\ plan[i].node = plan[j].node
        BY <3>3
      <4>2. CASE i = Current
        BY <1>2, <3>1, <4>1, <4>2
      <4>. QED
        BY <2>1, <4>1, <4>2
    <3>. QED
      BY <2>1, <2>2, <3>2, <3>3 DEF DrainInv
  <2>. QED
    BY <2>1, <2>2 DEF DrainInv, Closed
<1>. QED
  BY <1>1, <1>2

\* Between two calls nothing reopens a node, and no pod comes to a closed one.
LEMMA EnvironmentKeepsDrainInv == TypeOK /\ DrainInv /\ Environment => DrainInv'
<1>. SUFFICES ASSUME TypeOK, DrainInv, Environment PROVE DrainInv'
  OBVIOUS
<1>. USE DEF clusterVars, brainVars, memVars, budgetVars, runVars
<1>1. UNCHANGED <<pc, plan, todo, done>> /\ cordoned' \subseteq present' /\ present' \subseteq present
      /\ \A n \in Nodes : Closed(n) => Closed(n)'
  BY DEF DrainInv, Closed, Environment, Surroundings, Tick, Bind, Leave, PodFails, NodeFails, NodeRecovers,
     SpotNotice, Reclaim, ToggleFreeze, UserEdits, BrainLearns, Approve, Expire
<1>2. ASSUME NEW n \in Nodes, Closed(n), On(n) = {}
      PROVE  On(n)' = {}
  <2>1. \A p \in Pods : loc[p] # n
    BY <1>2 DEF On
  <2>2. \A p \in Pods : loc'[p] # n
    <3>1. CASE UNCHANGED loc
      BY <2>1, <3>1
    <3>2. CASE \E p \in Pods, m \in Nodes : Bind(p, m)
      BY <1>2, <2>1, <3>2 DEF Bind, Schedulable, Closed, TypeOK, ClusterTypeOK
    <3>3. CASE \E p \in Pods : Leave(p)
      BY <2>1, <3>3 DEF Leave, TypeOK, ClusterTypeOK
    <3>4. CASE \E m \in Nodes : Reclaim(m)
      BY <2>1, <3>4 DEF Reclaim, Displaced
    <3>. QED
      BY <3>1, <3>2, <3>3, <3>4 DEF Environment, Surroundings, Tick, PodFails, NodeFails, NodeRecovers, SpotNotice,
         ToggleFreeze, UserEdits, BrainLearns, Approve, Expire
  <2>. QED
    BY <2>2 DEF On
<1>3. \A j \in todo : plan[j].type \in {"evict", "delete"} => plan[j].node \in Nodes
  <2>1. \A j \in todo : plan[j] \in Step
    BY ElementOfSeq, LenProperties DEF TypeOK, RunTypeOK
  <2>. QED
    BY <2>1, StepParts
<1>4. Current' = Current
  BY <1>1 DEF Current
<1>5. pc \in {"getnode", "delete"} =>
        Closed(plan[Current].node) /\ plan[Current].node \in Nodes /\ On(plan[Current].node) = {}
  BY <1>3, CurrentIsClosed, CurrentIsFirst DEF DrainInv
<1>6. pc' \in {"getnode", "delete"} => On(plan[Current].node)' = {}
  <2>. DEFINE n == plan[Current].node
  <2>1. ASSUME pc \in {"getnode", "delete"} PROVE \A p \in Pods : loc'[p] # n
    BY <1>2, <1>5, <2>1 DEF On
  <2>. QED
    BY <1>1, <1>4, <2>1 DEF On
<1>7. \A j \in todo : plan[j].type \in {"evict", "delete"} =>
          \/ Closed(plan[j].node)'
          \/ \E i \in todo : i < j /\ plan[i].type = "cordon" /\ plan[i].node = plan[j].node
  <2>1. \A j \in todo : plan[j].type \in {"evict", "delete"} /\ Closed(plan[j].node) => Closed(plan[j].node)'
    BY <1>1, <1>3 DEF Closed
  <2>. QED
    BY <2>1 DEF DrainInv
<1>. QED
  BY <1>1, <1>4, <1>6, <1>7 DEF DrainInv, Closed

\* One case per call of the reconcile.
LEMMA ReconcileKeepsDrainInv == TypeOK /\ DrainInv /\ Reconcile => DrainInv'
<1>. SUFFICES ASSUME TypeOK, DrainInv, Reconcile PROVE DrainInv'
  OBVIOUS
<1>. USE DEF clusterVars, brainVars, memVars, budgetVars, runVars
<1>0. ASSUME UNCHANGED <<present, cordoned>> PROVE \A n \in Nodes : Closed(n) => Closed(n)'
  BY <1>0 DEF Closed
<1>1. CASE Rest /\ UNCHANGED <<present, cordoned>>
  BY <1>1 DEF Rest, DrainInv
<1>2. CASE Collect \/ \E w \in Workloads, ok \in Outcomes : Revert(w, ok)
  BY <1>2 DEF Collect, Revert, DrainInv
<1>3. CASE \E e \in emergencies : \E p \in EmergencyDrainPlans(e.node, e.pods) : StartDrain(e, p)
  <2>1. PICK e \in emergencies : \E p \in EmergencyDrainPlans(e.node, e.pods) : StartDrain(e, p)
    BY <1>3
  <2>2. PICK p \in EmergencyDrainPlans(e.node, e.pods) : StartDrain(e, p)
    BY <2>1
  <2>3. CordonFirst(p)
    BY EmergencyPlansAreOrdered DEF TypeOK, RunTypeOK
  <2>. QED
    BY <2>2, <2>3, ExecuteKeepsDrainInv DEF StartDrain, CordonFirst
<1>4. CASE ConsiderPlan
  BY <1>1, <1>4 DEF ConsiderPlan, DrainInv
<1>5. CASE \E inWindow \in BOOLEAN : FetchPlan(inWindow) \/ CheckApproval(inWindow)
  <2>1. PICK inWindow \in BOOLEAN : FetchPlan(inWindow) \/ CheckApproval(inWindow)
    BY <1>5
  <2>2. UNCHANGED <<present, cordoned>>
    BY <2>1 DEF FetchPlan, CheckApproval
  <2>3. offer \in Plans \cup {<<>>} /\ (pc = "approval" => plan \in Plans)
    BY DEF TypeOK, MemoryTypeOK, DrainInv
  <2>4. CASE Rest
    BY <1>1, <2>2, <2>4
  <2>5. CASE \E p \in Plans \cup {<<>>} : Filter(p, inWindow)
    BY <2>2, <2>5, OffersAreOrdered, FilterKeepsDrainInv
  <2>6. CASE pc = "fetch" /\ pc' = "approval" /\ offer # <<>> /\ plan' = offer /\ UNCHANGED <<todo, done>>
    BY <2>2, <2>3, <2>6 DEF DrainInv
  <2>. QED
    BY <2>1, <2>3, <2>4, <2>5, <2>6 DEF FetchPlan, CheckApproval
<1>6. CASE DryRun
  BY <1>6 DEF DryRun, DrainInv
<1>7. CASE \/ \E ok \in Outcomes : Resize(ok)
           \/ EvictAccepted \/ EvictNotFound \/ EvictError
  <2>1. UNCHANGED <<plan, present, cordoned>> /\ StepDone /\ todo # {}
        /\ plan[Current].type \in {"resize", "evict"}
    BY <1>7 DEF Resize, EvictAccepted, EvictNotFound, EvictError, StepFailed, At, DrainInv
  <2>. QED
    BY <1>0, <2>1, StepEndKeepsDrainInv DEF DrainInv
<1>8. CASE \E ok \in Outcomes : Cordon(ok)
  <2>1. PICK ok \in Outcomes : Cordon(ok)
    BY <1>8
  <2>2. UNCHANGED <<plan, present>> /\ cordoned' \subseteq present'
        /\ \A n \in Nodes : Closed(n) => Closed(n)'
    BY <2>1 DEF Cordon, DrainInv, Closed
  <2>3. \/ Abort
        \/ StepDone /\ todo # {} /\ \A n \in Nodes :
              plan[Current].type = "cordon" /\ n = plan[Current].node => Closed(n)'
    BY <2>1 DEF Cordon, At, Closed
  <2>. QED
    BY <2>2, <2>3, StepEndKeepsDrainInv
<1>9. CASE TakeBudget
  <2>1. UNCHANGED <<plan, done, present, cordoned>> /\ todo # {} /\ plan[Current].type = "evict"
    BY <1>9 DEF TakeBudget, At
  <2>2. CASE pc' = "evict" /\ UNCHANGED todo
    BY <2>1, <2>2 DEF DrainInv, Current, Closed
  <2>3. CASE StepDone
    BY <1>0, <2>1, <2>3, StepEndKeepsDrainInv DEF DrainInv
  <2>. QED
    BY <1>9, <2>2, <2>3 DEF TakeBudget, StepFailed
<1>10. CASE EvictRefused
  <2>1. UNCHANGED <<plan, done, present, cordoned>> /\ todo # {} /\ plan[Current].type = "evict"
    BY <1>10 DEF EvictRefused, DrainInv
  <2>2. CASE UNCHANGED <<pc, todo>>
    BY <1>10, <2>1, <2>2 DEF EvictRefused, DrainInv, Current, Closed
  <2>3. CASE StepDone
    BY <1>0, <2>1, <2>3, StepEndKeepsDrainInv DEF DrainInv
  <2>. QED
    BY <1>10, <2>2, <2>3 DEF EvictRefused, StepFailed
<1>11. CASE \E outcome \in {"empty", "timeout", "error"} : WaitNodeEmpty(outcome)
  <2>1. PICK outcome \in {"empty", "timeout", "error"} : WaitNodeEmpty(outcome)
    BY <1>11
  <2>2. UNCHANGED <<plan, done, present, cordoned, loc>>
    BY <2>1 DEF WaitNodeEmpty
  <2>3. CASE outcome = "empty"
    <3>1. todo # {} /\ plan[Current].type = "delete" /\ UNCHANGED todo /\ pc' = "getnode"
          /\ On(plan[Current].node) = {}
      BY <2>1, <2>3 DEF WaitNodeEmpty, At
    <3>. QED
      BY <2>2, <3>1 DEF DrainInv, Current, Closed, On
  <2>4. CASE Abort
    BY <1>0, <2>2, <2>4, StepEndKeepsDrainInv DEF DrainInv
  <2>. QED
    BY <2>1, <2>3, <2>4 DEF WaitNodeEmpty
<1>12. CASE \E ok \in Outcomes : GetNode(ok)
  <2>1. PICK ok \in Outcomes : GetNode(ok)
    BY <1>12
  <2>2. UNCHANGED <<plan, done, present, cordoned, loc>>
    BY <2>1 DEF GetNode
  <2>3. CASE pc' = "delete" /\ UNCHANGED todo
    BY <2>1, <2>2, <2>3 DEF GetNode, DrainInv, Current, Closed, On
  <2>4. CASE Abort
    BY <1>0, <2>2, <2>4, StepEndKeepsDrainInv DEF DrainInv
  <2>. QED
    BY <2>1, <2>3, <2>4 DEF GetNode
<1>13. CASE \E ok \in Outcomes : DeleteNode(ok)
  <2>1. PICK ok \in Outcomes : DeleteNode(ok)
    BY <1>13
  <2>2. /\ UNCHANGED <<plan, done>> /\ cordoned' \subseteq present'
        /\ todo # {} /\ plan[Current].type = "delete"
        /\ \A n \in Nodes : Closed(n) => Closed(n)'
    BY <2>1 DEF DeleteNode, DrainInv, Closed
  <2>3. CASE Abort \/ StepDone
    BY <2>2, <2>3, StepEndKeepsDrainInv
  <2>4. CASE pc' = "terminate" /\ UNCHANGED todo /\ present' = present \ {plan[Current].node}
    <3>1. Current' = Current
      BY <2>4 DEF Current
    <3>2. \A j \in todo : plan[j].type \in {"evict", "delete"} => plan[j].node \in Nodes
      <4>1. \A j \in todo : plan[j] \in Step
        BY ElementOfSeq, LenProperties DEF TypeOK, RunTypeOK
      <4>. QED
        BY <4>1, StepParts
    <3>3. \A j \in todo : plan[j].type \in {"evict", "delete"} =>
              \/ Closed(plan[j].node)'
              \/ \E i \in todo : i < j /\ plan[i].type = "cordon" /\ plan[i].node = plan[j].node
      <4>1. \A j \in todo : plan[j].type \in {"evict", "delete"} /\ Closed(plan[j].node)
                             => Closed(plan[j].node)'
        BY <2>2, <3>2 DEF Closed
      <4>. QED
        BY <4>1 DEF DrainInv
    <3>. QED
      BY <2>2, <2>4, <3>1, <3>3 DEF DrainInv, Closed
  <2>. QED
    BY <2>1, <2>3, <2>4 DEF DeleteNode
<1>14. CASE \E ok \in Outcomes : TerminateNode(ok)
  <2>1. UNCHANGED <<plan, present, cordoned>> /\ todo # {} /\ plan[Current].type = "delete"
        /\ (Abort \/ StepDone)
    BY <1>14 DEF TerminateNode, DrainInv
  <2>. QED
    BY <1>0, <2>1, StepEndKeepsDrainInv DEF DrainInv
<1>15. CASE Finish
  <2>1. UNCHANGED <<present, cordoned>>
    BY <1>15 DEF Finish
  <2>2. CASE Rest
    BY <1>1, <2>1, <2>2
  <2>3. CASE pc' = "revert" /\ done' = {} /\ UNCHANGED todo
    BY <1>15, <2>1, <2>3 DEF Finish, DrainInv
  <2>. QED
    BY <1>15, <2>2, <2>3 DEF Finish
<1>. QED
  BY <1>2, <1>3, <1>4, <1>5, <1>6, <1>7, <1>8, <1>9, <1>10, <1>11, <1>12, <1>13, <1>14, <1>15
     DEF Reconcile

(* ---- The revert ---- *)

\* A watch is armed together with the step that undoes the change, and dropped no later.
LEMMA RevertInvHolds == IInv /\ [Next]_vars => RevertInv'
<1>. SUFFICES ASSUME IInv, [Next]_vars PROVE RevertInv'
  OBVIOUS
<1>. USE DEF clusterVars, brainVars, memVars, budgetVars, runVars
<1>0. TypeOK /\ DrainInv /\ RevertInv
  BY DEF IInv
<1>1. CASE UNCHANGED <<watch, applied, reverts>> /\ (pc' = "revert" \/ reverts = {})
  BY <1>0, <1>1 DEF RevertInv, WatchedIsRevertible, Watched
<1>2. CASE Rest /\ UNCHANGED <<watch, applied>>
  BY <1>0, <1>2 DEF RevertInv, WatchedIsRevertible, Watched, Rest
<1>3. CASE Collect
  <2>1. \A w \in Workloads : Watched(watch, w)' => Watched(watch, w) /\ watch'[w] = watch[w]
    BY <1>3 DEF Collect, Unwatched, Watched, NoWatch
  <2>2. \A w \in reverts' : w \in Workloads /\ applied[w] # NoStep /\ watch'[w] = NoWatch
    BY <1>0, <1>3 DEF Collect, Unwatched, ToRevert, Regressed, TypeOK, MemoryTypeOK
  <2>3. pc' = "revert" /\ UNCHANGED applied
    BY <1>3 DEF Collect
  <2>4. \A w \in reverts' : applied'[w] # NoStep /\ ~Watched(watch, w)'
    BY <2>2, <2>3 DEF Watched, NoWatch
  <2>5. WatchedIsRevertible'
    BY <1>0, <2>1, <2>3 DEF RevertInv, WatchedIsRevertible
  <2>. QED
    BY <2>3, <2>4, <2>5 DEF RevertInv
<1>4. CASE \E w \in Workloads, ok \in Outcomes : Revert(w, ok)
  <2>1. PICK w \in Workloads, ok \in Outcomes : Revert(w, ok)
    BY <1>4
  <2>2. /\ UNCHANGED watch /\ pc' = "revert" /\ reverts' = reverts \ {w}
        /\ \A v \in Workloads : v # w => applied'[v] = applied[v]
        /\ ~Watched(watch, w) /\ reverts \subseteq Workloads
    BY <1>0, <2>1 DEF Revert, RevertInv, TypeOK, MemoryTypeOK, RunTypeOK
  <2>. QED
    BY <1>0, <2>2 DEF RevertInv, WatchedIsRevertible, Watched
<1>5. CASE Finish
  <2>1. CASE job = "drain"
    BY <1>1, <1>5, <2>1 DEF Finish
  <2>2. CASE job # "drain"
    <3>1. ASSUME NEW w \in Workloads, Watched(watch, w)'
          PROVE  applied'[w] # NoStep /\ WorkloadOf[applied'[w].ctr] = w
      <4>1. CASE Changed(w) = {}
        <5>1. applied'[w] = applied[w] /\ watch'[w] = watch[w]
          BY <1>5, <2>2, <4>1 DEF Finish
        <5>. QED
          BY <1>0, <3>1, <5>1 DEF RevertInv, WatchedIsRevertible, Watched
      <4>2. CASE Changed(w) # {}
        <5>1. PICK i \in Changed(w) : applied'[w] = plan[i]
          BY <1>5, <2>2, <4>2 DEF Finish
        <5>2. WorkloadOf[plan[i].ctr] = w /\ plan[i].type = "resize"
          BY <1>0, <5>1 DEF Changed, TypeOK, RunTypeOK
        <5>. QED
          BY <5>1, <5>2 DEF NoStep
      <4>. QED
        BY <4>1, <4>2
    <3>2. reverts' = {}
      BY <1>5, <2>2 DEF Finish, Rest
    <3>. QED
      BY <3>1, <3>2 DEF RevertInv, WatchedIsRevertible
  <2>. QED
    BY <2>1, <2>2
<1>6. CASE Restart
  BY <1>6 DEF Restart, Rest, RevertInv, WatchedIsRevertible, Watched, NoWatch
<1>7. CASE UNCHANGED <<watch, applied, reverts, pc>>
  BY <1>0, <1>7 DEF RevertInv, WatchedIsRevertible, Watched
<1>8. CASE Environment \/ UNCHANGED vars
  BY <1>7, <1>8 DEF Environment, Surroundings, Tick, Bind, Leave, PodFails, NodeFails, NodeRecovers, SpotNotice,
     Reclaim, ToggleFreeze, UserEdits, BrainLearns, Approve, Expire, vars
<1>9. CASE \E e \in emergencies : \E p \in EmergencyDrainPlans(e.node, e.pods) : StartDrain(e, p)
  BY <1>1, <1>9 DEF StartDrain
<1>10. CASE ConsiderPlan
  BY <1>1, <1>2, <1>10 DEF ConsiderPlan
<1>11. CASE \E inWindow \in BOOLEAN : FetchPlan(inWindow) \/ CheckApproval(inWindow)
  BY <1>0, <1>1, <1>2, <1>11 DEF FetchPlan, CheckApproval, Filter, Execute, RevertInv
<1>12. CASE \/ DryRun \/ TakeBudget
            \/ \E ok \in Outcomes : Resize(ok) \/ Cordon(ok) \/ GetNode(ok) \/ DeleteNode(ok) \/ TerminateNode(ok)
            \/ EvictAccepted \/ EvictNotFound \/ EvictRefused \/ EvictError
            \/ \E outcome \in {"empty", "timeout", "error"} : WaitNodeEmpty(outcome)
  <2>1. pc # "revert" /\ UNCHANGED <<watch, applied, reverts>>
    BY <1>12 DEF DryRun, TakeBudget, Resize, Cordon, GetNode, DeleteNode, TerminateNode, EvictAccepted,
       EvictNotFound, EvictRefused, EvictError, WaitNodeEmpty, At
  <2>. QED
    BY <1>0, <1>1, <2>1 DEF RevertInv
<1>. QED
  BY <1>3, <1>4, <1>5, <1>6, <1>8, <1>9, <1>10, <1>11, <1>12 DEF Next, Reconcile

\* Notices come to nodes that are there, and go with them.
LEMMA NoticeInvHolds == IInv /\ [Next]_vars => NoticeInv'
<1>. SUFFICES ASSUME NoticeInv, [Next]_vars PROVE NoticeInv'
  BY DEF IInv
<1>. USE DEF NoticeInv, clusterVars, brainVars, memVars, budgetVars, runVars
<1>1. CASE UNCHANGED <<doomed, present>>
  BY <1>1
<1>2. CASE Environment
  BY <1>2 DEF Environment, Surroundings, Tick, Bind, Leave, PodFails, NodeFails, NodeRecovers, SpotNotice, Reclaim,
     ToggleFreeze, UserEdits, BrainLearns, Approve, Expire
<1>3. CASE \E ok \in Outcomes : DeleteNode(ok)
  BY <1>3 DEF DeleteNode
<1>4. CASE Reconcile /\ ~\E ok \in Outcomes : DeleteNode(ok)
  BY <1>4, <1>1 DEF Reconcile, Collect, Revert, StartDrain, ConsiderPlan, FetchPlan, CheckApproval,
     DryRun, Resize, Cordon, TakeBudget, EvictAccepted, EvictNotFound, EvictRefused, EvictError,
     WaitNodeEmpty, GetNode, TerminateNode, Finish
<1>5. CASE Restart \/ UNCHANGED vars
  BY <1>5, <1>1 DEF Restart, vars
<1>. QED
  BY <1>2, <1>3, <1>4, <1>5 DEF Next

(* ---- Resizes, quarantines and dry runs ---- *)

\* The resizes at work, still to come or done, are of workloads out of quarantine.
CalmInv ==
    \A i \in todo \cup done :
        plan[i].type = "resize" => ~Quarantined(quarantine, WorkloadOf[plan[i].ctr], now)

\* A dry run never gets to a step that has a second call, and does nothing that could be recorded.
PreviewInv ==
    cfg.mode = "dry-run" => done = {} /\ pc \notin {"evict", "getnode", "delete", "terminate"}

ResizeInv == OneResizePerWorkload /\ CalmInv

\* What the filter keeps of a plan: of two resizes of a workload the first, none in quarantine.
LEMMA FilterKeepsResizeInv ==
    ASSUME NEW p \in Seq(Step), NEW inWindow, Filter(p, inWindow), UNCHANGED <<now, quarantine>>
    PROVE  ResizeInv'
<1>. DEFINE kept == KeptResize(p) \cup KeptCordon(p, inWindow)
                      \cup dropOrphanedNodeSteps(p, KeptCordon(p, inWindow))
<1>1. \A i \in kept : i \in DOMAIN p /\ (p[i].type = "resize" => i \in KeptResize(p))
  BY DEF KeptResize, KeptCordon, dropOrphanedNodeSteps
<1>2. \A i, j \in KeptResize(p) : WorkloadOf[p[i].ctr] = WorkloadOf[p[j].ctr] => i = j
  <2>1. \A i, j \in KeptResize(p) :
            WorkloadOf[p[i].ctr] = WorkloadOf[p[j].ctr] => ~(i < j) /\ i \in Nat /\ j \in Nat
    BY LenProperties DEF KeptResize
  <2>2. \A i, j \in Nat : ~(i < j) /\ ~(j < i) => i = j
    OBVIOUS
  <2>. QED
    BY <2>1, <2>2
<1>3. CASE Rest
  BY <1>3 DEF Rest, ResizeInv, OneResizePerWorkload, CalmInv
<1>4. CASE Execute(p, kept, "plan")
  <2>1. plan' = p /\ todo' \cup done' = kept
    BY <1>4 DEF Execute
  <2>2. OneResizePerWorkload'
    <3>. HIDE DEF kept
    <3>. QED
      BY <1>1, <1>2, <2>1 DEF OneResizePerWorkload
  <2>3. \A i \in KeptResize(p) : ~Quarantined(quarantine, WorkloadOf[p[i].ctr], now)
    BY DEF KeptResize
  <2>4. CalmInv'
    <3>. HIDE DEF kept
    <3>. QED
      BY <1>1, <2>1, <2>3 DEF CalmInv, Quarantined
  <2>. QED
    BY <2>2, <2>4 DEF ResizeInv
<1>. QED
  BY <1>3, <1>4 DEF Filter

\* Steps of the plan are done or given up, and the clock goes on: nothing is added.
LEMMA FewerResizes ==
    ASSUME TypeOK, ResizeInv, UNCHANGED <<job, plan, quarantine>>, now' \in {now, now + 1},
           todo' \cup done' \subseteq todo \cup done
    PROVE  ResizeInv'
<1>1. OneResizePerWorkload'
  BY DEF ResizeInv, OneResizePerWorkload
<1>2. ASSUME NEW i \in todo' \cup done', plan[i].type = "resize"
      PROVE  ~Quarantined(quarantine, WorkloadOf[plan[i].ctr], now)'
  <2>1. i \in todo \cup done /\ i \in DOMAIN plan /\ plan \in Seq(Step)
    BY <1>2 DEF TypeOK, RunTypeOK
  <2>2. plan[i] \in Step
    BY <2>1, ElementOfSeq, LenProperties
  <2>3. WorkloadOf[plan[i].ctr] \in Workloads
    BY <1>2, <2>2, StepParts
  <2>4. quarantine[WorkloadOf[plan[i].ctr]] \in Nat \cup {-1} /\ now \in Nat
    BY <2>3 DEF TypeOK, MemoryTypeOK, ClusterTypeOK, Times, Never
  <2>5. ~Quarantined(quarantine, WorkloadOf[plan[i].ctr], now)
    BY <1>2, <2>1 DEF ResizeInv, CalmInv
  <2>. DEFINE u == quarantine[WorkloadOf[plan[i].ctr]]
  <2>6. u' = u /\ (u = Never \/ ~(now <= u))
    BY <2>5 DEF Quarantined
  <2>7. u = Never \/ ~(now' <= u)
    <3>. HIDE DEF u
    <3>. QED
      BY <2>4, <2>6 DEF u, Never
  <2>. QED
    BY <2>6, <2>7 DEF Quarantined
<1>. QED
  BY <1>1, <1>2 DEF ResizeInv, CalmInv

\* ... so every step of the controller keeps it.
LEMMA ResizeInvHolds == IInv /\ ResizeInv /\ [Next]_vars => ResizeInv'
<1>. SUFFICES ASSUME IInv, ResizeInv, [Next]_vars PROVE ResizeInv'
  OBVIOUS
<1>. USE DEF clusterVars, brainVars, memVars, budgetVars, runVars
<1>0. TypeOK /\ DrainInv /\ now \in Nat
  BY DEF IInv, TypeOK, ClusterTypeOK
<1>2. CASE /\ UNCHANGED <<job, plan, quarantine>> /\ now' \in {now, now + 1}
           /\ todo' \cup done' \subseteq todo \cup done
  BY <1>0, <1>2, FewerResizes
<1>3. CASE todo' \cup done' = {}
  BY <1>3 DEF ResizeInv, OneResizePerWorkload, CalmInv
<1>4. CASE Environment \/ UNCHANGED vars
  BY <1>0, <1>2, <1>4 DEF Environment, Surroundings, Tick, Bind, Leave, PodFails, NodeFails, NodeRecovers,
     SpotNotice, Reclaim, ToggleFreeze, UserEdits, BrainLearns, Approve, Expire, vars
<1>5. CASE Collect
  BY <1>0, <1>3, <1>5 DEF Collect, DrainInv
<1>6. CASE \E w \in Workloads, ok \in Outcomes : Revert(w, ok)
  BY <1>2, <1>6 DEF Revert
<1>7. CASE \E e \in emergencies : \E p \in EmergencyDrainPlans(e.node, e.pods) : StartDrain(e, p)
  <2>1. PICK e \in emergencies : \E p \in EmergencyDrainPlans(e.node, e.pods) : StartDrain(e, p)
    BY <1>7
  <2>2. PICK p \in EmergencyDrainPlans(e.node, e.pods) : StartDrain(e, p)
    BY <2>1
  <2>3. e.node \in Nodes /\ e.pods \in SUBSET Pods
    BY <1>0 DEF TypeOK, RunTypeOK
  <2>4. \A i \in DOMAIN p : p[i].type # "resize"
    BY <2>2, <2>3, EmergencyPlansAreOrdered
  <2>5. job' = "drain" /\ plan' = p /\ todo' = DOMAIN p /\ done' = {}
    BY <2>2 DEF StartDrain, Execute
  <2>. QED
    BY <2>4, <2>5 DEF ResizeInv, OneResizePerWorkload, CalmInv
<1>8. CASE ConsiderPlan
  BY <1>2, <1>3, <1>8 DEF ConsiderPlan, Rest
<1>9. CASE \E inWindow \in BOOLEAN : FetchPlan(inWindow)
  <2>1. PICK inWindow \in BOOLEAN : FetchPlan(inWindow)
    BY <1>9
  <2>2. UNCHANGED <<now, quarantine>>
    BY <2>1 DEF FetchPlan
  <2>3. CASE Rest
    BY <1>3, <2>3 DEF Rest
  <2>4. CASE pc' = "approval" /\ UNCHANGED <<todo, done>>
    BY <1>0, <1>3, <2>1, <2>4 DEF FetchPlan, DrainInv
  <2>5. CASE offer # <<>> /\ Filter(offer, inWindow)
    <3>1. offer \in Seq(Step)
      BY <1>0, <2>5 DEF TypeOK, MemoryTypeOK
    <3>. QED
      BY <2>2, <2>5, <3>1, FilterKeepsResizeInv
  <2>. QED
    BY <2>1, <2>3, <2>4, <2>5 DEF FetchPlan
<1>10. CASE \E inWindow \in BOOLEAN : CheckApproval(inWindow)
  <2>1. PICK inWindow \in BOOLEAN : CheckApproval(inWindow)
    BY <1>10
  <2>2. UNCHANGED <<now, quarantine>> /\ plan \in Seq(Step)
    BY <1>0, <2>1 DEF CheckApproval, TypeOK, RunTypeOK
  <2>3. CASE Rest
    BY <1>3, <2>3 DEF Rest
  <2>4. CASE Filter(plan, inWindow)
    BY <2>2, <2>4, FilterKeepsResizeInv
  <2>. QED
    BY <2>1, <2>3, <2>4 DEF CheckApproval
<1>11. CASE \E ok \in Outcomes : Resize(ok)
  <2>1. Current \in todo
    BY <1>0, <1>11, CurrentIsAStep DEF Resize, At
  <2>. QED
    BY <1>2, <1>11, <2>1 DEF Resize, StepDone, StepFailed
<1>12. CASE \/ DryRun \/ TakeBudget
            \/ \E ok \in Outcomes : Cordon(ok) \/ GetNode(ok) \/ DeleteNode(ok) \/ TerminateNode(ok)
            \/ EvictAccepted \/ EvictNotFound \/ EvictRefused \/ EvictError
            \/ \E outcome \in {"empty", "timeout", "error"} : WaitNodeEmpty(outcome)
  BY <1>2, <1>12 DEF DryRun, TakeBudget, Cordon, GetNode, DeleteNode, TerminateNode, EvictAccepted,
     EvictNotFound, EvictRefused, EvictError, WaitNodeEmpty, StepDone, StepFailed, Abort
<1>13. CASE Finish
  BY <1>3, <1>13 DEF Finish, Rest
<1>14. CASE Restart
  BY <1>3, <1>14 DEF Restart, Rest
<1>. QED
  BY <1>4, <1>5, <1>6, <1>7, <1>8, <1>9, <1>10, <1>11, <1>12, <1>13, <1>14 DEF Next, Reconcile

\* In a dry run only the preview is taken, so nothing is there for a revert to write.
LEMMA PreviewInvHolds ==
    IInv /\ DryRunWritesNothing /\ PreviewInv /\ [Next]_vars => (DryRunWritesNothing /\ PreviewInv)'
<1>. SUFFICES ASSUME IInv, DryRunWritesNothing, PreviewInv, [Next]_vars, cfg'.mode = "dry-run"
              PROVE  (DryRunWritesNothing /\ PreviewInv)'
  BY DEF DryRunWritesNothing, PreviewInv
<1>. USE DEF clusterVars, brainVars, memVars, budgetVars, runVars
<1>0. cfg' = cfg
  BY DEF Next, Environment, Surroundings, Reconcile, Tick, Bind, Leave, PodFails, NodeFails, NodeRecovers,
     SpotNotice, Reclaim, ToggleFreeze, UserEdits, BrainLearns, Approve, Expire, Collect, Revert, StartDrain,
     ConsiderPlan, FetchPlan, CheckApproval, DryRun, Resize, Cordon, TakeBudget, EvictAccepted,
     EvictNotFound, EvictRefused, EvictError, WaitNodeEmpty, GetNode, DeleteNode, TerminateNode, Finish,
     Restart, vars
<1>1. /\ cfg.mode = "dry-run" /\ cfg.mode # "apply"
      /\ cordoned = {} /\ leaving = {} /\ log = {} /\ done = {}
      /\ \A w \in Workloads : applied[w] = NoStep
      /\ pc \notin {"evict", "getnode", "delete", "terminate"}
      /\ applied \in [Workloads -> ResizeStep \cup {NoStep}]
  BY <1>0 DEF DryRunWritesNothing, PreviewInv, IInv, TypeOK, MemoryTypeOK
<1>2. SUFFICES /\ cordoned' = {} /\ leaving' = {} /\ log' = {} /\ done' = {}
               /\ \A w \in Workloads : applied'[w] = NoStep
               /\ pc' \notin {"evict", "getnode", "delete", "terminate"}
  BY <1>2 DEF DryRunWritesNothing, PreviewInv
<1>3. CASE UNCHANGED <<cordoned, leaving, log, done, applied, pc>>
  BY <1>1, <1>3
<1>4. CASE Environment \/ UNCHANGED vars
  BY <1>1, <1>4 DEF Environment, Surroundings, Tick, Bind, Leave, PodFails, NodeFails, NodeRecovers,
     SpotNotice, Reclaim, Displaced, ToggleFreeze, UserEdits, BrainLearns, Approve, Expire, vars
<1>5. CASE \E w \in Workloads, ok \in Outcomes : Revert(w, ok)
  BY <1>1, <1>5 DEF Revert
<1>6. CASE Finish
  <2>1. \A w \in Workloads : Changed(w) = {}
    BY <1>1 DEF Changed
  <2>2. UNCHANGED <<cordoned, leaving, log>> /\ done' = {} /\ pc' \in {"revert", "idle"}
    BY <1>6 DEF Finish, Rest
  <2>3. \A w \in Workloads : applied'[w] = applied[w]
    BY <1>6, <2>1 DEF Finish
  <2>. QED
    BY <1>1, <2>2, <2>3
<1>7. CASE Restart
  BY <1>1, <1>7 DEF Restart, Rest
<1>8. CASE \/ Collect \/ ConsiderPlan \/ DryRun
           \/ \E e \in emergencies : \E p \in EmergencyDrainPlans(e.node, e.pods) : StartDrain(e, p)
           \/ \E inWindow \in BOOLEAN : FetchPlan(inWindow) \/ CheckApproval(inWindow)
  BY <1>1, <1>8 DEF Collect, ConsiderPlan, DryRun, StartDrain, FetchPlan, CheckApproval, Filter, Execute, Rest
<1>9. CASE \/ \E ok \in Outcomes : Resize(ok) \/ Cordon(ok) \/ GetNode(ok) \/ DeleteNode(ok) \/ TerminateNode(ok)
           \/ TakeBudget
           \/ EvictAccepted \/ EvictNotFound \/ EvictRefused
           \/ \E outcome \in {"empty", "timeout", "error"} : WaitNodeEmpty(outcome)
  BY <1>1, <1>9 DEF Resize, Cordon, GetNode, DeleteNode, TerminateNode, TakeBudget, EvictAccepted,
     EvictNotFound, EvictRefused, WaitNodeEmpty, At
<1>10. CASE EvictError
  BY <1>1, <1>10 DEF EvictError
<1>. QED
  BY <1>4, <1>5, <1>6, <1>7, <1>8, <1>9, <1>10 DEF Next, Reconcile

(* ---- The theorems ---- *)

\* The invariant holds at the start: nothing is cordoned, granted, watched or being executed.
LEMMA InitInv == Init => IInv
<1>. SUFFICES ASSUME Init PROVE IInv
  OBVIOUS
<1>1. DrainInv
  BY DEF Init, DrainInv
<1>2. BudgetInv
  BY FS_EmptySet DEF Init, BudgetInv, BudgetHeld, Live
<1>3. RevertInv
  BY DEF Init, RevertInv, WatchedIsRevertible, Watched, NoWatch
<1>4. NoticeInv
  BY DEF Init, NoticeInv
<1>. QED
  BY <1>1, <1>2, <1>3, <1>4, InitType DEF IInv

\* ... and every step keeps it.
LEMMA NextInv == IInv /\ [Next]_vars => IInv'
<1>. SUFFICES ASSUME IInv, [Next]_vars PROVE IInv'
  OBVIOUS
<1>1. TypeOK'
  <2>1. CASE UNCHANGED vars
    BY <2>1 DEF vars, clusterVars, brainVars, memVars, budgetVars, runVars, IInv, TypeOK,
       ClusterTypeOK, MemoryTypeOK, RunTypeOK
  <2>. QED
    BY <2>1, EnvironmentKeepsTypes, ReconcileKeepsTypes, RestartKeepsTypes DEF IInv, Next
<1>2. DrainInv'
  <2>1. CASE Restart
    BY <2>1 DEF IInv, DrainInv, Restart, Rest, clusterVars
  <2>2. CASE UNCHANGED vars
    BY <2>2 DEF vars, clusterVars, runVars, IInv, DrainInv, Current, Closed, On
  <2>. QED
    BY <2>1, <2>2, EnvironmentKeepsDrainInv, ReconcileKeepsDrainInv DEF IInv, Next
<1>. QED
  BY <1>1, <1>2, BudgetInvHolds, RevertInvHolds, NoticeInvHolds DEF IInv

\* Every variable keeps its type in every behaviour of the controller.
THEOREM TypesHold == Spec => []TypeOK
<1>1. IInv => TypeOK
  BY DEF IInv
<1>. QED
  BY <1>1, InitInv, NextInv, PTL DEF Spec

\* docs/safety.md's order of a drain, from the filter to the last step: no eviction starts on a
\* node that still takes pods, and no deletion is attempted on one.
THEOREM EvictionsAreBehindACordon == Spec => []EvictsBehindACordon
<1>1. IInv => EvictsBehindACordon
  BY CurrentIsClosed, CurrentIsAStep, StepParts
     DEF IInv, DrainInv, EvictsBehindACordon, Closed
<1>. QED
  BY <1>1, InitInv, NextInv, PTL DEF Spec

\* Budget.Allow never grants more than max events in a window, however plans and emergency
\* drains share it.
THEOREM BudgetIsHeld == Spec => []BudgetHeld
<1>1. IInv => BudgetHeld
  BY DEF IInv, BudgetInv
<1>. QED
  BY <1>1, InitInv, NextInv, PTL DEF Spec

\* The controller can always undo what the detector watches.
THEOREM WatchesAreRevertible == Spec => []WatchedIsRevertible
<1>1. IInv => WatchedIsRevertible
  BY DEF IInv, RevertInv
<1>. QED
  BY <1>1, InitInv, NextInv, PTL DEF Spec

\* The strengthening the theorems rest on is itself an invariant.
THEOREM InvariantHolds == Spec => []IInv
BY InitInv, NextInv, PTL DEF Spec

\* Whatever the plan holds for a workload, it is changed once by an execution, so that what is
\* recorded for the revert is all that was changed.
THEOREM ResizesAreSingle == Spec => []OneResizePerWorkload
<1>1. Init => ResizeInv
  BY DEF Init, ResizeInv, OneResizePerWorkload, CalmInv
<1>2. ResizeInv => OneResizePerWorkload
  BY DEF ResizeInv
<1>. QED
  BY <1>1, <1>2, InitInv, NextInv, ResizeInvHolds, PTL DEF Spec

\* A workload that regressed is left alone for QuarantineFor by every plan, although the brain
\* goes on offering the change.
THEOREM QuarantinesAreKept == Spec => QuarantineHolds
<1>1. Init => ResizeInv
  BY DEF Init, ResizeInv, OneResizePerWorkload, CalmInv
<1>. DEFINE Lands == \A i \in done' \ done : ~Quarantined(quarantine, WorkloadOf[plan[i].ctr], now)
<1>2. ASSUME IInv, ResizeInv, [Next]_vars PROVE [Lands]_vars
  <2>. USE DEF clusterVars, brainVars, memVars, budgetVars, runVars
  <2>1. CASE done' \subseteq done
    BY <2>1
  <2>2. CASE \E ok \in Outcomes : Resize(ok)
    <3>1. Current \in todo /\ plan[Current].type = "resize" /\ done' \subseteq done \cup {Current}
      BY <1>2, <2>2, CurrentIsAStep DEF Resize, At, IInv
    <3>. QED
      BY <1>2, <3>1 DEF ResizeInv, CalmInv
  <2>3. CASE Environment \/ Restart \/ UNCHANGED vars
    BY <2>1, <2>3 DEF Environment, Surroundings, Tick, Bind, Leave, PodFails, NodeFails, NodeRecovers,
       SpotNotice, Reclaim, ToggleFreeze, UserEdits, BrainLearns, Approve, Expire, Restart, Rest, vars
  <2>4. CASE Reconcile /\ ~\E ok \in Outcomes : Resize(ok)
    BY <2>1, <2>4 DEF Reconcile, Collect, Revert, StartDrain, Execute, ConsiderPlan, FetchPlan, CheckApproval,
       Filter, Rest, DryRun, Cordon, TakeBudget, EvictAccepted, EvictNotFound, EvictRefused, EvictError,
       WaitNodeEmpty, GetNode, DeleteNode, TerminateNode, Finish
  <2>. QED
    BY <1>2, <2>2, <2>3, <2>4 DEF Next
<1>. QED
  BY <1>1, <1>2, InitInv, NextInv, ResizeInvHolds, PTL DEF Spec, QuarantineHolds

\* A dry run writes nothing, in no sequence of plans, interruptions, regressions and restarts.
THEOREM DryRunsWriteNothing == Spec => []DryRunWritesNothing
<1>1. Init => DryRunWritesNothing /\ PreviewInv
  BY DEF Init, DryRunWritesNothing, PreviewInv
<1>. QED
  BY <1>1, InitInv, NextInv, PreviewInvHolds, PTL DEF Spec

\* With --require-approval no plan starts that is not approved at that moment.
THEOREM PlansStartApproved == Spec => StartsApproved
<1>. DEFINE Starts == NeedsApproval /\ job # "plan" /\ job' = "plan" => Fingerprint(plan') \in approvals
<1>1. ASSUME [Next]_vars PROVE [Starts]_vars
  <2>. USE DEF clusterVars, brainVars, memVars, budgetVars, runVars
  <2>1. CASE job' \in {job, "none", "drain"}
    BY <2>1
  <2>2. CASE \E inWindow \in BOOLEAN : FetchPlan(inWindow)
    BY <2>1, <2>2 DEF FetchPlan, Rest, NeedsApproval
  <2>3. CASE \E inWindow \in BOOLEAN : CheckApproval(inWindow)
    BY <2>1, <2>3 DEF CheckApproval, Filter, Execute, Rest
  <2>4. CASE Environment \/ Restart \/ UNCHANGED vars
    BY <2>1, <2>4 DEF Environment, Surroundings, Tick, Bind, Leave, PodFails, NodeFails, NodeRecovers,
       SpotNotice, Reclaim, ToggleFreeze, UserEdits, BrainLearns, Approve, Expire, Restart, Rest, vars
  <2>5. CASE Reconcile /\ ~\E inWindow \in BOOLEAN : FetchPlan(inWindow) \/ CheckApproval(inWindow)
    BY <2>1, <2>5 DEF Reconcile, Collect, Revert, StartDrain, Execute, ConsiderPlan, Rest, DryRun, Resize,
       Cordon, TakeBudget, EvictAccepted, EvictNotFound, EvictRefused, EvictError,
       WaitNodeEmpty, GetNode, DeleteNode, TerminateNode, Finish
  <2>. QED
    BY <1>1, <2>2, <2>3, <2>4, <2>5 DEF Next
<1>. QED
  BY <1>1, PTL DEF Spec, StartsApproved

\* Each step of the controller and its surroundings is a step of the safe drain, or none.
LEMMA DrainStep == IInv /\ [Next]_vars => [D!Next]_D!vars
<1>. SUFFICES ASSUME IInv, [Next]_vars PROVE D!Next \/ UNCHANGED D!vars
  OBVIOUS
<1>. USE DEF clusterVars, brainVars, memVars, budgetVars, runVars
<1>0. TypeOK /\ DrainInv /\ NoticeInv /\ cordoned \subseteq present /\ doomed \subseteq present
      /\ present \subseteq Nodes /\ loc \in [Pods -> Nodes \cup {Pending}]
  BY DEF IInv, TypeOK, ClusterTypeOK, DrainInv, NoticeInv
<1>1. CASE UNCHANGED <<present, cordoned, instances, loc>>
  BY <1>1 DEF D!vars
<1>2. CASE \E p \in Pods, n \in Nodes : Bind(p, n)
  <2>1. PICK p \in Pods, n \in Nodes : Bind(p, n)
    BY <1>2
  <2>2. n \in present \ cordoned /\ loc' = [loc EXCEPT ![p] = n]
        /\ UNCHANGED <<present, cordoned, instances>>
    BY <2>1 DEF Bind, Schedulable
  <2>3. D!Move
    BY <2>2 DEF D!Move
  <2>. QED
    BY <2>3 DEF D!Next
<1>3. CASE \E p \in Pods : Leave(p)
  <2>1. D!Move
    BY <1>3 DEF Leave, D!Move
  <2>. QED
    BY <2>1 DEF D!Next
<1>4. CASE \E n \in Nodes : Reclaim(n)
  <2>1. PICK n \in Nodes : Reclaim(n)
    BY <1>4
  <2>2. /\ n \in present
        /\ present' = present \ {n} /\ cordoned' = cordoned \ {n} /\ instances' = instances \ {n}
        /\ loc' = [p \in Pods |-> IF loc[p] = n THEN Pending ELSE loc[p]]
    BY <1>0, <2>1 DEF Reclaim, Displaced
  <2>3. D!Lose(n)
    BY <2>2 DEF D!Lose
  <2>. QED
    BY <2>3 DEF D!Next
<1>5. CASE \E ok \in Outcomes : Cordon(ok)
  <2>. DEFINE n == plan[Current].node
  <2>1. UNCHANGED <<present, instances, loc>>
    BY <1>5 DEF Cordon
  <2>2. (n \in present /\ cordoned' = cordoned \cup {n}) \/ UNCHANGED cordoned
    BY <1>5 DEF Cordon
  <2>3. CASE n \in present \ cordoned /\ cordoned' = cordoned \cup {n}
    <3>1. D!Close(n) /\ n \in Nodes
      BY <1>0, <2>1, <2>3 DEF D!Close
    <3>. QED
      BY <3>1 DEF D!Next
  <2>. QED
    BY <1>1, <2>1, <2>2, <2>3
<1>6. CASE \E ok \in Outcomes : DeleteNode(ok)
  <2>. DEFINE n == plan[Current].node
  <2>1. CASE UNCHANGED <<present, cordoned, loc>>
    BY <1>1, <1>6, <2>1 DEF DeleteNode
  <2>2. CASE present' = present \ {n} /\ cordoned' = cordoned \ {n} /\ Displaced(n)
    <3>1. Closed(n) /\ On(n) = {}
      BY <1>0, <1>6, CurrentIsClosed DEF DeleteNode, DrainInv
    <3>2. UNCHANGED <<instances, loc>>
      BY <1>0, <1>6, <2>2, <3>1 DEF DeleteNode, Displaced, On
    <3>3. CASE n \in cordoned
      <4>1. D!Remove(n) /\ n \in Nodes
        BY <1>0, <2>2, <3>1, <3>2, <3>3 DEF D!Remove, D!Empty, On
      <4>. QED
        BY <4>1 DEF D!Next
    <3>4. CASE n \notin present
      BY <1>0, <1>1, <2>2, <3>2, <3>4
    <3>. QED
      BY <3>1, <3>3, <3>4 DEF Closed
  <2>. QED
    BY <1>6, <2>1, <2>2 DEF DeleteNode
<1>7. CASE \E ok \in Outcomes : TerminateNode(ok)
  <2>. DEFINE n == plan[Current].node
  <2>1. UNCHANGED <<present, cordoned, loc>> /\ n \notin present
        /\ (instances' = instances \ {n} \/ UNCHANGED instances)
    BY <1>0, <1>7 DEF TerminateNode, DrainInv
  <2>2. n \in Nodes
    BY <1>0, <1>7, CurrentIsAStep, StepParts DEF TerminateNode, DrainInv
  <2>3. CASE instances' = instances \ {n}
    <3>1. D!Stop(n)
      BY <1>0, <2>1, <2>3 DEF D!Stop
    <3>. QED
      BY <2>2, <3>1 DEF D!Next
  <2>. QED
    BY <1>1, <2>1, <2>3
<1>8. CASE \/ Tick \/ \E w \in Workloads : PodFails(w)
           \/ \E n \in Nodes : NodeFails(n) \/ NodeRecovers(n) \/ SpotNotice(n)
           \/ ToggleFreeze \/ \E c \in Containers, s \in Sizes : UserEdits(c, s)
           \/ \E p \in Plans \cup {<<>>} : BrainLearns(p)
           \/ Approve \/ \E f \in approvals : Expire(f)
  BY <1>1, <1>8 DEF Tick, PodFails, NodeFails, NodeRecovers, SpotNotice, ToggleFreeze, UserEdits,
     BrainLearns, Approve, Expire
<1>9. CASE /\ Reconcile
           /\ ~\E ok \in Outcomes : Cordon(ok) \/ DeleteNode(ok) \/ TerminateNode(ok)
  BY <1>1, <1>9 DEF Reconcile, Collect, Revert, StartDrain, ConsiderPlan, FetchPlan, CheckApproval,
     DryRun, Resize, TakeBudget, EvictAccepted, EvictNotFound, EvictRefused, EvictError,
     WaitNodeEmpty, GetNode, Finish
<1>10. CASE Restart \/ UNCHANGED vars
  BY <1>1, <1>10 DEF Restart, vars
<1>. QED
  BY <1>2, <1>3, <1>4, <1>5, <1>6, <1>7, <1>8, <1>9, <1>10 DEF Next, Environment, Surroundings

\* docs/safety.md, "what apply mode can never do", for every cluster: the controller implements
\* the drain that removes only closed and empty nodes, and stops a machine only after that.
THEOREM DrainIsSafe == Spec => DrainsSafely
<1>1. Init => D!Init
  BY DEF Init, D!Init
<1>. QED
  BY <1>1, InitInv, NextInv, DrainStep, PTL DEF Spec, DrainsSafely, D!Spec

====
