----------------------------- MODULE Crossover ------------------------------
(***************************************************************************)
(* Analyze of pkg/crossover: should this set of pods run on Fargate or on  *)
(* EC2 nodes?  The pods are brought into an order of their own, each is    *)
(* quantized to a Fargate tier, a node set is packed for all of them, and  *)
(* the gates that make Fargate impossible come before any price.  Who asks *)
(* may list the same pods again in another order.                          *)
(***************************************************************************)
EXTENDS FargateTiers, Sequences, FiniteSets, SequencesExt

CONSTANTS Inputs,      \* sets of pods, each a sequence, with the DaemonSets beside them
          Gates,       \* the properties of a pod that Fargate cannot do with
          FargateRate, \* price of a quarter vCPU and of half a GiB
          Catalog, Reserved, MaxPodsPerNode, MaxNodes, NodeKeys, CPUValue, MemValue

VARIABLES pods, daemons,         \* what is asked about
          phase,                 \* "asked", "packing", "done"
          left, planned, streak, \* the node set, see NodePlan
          report, earlier        \* the answer, and the one before the shuffle

vars == <<pods, daemons, phase, left, planned, streak, report, earlier>>

EC2 == INSTANCE NodePlan WITH AllowBurstable <- FALSE

None == [verdict |-> "none"]

Init ==
  /\ \E input \in Inputs : pods = input.pods /\ daemons = input.daemons
  /\ phase = "asked"
  /\ left = <<>> /\ planned = <<>> /\ streak = EC2!NoTrial
  /\ report = None /\ earlier = None

-----------------------------------------------------------------------------
\* canonicalize: terminal pods are dropped, the rest is sorted, a pod without
\* a UID is numbered by its place and of equal UIDs the first is kept.
Live(s) == SelectSeq(s, LAMBDA p : p.phase # "terminal")

LexLess(a, b) == \E i \in DOMAIN a : a[i] < b[i] /\ \A j \in 1..(i - 1) : a[j] = b[j]
PodKey(p) == <<p.uid, p.name, p.cpu, p.mem>>
DaemonKey(d) == <<d.work>> \o PodKey(d)

Places(keys) ==
  SetToSortSeq(DOMAIN keys, LAMBDA i, j : LexLess(keys[i], keys[j]) \/ (keys[i] = keys[j] /\ i < j))
Sorted(s, keys) == LET at == Places(keys) IN [i \in DOMAIN s |-> s[at[i]]]

Unidentified == 1000
Identified(s) ==
  [i \in DOMAIN s |-> IF s[i].uid = 0 THEN [s[i] EXCEPT !.uid = Unidentified + i] ELSE s[i]]

Canonical(s) ==
  LET live == Live(s)
      found == Identified(Sorted(live, [i \in DOMAIN live |-> PodKey(live[i])]))
      kept == {i \in DOMAIN found : \A j \in 1..(i - 1) : found[j].uid # found[i].uid}
  IN [k \in 1..Cardinality(kept) |-> found[SetToSortSeq(kept, <)[k]]]

\* canonicalDaemonSets: one template per DaemonSet; a pod of none counts itself.
CanonicalDaemons(s) ==
  LET live == Live(s)
      found == Sorted(live, [i \in DOMAIN live |-> DaemonKey(live[i])])
      kept == {i \in DOMAIN found :
                 found[i].work = 0 \/ \A j \in 1..(i - 1) : found[j].work # found[i].work}
  IN [k \in 1..Cardinality(kept) |-> found[SetToSortSeq(kept, <)[k]]]

-----------------------------------------------------------------------------
\* A property that was not observed blocks like one that is there.
Shown(p) == IF p.name = 0 THEN <<0, p.uid>> ELSE <<1, p.name>>
Tripped(s, gate, fact) == {Shown(s[i]) : i \in {k \in DOMAIN s : s[k].facts[gate] = fact}}

GateBlocks(s) ==
  {b \in {[gate |-> g, kind |-> k, pods |-> Tripped(s, g, k)] : g \in Gates, k \in {"present", "unknown"}} :
     b.pods # {}}

BilledTier(p) ==
  IF p.provisioned \in fargateConfigs THEN p.provisioned
  ELSE Quantize([cpu |-> p.cpu, mem |-> p.mem], [cpu |-> 0, mem |-> 0])
Unpriced(s) == {Shown(s[i]) : i \in {k \in DOMAIN s : BilledTier(s[k]) = NoTier}}
FargateUSD(s) ==
  EC2!SumOver([i \in DOMAIN s |-> (BilledTier(s[i]).cpu \div 250) * FargateRate.cpu
                                  + (BilledTier(s[i]).mem \div 512) * FargateRate.mem])

Blocks(s, ds) ==
  GateBlocks(s)
  \cup (IF ds = <<>> THEN {} ELSE {[gate |-> "daemonset", kind |-> "present", pods |-> {}]})
  \cup (IF Unpriced(s) = {} THEN {}
        ELSE {[gate |-> "size-ceiling", kind |-> "present", pods |-> Unpriced(s)]})

\* Break-even density: u = requests / purchased, u* = u E / F, as products.
Density(e, f) ==
  LET bought == EC2!SumOver([i \in DOMAIN planned |->
                               EC2!Value([cpu |-> planned[i].type.cpu, mem |-> planned[i].type.mem])])
      held == EC2!SumOver([i \in DOMAIN planned |->
                EC2!SumOver([k \in DOMAIN planned[i].pods |-> EC2!Value(EC2!Asked(planned[i].pods[k]))])])
  IN [defined |-> bought > 0, achieved |-> held * f, breakEven |-> held * e]

Answer(verdict, saving, blocks, f, e) ==
  [verdict |-> verdict, saving |-> saving, blocks |-> blocks, fargate |-> f, ec2 |-> e,
   density |-> Density(e, f)]

\* decide: every blocked case comes before any case that looks at a price.
Decided(s, ds) ==
  LET blocks == Blocks(s, ds)
      f == FargateUSD(s)
      e == EC2!HourlyUSD
      holds == left = <<>> /\ planned # <<>>
  IN CASE s = <<>> -> Answer("undecided", 0, blocks, f, e)
       [] s # <<>> /\ blocks # {} /\ holds -> Answer("fargate-blocked", 0, blocks, f, e)
       [] s # <<>> /\ blocks # {} /\ ~holds -> Answer("undecided", 0, blocks, f, e)
       [] s # <<>> /\ blocks = {} /\ ~holds -> Answer("fargate", 0, blocks, f, e)
       [] OTHER -> IF f = e THEN Answer("tie", 0, blocks, f, e)
                   ELSE IF f < e THEN Answer("fargate", e - f, blocks, f, e)
                   ELSE Answer("ec2", f - e, blocks, f, e)

-----------------------------------------------------------------------------
Analyze ==
  /\ phase = "asked"
  /\ EC2!Start(Canonical(pods))
  /\ phase' = "packing"
  /\ UNCHANGED <<pods, daemons, report, earlier>>

Pack ==
  /\ phase = "packing"
  /\ EC2!OpenWinner(CanonicalDaemons(daemons)) \/ EC2!OpenAnother(CanonicalDaemons(daemons))
  /\ UNCHANGED <<pods, daemons, phase, report, earlier>>

Decide ==
  /\ phase = "packing" /\ EC2!Ended(CanonicalDaemons(daemons))
  /\ report' = Decided(Canonical(pods), CanonicalDaemons(daemons))
  /\ phase' = "done"
  /\ UNCHANGED <<pods, daemons, left, planned, streak, earlier>>

\* The same pods are listed again, in an order of the API server's.
Shuffle(order) ==
  /\ phase = "done" /\ earlier = None
  /\ order \in Permutations(DOMAIN pods)
  /\ pods' = [i \in DOMAIN pods |-> pods[order[i]]]
  /\ earlier' = report
  /\ phase' = "asked"
  /\ UNCHANGED <<daemons, left, planned, streak, report>>

Next == Analyze \/ Pack \/ Decide \/ \E order \in Permutations(DOMAIN pods) : Shuffle(order)

-----------------------------------------------------------------------------
\* Two live pods that are the same to the order but not to the gates: which
\* one is kept, or which number it gets, is left to the order they came in.
Twins(s) == \E p, q \in Range(Live(s)) : p # q /\ PodKey(p) = PodKey(q)

\* The order in which the pods are listed does not change the answer.
ShuffleInvariant == phase = "done" /\ earlier # None /\ ~Twins(pods) => report = earlier

\* Fargate is only answered for pods that were all looked at and found free
\* of every property it cannot do with, which have a tier each; and money is
\* only claimed between two sides that both hold every pod that is alive.
ComparisonIsFair ==
  phase = "done" =>
    /\ report.verdict = "fargate" =>
         /\ \A p \in Range(Live(pods)) : \E q \in Range(Live(pods)) :
              /\ q.uid = p.uid
              /\ \A g \in Gates : q.facts[g] = "absent"
              /\ BilledTier(q) # NoTier
         /\ Live(daemons) = <<>>
    /\ report.saving > 0 =>
         /\ report.blocks = {}
         /\ \A p \in Range(Canonical(pods)) : \E i \in DOMAIN planned : p \in Range(planned[i].pods)
         /\ report.saving = IF report.verdict = "fargate" THEN report.ec2 - report.fargate
                            ELSE report.fargate - report.ec2
    /\ report.density.defined /\ report.saving > 0 =>
         (report.verdict = "fargate" => report.density.achieved <= report.density.breakEven)

\* The node set that is priced is one that could be bought.
NodesHoldPods == phase \in {"packing", "done"} => EC2!PlanStands(CanonicalDaemons(daemons))
=============================================================================
