------------------------------ MODULE NodePlan ------------------------------
(***************************************************************************)
(* PlanNodes of pkg/binpack: a cheap set of nodes that holds a set of      *)
(* pods.  Round after round every candidate instance type is filled on     *)
(* trial with what is left, the one that packs the most value per dollar   *)
(* is bought, and bought again while it packs nearly as well.  Millicores  *)
(* and MiB; prices are integers.                                           *)
(***************************************************************************)
EXTENDS Integers, Sequences, FiniteSets, SequencesExt, Functions

CONSTANTS Catalog,          \* the candidate types, in the order they are tried
          Reserved,         \* percent of a node the kubelet keeps
          MaxPodsPerNode, MaxNodes,
          AllowBurstable,
          NodeKeys,         \* topology keys a planned node carries as a label
          CPUValue, MemValue \* what a request counts for, per millicore and MiB

VARIABLES left,     \* the pods to pack, largest first
          planned,  \* the nodes bought so far
          streak    \* the type that won the round and what it packed, or NoTrial

planVars == <<left, planned, streak>>

Candidates == SelectSeq(Catalog, LAMBDA t : (t.burstable => AllowBurstable) /\ t.usd >= 0)

\* A negative request counts as none.
Asked(p) == [cpu |-> Max({p.cpu, 0}), mem |-> Max({p.mem, 0})]
Value(req) == req.cpu * CPUValue + req.mem * MemValue

\* The larger of the two shares, a vCPU and 4 GiB being the same size.
DominantShare(p) == Max({Asked(p).cpu * 4096, Asked(p).mem * 1000})
Descending(pods) ==
  SetToSortSeq(pods, LAMBDA p, q : DominantShare(p) > DominantShare(q)
                                     \/ (DominantShare(p) = DominantShare(q) /\ p.uid < q.uid))

Allocatable(t) == [cpu |-> (t.cpu * (100 - Reserved)) \div 100,
                   mem |-> (t.mem * (100 - Reserved)) \div 100]

(***************************************************************************)
(* One node on trial.  A topology key that the node carries no label for   *)
(* constrains nothing: PlanNodes gives no node a hostname.                 *)
(***************************************************************************)
Fresh(t) == [free |-> Allocatable(t), slots |-> MaxPodsPerNode, works |-> {},
             packed |-> <<>>, value |-> 0]

Fits(p, t, n) ==
  /\ n.slots > 0
  /\ Asked(p).cpu <= n.free.cpu /\ Asked(p).mem <= n.free.mem
  /\ p.arch \in {"", t.arch}
  /\ p.apart \in NodeKeys => p.work \notin n.works

Placed(p, n) ==
  [n EXCEPT !.free = [cpu |-> @.cpu - Asked(p).cpu, mem |-> @.mem - Asked(p).mem],
            !.slots = @ - 1, !.works = @ \cup {p.work}]

\* Every DaemonSet that fits is there before the pods.
Opened(t, daemons) ==
  FoldLeft(LAMBDA n, d : IF Fits(d, t, n) THEN Placed(d, n) ELSE n, Fresh(t), daemons)

TrialFill(t, pods, daemons) ==
  FoldLeft(LAMBDA n, p : IF ~Fits(p, t, n) THEN n
                         ELSE [Placed(p, n) EXCEPT !.packed = Append(@, p),
                                                   !.value = @ + Value(Asked(p))],
           Opened(t, daemons), pods)

Trial(t, pods, daemons) ==
  LET n == TrialFill(t, pods, daemons) IN [type |-> t, packed |-> n.packed, value |-> n.value]
NoTrial == [packed |-> <<>>]

\* Value per dollar, unless the two are within a hundredth of each other.
MoreForLess(a, b) == 100 * a.value * b.type.usd > 101 * b.value * a.type.usd
Better(a, b) ==
  CASE MoreForLess(a, b) -> TRUE
    [] MoreForLess(b, a) -> FALSE
    [] OTHER -> \/ a.value > b.value
                \/ a.value = b.value /\ a.type.usd < b.type.usd
                \/ a.value = b.value /\ a.type.usd = b.type.usd /\ a.type.name < b.type.name

\* The comparison is no order, so what wins is what survives the sweep.
Sweep(daemons) ==
  FoldLeft(LAMBDA best, t :
             LET tr == Trial(t, left, daemons)
             IN IF tr.packed # <<>> /\ (best = NoTrial \/ Better(tr, best)) THEN tr ELSE best,
           NoTrial, Candidates)

-----------------------------------------------------------------------------
More == left # <<>> /\ Len(planned) < MaxNodes

\* A repeated UID is not packed twice; it is reported as unschedulable.
Start(pods) ==
  /\ left' = Descending({pods[i] : i \in {k \in DOMAIN pods :
                                            \A h \in 1..(k - 1) : pods[h].uid # pods[k].uid}})
  /\ planned' = <<>> /\ streak' = NoTrial

Commit(tr) ==
  /\ planned' = Append(planned, [type |-> tr.type, pods |-> tr.packed])
  /\ left' = SelectSeq(left, LAMBDA p : p \notin Range(tr.packed))

OpenWinner(daemons) ==
  /\ streak = NoTrial /\ More
  /\ LET best == Sweep(daemons)
     IN best # NoTrial /\ Commit(best) /\ streak' = best

\* The winner's type again, while it packs nine tenths of what won the round.
OpenAnother(daemons) ==
  /\ streak # NoTrial
  /\ LET tr == Trial(streak.type, left, daemons)
     IN \/ /\ More /\ tr.packed # <<>> /\ 10 * tr.value >= 9 * streak.value
           /\ Commit(tr) /\ UNCHANGED streak
        \/ /\ ~(More /\ tr.packed # <<>> /\ 10 * tr.value >= 9 * streak.value)
           /\ streak' = NoTrial /\ UNCHANGED <<left, planned>>

Ended(daemons) == streak = NoTrial /\ (More => Sweep(daemons) = NoTrial)

SumOver(f) == FoldFunction(LAMBDA x, y : x + y, 0, f)
HourlyUSD == SumOver([i \in DOMAIN planned |-> planned[i].type.usd])

-----------------------------------------------------------------------------
\* A plan that stands: no node holds more than is left of it by the kubelet
\* and the DaemonSets that fit it empty, no pod is on two nodes, and a pod
\* without a node fits no fresh one unless the plan is at its cap.
PlanStands(daemons) ==
  /\ \A i \in DOMAIN planned :
       LET t == planned[i].type
           on(d) == SumOver([k \in DOMAIN planned[i].pods |-> Asked(planned[i].pods[k])[d]])
           room == Opened(t, daemons)
       IN /\ on("cpu") <= room.free.cpu /\ on("mem") <= room.free.mem
          /\ Len(planned[i].pods) \in 1..room.slots
  /\ \A i, j \in DOMAIN planned : i # j => Range(planned[i].pods) \cap Range(planned[j].pods) = {}
  /\ \A i \in DOMAIN planned : Range(planned[i].pods) \cap Range(left) = {}
  /\ Ended(daemons) /\ Len(planned) < MaxNodes =>
       \A p \in Range(left), t \in Range(Candidates) : ~Fits(p, t, Opened(t, daemons))
=============================================================================
