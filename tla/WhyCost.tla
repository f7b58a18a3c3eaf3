------------------------------ MODULE WhyCost ------------------------------
(***************************************************************************)
(* Why did my cluster cost change (pkg/explain over the brain's timeline,  *)
(* snapshot history and ledger).  A cluster lives: nodes come and go, by   *)
(* Kilter's hand or another's, prices and workloads and non-node charges   *)
(* change, the collector looks.  The answer for a window peels the change  *)
(* of cost between the two observations at its edges into terms; nodes and *)
(* charges are peeled by one chain, Peel.  Money is in micro-dollars per   *)
(* hour, quotients are rounded half away from zero where the code rounds.  *)
(***************************************************************************)
EXTENDS Integers, Sequences, FiniteSetsExt, SequencesExt

CONSTANTS Groups,      \* [kind |-> spot or on-demand, class |-> instance type]
          Lines,       \* [kind, class] of a non-node charge
          Namespaces,
          Fleets,      \* fleets the window may open with, [Groups -> Nat]
          Catalog,     \* [Groups \cup Lines -> Nat]: list prices
          NewPrice,    \* the price a price changes to
          Demands,     \* requested capacity, [cpu, mem]
          CancelGuard, MaxChargeQuantization,
          MaxNodes, MaxUnits,   \* bounds: of a group, of a line
          MaxEvents, MaxHour    \* bounds: things that happen, observations

VARIABLES hour,
          fleet,      \* nodes of each group
          annotated,  \* price the nodes of a group carry, 0 is none
          catalog,    \* the loaded price catalog
          billed,     \* units of each line
          demand,     \* demand of the namespaces that run something
          timeline,   \* evidence: [at, cost, nodes]
          history,    \* snapshots kept: [at, groups, spaces, charges, stated]
          ledger,     \* [at, applied, removed]
          events      \* how many things happened
vars == <<hour, fleet, annotated, catalog, billed, demand, timeline, history, ledger, events>>

Total(Value(_), S) == MapThenSumSet(Value, S)
Abs(i) == IF i < 0 THEN -i ELSE i
Quantize(q) ==
  LET up(n, d) == IF n < 0 THEN -((d - 2 * n) \div (2 * d)) ELSE (2 * n + d) \div (2 * d)
  IN  IF q[2] < 0 THEN up(-q[1], -q[2]) ELSE up(q[1], q[2])
Plus(q, r) == <<q[1] * r[2] + r[1] * q[2], q[2] * r[2]>>
SumOf(Part(_), S) == FoldSet(LAMBDA k, q : Plus(Part(k), q), <<0, 1>>, S)

NodeHourlyCost(g) == IF annotated[g] > 0 THEN annotated[g] ELSE catalog[g]
SnapshotCost == Total(LAMBDA g : fleet[g] * NodeHourlyCost(g), Groups)
                + Total(LAMBDA l : billed[l] * catalog[l], Lines)

-----------------------------------------------------------------------------
\* A composition maps each key it lists to [n, p]: how many, at what price.
\* A key listed with none has no price of its own.
CountAt(c, k) == IF k \in DOMAIN c THEN c[k].n ELSE 0
HasPrice(c, k) == CountAt(c, k) > 0
Nodes(c) == Total(LAMBDA k : c[k].n, DOMAIN c)
Cost(c) == Total(LAMBDA k : c[k].n * c[k].p, DOMAIN c)
PriceOf(c, k) == IF HasPrice(c, k) THEN c[k].p ELSE 0

PriceAt(c, k, other) == IF HasPrice(c, k) THEN c[k].p ELSE PriceOf(other, k)

\* The end composition at the start's prices, and the move of the prices.
AtStartPrices(a, b) == [k \in DOMAIN b |-> [n |-> b[k].n, p |-> PriceAt(a, k, b)]]
RepricedAtStart(a, b) ==
  Total(LAMBDA k : CountAt(a, k) * (PriceAt(b, k, a) - PriceAt(a, k, b)), DOMAIN a \cup DOMAIN b)
Repriced(a, b) ==
  Total(LAMBDA k : CountAt(b, k) * (PriceAt(b, k, a) - PriceAt(a, k, b)), DOMAIN a \cup DOMAIN b)

Part(c, kind) == Restrict(c, {k \in DOMAIN c : k.kind = kind})
Average(c) == IF Nodes(c) = 0 THEN <<0, 1>> ELSE <<Cost(c), Nodes(c)>>
\* A kind absent at one edge borrows the other edge's average price.
AverageOr(c, other) == IF Nodes(c) = 0 THEN Average(other) ELSE Average(c)

\* The chain: how many, of which kind, of which class, at what price.
Peel(a, b) ==
  LET kinds == {k.kind : k \in DOMAIN a \cup DOMAIN b}
      held == AtStartPrices(a, b)
      NA == Nodes(a)
      NB == Nodes(b)
      qA(j) == AverageOr(Part(a, j), Part(held, j))
      qBA(j) == AverageOr(Part(held, j), Part(a, j))
      share(j) == Nodes(Part(b, j)) * NA - NB * Nodes(Part(a, j))
      moved(j) == <<share(j) * qA(j)[1], NA * qA(j)[2]>>
      mixed(j) == LET gap == Plus(qBA(j), <<-qA(j)[1], qA(j)[2]>>)
                  IN  <<Nodes(Part(b, j)) * gap[1], gap[2]>>
  IN  IF NA = 0
      THEN [volume |-> Cost(held), kind |-> 0, class |-> 0, price |-> Repriced(a, b),
            unit |-> Average(held)]
      ELSE [volume |-> Quantize(<<(NB - NA) * Cost(a), NA>>),
            kind |-> Quantize(SumOf(moved, kinds)),
            class |-> Quantize(SumOf(mixed, kinds)),
            price |-> Repriced(a, b),
            unit |-> Average(a)]
Chained(p) == p.volume + p.kind + p.class + p.price

-----------------------------------------------------------------------------
\* The edges' demand: the dimension that moved more, relative to its start.
Requested(spaces, dim) == Total(LAMBDA n : spaces[n][dim], DOMAIN spaces)
Binding(from, to) ==
  LET move(d) == Abs(Requested(to, d) - Requested(from, d))
      base(d) == Max({Requested(from, d), 1})
  IN  IF move("cpu") * base("mem") >= move("mem") * base("cpu") THEN "cpu" ELSE "mem"

NoSplit == [split |-> FALSE, set |-> 0, scaling |-> 0]
Apportion(set, grown, rest) ==
  [split |-> TRUE, set |-> Quantize(<<rest * set, set + grown>>),
                   scaling |-> Quantize(<<rest * grown, set + grown>>)]
SplitGuarded(set, grown, rest) ==
  IF set + grown = 0 \/ Abs(set) + Abs(grown) > CancelGuard * Abs(set + grown)
  THEN NoSplit ELSE Apportion(set, grown, rest)

SplitDemand(from, to, rest) ==
  LET dim == Binding(from, to)
      stay == DOMAIN from \cap DOMAIN to
      set == Total(LAMBDA n : to[n][dim], DOMAIN to \ stay)
             - Total(LAMBDA n : from[n][dim], DOMAIN from \ stay)
      grown == Total(LAMBDA n : to[n][dim] - from[n][dim], stay)
  IN  IF from = <<>> \/ to = <<>> THEN NoSplit ELSE SplitGuarded(set, grown, rest)

ActionsInWindow(from, to) ==
  {i \in DOMAIN ledger : ledger[i].at >= from /\ ledger[i].at < to /\ ledger[i].applied}

\* What Kilter did is counted, the rest is split by demand.
AttributeNodeCount(volume, unit, actions, spaces) ==
  LET kilter == Quantize(<<-Total(LAMBDA i : ledger[i].removed, actions) * unit[1], unit[2]>>)
      rest == volume - kilter
      split == IF spaces = <<>> THEN NoSplit ELSE SplitDemand(spaces[1], spaces[2], rest)
  IN  [kilter |-> kilter, set |-> split.set, scaling |-> split.scaling,
       split |-> split.split, unattributed |-> rest - split.set - split.scaling]

\* The points, and the snapshots, inside the half-open window.
InWindow(s, from, to) == SelectSeq(s, LAMBDA p : p.at >= from /\ p.at < to)
Answerable(from, to) == Len(InWindow(timeline, from, to)) >= 2

\* A composition is priced when it is asked about, by the catalog loaded then.
BasisFrom(snap) ==
  [snap EXCEPT !.groups = [g \in DOMAIN snap.groups |->
     [n |-> snap.groups[g].n,
      p |-> IF snap.groups[g].note > 0 THEN snap.groups[g].note ELSE catalog[g]]]]

NoCharges == [volume |-> 0, kind |-> 0, class |-> 0, price |-> 0, unit |-> <<0, 1>>]
NoEdge == [at |-> -1, stated |-> FALSE, groups |-> <<>>, charges |-> <<>>, spaces |-> <<>>]
ChargesKnown(a, b) == a.stated /\ b.stated

Supplied(from, to) == InWindow(history, from, to) # <<>>
StartEdge(from, to) ==
  IF Supplied(from, to) THEN BasisFrom(Head(InWindow(history, from, to))) ELSE NoEdge
EndEdge(from, to) ==
  IF Supplied(from, to) THEN BasisFrom(Last(InWindow(history, from, to))) ELSE NoEdge

Supported(edges, unit, counts) ==
  IF edges # <<>> THEN Peel(edges[1].groups, edges[2].groups)
  ELSE [NoCharges EXCEPT !.unit = unit,
          !.volume = Quantize(<<(counts[2] - counts[1]) * unit[1], unit[2]>>)]
Billed(edges) == edges # <<>> /\ ChargesKnown(edges[1], edges[2])
Reckon(delta, nodes, drivers, known, charges, parent) ==
  [delta |-> delta, nodes |-> nodes, drivers |-> drivers, known |-> known,
   charges |-> charges, parent |-> parent, left |-> parent - Chained(charges),
   residual |-> delta - Chained(nodes) - parent]

\* The chain of the nodes, what drove their number, and the charges' chain.
Explain(delta, nodes, edges, from, to) ==
  Reckon(delta, nodes,
         AttributeNodeCount(nodes.volume, nodes.unit, ActionsInWindow(from, to),
                            IF edges = <<>> THEN <<>> ELSE <<edges[1].spaces, edges[2].spaces>>),
         Billed(edges),
         IF Billed(edges) THEN Peel(edges[1].charges, edges[2].charges) ELSE NoCharges,
         IF Billed(edges) THEN Cost(edges[2].charges) - Cost(edges[1].charges) ELSE 0)
Between(start, end, edges, from, to) ==
  Explain(end.cost - start.cost,
          Supported(edges, IF start.nodes > 0 THEN <<start.cost, start.nodes>> ELSE <<0, 1>>,
                    <<start.nodes, end.nodes>>),
          edges, from, to)
Answer(from, to) ==
  Between(Head(InWindow(timeline, from, to)), Last(InWindow(timeline, from, to)),
          IF Supplied(from, to) THEN <<StartEdge(from, to), EndEdge(from, to)>> ELSE <<>>, from, to)

-----------------------------------------------------------------------------
Spaces == UNION {[S -> Demands] : S \in SUBSET Namespaces}

Init ==
  /\ hour = 0
  /\ fleet \in Fleets
  /\ annotated = [g \in Groups |-> 0]
  /\ catalog = Catalog
  /\ billed \in [Lines -> 0..1]
  /\ demand \in [{CHOOSE n \in Namespaces : TRUE} -> Demands]
  /\ timeline = <<>> /\ history = <<>> /\ ledger = <<>>
  /\ events = 0

Happens == events < MaxEvents /\ events' = events + 1 /\ UNCHANGED hour
Observed == UNCHANGED <<timeline, history>>

\* A node joins, or leaves by another hand than Kilter's.
Joins(g) ==
  /\ Happens /\ fleet[g] < MaxNodes
  /\ fleet' = [fleet EXCEPT ![g] = @ + 1]
  /\ UNCHANGED <<annotated, catalog, billed, demand, ledger>> /\ Observed
Leaves(g) ==
  /\ Happens /\ fleet[g] > 0
  /\ fleet' = [fleet EXCEPT ![g] = @ - 1]
  /\ UNCHANGED <<annotated, catalog, billed, demand, ledger>> /\ Observed

\* Kilter executes a plan that deletes a node: wholly, or up to a step before
\* the deletion, or as a rehearsal.
Kilter(g, done) ==
  /\ Happens /\ fleet[g] > 0
  /\ fleet' = [fleet EXCEPT ![g] = IF done = "all" THEN @ - 1 ELSE @]
  /\ ledger' = Append(ledger, [at |-> hour, applied |-> done # "dry-run",
                               removed |-> IF done = "all" THEN 1 ELSE 0])
  /\ UNCHANGED <<annotated, catalog, billed, demand>> /\ Observed

Annotate(g) ==
  /\ Happens /\ annotated[g] = 0
  /\ annotated' = [annotated EXCEPT ![g] = NewPrice]
  /\ UNCHANGED <<fleet, catalog, billed, demand, ledger>> /\ Observed
LoadCatalog(k) ==
  /\ Happens /\ catalog[k] # NewPrice
  /\ catalog' = [catalog EXCEPT ![k] = NewPrice]
  /\ UNCHANGED <<fleet, annotated, billed, demand, ledger>> /\ Observed

Bill(l, u) ==
  /\ Happens /\ u # billed[l]
  /\ billed' = [billed EXCEPT ![l] = u]
  /\ UNCHANGED <<fleet, annotated, catalog, demand, ledger>> /\ Observed
\* Namespaces come, go, grow and shrink.
Workloads(spaces) ==
  /\ Happens /\ spaces # demand
  /\ demand' = spaces
  /\ UNCHANGED <<fleet, annotated, catalog, billed, ledger>> /\ Observed

\* The snapshot taken now; a caller that knows the cluster's non-node charges
\* states them, lines with no unit included.
Snapshot(stated) ==
  [at |-> hour, stated |-> stated, spaces |-> demand,
   groups |-> [g \in {x \in Groups : fleet[x] > 0} |-> [n |-> fleet[g], note |-> annotated[g]]],
   charges |-> IF stated THEN [l \in Lines |-> [n |-> billed[l], p |-> catalog[l]]] ELSE <<>>]

\* The collector looks; the snapshot may fail to reach the history.
Observe(kept, stated) ==
  /\ hour < MaxHour /\ hour' = hour + 1
  /\ timeline' = Append(timeline, [at |-> hour, cost |-> SnapshotCost,
                                   nodes |-> Total(LAMBDA g : fleet[g], Groups)])
  /\ history' = IF kept THEN Append(history, Snapshot(stated)) ELSE history
  /\ UNCHANGED <<fleet, annotated, catalog, billed, demand, ledger, events>>

Next ==
  \/ \E g \in Groups : Joins(g) \/ Leaves(g) \/ Annotate(g)
  \/ \E g \in Groups, done \in {"all", "some", "dry-run"} : Kilter(g, done)
  \/ \E k \in Groups \cup Lines : LoadCatalog(k)
  \/ \E l \in Lines, u \in 0..MaxUnits : Bill(l, u)
  \/ \E spaces \in Spaces : Workloads(spaces)
  \/ \E kept, stated \in BOOLEAN : Observe(kept, stated)
Spec == Init /\ [][Next]_vars

-----------------------------------------------------------------------------
TypeOK ==
  /\ hour \in 0..MaxHour /\ events \in 0..MaxEvents
  /\ fleet \in [Groups -> 0..MaxNodes] /\ billed \in [Lines -> 0..MaxUnits]
  /\ annotated \in [Groups -> {0, NewPrice}]
  /\ \A k \in Groups \cup Lines : catalog[k] \in {Catalog[k], NewPrice}
  /\ demand \in Spaces
  /\ Len(timeline) = hour /\ Len(history) <= hour
  /\ \A i \in DOMAIN ledger : ledger[i].at <= hour /\ ledger[i].removed \in 0..1

Windows == {w \in (0..MaxHour) \X (1..MaxHour) : w[1] < w[2] /\ Answerable(w[1], w[2])}
Near(x, y) == Abs(x - y) <= 2

\* The two edges were kept at the two observations, priced as they were then.
EdgesAgree(from, to) ==
  /\ StartEdge(from, to).at = Head(InWindow(timeline, from, to)).at
  /\ EndEdge(from, to).at = Last(InWindow(timeline, from, to)).at
  /\ \A g \in Groups : catalog[g] = Catalog[g]

\* Error is never hidden in a labelled term: the terms of the fleet account
\* for what the compositions' costs moved by, those of the charges for what
\* the charges moved by, up to the roundings; and where the compositions are
\* those of the two observations, the residual holds nothing but roundings
\* (whycost.go:640, charges.go:643).
ResidualIsRounding ==
  \A w \in Windows : \A ans \in {Answer(w[1], w[2])} :
    /\ Supplied(w[1], w[2]) =>
         Near(Chained(ans.nodes),
              Cost(EndEdge(w[1], w[2]).groups) - Cost(StartEdge(w[1], w[2]).groups))
    /\ Abs(ans.left) <= MaxChargeQuantization
    /\ EdgesAgree(w[1], w[2]) /\ ans.known => Near(ans.residual, 0)

\* Share of each kind, and of each class within its kind.
SameShares(a, b, kind) ==
  Nodes(Part(a, kind)) * Nodes(b) = Nodes(Part(b, kind)) * Nodes(a)
SameMix(a, b, kind) ==
  \A k \in DOMAIN Part(a, kind) \cup DOMAIN Part(b, kind) :
     CountAt(a, k) * Nodes(Part(b, kind)) = CountAt(b, k) * Nodes(Part(a, kind))

\* A term of the chain is not zero only if what it is named for moved.
TermsAreNamed(p, a, b) ==
  LET kinds == {k.kind : k \in DOMAIN a \cup DOMAIN b}
  IN  /\ p.volume # 0 => Nodes(a) # Nodes(b)
      /\ p.kind # 0 => \E j \in kinds : ~SameShares(a, b, j)
      /\ p.class # 0 => \E j \in kinds : ~SameMix(a, b, j)
                                          /\ Nodes(Part(a, j)) > 0 /\ Nodes(Part(b, j)) > 0
      /\ p.price # 0 => \E k \in DOMAIN a \cap DOMAIN b :
                           HasPrice(a, k) /\ HasPrice(b, k) /\ a[k].p # b[k].p

\* Every term is the work of what it is named for: a chain's term is zero
\* unless the count, the shares, the mix or the prices it names moved, moving
\* onto a new kind is not a change of mix, a group that appears is not a change
\* of price; nothing is laid at Kilter's door unless a plan it applied inside
\* the window deleted a node, and the split between workloads that came and
\* workloads that grew never claims much more than there was to split
\* (whycost.go:397, 800-815, 255, 963).
CauseIsNamed ==
  \A w \in Windows :
    \A ans \in {Answer(w[1], w[2])}, a \in {StartEdge(w[1], w[2])}, b \in {EndEdge(w[1], w[2])} :
      /\ Supplied(w[1], w[2]) => TermsAreNamed(ans.nodes, a.groups, b.groups)
      /\ ans.known => TermsAreNamed(ans.charges, a.charges, b.charges)
      /\ ans.drivers.kilter # 0 =>
           \E i \in DOMAIN ledger : ledger[i].removed > 0 /\ ledger[i].at \in w[1]..w[2] - 1
      /\ ans.drivers.set # 0 => DOMAIN a.spaces # DOMAIN b.spaces
      /\ ans.drivers.scaling # 0 =>
           \E n \in DOMAIN a.spaces \cap DOMAIN b.spaces : a.spaces[n] # b.spaces[n]
      /\ Abs(ans.drivers.set) + Abs(ans.drivers.scaling)
           <= CancelGuard * Abs(ans.nodes.volume - ans.drivers.kilter) + 1
=============================================================================
