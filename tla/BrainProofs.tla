---- MODULE BrainProofs ----
(* Proofs about Brain, for every agent, every store limit, any number of handlers and plans. *)
EXTENDS Brain, FiniteSetTheorems, SequenceTheorems, WellFoundedInduction, TLAPS

USE BrainAssumption

(* ---- The newest elements of a set ---- *)

\* A finite set of integers has a largest element: the one with the fewest above it.
LEMMA LargestExists ==
    ASSUME NEW S, IsFiniteSet(S), S \subseteq Int, S # {}
    PROVE  \E x \in S : \A y \in S : y <= x
<1>. DEFINE Above(x) == {u \in S : u > x}
            Counts == {Cardinality(Above(x)) : x \in S}
<1>1. \A x \in S : IsFiniteSet(Above(x)) /\ Cardinality(Above(x)) \in Nat
  BY FS_Subset, FS_CardinalityType
<1>2. Counts \subseteq Nat /\ Counts # {}
  <2>. HIDE DEF Above
  <2>. QED
    BY <1>1
<1>3. \E n \in Counts : \A m \in Counts : ~(<<m, n>> \in OpToRel(<, Nat))
  <2>. HIDE DEF Counts
  <2>. QED
    BY <1>2, WFMin, NatLessThanWellFounded
<1>4. PICK n \in Counts : \A m \in Counts : ~(<<m, n>> \in OpToRel(<, Nat))
  BY <1>3
<1>5. \A m \in Counts : ~(m < n)
  <2>1. \A m \in Counts : <<m, n>> \in Nat \X Nat /\ <<m, n>>[1] = m /\ <<m, n>>[2] = n
    BY <1>2
  <2>. QED
    BY <1>4, <2>1 DEF OpToRel
<1>6. PICK x \in S : n = Cardinality(Above(x))
  BY <1>4
<1>7. ASSUME NEW y \in S, y > x
      PROVE  FALSE
  <2>1. Above(y) \subseteq Above(x) /\ y \in Above(x) /\ y \notin Above(y)
    <3>1. x \in Int /\ y \in Int /\ x < y /\ ~(y > y)
      BY <1>6, <1>7
    <3>2. \A u \in S : u > y => u > x
      BY <3>1
    <3>. QED
      BY <1>7, <3>1, <3>2
  <2>2. Cardinality(Above(y)) <= Cardinality(Above(x))
        /\ Cardinality(Above(y)) # Cardinality(Above(x))
    <3>. HIDE DEF Above
    <3>. QED
      BY <1>1, <2>1, FS_Subset
  <2>3. Cardinality(Above(y)) < n
    <3>. HIDE DEF Above
    <3>. QED
      BY <1>1, <1>6, <2>2
  <2>. QED
    BY <1>5, <2>3
<1>8. \A y \in S : y <= x
  BY <1>6, <1>7
<1>. QED
  BY <1>8

\* An element is added to what is left of a set, as if nothing had been cut from it.
CutIsHarmless(B, b, k) == Newest(Newest(B, k) \cup {b}, k) = Newest(B \cup {b}, k)

\* Cutting a set to its newest elements before one is added changes nothing of the result: what
\* the history lost earlier can never come back.
LEMMA NewestOfNewest ==
    ASSUME NEW B, IsFiniteSet(B), B \subseteq Int, NEW b, b \in Int, NEW k, k \in Nat
    PROVE  CutIsHarmless(B, b, k)
<1>. DEFINE N == Newest(B, k)
            Cut(x) == {u \in N \cup {b} : u > x}
            All(x) == {u \in B \cup {b} : u > x}
<1>1. N \subseteq B /\ IsFiniteSet(N) /\ IsFiniteSet(B \cup {b}) /\ IsFiniteSet(N \cup {b})
  BY FS_Subset, FS_AddElement DEF Newest
<1>2. \A x : /\ IsFiniteSet(Cut(x)) /\ IsFiniteSet(All(x))
             /\ Cardinality(Cut(x)) \in Nat /\ Cardinality(All(x)) \in Nat
             /\ Cardinality(Cut(x)) <= Cardinality(All(x))
  <2>1. \A x : Cut(x) \subseteq N \cup {b} /\ All(x) \subseteq B \cup {b} /\ Cut(x) \subseteq All(x)
    BY <1>1
  <2>. QED
    BY <1>1, <2>1, FS_Subset, FS_CardinalityType
<1>3. ASSUME NEW x \in Int, Cardinality(Cut(x)) < k
      PROVE  Cardinality(All(x)) < k
  <2>1. SUFFICES ASSUME NEW v \in B \ N, v > x
                 PROVE  FALSE
    <3>1. CASE \A v \in B \ N : ~(v > x)
      <4>1. Cut(x) = All(x)
        BY <1>1, <3>1
      <4>. QED
        BY <1>3, <4>1
    <3>. QED
      BY <2>1, <3>1
  <2>2. IsFiniteSet(B \ N) /\ B \ N \subseteq Int
    BY FS_Subset
  <2>3. PICK m \in B \ N : \A y \in B \ N : y <= m
    BY <2>1, <2>2, LargestExists
  <2>4. Cardinality({u \in B : u > m}) >= k /\ Cardinality({u \in B : u > m}) \in Nat
        /\ IsFiniteSet({u \in B : u > m})
    <3>1. IsFiniteSet({u \in B : u > m}) /\ Cardinality({u \in B : u > m}) \in Nat
      BY FS_Subset, FS_CardinalityType
    <3>2. ~(Cardinality({u \in B : u > m}) < k)
      BY <2>3 DEF Newest
    <3>. QED
      BY <3>1, <3>2
  <2>5. {u \in B : u > m} \subseteq Cut(x)
    <3>1. SUFFICES ASSUME NEW u \in B, u > m PROVE u \in N /\ u > x
      OBVIOUS
    <3>2. u \in N
      BY <2>2, <2>3, <3>1
    <3>3. v <= m /\ m \in Int /\ v \in Int /\ u \in Int
      BY <2>1, <2>2, <2>3
    <3>. QED
      BY <2>1, <3>1, <3>2, <3>3
  <2>6. Cardinality({u \in B : u > m}) <= Cardinality(Cut(x))
    BY <1>2, <2>5, FS_Subset
  <2>7. Cardinality(Cut(x)) \in Nat
    BY <1>2
  <2>. QED
    <3>. HIDE DEF Cut, All
    <3>. QED
      BY <1>3, <2>4, <2>6, <2>7
<1>4. ASSUME NEW x \in B \cup {b}, Cardinality(All(x)) < k
      PROVE  x \in N \cup {b} /\ Cardinality(Cut(x)) < k
  <2>1. Cardinality(Cut(x)) < k
    BY <1>2, <1>4
  <2>2. CASE x \in B
    <3>1. {u \in B : u > x} \subseteq All(x)
      OBVIOUS
    <3>2. Cardinality({u \in B : u > x}) <= Cardinality(All(x))
          /\ Cardinality({u \in B : u > x}) \in Nat
      BY <1>2, <3>1, FS_Subset, FS_CardinalityType
    <3>0. Cardinality(All(x)) \in Nat
      BY <1>2
    <3>3. Cardinality({u \in B : u > x}) < k
      <4>. DEFINE c == Cardinality({u \in B : u > x})
      <4>. HIDE DEF All, c
      <4>1. c <= Cardinality(All(x)) /\ c \in Nat
        BY <3>2 DEF c
      <4>. QED
        BY <1>4, <3>0, <4>1 DEF c
    <3>4. x \in N
      BY <2>2, <3>3 DEF Newest
    <3>. QED
      BY <2>1, <3>4
  <2>. QED
    BY <1>4, <2>1, <2>2
<1>5. \A x : x \in Newest(N \cup {b}, k) <=> x \in N \cup {b} /\ Cardinality(Cut(x)) < k
  BY DEF Newest
<1>6. \A x : x \in Newest(B \cup {b}, k) <=> x \in B \cup {b} /\ Cardinality(All(x)) < k
  BY DEF Newest
<1>7. \A x \in N \cup {b} : x \in Int /\ x \in B \cup {b}
  BY <1>1
<1>. QED
  <2>. HIDE DEF Cut, All, N
  <2>. QED
    BY <1>3, <1>4, <1>5, <1>6, <1>7 DEF N, CutIsHarmless

\* A later snapshot is in no earlier period.
LEMMA BucketsGrow ==
    ASSUME NEW t \in Nat, NEW u \in Nat, t <= u
    PROVE  Bucket(t) \in Nat /\ Bucket(t) <= Bucket(u)
<1>. DEFINE q == t \div Cadence
            r == u \div Cadence
<1>1. Cadence \in Nat /\ Cadence > 0
  OBVIOUS
<1>2. /\ q \in Nat /\ r \in Nat
      /\ Cadence * q <= t /\ u < Cadence * (r + 1)
  BY <1>1
<1>3. q < r + 1
  <2>. HIDE DEF q, r
  <2>1. SUFFICES ASSUME q >= r + 1 PROVE FALSE
    BY <1>2
  <2>2. Cadence * q >= Cadence * (r + 1)
    BY <1>1, <1>2, <2>1
  <2>. QED
    BY <1>1, <1>2, <2>2
<1>. QED
  BY <1>2, <1>3 DEF Bucket

\* The periods of the newest snapshots are the newest periods, when no two share a period.
LEMMA NewestPeriods ==
    ASSUME NEW H, IsFiniteSet(H), H \subseteq Nat, NEW k \in Nat,
           \A t, u \in H : Bucket(t) = Bucket(u) => t = u
    PROVE  {Bucket(t) : t \in Newest(H, k)} = Newest({Bucket(t) : t \in H}, k)
<1>. DEFINE BH == {Bucket(t) : t \in H}
            Later(t) == {u \in H : u > t}
            Beyond(b) == {c \in BH : c > b}
<1>1. ASSUME NEW t \in H
      PROVE  Cardinality(Beyond(Bucket(t))) = Cardinality(Later(t))
  <2>. DEFINE f == [u \in Later(t) |-> Bucket(u)]
  <2>1. \A u \in H : u > t <=> Bucket(u) > Bucket(t)
    BY BucketsGrow
  <2>2. f \in Bijection(Later(t), Beyond(Bucket(t)))
    <3>1. f \in [Later(t) -> Beyond(Bucket(t))]
      BY <2>1
    <3>2. \A u, v \in Later(t) : f[u] = f[v] => u = v
      OBVIOUS
    <3>3. \A c \in Beyond(Bucket(t)) : \E u \in Later(t) : f[u] = c
      BY <2>1
    <3>. QED
      BY <3>1, <3>2, <3>3 DEF Bijection, Injection, Surjection, IsInjective
  <2>3. IsFiniteSet(Later(t))
    BY FS_Subset
  <2>. QED
    <3>. HIDE DEF f, Later, Beyond
    <3>. QED
      BY <2>2, <2>3, FS_Bijection DEF ExistsBijection
<1>2. \A t : t \in Newest(H, k) <=> t \in H /\ Cardinality(Later(t)) < k
  BY DEF Newest
<1>3. \A b : b \in Newest(BH, k) <=> b \in BH /\ Cardinality(Beyond(b)) < k
  BY DEF Newest
<1>. QED
  <2>. HIDE DEF Later, Beyond
  <2>. QED
    BY <1>1, <1>2, <1>3

(* ---- The inductive invariant ---- *)

Pcs == {"idle", "observe", "remember", "cadence", "latest", "history", "point", "cost",
        "export", "write", "exportEvidence", "writeEvidence"}

CallStates == [pc: Pcs, snap: Times \cup {None}, due: BOOLEAN, ooms: Nat, timeline: Seq(Times)]
Plan == [created: Times, recs: Times]
Disks == [snap: Times \cup {None}, history: SUBSET Times, ooms: Nat, timeline: Seq(Times),
          plans: SUBSET Plan]

\* What a handler and a plan request hold: a handler at work has a snapshot of the agent's, and
\* a plan is made from one.
CallsInv ==
    /\ call \in [Calls -> CallStates]
    /\ \A c \in Calls : call[c].pc # "idle" => call[c].snap \in Times

PlannersInv ==
    /\ planner \in [Planners -> [pc: {"idle", "build"}, snap: Times \cup {None}]]
    /\ \A p \in Planners : planner[p].pc = "build" => planner[p].snap \in Times

MemoryInv ==
    /\ rec \in [base: Nat \cup {Unseen}, ooms: Nat]
    /\ lastSnap \in Times \cup {None} /\ snapCount \in Nat /\ lastAt \in Times \cup {None}
    /\ timeline \in Seq(Times) /\ costHist \in Seq(Times) /\ Len(costHist) <= CostLimit
    /\ phase \in {"serving", "stopping", "flushed"} /\ saved \subseteq Times /\ acked \in Seq(Times)
    /\ starts \in Nat

HandsInv == MemoryInv /\ disk \in Disks /\ CallsInv /\ PlannersInv

IInv == HandsInv /\ HistoryIsNewest /\ PlansAreCoherent /\ TimelineInOrder

\* A new store is in order.
LEMMA InitInv == Init => IInv
<1>. SUFFICES ASSUME Init PROVE IInv
  OBVIOUS
<1>. USE DEF Init, NewRecommender, NoDisk, IdleCall, IdlePlanner, None, Unseen
<1>1. TypeOK
  <2>1. rec \in [base: Nat \cup {Unseen}, ooms: Nat] /\ timeline \in Seq(Times) /\ acked \in Seq(Times)
    OBVIOUS
  <2>2. costHist \in Seq(Times) /\ Len(costHist) <= CostLimit
    OBVIOUS
  <2>3. disk \in [snap: Times \cup {None}, history: SUBSET Times, ooms: Nat, timeline: Seq(Times),
                  plans: SUBSET [created: Times, recs: Times]]
    OBVIOUS
  <2>. QED
    BY <2>1, <2>2, <2>3 DEF TypeOK
<1>2. HandsInv
  BY <1>1 DEF TypeOK, HandsInv, MemoryInv, CallsInv, PlannersInv, CallStates, Disks, Plan, Pcs
<1>3. HistoryIsNewest
  BY DEF HistoryIsNewest, Newest
<1>4. PlansAreCoherent /\ TimelineInOrder
  BY DEF PlansAreCoherent, TimelineInOrder
<1>. QED
  BY <1>1, <1>2, <1>3, <1>4 DEF IInv

\* Timestamps, and the absence of one, are natural numbers.
LEMMA TimesAreNatural == None \in Nat /\ Times \subseteq Nat /\ Times \cup {None} \subseteq Nat
BY DEF None

\* The latest of two times.
LEMMA MaxOfTwo ==
    ASSUME NEW a \in Nat, NEW b \in Nat
    PROVE  Max({a, b}) \in {a, b} /\ Max({a, b}) >= a
BY DEF Max

\* The parts have the types.
LEMMA PartsAreTyped == HandsInv => TypeOK
BY DEF HandsInv, MemoryInv, CallsInv, PlannersInv, CallStates, Disks, Plan, TypeOK

\* A handler that goes to its next step, or starts, or ends, is a handler.
LEMMA CallMoves ==
    ASSUME CallsInv, NEW c \in Calls, NEW r \in CallStates, r.pc # "idle" => r.snap \in Times,
           call' = [call EXCEPT ![c] = r]
    PROVE  CallsInv'
BY DEF CallsInv

\* The same for an update of the step alone.
LEMMA CallGoes ==
    ASSUME CallsInv, NEW c \in Calls, call[c].pc # "idle", NEW pc \in Pcs,
           call' = [call EXCEPT ![c].pc = pc]
    PROVE  CallsInv' /\ call[c].snap \in Times /\ call[c] \in CallStates
<1>. DEFINE r == [call[c] EXCEPT !.pc = pc]
<1>1. call[c] \in CallStates /\ call[c].snap \in Times
  BY DEF CallsInv
<1>2. r \in CallStates /\ r.snap = call[c].snap
  BY <1>1 DEF CallStates
<1>3. call' = [call EXCEPT ![c] = r]
  OBVIOUS
<1>. QED
  <2>. HIDE DEF r
  <2>. QED
    BY <1>1, <1>2, <1>3, CallMoves

\* A handler that is at rest is a handler.
LEMMA IdleCallIsOne == IdleCall \in CallStates /\ IdleCall.pc = "idle"
BY DEF IdleCall, CallStates, Pcs, None

\* Types, and what the handlers hold, survive every step.
LEMMA TypesKept == HandsInv /\ [Next]_vars => HandsInv'
<1>. SUFFICES ASSUME HandsInv, [Next]_vars PROVE HandsInv'
  OBVIOUS
<1>. USE DEF HandsInv
<1>. USE DEF memory, ghosts, At, Goto
<1>1. ASSUME NEW c \in Calls, NEW t \in Times, Send(c, t) PROVE HandsInv'
  <2>. DEFINE r == [IdleCall EXCEPT !.pc = "observe", !.snap = t]
  <2>1. r \in CallStates /\ r.snap \in Times
    BY IdleCallIsOne DEF CallStates, Pcs
  <2>2. call' = [call EXCEPT ![c] = r]
    BY <1>1 DEF Send
  <2>3. CallsInv'
    <3>. HIDE DEF r
    <3>. QED
      BY <2>1, <2>2, CallMoves
  <2>. QED
    BY <1>1, <2>3 DEF Send, MemoryInv, PlannersInv
<1>2. ASSUME NEW c \in Calls, Observe(c) PROVE HandsInv'
  <2>1. CallsInv' /\ call[c].snap \in Times
    BY <1>2, CallGoes DEF Observe, Pcs
  <2>2. rec' \in [base: Nat \cup {Unseen}, ooms: Nat]
    <3>. DEFINE now == Restarts[call[c].snap]
                kills == IF rec.base # Unseen /\ now > rec.base THEN 1 ELSE 0
    <3>1. now \in Nat /\ kills \in Nat /\ rec.ooms \in Nat
      BY <2>1 DEF MemoryInv
    <3>2. rec' = [base |-> now, ooms |-> rec.ooms + kills]
      BY <1>2 DEF Observe
    <3>. QED
      <4>. HIDE DEF now, kills
      <4>. QED
        BY <3>1, <3>2
  <2>. QED
    BY <1>2, <2>1, <2>2 DEF Observe, MemoryInv, PlannersInv
<1>3. ASSUME NEW c \in Calls, Remember(c) PROVE HandsInv'
  <2>. DEFINE r == [call[c] EXCEPT !.pc = "cadence", !.due = (snapCount + 1) % CheckpointEvery = 0]
  <2>1. call[c] \in CallStates /\ call[c].snap \in Times
    BY <1>3 DEF Remember, CallsInv
  <2>2. r \in CallStates /\ r.snap \in Times
    BY <2>1 DEF CallStates, Pcs
  <2>3. call' = [call EXCEPT ![c] = r]
    BY <1>3 DEF Remember
  <2>4. CallsInv'
    <3>. HIDE DEF r
    <3>. QED
      BY <2>2, <2>3, CallMoves
  <2>. QED
    <3>0. snapCount \in Nat
      BY DEF MemoryInv
    <3>1. snapCount' \in Nat /\ lastSnap' \in Times
      BY <1>3, <2>1, <3>0 DEF Remember
    <3>2. UNCHANGED <<rec, lastAt, timeline, costHist, disk, planner, phase, saved, acked, starts>>
      BY <1>3 DEF Remember
    <3>. QED
      BY <2>4, <3>1, <3>2 DEF MemoryInv, PlannersInv
<1>4. ASSUME NEW c \in Calls, Track(c) PROVE HandsInv'
  <2>1. CallsInv' /\ call[c].snap \in Times
    BY <1>4, CallGoes DEF Track, Pcs
  <2>2. lastAt' \in Times \cup {None}
    <3>0. lastAt \in Times \cup {None}
      BY DEF MemoryInv
    <3>1. lastAt \in Nat /\ call[c].snap \in Nat
      BY <2>1, <3>0, TimesAreNatural
    <3>2. lastAt' \in {lastAt, call[c].snap}
      BY <1>4, <3>1, MaxOfTwo DEF Track
    <3>. QED
      BY <2>1, <3>2 DEF MemoryInv
  <2>. QED
    BY <1>4, <2>1, <2>2 DEF Track, MemoryInv, PlannersInv
<1>5. ASSUME NEW c \in Calls, SaveSnapshot(c) PROVE HandsInv'
  <2>1. CallsInv' /\ call[c].snap \in Times
    BY <1>5, CallGoes DEF SaveSnapshot, Pcs
  <2>2. disk' \in Disks
    BY <1>5, <2>1 DEF SaveSnapshot, Disks
  <2>. QED
    BY <1>5, <2>1, <2>2 DEF SaveSnapshot, MemoryInv, PlannersInv
<1>6. ASSUME NEW c \in Calls, SaveSnapshotAt(c) PROVE HandsInv'
  <2>1. CallsInv' /\ call[c].snap \in Times
    BY <1>6, CallGoes DEF SaveSnapshotAt, Pcs
  <2>2. WithSnapshot(call[c].snap) \subseteq Times
    BY <2>1 DEF WithSnapshot, Newest, Disks
  <2>3. disk' \in Disks
    BY <1>6, <2>2 DEF SaveSnapshotAt, Disks
  <2>. QED
    BY <1>6, <2>1, <2>3 DEF SaveSnapshotAt, MemoryInv, PlannersInv
<1>7. ASSUME NEW c \in Calls, ObservePoint(c) PROVE HandsInv'
  <2>1. CallsInv' /\ call[c].snap \in Times
    BY <1>7, CallGoes DEF ObservePoint, Pcs
  <2>2. timeline' \in Seq(Times)
    BY <1>7, <2>1 DEF ObservePoint, MemoryInv
  <2>. QED
    BY <1>7, <2>1, <2>2 DEF ObservePoint, MemoryInv, PlannersInv
<1>8. ASSUME NEW c \in Calls, AddCost(c) PROVE HandsInv'
  <2>. DEFINE all == Append(costHist, call[c].snap)
  <2>0. call[c].snap \in Times
    BY <1>8 DEF AddCost, CallsInv
  <2>1. all \in Seq(Times) /\ Len(all) <= CostLimit + 1 /\ all # <<>>
    <3>1. costHist \in Seq(Times) /\ Len(costHist) <= CostLimit /\ Len(costHist) \in Nat
      BY DEF MemoryInv
    <3>2. all \in Seq(Times) /\ all # <<>> /\ Len(all) = Len(costHist) + 1
      BY <2>0, <3>1, AppendProperties
    <3>. QED
      <4>. HIDE DEF all
      <4>. QED
        BY <3>1, <3>2
  <2>2. Kept(all) \in Seq(Times) /\ Len(Kept(all)) <= CostLimit
    <3>. HIDE DEF all
    <3>1. Tail(all) \in Seq(Times) /\ Len(Tail(all)) = Len(all) - 1 /\ Len(all) \in Nat
      BY <2>1
    <3>. QED
      BY <2>1, <3>1 DEF Kept
  <2>3. CallsInv'
    <3>1. CASE call' = [call EXCEPT ![c].pc = "export"]
      BY <1>8, <3>1, CallGoes DEF AddCost, Pcs
    <3>2. CASE call' = [call EXCEPT ![c] = IdleCall]
      BY <3>2, CallMoves, IdleCallIsOne
    <3>. QED
      BY <1>8, <3>1, <3>2 DEF AddCost
  <2>4. acked' \in Seq(Times)
    <3>1. acked' = acked \/ acked' = Append(acked, call[c].snap)
      BY <1>8 DEF AddCost
    <3>. QED
      <4>1. acked \in Seq(Times)
        BY DEF MemoryInv
      <4>2. Append(acked, call[c].snap) \in Seq(Times)
        BY <2>0, <4>1, AppendProperties
      <4>. QED
        BY <3>1, <4>1, <4>2
  <2>. QED
    BY <1>8, <2>2, <2>3, <2>4 DEF AddCost, MemoryInv, PlannersInv
<1>9. ASSUME NEW c \in Calls, Export(c) PROVE HandsInv'
  <2>. DEFINE r == [call[c] EXCEPT !.pc = "write", !.ooms = rec.ooms]
  <2>1. call[c] \in CallStates /\ call[c].snap \in Times
    BY <1>9 DEF Export, CallsInv
  <2>2. r \in CallStates /\ r.snap \in Times
    BY <2>1 DEF CallStates, Pcs, MemoryInv
  <2>3. call' = [call EXCEPT ![c] = r]
    BY <1>9 DEF Export
  <2>4. CallsInv'
    <3>. HIDE DEF r
    <3>. QED
      BY <2>2, <2>3, CallMoves
  <2>. QED
    BY <1>9, <2>4 DEF Export, MemoryInv, PlannersInv
<1>10. ASSUME NEW c \in Calls, Write(c) PROVE HandsInv'
  <2>1. CallsInv' /\ call[c] \in CallStates
    BY <1>10, CallGoes DEF Write, Pcs
  <2>2. disk' \in Disks
    BY <1>10, <2>1 DEF Write, Disks, CallStates
  <2>. QED
    BY <1>10, <2>1, <2>2 DEF Write, MemoryInv, PlannersInv
<1>11. ASSUME NEW c \in Calls, ExportEvidence(c) PROVE HandsInv'
  <2>. DEFINE r == [call[c] EXCEPT !.pc = "writeEvidence", !.timeline = timeline]
  <2>1. call[c] \in CallStates /\ call[c].snap \in Times
    BY <1>11 DEF ExportEvidence, CallsInv
  <2>2. r \in CallStates /\ r.snap \in Times
    BY <2>1 DEF CallStates, Pcs, MemoryInv
  <2>3. call' = [call EXCEPT ![c] = r]
    BY <1>11 DEF ExportEvidence
  <2>4. CallsInv'
    <3>. HIDE DEF r
    <3>. QED
      BY <2>2, <2>3, CallMoves
  <2>. QED
    BY <1>11, <2>4 DEF ExportEvidence, MemoryInv, PlannersInv
<1>12. ASSUME NEW c \in Calls, WriteEvidence(c) PROVE HandsInv'
  <2>1. call[c] \in CallStates /\ call[c].snap \in Times
    BY <1>12 DEF WriteEvidence, CallsInv
  <2>2. CallsInv'
    BY <1>12, CallMoves, IdleCallIsOne DEF WriteEvidence
  <2>3. disk' \in Disks
    BY <1>12, <2>1 DEF WriteEvidence, Disks, CallStates
  <2>4. acked' \in Seq(Times)
    BY <1>12, <2>1 DEF WriteEvidence, MemoryInv
  <2>. QED
    BY <1>12, <2>2, <2>3, <2>4 DEF WriteEvidence, MemoryInv, PlannersInv
<1>13. ASSUME NEW p \in Planners, ReadSnapshot(p) PROVE HandsInv'
  <2>1. PlannersInv'
    BY <1>13 DEF ReadSnapshot, PlannersInv, MemoryInv
  <2>. QED
    BY <1>13, <2>1 DEF ReadSnapshot, MemoryInv, CallsInv
<1>14. ASSUME NEW p \in Planners, SavePlan(p) PROVE HandsInv'
  <2>. DEFINE new == [created |-> planner[p].snap, recs |-> RecommendedFrom(p)]
  <2>1. new \in Plan
    BY <1>14 DEF SavePlan, RecommendedFrom, PlannersInv, Plan
  <2>2. WithPlan(new) \subseteq Plan
    <3>. HIDE DEF new
    <3>. QED
      BY <2>1 DEF WithPlan, Disks
  <2>3. disk' \in Disks
    BY <1>14, <2>2 DEF SavePlan, Disks
  <2>4. PlannersInv'
    BY <1>14 DEF SavePlan, PlannersInv, IdlePlanner
  <2>. QED
    BY <1>14, <2>3, <2>4 DEF SavePlan, MemoryInv, CallsInv
<1>15. ASSUME Stop PROVE HandsInv'
  BY <1>15 DEF Stop, MemoryInv, CallsInv, PlannersInv
<1>16. ASSUME FinalCheckpoint PROVE HandsInv'
  <2>1. disk' \in Disks
    BY <1>16 DEF FinalCheckpoint, Disks, MemoryInv
  <2>. QED
    BY <1>16, <2>1 DEF FinalCheckpoint, MemoryInv, CallsInv, PlannersInv
<1>17. ASSUME Restart PROVE HandsInv'
  <2>1. CallsInv' /\ PlannersInv'
    BY <1>17, IdleCallIsOne DEF Restart, CallsInv, PlannersInv, IdlePlanner
  <2>2. MemoryInv'
    <3>1. rec' \in [base: Nat \cup {Unseen}, ooms: Nat]
      BY <1>17 DEF Restart, Disks, NewRecommender, Unseen
    <3>2. lastSnap' \in Times \cup {None} /\ timeline' \in Seq(Times)
      BY <1>17 DEF Restart, Disks
    <3>3. snapCount' \in Nat /\ lastAt' = None /\ starts' \in Nat /\ phase' = "serving"
      BY <1>17 DEF Restart, MemoryInv
    <3>4. costHist' = <<>> /\ saved' = saved /\ acked' = acked
      BY <1>17 DEF Restart
    <3>5. costHist' \in Seq(Times) /\ Len(costHist') <= CostLimit
      BY <3>4
    <3>. QED
      BY <3>1, <3>2, <3>3, <3>4, <3>5 DEF MemoryInv
  <2>. QED
    BY <1>17, <2>1, <2>2 DEF Restart
<1>18. ASSUME UNCHANGED vars PROVE HandsInv'
  BY <1>18 DEF vars, MemoryInv, CallsInv, PlannersInv
<1>. QED
  BY <1>1, <1>2, <1>3, <1>4, <1>5, <1>6, <1>7, <1>8, <1>9, <1>10, <1>11, <1>12, <1>13, <1>14,
     <1>15, <1>16, <1>17, <1>18 DEF Next, Ingest

\* Every timeline there is was one before, or is empty, or is the one in memory with a point
\* that is not earlier than its last.
Timelines == {timeline, disk.timeline} \cup {call[c].timeline : c \in Calls}
Ordered(s) == \A i \in 1..Len(s) - 1 : s[i] <= s[i + 1]

\* The property, said of each of the timelines.
LEMMA TimelinesAreOrdered == TimelineInOrder <=> \A s \in Timelines : Ordered(s)
BY DEF TimelineInOrder, Timelines, Ordered

\* A handler keeps its timeline when it goes on.
LEMMA GoingKeepsTimelines ==
    ASSUME call \in [Calls -> CallStates], NEW c \in Calls, NEW pc,
           call' = [call EXCEPT ![c].pc = pc]
    PROVE  \A d \in Calls : call'[d].timeline = call[d].timeline
BY DEF CallStates

\* No timeline gets out of order, whichever handler appends, exports or writes it.
LEMMA TimelinesKept == HandsInv /\ TimelineInOrder /\ [Next]_vars => TimelineInOrder'
<1>. SUFFICES ASSUME HandsInv, TimelineInOrder, [Next]_vars PROVE TimelineInOrder'
  OBVIOUS
<1>. USE DEF memory, ghosts, At, Goto
<1>0. /\ \A s \in Timelines : Ordered(s)
      /\ timeline \in Seq(Times) /\ call \in [Calls -> CallStates] /\ disk \in Disks
      /\ timeline \in Timelines /\ disk.timeline \in Timelines
      /\ \A c \in Calls : call[c].timeline \in Timelines
      /\ Ordered(<<>>)
  BY TimelinesAreOrdered DEF HandsInv, MemoryInv, CallsInv, Timelines, Ordered
<1>1. ASSUME Ordered(timeline'), Ordered(disk'.timeline), \A c \in Calls : Ordered(call'[c].timeline)
      PROVE  TimelineInOrder'
  BY <1>1 DEF TimelineInOrder, Ordered
<1>2. ASSUME UNCHANGED <<timeline, disk>>, \A c \in Calls : call'[c].timeline \in Timelines \cup {<<>>}
      PROVE  TimelineInOrder'
  BY <1>0, <1>1, <1>2
<1>3. ASSUME NEW c \in Calls, Ingest(c) PROVE TimelineInOrder'
  <2>1. CASE Observe(c) \/ Remember(c) \/ Track(c) \/ AddCost(c) \/ Export(c) \/ ExportEvidence(c)
    <3>1. \A d \in Calls : call'[d].timeline \in Timelines \cup {<<>>}
      <4>1. CASE Observe(c) \/ Track(c)
        BY <1>0, <4>1, GoingKeepsTimelines DEF Observe, Track
      <4>2. CASE Remember(c)
        BY <1>0, <4>2 DEF Remember, CallStates
      <4>3. CASE AddCost(c)
        <5>1. CASE call' = [call EXCEPT ![c].pc = "export"]
          BY <1>0, <5>1, GoingKeepsTimelines
        <5>2. CASE call' = [call EXCEPT ![c] = IdleCall]
          BY <1>0, <5>2 DEF IdleCall
        <5>. QED
          BY <4>3, <5>1, <5>2 DEF AddCost
      <4>4. CASE Export(c)
        BY <1>0, <4>4 DEF Export, CallStates
      <4>5. CASE ExportEvidence(c)
        BY <1>0, <4>5 DEF ExportEvidence, CallStates
      <4>. QED
        BY <2>1, <4>1, <4>2, <4>3, <4>4, <4>5
    <3>. QED
      BY <1>2, <2>1, <3>1 DEF Observe, Remember, Track, AddCost, Export, ExportEvidence
  <2>2. CASE SaveSnapshot(c) \/ SaveSnapshotAt(c) \/ Write(c)
    <3>1. timeline' = timeline /\ disk'.timeline = disk.timeline
      BY <1>0, <2>2 DEF SaveSnapshot, SaveSnapshotAt, Write, Disks
    <3>2. \A d \in Calls : call'[d].timeline = call[d].timeline
      BY <1>0, <2>2, GoingKeepsTimelines DEF SaveSnapshot, SaveSnapshotAt, Write
    <3>. QED
      BY <1>0, <1>1, <3>1, <3>2
  <2>3. CASE ObservePoint(c)
    <3>. DEFINE t == call[c].snap
    <3>1. t \in Times
      BY <2>3 DEF ObservePoint, HandsInv, CallsInv
    <3>2. Ordered(timeline')
      <4>1. CASE timeline' = timeline
        BY <1>0, <4>1
      <4>2. CASE TakesPoint(t) /\ timeline' = Append(timeline, t)
        <5>1. /\ Len(timeline') = Len(timeline) + 1 /\ Len(timeline) \in Nat
              /\ \A i \in 1..Len(timeline) : timeline'[i] = timeline[i] /\ timeline[i] \in Nat
              /\ timeline'[Len(timeline) + 1] = t /\ t \in Nat
          <6>0. \A i \in 1..Len(timeline) : timeline[i] \in Times
            BY <1>0
          <6>1. t \in Nat /\ \A i \in 1..Len(timeline) : timeline[i] \in Nat
            BY <3>1, <6>0, TimesAreNatural
          <6>2. /\ Len(Append(timeline, t)) = Len(timeline) + 1
                /\ \A i \in 1..Len(timeline) : Append(timeline, t)[i] = timeline[i]
                /\ Append(timeline, t)[Len(timeline) + 1] = t
            BY <1>0, <3>1, AppendProperties
          <6>. QED
            <7>1. Len(timeline) \in Nat
              BY <1>0
            <7>. QED
              BY <4>2, <6>1, <6>2, <7>1
        <5>2. Len(timeline) > 0 => t >= timeline[Len(timeline)]
          BY <1>0, <4>2 DEF TakesPoint, Last
        <5>3. \A i \in 1..Len(timeline) - 1 : timeline[i] <= timeline[i + 1]
          BY <1>0 DEF Ordered
        <5>4. ASSUME NEW i \in 1..Len(timeline') - 1 PROVE timeline'[i] <= timeline'[i + 1]
          <6>1. CASE i = Len(timeline)
            BY <5>1, <5>2, <6>1
          <6>2. CASE i # Len(timeline)
            <7>1. i \in 1..Len(timeline) - 1 /\ i \in 1..Len(timeline) /\ i + 1 \in 1..Len(timeline)
              BY <5>1, <5>4, <6>2
            <7>2. timeline'[i] = timeline[i] /\ timeline'[i + 1] = timeline[i + 1]
              BY <5>1, <7>1
            <7>. QED
              BY <5>3, <7>1, <7>2
          <6>. QED
            BY <6>1, <6>2
        <5>. QED
          BY <5>4 DEF Ordered
      <4>. QED
        BY <2>3, <4>1, <4>2 DEF ObservePoint
    <3>3. disk' = disk /\ \A d \in Calls : call'[d].timeline = call[d].timeline
      BY <1>0, <2>3 DEF ObservePoint, CallStates
    <3>. QED
      BY <1>0, <1>1, <3>2, <3>3
  <2>4. CASE WriteEvidence(c)
    <3>1. timeline' = timeline /\ disk'.timeline = call[c].timeline
      BY <1>0, <2>4 DEF WriteEvidence, Disks
    <3>2. \A d \in Calls : call'[d].timeline \in Timelines \cup {<<>>}
      BY <1>0, <2>4 DEF WriteEvidence, CallStates, IdleCall
    <3>. QED
      BY <1>0, <1>1, <3>1, <3>2
  <2>. QED
    BY <1>3, <2>1, <2>2, <2>3, <2>4 DEF Ingest
<1>4. ASSUME NEW c \in Calls, NEW t \in Times, Send(c, t) PROVE TimelineInOrder'
  <2>1. \A d \in Calls : call'[d].timeline \in Timelines \cup {<<>>}
    BY <1>0, <1>4 DEF Send, CallStates, IdleCall
  <2>. QED
    BY <1>2, <1>4, <2>1 DEF Send
<1>5. ASSUME NEW p \in Planners, SavePlan(p) PROVE TimelineInOrder'
  <2>1. timeline' = timeline /\ disk'.timeline = disk.timeline /\ call' = call
    BY <1>0, <1>5 DEF SavePlan, Disks
  <2>. QED
    BY <1>0, <1>1, <2>1
<1>6. ASSUME FinalCheckpoint PROVE TimelineInOrder'
  <2>1. timeline' = timeline /\ disk'.timeline = timeline /\ call' = call
    BY <1>0, <1>6 DEF FinalCheckpoint, Disks
  <2>. QED
    BY <1>0, <1>1, <2>1
<1>7. ASSUME Restart PROVE TimelineInOrder'
  <2>1. timeline' = disk.timeline /\ disk' = disk /\ \A c \in Calls : call'[c].timeline = <<>>
    BY <1>7 DEF Restart, IdleCall
  <2>. QED
    BY <1>0, <1>1, <2>1
<1>8. ASSUME UNCHANGED <<timeline, disk, call>> PROVE TimelineInOrder'
  BY <1>0, <1>2, <1>8
<1>. QED
  BY <1>3, <1>4, <1>5, <1>6, <1>7, <1>8 DEF Next, vars, ReadSnapshot, Stop

\* A plan is saved with the snapshot it was computed from.
LEMMA PlansKept == HandsInv /\ PlansAreCoherent /\ [Next]_vars => PlansAreCoherent'
<1>. SUFFICES ASSUME HandsInv, PlansAreCoherent, [Next]_vars PROVE PlansAreCoherent'
  OBVIOUS
<1>. USE DEF memory, ghosts, At, Goto
<1>0. disk \in Disks
  BY DEF HandsInv
<1>1. ASSUME disk'.plans = disk.plans PROVE PlansAreCoherent'
  BY <1>1 DEF PlansAreCoherent
<1>2. ASSUME NEW c \in Calls, Ingest(c) PROVE PlansAreCoherent'
  <2>1. disk'.plans = disk.plans
    BY <1>0, <1>2 DEF Ingest, Observe, Remember, Track, SaveSnapshot, SaveSnapshotAt, ObservePoint,
       AddCost, Export, Write, ExportEvidence, WriteEvidence, Disks
  <2>. QED
    BY <1>1, <2>1
<1>3. ASSUME NEW p \in Planners, SavePlan(p) PROVE PlansAreCoherent'
  <2>. DEFINE new == [created |-> planner[p].snap, recs |-> RecommendedFrom(p)]
  <2>1. disk'.plans = WithPlan(new)
    BY <1>0, <1>3 DEF SavePlan, Disks
  <2>2. new.recs = new.created
    BY DEF RecommendedFrom
  <2>3. WithPlan(new) \subseteq disk.plans \cup {new}
    <3>. HIDE DEF new
    <3>. QED
      BY DEF WithPlan
  <2>. QED
    <3>. HIDE DEF new
    <3>. QED
      BY <2>1, <2>2, <2>3 DEF PlansAreCoherent
<1>4. ASSUME FinalCheckpoint PROVE PlansAreCoherent'
  <2>1. disk'.plans = disk.plans
    BY <1>0, <1>4 DEF FinalCheckpoint, Disks
  <2>. QED
    BY <1>1, <2>1
<1>5. ASSUME UNCHANGED disk PROVE PlansAreCoherent'
  BY <1>1, <1>5
<1>. QED
  BY <1>2, <1>3, <1>4, <1>5 DEF Next, vars, Send, ReadSnapshot, Stop, Restart

\* Retention keeps the newest periods of all that was ever saved.
LEMMA HistoryKept == HandsInv /\ HistoryIsNewest /\ [Next]_vars => HistoryIsNewest'
<1>. SUFFICES ASSUME HandsInv, HistoryIsNewest, [Next]_vars PROVE HistoryIsNewest'
  OBVIOUS
<1>. USE DEF memory, ghosts, At, Goto
<1>. DEFINE k == MaxPerCluster
            Periods(S) == {Bucket(t) : t \in S}
<1>0. disk \in Disks /\ saved \subseteq Times /\ disk.history \subseteq Times /\ k \in Nat
      /\ \A t \in Times : t \in Nat /\ Bucket(t) \in Nat
  <2>1. disk \in Disks /\ saved \subseteq Times
    BY DEF HandsInv, MemoryInv
  <2>2. disk.history \subseteq Times
    BY <2>1 DEF Disks
  <2>3. \A t \in Times : t \in Nat /\ t <= t
    BY TimesAreNatural
  <2>. QED
    BY <2>1, <2>2, <2>3, BucketsGrow
<1>9. IsFiniteSet(Times) /\ Times \subseteq Nat
  BY TimesAreNatural
<1>1. ASSUME disk'.history = disk.history, saved' = saved PROVE HistoryIsNewest'
  BY <1>1 DEF HistoryIsNewest
<1>2. ASSUME NEW c \in Calls, SaveSnapshotAt(c) PROVE HistoryIsNewest'
  <2>. DEFINE t == call[c].snap
              H == disk.history \cup {t}
              B == Periods(saved)
  <2>1. t \in Times /\ t \in Nat /\ Bucket(t) \in Int /\ saved' = saved \cup {t}
    BY <1>0, <1>2 DEF SaveSnapshotAt, HandsInv, CallsInv
  <2>2. IsFiniteSet(B) /\ B \subseteq Int /\ IsFiniteSet(H) /\ H \subseteq Nat
    <3>1. IsFiniteSet(saved) /\ IsFiniteSet(H)
      <4>1. H \subseteq Times
        BY <1>0, <2>1
      <4>. HIDE DEF H
      <4>. QED
        BY <1>0, <1>9, <4>1, FS_Subset
    <3>2. IsFiniteSet(B)
      <4>. DEFINE f == [u \in saved |-> Bucket(u)]
      <4>1. f \in Surjection(saved, B)
        BY DEF Surjection
      <4>. QED
        <5>. HIDE DEF f, B
        <5>. QED
          BY <3>1, <4>1, FS_Surjection
    <3>3. B \subseteq Int
      BY <1>0
    <3>4. H \subseteq Nat
      BY <1>0, <1>9, <2>1
    <3>. QED
      BY <3>1, <3>2, <3>3, <3>4
  <2>3. Periods(disk.history) = Newest(B, k)
        /\ \A u, v \in disk.history : Bucket(u) = Bucket(v) => u = v
    BY DEF HistoryIsNewest
  <2>4. Periods(saved') = B \cup {Bucket(t)}
    BY <2>1
  <2>5. CASE BucketTaken(t)
    <3>1. disk'.history = disk.history
      BY <1>2, <2>5 DEF SaveSnapshotAt
    <3>2. Bucket(t) \in B
      BY <2>3, <2>5 DEF BucketTaken, Newest
    <3>. QED
      <4>. HIDE DEF B
      <4>1. Periods(saved') = B
        BY <2>4, <3>2
      <4>. QED
        BY <2>3, <3>1, <4>1 DEF HistoryIsNewest
  <2>6. CASE ~BucketTaken(t)
    <3>1. disk'.history = Newest(H, k)
      BY <1>0, <1>2, <2>6 DEF SaveSnapshotAt, WithSnapshot, Disks
    <3>2. \A u, v \in H : Bucket(u) = Bucket(v) => u = v
      BY <2>3, <2>6 DEF BucketTaken
    <3>3. Periods(Newest(H, k)) = Newest(Periods(H), k)
      <4>. HIDE DEF H
      <4>. QED
        BY <1>0, <2>2, <3>2, NewestPeriods
    <3>4. Periods(H) = Newest(B, k) \cup {Bucket(t)}
      <4>. HIDE DEF B
      <4>. QED
        BY <2>3
    <3>5. Newest(Periods(H), k) = Newest(B \cup {Bucket(t)}, k)
      <4>. DEFINE b == Bucket(t)
      <4>1. IsFiniteSet(B) /\ B \subseteq Int /\ b \in Int /\ k \in Nat
        BY <1>0, <2>1, <2>2
      <4>. HIDE DEF B, b, k
      <4>2. CutIsHarmless(B, b, k)
        BY <4>1, NewestOfNewest
      <4>. QED
        BY <3>4, <4>2 DEF b, CutIsHarmless
    <3>6. \A u, v \in disk'.history : Bucket(u) = Bucket(v) => u = v
      BY <3>1, <3>2 DEF Newest
    <3>. QED
      <4>. HIDE DEF B, H, t
      <4>. QED
        BY <2>4, <3>1, <3>3, <3>5, <3>6 DEF HistoryIsNewest
  <2>. QED
    BY <2>5, <2>6
<1>3. ASSUME NEW c \in Calls, Ingest(c), ~SaveSnapshotAt(c) PROVE HistoryIsNewest'
  <2>1. disk'.history = disk.history /\ saved' = saved
    BY <1>0, <1>3 DEF Ingest, Observe, Remember, Track, SaveSnapshot, ObservePoint,
       AddCost, Export, Write, ExportEvidence, WriteEvidence, Disks
  <2>. QED
    BY <1>1, <2>1
<1>4. ASSUME NEW p \in Planners, SavePlan(p) PROVE HistoryIsNewest'
  <2>1. disk'.history = disk.history /\ saved' = saved
    BY <1>0, <1>4 DEF SavePlan, Disks
  <2>. QED
    BY <1>1, <2>1
<1>5. ASSUME FinalCheckpoint PROVE HistoryIsNewest'
  <2>1. disk'.history = disk.history /\ saved' = saved
    BY <1>0, <1>5 DEF FinalCheckpoint, Disks
  <2>. QED
    BY <1>1, <2>1
<1>6. ASSUME UNCHANGED <<disk, saved>> PROVE HistoryIsNewest'
  BY <1>1, <1>6
<1>. QED
  BY <1>2, <1>3, <1>4, <1>5, <1>6 DEF Next, vars, Send, ReadSnapshot, Stop, Restart

\* The invariant is inductive.
LEMMA NextInv == IInv /\ [Next]_vars => IInv'
BY TypesKept, TimelinesKept, PlansKept, HistoryKept DEF IInv

\* What the invariant says of the handlers and the memory.
LEMMA TypedInv == IInv => HandsInv
BY DEF IInv

(* ---- The theorems ---- *)

\* Every handler, plan request and row of the store holds what it is supposed to.
THEOREM BrainTypesHold == Spec => []TypeOK
<1>1. IInv => TypeOK
  BY PartsAreTyped DEF IInv
<1>. QED
  BY <1>1, InitInv, NextInv, PTL DEF Spec

\* The retained history is the newest of all that was ever saved, whatever the order of uploads,
\* their repetition, and crashes.
THEOREM HistoryStaysNewest == Spec => []HistoryIsNewest
<1>1. IInv => HistoryIsNewest
  BY DEF IInv
<1>. QED
  BY <1>1, InitInv, NextInv, PTL DEF Spec

\* No plan is a mixture of two snapshots.
THEOREM PlansStayCoherent == Spec => []PlansAreCoherent
<1>1. IInv => PlansAreCoherent
  BY DEF IInv
<1>. QED
  BY <1>1, InitInv, NextInv, PTL DEF Spec

\* The cost timeline is in order in memory, in every handler's hands and on disk.
THEOREM TimelineStaysInOrder == Spec => []TimelineInOrder
<1>1. IInv => TimelineInOrder
  BY DEF IInv
<1>. QED
  BY <1>1, InitInv, NextInv, PTL DEF Spec

\* Only a restart sets the demand tracker's clock back.
THEOREM CadenceIsMonotone == Spec => CadenceNeverRewinds
<1>1. ASSUME IInv, [Next]_vars PROVE [lastAt' < lastAt => starts' # starts]_vars
  <2>. USE DEF memory, ghosts
  <2>0. lastAt \in Nat /\ starts \in Nat /\ \A c \in Calls : call[c].snap \in Nat
    BY <1>1, TypedInv, TimesAreNatural DEF HandsInv, MemoryInv, CallsInv, CallStates
  <2>1. ASSUME NEW c \in Calls, Track(c) PROVE ~(lastAt' < lastAt)
    <3>1. lastAt' >= lastAt /\ lastAt' \in {lastAt, call[c].snap}
      BY <2>0, <2>1, MaxOfTwo DEF Track
    <3>. QED
      BY <2>0, <3>1
  <2>2. ASSUME Restart PROVE starts' # starts
    BY <2>0, <2>2 DEF Restart
  <2>3. ASSUME UNCHANGED lastAt PROVE ~(lastAt' < lastAt)
    BY <2>0, <2>3
  <2>. QED
    BY <1>1, <2>1, <2>2, <2>3 DEF Next, vars, Ingest, Observe, Remember, SaveSnapshot, SaveSnapshotAt,
       ObservePoint, AddCost, Export, Write, ExportEvidence, WriteEvidence, Send, ReadSnapshot,
       SavePlan, Stop, FinalCheckpoint
<1>. QED
  BY <1>1, InitInv, NextInv, PTL DEF Spec, CadenceNeverRewinds

\* The newest of some measurements is one of them, and no other is newer.
LEMMA LatestOfCosts ==
    ASSUME NEW s \in Seq(Times), s # <<>>
    PROVE  /\ Max(ToSet(s)) \in ToSet(s) /\ Max(ToSet(s)) \in Nat
           /\ \A i \in 1..Len(s) : s[i] \in ToSet(s) /\ Max(ToSet(s)) >= s[i]
<1>0. DOMAIN s = 1..Len(s) /\ Len(s) \in Nat /\ 1 \in 1..Len(s) /\ \A i \in 1..Len(s) : s[i] \in Times
  <2>1. Len(s) \in Nat /\ Len(s) # 0 /\ DOMAIN s = 1..Len(s)
    BY LenProperties, EmptySeq
  <2>2. \A i \in 1..Len(s) : s[i] \in Times
    BY ElementOfSeq
  <2>. QED
    BY <2>1, <2>2
<1>1. ToSet(s) \subseteq Times /\ ToSet(s) # {} /\ \A i \in 1..Len(s) : s[i] \in ToSet(s)
  BY <1>0 DEF ToSet
<1>2. IsFiniteSet(ToSet(s)) /\ ToSet(s) \subseteq Int
  BY <1>1, FS_Subset, TimesAreNatural
<1>3. \E x \in ToSet(s) : \A y \in ToSet(s) : x >= y
  <2>1. PICK x \in ToSet(s) : \A y \in ToSet(s) : y <= x
    BY <1>1, <1>2, LargestExists
  <2>. QED
    BY <1>2, <2>1
<1>4. Max(ToSet(s)) \in ToSet(s) /\ \A y \in ToSet(s) : Max(ToSet(s)) >= y
  BY <1>3 DEF Max
<1>. QED
  BY <1>1, <1>4, TimesAreNatural

\* A late measurement does not move the report's point of comparison back: only the limit of the
\* list can, when the newest one is the one that is cut.
THEOREM ComparisonIsStable == Spec => ComparisonHolds
<1>. DEFINE Moved == costHist # <<>> /\ costHist' # <<>> /\ LatestCost' < LatestCost
            Cut == Len(costHist) = CostLimit /\ Head(costHist) = LatestCost
<1>1. ASSUME IInv, [Next]_vars PROVE [Moved => Cut]_vars
  <2>. USE DEF memory, ghosts
  <2>0. costHist \in Seq(Times) /\ Len(costHist) <= CostLimit /\ Len(costHist) \in Nat
    BY <1>1, TypedInv DEF HandsInv, MemoryInv
  <2>1. ASSUME NEW c \in Calls, AddCost(c), Moved PROVE Cut
    <3>. DEFINE t == call[c].snap
                all == Append(costHist, t)
    <3>1. t \in Times
      BY <1>1, <2>1, TypedInv DEF HandsInv, CallsInv, AddCost, At
    <3>2. /\ all \in Seq(Times) /\ all # <<>> /\ Len(all) = Len(costHist) + 1
          /\ \A i \in 1..Len(costHist) : all[i] = costHist[i]
      BY <2>0, <3>1, AppendProperties
    <3>3. costHist' = Kept(all)
      BY <2>1 DEF AddCost
    <3>4. PICK i \in 1..Len(costHist) : costHist[i] = LatestCost
      <4>1. LatestCost \in ToSet(costHist)
        BY <2>0, <2>1, LatestOfCosts DEF LatestCost
      <4>2. DOMAIN costHist = 1..Len(costHist)
        BY <2>0, LenProperties
      <4>3. \E i \in 1..Len(costHist) : costHist[i] = LatestCost
        BY <4>1, <4>2 DEF ToSet
      <4>. QED
        BY <4>3
    <3>5. LatestCost \in Nat
      BY <2>0, <2>1, LatestOfCosts DEF LatestCost
    <3>6. ASSUME NEW j \in 1..Len(costHist'), costHist'[j] = costHist[i], costHist' \in Seq(Times)
          PROVE  FALSE
      <4>1. LatestCost' >= costHist'[j] /\ LatestCost' \in Nat
        BY <2>1, <3>6, LatestOfCosts DEF LatestCost
      <4>. QED
        BY <2>1, <3>4, <3>5, <3>6, <4>1
    <3>7. costHist' = Tail(all) /\ Len(costHist) = CostLimit
      <4>1. CASE Len(all) > CostLimit
        <5>. HIDE DEF all
        <5>. QED
          BY <2>0, <3>2, <3>3, <4>1 DEF Kept
      <4>2. CASE ~(Len(all) > CostLimit)
        <5>. HIDE DEF all
        <5>1. costHist' = all
          BY <3>3, <4>2 DEF Kept
        <5>. QED
          BY <2>0, <3>2, <3>6, <5>1
      <4>. QED
        BY <4>1, <4>2
    <3>8. i = 1
      <4>. HIDE DEF all
      <4>1. /\ Tail(all) \in Seq(Times) /\ Len(Tail(all)) = Len(costHist)
            /\ \A j \in 1..Len(costHist) : Tail(all)[j] = all[j + 1]
        BY <2>0, <3>2, HeadTailProperties
      <4>2. CASE i # 1
        <5>1. i - 1 \in 1..Len(costHist') /\ costHist'[i - 1] = costHist[i] /\ costHist' \in Seq(Times)
          BY <2>0, <3>2, <3>7, <4>1, <4>2
        <5>. QED
          BY <3>6, <5>1
      <4>. QED
        BY <4>2
    <3>. QED
      BY <2>0, <3>4, <3>7, <3>8
  <2>2. ASSUME Restart PROVE ~Moved
    BY <2>2 DEF Restart
  <2>3. ASSUME UNCHANGED costHist, Moved PROVE FALSE
    <3>1. LatestCost' = LatestCost /\ LatestCost \in Nat
      BY <2>0, <2>3, LatestOfCosts DEF LatestCost
    <3>. QED
      BY <2>3, <3>1
  <2>. QED
    <3>. HIDE DEF Moved, Cut
    <3>. QED
      BY <1>1, <2>1, <2>2, <2>3 DEF Next, vars, Ingest, Observe, Remember, Track, SaveSnapshot, SaveSnapshotAt,
         ObservePoint, Export, Write, ExportEvidence, WriteEvidence, Send, ReadSnapshot,
         SavePlan, Stop, FinalCheckpoint
<1>. QED
  BY <1>1, InitInv, NextInv, PTL DEF Spec, ComparisonHolds

====
