---- MODULE PlannerProofs ----
(* Proofs about Planner, for every snapshot: any nodes, pods, budgets, zones and recommendations. *)
EXTENDS Planner, FiniteSetTheorems, SequenceTheorems, NaturalsInduction, WellFoundedInduction, TLAPS

(* ---- The inductive invariant ---- *)

\* Where the simulation has p by now.
Sim(p) == IF p \in DOMAIN assign THEN assign[p] ELSE place[p]

\* What was moved sits on a node the plan counts on; what was not is at home, or was a daemon of a
\* node that is gone.
PlaceInv ==
    /\ targeted \subseteq nodes
    /\ \A p \in Pods : place[p] \in nodes \cup {Nowhere}
    /\ \A p \in Evicted : place[p] \in targeted
    /\ \A p \in Pods \ Evicted : place[p] = home[p] \/ (IsDaemon(p) /\ place[p] = Nowhere)
    /\ \A i \in DOMAIN plan : plan[i].node \notin nodes

\* A candidate is a node nothing was moved to; between candidates nothing is reserved or placed.
TryInv ==
    /\ pc \in {"reserve", "rollback", "place"} => victim \in nodes \ targeted
    /\ pc \in {"rightsize", "pick", "done"} => reserved = {} /\ DOMAIN assign = {}
    /\ pc = "reserve" => DOMAIN assign = {}
    /\ pc = "place" => reserved = Evictable
    /\ reserved \subseteq Evictable /\ DOMAIN assign \subseteq Evictable
    /\ \A p \in DOMAIN assign : assign[p] \in Survivors

\* The simulation keeps apart what it places.
ApartInv ==
    \A p \in DOMAIN assign, q \in Pods :
        p # q /\ WorkloadOf[p] = WorkloadOf[q] /\ WorkloadOf[p] \in Apart /\ Sim(q) \in Survivors
        => Zone[assign[p]] # Zone[Sim(q)]

\* In the simulation, too, what a removal counts on has room for all that is put there.
CapacityInv ==
    /\ pc = "rightsize" => targeted = {}
    /\ \A n \in targeted \cup {assign[p] : p \in DOMAIN assign} :
        /\ n \in lively
        /\ \A d \in Dims : Requested(SimOn(n), d) <= Alloc[n][d]
        /\ Cardinality(SimOn(n)) <= MaxPodsPerNode

IInv == /\ TypeOK /\ PlaceInv /\ TryInv /\ DrainsAreComplete /\ LedgerBalanced /\ ApartInv /\ ApartStayApart
        /\ TargetsHold /\ CapacityInv

(* ---- Sums over sets of pods ---- *)

\* MapThenSumSet adds up one element at a time, whichever CHOOSE takes: a function on the subsets.
Choice(s) == CHOOSE x \in s : TRUE
Adds(F, r, D) ==
    \A s \in D : F[s] = IF s = {} THEN 0 ELSE r[Choice(s)] + F[s \ {Choice(s)}]

\* A set of numbers has a least one.
LEMMA LeastNumber ==
    ASSUME NEW T \in SUBSET Nat, T # {}
    PROVE  \E n \in T : \A k \in T : n <= k
<1>. DEFINE R == OpToRel(<, Nat)
<1>1. IsWellFoundedOn(R, Nat)
  BY NatLessThanWellFounded
<1>2. \A x, y \in Nat : x < y => <<x, y>> \in R
  BY DEF OpToRel
<1>. HIDE DEF R
<1>3. PICK n \in T : \A k \in T : ~(<<k, n>> \in R)
  BY <1>1, WFMin
<1>4. ASSUME NEW k \in T PROVE n <= k
  <2>1. ~(k < n) /\ k \in Nat /\ n \in Nat
    BY <1>2, <1>3
  <2>. QED
    BY <2>1
<1>. QED
  BY <1>4

\* A family of parts of a finite set has a smallest one.
LEMMA SmallestSet ==
    ASSUME NEW U, IsFiniteSet(U), NEW B \in SUBSET (SUBSET U), B # {}
    PROVE  \E S \in B : \A T \in B : ~(T \subseteq S /\ T # S)
<1>. DEFINE sizes == {Cardinality(S) : S \in B}
<1>1. \A S \in SUBSET U : IsFiniteSet(S) /\ Cardinality(S) \in Nat
  BY FS_Subset, FS_CardinalityType
<1>2. PICK n \in sizes : \A k \in sizes : n <= k
  <2>1. sizes \in SUBSET Nat /\ sizes # {}
    BY <1>1
  <2>. HIDE DEF sizes
  <2>. QED
    BY <2>1, LeastNumber
<1>3. PICK S \in B : n = Cardinality(S)
  BY <1>2
<1>4. ASSUME NEW T \in B, T \subseteq S, T # S PROVE FALSE
  <2>0. S \in SUBSET U /\ T \in SUBSET U
    OBVIOUS
  <2>1. Cardinality(T) <= Cardinality(S) /\ Cardinality(T) # Cardinality(S)
    BY <1>1, <1>4, <2>0, FS_Subset
  <2>2. Cardinality(S) <= Cardinality(T)
    BY <1>2, <1>3
  <2>3. Cardinality(T) \in Nat /\ Cardinality(S) \in Nat
    BY <1>1, <2>0
  <2>. QED
    BY <2>1, <2>2, <2>3
<1>. QED
  BY <1>3, <1>4

\* A set that is not empty has the element that is taken first.
LEMMA ChoiceIsIn ==
    ASSUME NEW s, s # {}
    PROVE  Choice(s) \in s
BY DEF Choice

\* What adds up every part exists: it is extended from the sets of n to those of n + 1.
LEMMA AdderExists ==
    ASSUME NEW U, IsFiniteSet(U), NEW r \in [U -> Nat]
    PROVE  \E F \in [SUBSET U -> Nat] : Adds(F, r, SUBSET U)
<1>. DEFINE Small(n) == {s \in SUBSET U : Cardinality(s) <= n}
            P(n) == \E F \in [Small(n) -> Nat] : Adds(F, r, Small(n))
            bad == {n \in Nat : ~P(n)}
<1>1. \A s \in SUBSET U : IsFiniteSet(s) /\ Cardinality(s) \in Nat
  BY FS_Subset, FS_CardinalityType
<1>2. P(0)
  <2>1. \A s \in Small(0) : s = {}
    BY <1>1, FS_EmptySet
  <2>2. [s \in Small(0) |-> 0] \in [Small(0) -> Nat] /\ Adds([s \in Small(0) |-> 0], r, Small(0))
    BY <2>1 DEF Adds
  <2>. QED
    BY <2>2
<1>3. ASSUME NEW n \in Nat, P(n) PROVE P(n + 1)
  <2>1. PICK F \in [Small(n) -> Nat] : Adds(F, r, Small(n))
    BY <1>3
  <2>2. ASSUME NEW s \in Small(n + 1), s # {}
        PROVE  Choice(s) \in U /\ s \ {Choice(s)} \in Small(n)
    <3>1. Choice(s) \in s
      BY <2>2, ChoiceIsIn
    <3>2. Cardinality(s \ {Choice(s)}) = Cardinality(s) - 1
      BY <1>1, <3>1, FS_RemoveElement
    <3>. QED
      BY <1>1, <3>1, <3>2
  <2>3. Small(n) \subseteq Small(n + 1)
    BY <1>1
  <2>. DEFINE G == [s \in Small(n + 1) |-> IF s \in Small(n) THEN F[s] ELSE r[Choice(s)] + F[s \ {Choice(s)}]]
  <2>4. {} \in Small(n)
    BY FS_EmptySet
  <2>. HIDE DEF Small
  <2>5. ASSUME NEW s \in Small(n + 1)
        PROVE  /\ G[s] \in Nat
               /\ G[s] = IF s = {} THEN 0 ELSE r[Choice(s)] + G[s \ {Choice(s)}]
    <3>1. CASE s = {}
      BY <2>1, <2>4, <3>1 DEF Adds
    <3>2. CASE s # {}
      <4>1. Choice(s) \in U /\ s \ {Choice(s)} \in Small(n)
        BY <2>2, <3>2
      <4>2. G[s \ {Choice(s)}] = F[s \ {Choice(s)}]
        BY <2>3, <4>1
      <4>3. G[s] = r[Choice(s)] + F[s \ {Choice(s)}]
        BY <2>1, <3>2 DEF Adds
      <4>4. r[Choice(s)] \in Nat /\ F[s \ {Choice(s)}] \in Nat
        BY <2>1, <4>1
      <4>. QED
        BY <3>2, <4>2, <4>3, <4>4
    <3>. QED
      BY <3>1, <3>2
  <2>6. G \in [Small(n + 1) -> Nat] /\ Adds(G, r, Small(n + 1))
    <3>1. G \in [Small(n + 1) -> Nat]
      BY <2>5
    <3>2. Adds(G, r, Small(n + 1))
      BY <2>5 DEF Adds
    <3>. QED
      BY <3>1, <3>2
  <2>. QED
    BY <2>6
<1>4. bad = {}
  <2>1. ASSUME bad # {} PROVE FALSE
    <3>1. PICK n \in bad : \A k \in bad : n <= k
      <4>1. bad \in SUBSET Nat
        OBVIOUS
      <4>. HIDE DEF bad
      <4>. QED
        BY <2>1, <4>1, LeastNumber
    <3>. HIDE DEF P
    <3>2. n # 0 /\ n \in Nat
      BY <1>2
    <3>3. n - 1 \in Nat /\ n - 1 \notin bad /\ (n - 1) + 1 = n
      <4>. HIDE DEF bad
      <4>. QED
        BY <3>1, <3>2
    <3>4. P(n - 1)
      BY <3>3
    <3>5. P(n)
      BY <1>3, <3>3, <3>4
    <3>. QED
      BY <3>5
  <2>. QED
    BY <2>1
<1>5. Small(Cardinality(U)) = SUBSET U
  BY <1>1, FS_Subset
<1>6. P(Cardinality(U))
  <2>1. Cardinality(U) \in Nat
    BY <1>1
  <2>. HIDE DEF P
  <2>. QED
    BY <1>4, <2>1
<1>. HIDE DEF Small
<1>. QED
  BY <1>5, <1>6

\* Two functions that add up agree on the parts that both know.
LEMMA AddersAgree ==
    ASSUME NEW U, IsFiniteSet(U), NEW V, NEW r, NEW F, NEW G,
           Adds(F, r, SUBSET U), Adds(G, r, SUBSET V),
           NEW S \in SUBSET (U \cap V)
    PROVE  F[S] = G[S]
<1>. DEFINE bad == {T \in SUBSET (U \cap V) : F[T] # G[T]}
<1>1. SUFFICES ASSUME bad # {} PROVE FALSE
  OBVIOUS
<1>2. PICK T \in bad : \A W \in bad : ~(W \subseteq T /\ W # T)
  <2>1. bad \in SUBSET (SUBSET U)
    OBVIOUS
  <2>. HIDE DEF bad
  <2>. QED
    BY <1>1, <2>1, SmallestSet
<1>3. T # {}
  BY DEF Adds
<1>4. Choice(T) \in T
  BY <1>3, ChoiceIsIn
<1>5. F[T \ {Choice(T)}] = G[T \ {Choice(T)}]
  <2>1. T \ {Choice(T)} \subseteq T /\ T \ {Choice(T)} # T /\ T \ {Choice(T)} \in SUBSET (U \cap V)
    BY <1>4
  <2>. QED
    BY <1>2, <2>1
<1>6. F[T] = r[Choice(T)] + F[T \ {Choice(T)}] /\ G[T] = r[Choice(T)] + G[T \ {Choice(T)}]
  BY <1>3 DEF Adds
<1>. QED
  BY <1>5, <1>6

\* What adds up a finite set: any element may be taken out, and every sum over a part is its value.
IsSum(F, r, U) ==
    /\ F \in [SUBSET U -> Nat] /\ Adds(F, r, SUBSET U)
    /\ \A W \in SUBSET U : \A x \in W : F[W] = r[x] + F[W \ {x}]
    /\ \A W \in SUBSET U : \A H : Adds(H, r, SUBSET W) => F[W] = H[W]

\* Every finite set of numbered things can be summed up.
LEMMA SumExists ==
    ASSUME NEW U, IsFiniteSet(U), NEW r \in [U -> Nat]
    PROVE  \E F : IsSum(F, r, U)
<1>1. PICK F \in [SUBSET U -> Nat] : Adds(F, r, SUBSET U)
  BY AdderExists
<1>2. \A W \in SUBSET U : \A x \in W : F[W] = r[x] + F[W \ {x}]
  <2>. DEFINE Off(T) == {y \in T : F[T] # r[y] + F[T \ {y}]}
              bad == {T \in SUBSET U : Off(T) # {}}
  <2>1. SUFFICES ASSUME bad # {} PROVE FALSE
    OBVIOUS
  <2>2. PICK T \in bad : \A W \in bad : ~(W \subseteq T /\ W # T)
    <3>1. bad \in SUBSET (SUBSET U)
      OBVIOUS
    <3>. HIDE DEF bad
    <3>. QED
      BY <2>1, <3>1, SmallestSet
  <2>3. PICK y \in T : F[T] # r[y] + F[T \ {y}]
    OBVIOUS
  <2>. DEFINE c == Choice(T)
  <2>4. c \in T /\ F[T] = r[c] + F[T \ {c}]
    BY <1>1, <2>3, ChoiceIsIn DEF Adds
  <2>. HIDE DEF c
  <2>5. y # c
    BY <2>3, <2>4
  <2>6. F[T \ {c}] = r[y] + F[(T \ {c}) \ {y}]
    <3>1. T \ {c} \subseteq T /\ T \ {c} # T /\ T \ {c} \in SUBSET U /\ y \in T \ {c}
      BY <2>4, <2>5
    <3>2. T \ {c} \notin bad
      BY <2>2, <3>1
    <3>. QED
      BY <3>1, <3>2
  <2>7. F[T \ {y}] = r[c] + F[(T \ {y}) \ {c}]
    <3>1. T \ {y} \subseteq T /\ T \ {y} # T /\ T \ {y} \in SUBSET U /\ c \in T \ {y}
      BY <2>4, <2>5
    <3>2. T \ {y} \notin bad
      BY <2>2, <3>1
    <3>. QED
      BY <3>1, <3>2
  <2>8. (T \ {y}) \ {c} = (T \ {c}) \ {y}
    OBVIOUS
  <2>. DEFINE rest == F[(T \ {c}) \ {y}]
  <2>9. r[c] \in Nat /\ r[y] \in Nat /\ rest \in Nat
    <3>1. (T \ {c}) \ {y} \in SUBSET U /\ c \in U /\ y \in U
      BY <2>4
    <3>. QED
      BY <3>1
  <2>10. F[T] = r[c] + (r[y] + rest) /\ r[y] + F[T \ {y}] = r[y] + (r[c] + rest)
    BY <2>4, <2>6, <2>7, <2>8
  <2>. HIDE DEF rest, bad
  <2>. QED
    BY <2>3, <2>9, <2>10
<1>3. ASSUME NEW W \in SUBSET U, NEW H, Adds(H, r, SUBSET W) PROVE F[W] = H[W]
  <2>1. W \in SUBSET (U \cap W)
    OBVIOUS
  <2>. QED
    BY <1>1, <1>3, <2>1, AddersAgree
<1>. QED
  BY <1>1, <1>2, <1>3 DEF IsSum

\* What pods request together is a number, and one pod more adds what it requests.
LEMMA RequestsAddUp ==
    ASSUME IsFiniteSet(Pods), req \in [Pods -> [Dims -> Nat]], NEW d \in Dims, NEW S \in SUBSET Pods
    PROVE  /\ Requested(S, d) \in Nat
           /\ \A x \in Pods \ S : Requested(S \cup {x}, d) = Requested(S, d) + req[x][d]
<1>. DEFINE r == [p \in Pods |-> req[p][d]]
<1>1. r \in [Pods -> Nat]
  OBVIOUS
<1>2. PICK F : IsSum(F, r, Pods)
  <2>. HIDE DEF r
  <2>. QED
    BY <1>1, SumExists
<1>3. ASSUME NEW T \in SUBSET Pods PROVE Requested(T, d) = F[T]
  <2>. DEFINE Fits(G) == G = [s \in SUBSET T |-> IF s = {} THEN 0 ELSE req[Choice(s)][d] + G[s \ {Choice(s)}]]
              H == CHOOSE G : Fits(G)
              K == [s \in SUBSET T |-> F[s]]
  <2>1. Requested(T, d) = H[T]
    BY DEF Requested, MapThenSumSet, MapThenFoldSet, Choice
  <2>2. \A s \in SUBSET T : s # {} => Choice(s) \in Pods /\ r[Choice(s)] = req[Choice(s)][d]
    BY ChoiceIsIn
  <2>3. Fits(K)
    <3>1. \A s \in SUBSET T : K[s] = F[s] /\ K[s \ {Choice(s)}] = F[s \ {Choice(s)}]
      OBVIOUS
    <3>2. \A s \in SUBSET T : F[s] = IF s = {} THEN 0 ELSE req[Choice(s)][d] + F[s \ {Choice(s)}]
      BY <1>2, <2>2 DEF IsSum, Adds
    <3>3. \A s \in SUBSET T : K[s] = IF s = {} THEN 0 ELSE req[Choice(s)][d] + K[s \ {Choice(s)}]
      BY <3>1, <3>2
    <3>4. K = [s \in SUBSET T |-> K[s]]
      OBVIOUS
    <3>. HIDE DEF K
    <3>. QED
      BY <3>3, <3>4
  <2>4. Fits(H)
    <3>. HIDE DEF K, Fits
    <3>. QED
      BY <2>3
  <2>5. Adds(H, r, SUBSET T)
    <3>. HIDE DEF H
    <3>. QED
      BY <2>2, <2>4 DEF Adds
  <2>6. H[T] = F[T]
    <3>. HIDE DEF H, r
    <3>. QED
      BY <1>2, <2>5 DEF IsSum
  <2>. QED
    BY <2>1, <2>6
<1>4. ASSUME NEW x \in Pods \ S PROVE Requested(S \cup {x}, d) = Requested(S, d) + req[x][d]
  <2>1. S \cup {x} \in SUBSET Pods /\ x \in S \cup {x} /\ (S \cup {x}) \ {x} = S
    OBVIOUS
  <2>2. F[S \cup {x}] = r[x] + F[(S \cup {x}) \ {x}]
    <3>. HIDE DEF r
    <3>. QED
      BY <1>2, <2>1 DEF IsSum
  <2>3. r[x] = req[x][d] /\ r[x] \in Nat /\ F[S] \in Nat
    BY <1>1, <1>2 DEF IsSum
  <2>4. Requested(S \cup {x}, d) = F[S \cup {x}] /\ Requested(S, d) = F[S]
    BY <1>3, <2>1
  <2>5. F[(S \cup {x}) \ {x}] = F[S]
    BY <2>1
  <2>. HIDE DEF r
  <2>. QED
    BY <2>2, <2>3, <2>4, <2>5
<1>5. Requested(S, d) \in Nat
  BY <1>2, <1>3 DEF IsSum
<1>. QED
  BY <1>4, <1>5

(* ---- Capacity ---- *)

\* Who requests the same and is in the same place adds up to the same.
LEMMA SameRequests ==
    ASSUME UNCHANGED req, NEW n, NEW d
    PROVE  /\ SimOn(n)' = SimOn(n) => Requested(SimOn(n), d)' = Requested(SimOn(n), d)
           /\ SimOn(n)' = PlacedOn(n) => Requested(SimOn(n), d)' = Requested(PlacedOn(n), d)
           /\ PlacedOn(n)' = SimOn(n) => Requested(PlacedOn(n), d)' = Requested(SimOn(n), d)
           /\ PlacedOn(n)' = PlacedOn(n) => Requested(PlacedOn(n), d)' = Requested(PlacedOn(n), d)
<1>1. ASSUME SimOn(n)' = SimOn(n) PROVE Requested(SimOn(n), d)' = Requested(SimOn(n), d)
  BY <1>1 DEF Requested, MapThenSumSet, MapThenFoldSet
<1>2. ASSUME SimOn(n)' = PlacedOn(n) PROVE Requested(SimOn(n), d)' = Requested(PlacedOn(n), d)
  BY <1>2 DEF Requested, MapThenSumSet, MapThenFoldSet
<1>3. ASSUME PlacedOn(n)' = SimOn(n) PROVE Requested(PlacedOn(n), d)' = Requested(SimOn(n), d)
  BY <1>3 DEF Requested, MapThenSumSet, MapThenFoldSet
<1>4. ASSUME PlacedOn(n)' = PlacedOn(n) PROVE Requested(PlacedOn(n), d)' = Requested(PlacedOn(n), d)
  BY <1>4 DEF Requested, MapThenSumSet, MapThenFoldSet
<1>. QED
  BY <1>1, <1>2, <1>3, <1>4

\* A pod is placed where there is room for it, and nowhere else anything changes.
LEMMA PlacingFits ==
    ASSUME SnapshotAssumption, TypeOK, PlaceInv, TryInv, CapacityInv,
           NEW p \in Pods, NEW n \in Nodes, PlacePod(p, n)
    PROVE  CapacityInv'
<1>1. /\ UNCHANGED <<req, place, targeted, lively>> /\ pc = "place" /\ pc' = "place"
      /\ p \in Evictable /\ p \notin DOMAIN assign /\ FitsOn(p, n)
      /\ assign' = [q \in DOMAIN assign \cup {p} |-> IF q = p THEN n ELSE assign[q]]
  BY DEF PlacePod, Unplaced, snapVars, planVars
<1>2. /\ place[p] = victim /\ victim \notin targeted /\ n # victim /\ n \in lively
      /\ \A q \in DOMAIN assign : assign[q] # victim
  BY <1>1 DEF Evictable, PlacedOn, TryInv, FitsOn, Survivors
<1>3. ASSUME NEW m, m \in targeted \cup {assign[q] : q \in DOMAIN assign}, m # n
      PROVE  SimOn(m)' = SimOn(m)
  BY <1>1, <1>2, <1>3 DEF SimOn
<1>4. SimOn(n)' = SimOn(n) \cup {p} /\ p \notin SimOn(n) /\ SimOn(n) \in SUBSET Pods
  BY <1>1, <1>2 DEF SimOn
<1>5. ASSUME NEW d \in Dims PROVE Requested(SimOn(n), d)' <= Alloc[n][d]
  <2>1. Requested(SimOn(n), d)' = Requested(SimOn(n) \cup {p}, d)
    BY <1>1, <1>4 DEF Requested, MapThenSumSet, MapThenFoldSet
  <2>2. /\ Requested(SimOn(n), d) \in Nat
        /\ Requested(SimOn(n) \cup {p}, d) = Requested(SimOn(n), d) + req[p][d]
    <3>1. IsFiniteSet(Pods) /\ req \in [Pods -> [Dims -> Nat]]
      BY DEF SnapshotAssumption, TypeOK
    <3>. QED
      BY <1>4, <3>1, RequestsAddUp
  <2>3. req[p][d] <= Alloc[n][d] - Requested(SimOn(n), d)
    BY <1>1 DEF FitsOn, Free
  <2>4. req[p][d] \in Nat /\ Alloc[n][d] \in Nat
    BY DEF SnapshotAssumption, TypeOK
  <2>. QED
    BY <2>1, <2>2, <2>3, <2>4
<1>6. Cardinality(SimOn(n)') <= MaxPodsPerNode
  <2>1. IsFiniteSet(SimOn(n)) /\ Cardinality(SimOn(n)) \in Nat
    BY <1>4, FS_Subset, FS_CardinalityType DEF SnapshotAssumption
  <2>2. Cardinality(SimOn(n)') = Cardinality(SimOn(n)) + 1
    BY <1>4, <2>1, FS_AddElement
  <2>3. Cardinality(SimOn(n)) < MaxPodsPerNode /\ MaxPodsPerNode \in Nat
    BY <1>1 DEF FitsOn, SnapshotAssumption
  <2>. QED
    BY <2>1, <2>2, <2>3
<1>7. SUFFICES ASSUME NEW m, m \in (targeted \cup {assign[q] : q \in DOMAIN assign})'
               PROVE  /\ m \in lively
                      /\ \A d \in Dims : Requested(SimOn(m), d)' <= Alloc[m][d]
                      /\ Cardinality(SimOn(m)') <= MaxPodsPerNode
  BY <1>1 DEF CapacityInv
<1>8. CASE m = n
  BY <1>2, <1>5, <1>6, <1>8
<1>9. CASE m # n
  <2>1. m \in targeted \cup {assign[q] : q \in DOMAIN assign}
    BY <1>1, <1>7, <1>9
  <2>2. SimOn(m)' = SimOn(m)
    BY <1>3, <1>9, <2>1
  <2>3. \A d \in Dims : Requested(SimOn(m), d)' = Requested(SimOn(m), d)
    BY <1>1, <2>2, SameRequests
  <2>. QED
    BY <2>1, <2>2, <2>3 DEF CapacityInv
<1>. QED
  BY <1>8, <1>9

\* What a removal counts on keeps its room: in the simulation, when it is dropped, and in the plan.
LEMMA CapacityKept ==
    ASSUME SnapshotAssumption, TypeOK, PlaceInv, TryInv, PlaceInv', TargetsHold, CapacityInv, [Next]_vars
    PROVE  TargetsHold' /\ CapacityInv'
<1>. USE DEF snapVars, planVars, NoAssignment
<1>0. Nowhere \notin Nodes
  BY DEF SnapshotAssumption
<1>1. ASSUME UNCHANGED <<req, place, targeted, lively, nodes>> PROVE TargetsHold'
  <2>1. \A n : PlacedOn(n)' = PlacedOn(n)
    BY <1>1 DEF PlacedOn
  <2>2. \A n, d : Requested(PlacedOn(n), d)' = Requested(PlacedOn(n), d)
    BY <1>1, <2>1, SameRequests
  <2>. QED
    BY <1>1, <2>1, <2>2 DEF TargetsHold
<1>2. ASSUME UNCHANGED <<req, place, targeted, lively, assign>>, pc' # "rightsize" \/ pc' = pc
      PROVE  CapacityInv'
  <2>1. \A n : SimOn(n)' = SimOn(n)
    BY <1>2 DEF SimOn
  <2>2. \A n, d : Requested(SimOn(n), d)' = Requested(SimOn(n), d)
    BY <1>2, <2>1, SameRequests
  <2>. QED
    BY <1>2, <2>1, <2>2 DEF CapacityInv
<1>3. ASSUME UNCHANGED <<req, place, targeted, lively>>, DOMAIN assign' = {}, pc' # "rightsize"
      PROVE  CapacityInv'
  <2>1. \A n : SimOn(n)' = PlacedOn(n)
    BY <1>3 DEF SimOn, PlacedOn
  <2>2. \A n, d : Requested(SimOn(n), d)' = Requested(PlacedOn(n), d)
    BY <1>3, <2>1, SameRequests
  <2>. QED
    BY <1>3, <2>1, <2>2 DEF CapacityInv, TargetsHold
<1>4. CASE Rightsize
  <2>1. targeted' = {} /\ DOMAIN assign' = {}
    BY <1>4 DEF Rightsize, CapacityInv, TryInv
  <2>. QED
    BY <2>1 DEF CapacityInv, TargetsHold
<1>5. CASE Pick \/ NextCandidate
  <2>1. /\ UNCHANGED <<req, place, targeted, lively, nodes>>
        /\ DOMAIN assign' = {} /\ pc' # "rightsize"
    BY <1>5 DEF Pick, NextCandidate
  <2>. QED
    BY <1>1, <1>3, <2>1
<1>6. CASE Stop \/ AllReserved \/ NoHeadroom \/ UNCHANGED vars
  <2>1. /\ UNCHANGED <<req, place, targeted, lively, nodes, assign>>
        /\ pc' # "rightsize" \/ pc' = pc
    BY <1>6 DEF Stop, AllReserved, NoHeadroom, vars
  <2>. QED
    BY <1>1, <1>2, <2>1
<1>7. ASSUME NEW p \in Pods, Reserve(p) \/ Refused(p) \/ Release(p) \/ CannotPlace(p)
      PROVE  TargetsHold' /\ CapacityInv'
  <2>1. /\ UNCHANGED <<req, place, targeted, lively, nodes, assign>>
        /\ pc' # "rightsize" \/ pc' = pc
    BY <1>7 DEF Reserve, Refused, Release, CannotPlace
  <2>. QED
    BY <1>1, <1>2, <2>1
<1>8. ASSUME NEW p \in Pods, NEW n \in Nodes, PlacePod(p, n)
      PROVE  TargetsHold' /\ CapacityInv'
  <2>1. UNCHANGED <<req, place, targeted, lively, nodes>>
    BY <1>8 DEF PlacePod
  <2>. QED
    BY <1>1, <1>8, <2>1, PlacingFits
<1>9. CASE Commit
  <2>1. /\ UNCHANGED <<req, lively>> /\ DOMAIN assign' = {} /\ pc' # "rightsize"
        /\ targeted' = targeted \cup {assign[p] : p \in DOMAIN assign}
        /\ place' = [p \in Pods |-> IF p \in DOMAIN assign THEN assign[p]
                                    ELSE IF place[p] = victim THEN Nowhere ELSE place[p]]
    BY <1>9 DEF Commit
  <2>2. targeted' \subseteq Nodes /\ victim \notin targeted'
    BY <1>9, <2>1 DEF Commit, TryInv, TypeOK, Survivors
  <2>3. ASSUME NEW n \in targeted' PROVE PlacedOn(n)' = SimOn(n) /\ SimOn(n)' = PlacedOn(n)'
    BY <1>0, <2>1, <2>2 DEF PlacedOn, SimOn
  <2>4. \A n \in targeted' :
          /\ n \in lively
          /\ \A d \in Dims : Requested(SimOn(n), d) <= Alloc[n][d]
          /\ Cardinality(SimOn(n)) <= MaxPodsPerNode
    BY <2>1 DEF CapacityInv
  <2>5. ASSUME NEW n \in targeted', NEW d \in Dims
        PROVE  /\ Requested(PlacedOn(n), d)' = Requested(SimOn(n), d)
               /\ Requested(SimOn(n), d)' = Requested(SimOn(n), d)
    BY <2>1, <2>3, SameRequests
  <2>6. TargetsHold'
    BY <2>1, <2>3, <2>4, <2>5 DEF TargetsHold, PlaceInv
  <2>7. CapacityInv'
    BY <2>1, <2>3, <2>4, <2>5 DEF CapacityInv
  <2>. QED
    BY <2>6, <2>7
<1>. QED
  BY <1>4, <1>5, <1>6, <1>7, <1>8, <1>9 DEF Next

USE SnapshotAssumption

(* ---- Types ---- *)

\* The ledger of the disruption budgets starts with no negative allowance.
LEMMA LedgerType ==
    ASSUME NEW a \in Allowances
    PROVE  PDBLedger(a) \in [Budgets -> Nat]
<1>1. a \in [Budgets -> Int]
  OBVIOUS
<1>2. \A b \in Budgets : (IF a[b] < 0 THEN 0 ELSE a[b]) \in Nat
  BY <1>1
<1>. QED
  BY <1>1, <1>2 DEF PDBLedger

\* A new search is in order.
LEMMA InitInv == Init => IInv
<1>. SUFFICES ASSUME Init PROVE IInv
  OBVIOUS
<1>. USE DEF Init, NoAssignment
<1>1. DOMAIN plan = {} /\ Evicted = {} /\ plan \in Seq(Removal) /\ DOMAIN assign = {}
  BY DEF Evicted
<1>2. ledger \in [Budgets -> Nat] /\ place \in [Pods -> Nodes \cup {Nowhere}]
  BY LedgerType
<1>3. req \in [Pods -> [Dims -> Nat]]
  OBVIOUS
<1>4. TypeOK
  BY <1>1, <1>2, <1>3 DEF TypeOK
<1>5. PlaceInv
  BY <1>1, <1>2 DEF PlaceInv
<1>6. TryInv
  BY <1>1 DEF TryInv
<1>7. LedgerBalanced
  <2>1. \A b \in Budgets : Covers[b] \cap (Evicted \cup reserved) = {}
    BY <1>1
  <2>2. \A b \in Budgets : ledger[b] + 0 = PDBLedger(allowed)[b]
    BY <1>2
  <2>. QED
    BY <2>1, <2>2, FS_EmptySet DEF LedgerBalanced
<1>. QED
  BY <1>1, <1>4, <1>5, <1>6, <1>7 DEF IInv, DrainsAreComplete, ApartInv, ApartStayApart, TargetsHold, CapacityInv

\* Every step of the search keeps the types.
LEMMA TypesKept == TypeOK /\ TryInv /\ [Next]_vars => TypeOK'
<1>. SUFFICES ASSUME TypeOK, TryInv, [Next]_vars PROVE TypeOK'
  OBVIOUS
<1>. USE DEF snapVars, planVars, NoAssignment
<1>1. CASE Rightsize
  <2>1. req' \in [Pods -> [Dims -> Nat]] /\ resizes' \subseteq DOMAIN Target
    BY <1>1 DEF Rightsize, TypeOK
  <2>. QED
    BY <1>1, <2>1 DEF Rightsize, TypeOK
<1>2. CASE Pick
  BY <1>2 DEF Pick, Candidates, TypeOK
<1>3. CASE Stop \/ AllReserved \/ NoHeadroom
  BY <1>3 DEF Stop, AllReserved, NoHeadroom, TypeOK
<1>4. CASE NextCandidate
  BY <1>4 DEF NextCandidate, TypeOK, TryInv
<1>5. ASSUME NEW p \in Pods, Reserve(p) PROVE TypeOK'
  <2>1. \A b \in Covering(p) : ledger[b] \in Nat /\ ledger[b] > 0 /\ ledger[b] - 1 \in Nat
    BY <1>5 DEF Reserve, CanReserve, Covering, TypeOK
  <2>2. ledger' \in [Budgets -> Nat]
    BY <1>5, <2>1 DEF Reserve, Reserved, TypeOK
  <2>. QED
    BY <1>5, <2>2 DEF Reserve, TypeOK
<1>6. ASSUME NEW p \in Pods, Refused(p) \/ CannotPlace(p) PROVE TypeOK'
  BY <1>6 DEF Refused, CannotPlace, TypeOK
<1>7. ASSUME NEW p \in Pods, Release(p) PROVE TypeOK'
  <2>1. ledger' \in [Budgets -> Nat]
    BY <1>7 DEF Release, Released, TypeOK
  <2>. QED
    BY <1>7, <2>1 DEF Release, TypeOK
<1>8. ASSUME NEW p \in Pods, NEW n \in Nodes, PlacePod(p, n) PROVE TypeOK'
  <2>1. DOMAIN assign' = DOMAIN assign \cup {p} /\ assign' \in [DOMAIN assign' -> Nodes]
    BY <1>8 DEF PlacePod, TypeOK
  <2>. QED
    BY <1>8, <2>1 DEF PlacePod, TypeOK
<1>9. CASE Commit
  <2>1. [node |-> victim, to |-> assign] \in Removal
    <3>1. victim \in Nodes /\ DOMAIN assign \in SUBSET Pods /\ assign \in [DOMAIN assign -> Nodes]
      BY <1>9 DEF Commit, TryInv, TypeOK
    <3>2. assign \in UNION {[S -> Nodes] : S \in SUBSET Pods}
      BY <3>1
    <3>. QED
      BY <3>1, <3>2 DEF Removal
  <2>2. plan' \in Seq(Removal)
    BY <1>9, <2>1, AppendProperties DEF Commit, TypeOK
  <2>3. place' \in [Pods -> Nodes \cup {Nowhere}] /\ targeted' \subseteq Nodes
    BY <1>9 DEF Commit, TypeOK
  <2>. QED
    BY <1>9, <2>2, <2>3 DEF Commit, Survivors, TypeOK
<1>10. CASE UNCHANGED vars
  BY <1>10 DEF vars, TypeOK
<1>. QED
  BY <1>1, <1>2, <1>3, <1>4, <1>5, <1>6, <1>7, <1>8, <1>9, <1>10 DEF Next

(* ---- Places ---- *)

\* The pods of a candidate were never moved.
LEMMA VictimsPodsAreNew ==
    ASSUME PlaceInv, TryInv, pc \in {"reserve", "rollback", "place"}
    PROVE  Evictable \cap Evicted = {} /\ Evictable \subseteq Pods
BY DEF PlaceInv, TryInv, Evictable, PlacedOn

\* An accepted removal evicts the pods it has placed, after all those before it.
LEMMA CommitEvicts ==
    ASSUME TypeOK, TryInv, Commit
    PROVE  /\ DOMAIN assign = Evictable /\ victim \in nodes \ targeted /\ reserved = Evictable
           /\ Evicted' = Evicted \cup Evictable
           /\ DOMAIN plan' = DOMAIN plan \cup {Len(plan) + 1}
           /\ \A i \in DOMAIN plan : plan'[i] = plan[i]
           /\ plan'[Len(plan) + 1] = [node |-> victim, to |-> assign]
<1>1. DOMAIN assign = Evictable /\ victim \in nodes \ targeted /\ reserved = Evictable
  BY DEF Commit, TryInv, Unplaced
<1>2. plan' = Append(plan, [node |-> victim, to |-> assign]) /\ plan \in Seq(Removal)
  BY DEF Commit, TypeOK
<1>3. /\ DOMAIN plan = 1..Len(plan) /\ Len(plan) \in Nat /\ DOMAIN plan' = 1..(Len(plan) + 1)
      /\ \A i \in 1..Len(plan) : plan'[i] = plan[i]
      /\ plan'[Len(plan) + 1] = [node |-> victim, to |-> assign]
  BY <1>2
<1>4. DOMAIN plan' = DOMAIN plan \cup {Len(plan) + 1}
  BY <1>3
<1>5. Evicted' = Evicted \cup DOMAIN assign
  <2>1. \A p : p \in Evicted <=> \E i \in DOMAIN plan : p \in DOMAIN plan[i].to
    BY DEF Evicted
  <2>2. \A p : p \in Evicted' <=> \E i \in DOMAIN plan' : p \in DOMAIN plan'[i].to
    BY DEF Evicted
  <2>3. plan'[Len(plan) + 1].to = assign
    BY <1>3
  <2>. QED
    BY <1>3, <1>4, <2>1, <2>2, <2>3
<1>. QED
  BY <1>1, <1>3, <1>4, <1>5

\* The parts about places survive every step.
LEMMA PlacesKept == TypeOK /\ PlaceInv /\ TryInv /\ DrainsAreComplete /\ [Next]_vars
                       => PlaceInv' /\ TryInv' /\ DrainsAreComplete'
<1>. SUFFICES ASSUME TypeOK, PlaceInv, TryInv, DrainsAreComplete, [Next]_vars
              PROVE  PlaceInv' /\ TryInv' /\ DrainsAreComplete'
  OBVIOUS
<1>. USE DEF snapVars, planVars, NoAssignment
<1>1. ASSUME UNCHANGED <<home, nodes, place, plan, targeted>>
      PROVE  PlaceInv' /\ DrainsAreComplete'
  BY <1>1 DEF PlaceInv, DrainsAreComplete, Evicted
<1>2. CASE Rightsize
  <2>1. TryInv'
    BY <1>2 DEF Rightsize, TryInv, Evictable, PlacedOn, Survivors
  <2>. QED
    BY <1>1, <1>2, <2>1 DEF Rightsize
<1>3. CASE Pick
  <2>1. TryInv'
    BY <1>3 DEF Pick, Candidates, TryInv
  <2>. QED
    BY <1>1, <1>3, <2>1 DEF Pick
<1>4. CASE Stop \/ AllReserved \/ NoHeadroom
  <2>1. TryInv'
    BY <1>4 DEF Stop, AllReserved, NoHeadroom, TryInv, Evictable, PlacedOn, Survivors
  <2>. QED
    BY <1>1, <1>4, <2>1 DEF Stop, AllReserved, NoHeadroom
<1>5. CASE NextCandidate
  <2>1. TryInv'
    BY <1>5 DEF NextCandidate, TryInv
  <2>. QED
    BY <1>1, <1>5, <2>1 DEF NextCandidate
<1>6. ASSUME NEW p \in Pods, Reserve(p) \/ Refused(p) \/ Release(p) \/ CannotPlace(p)
      PROVE  PlaceInv' /\ TryInv' /\ DrainsAreComplete'
  <2>1. UNCHANGED <<victim, nodes, targeted, place, assign>>
    BY <1>6 DEF Reserve, Refused, Release, CannotPlace
  <2>2. /\ pc \in {"reserve", "rollback", "place"} /\ pc' \in {"reserve", "rollback"}
        /\ pc' = "reserve" => pc = "reserve"
        /\ reserved' \subseteq Evictable
    BY <1>6 DEF Reserve, Refused, Release, CannotPlace, TryInv
  <2>3. TryInv'
    BY <2>1, <2>2 DEF TryInv, Evictable, PlacedOn, Survivors
  <2>. QED
    BY <1>1, <1>6, <2>3 DEF Reserve, Refused, Release, CannotPlace
<1>7. ASSUME NEW p \in Pods, NEW n \in Nodes, PlacePod(p, n)
      PROVE  PlaceInv' /\ TryInv' /\ DrainsAreComplete'
  <2>1. UNCHANGED <<victim, nodes, targeted, place, pc, reserved>> /\ pc = "place"
    BY <1>7 DEF PlacePod
  <2>2. /\ p \in Evictable /\ n \in Survivors
        /\ assign' = [q \in DOMAIN assign \cup {p} |-> IF q = p THEN n ELSE assign[q]]
    BY <1>7 DEF PlacePod, Unplaced, FitsOn
  <2>3. DOMAIN assign' \subseteq Evictable /\ \A q \in DOMAIN assign' : assign'[q] \in Survivors
    BY <2>2 DEF TryInv
  <2>4. TryInv'
    BY <2>1, <2>3 DEF TryInv, Evictable, PlacedOn, Survivors
  <2>. QED
    BY <1>1, <1>7, <2>4 DEF PlacePod
<1>8. CASE Commit
  <2>1. /\ pc' = "pick" /\ reserved' = {} /\ DOMAIN assign' = {}
        /\ nodes' = nodes \ {victim} /\ home' = home /\ victim' = Nowhere
        /\ targeted' = targeted \cup {assign[p] : p \in DOMAIN assign}
        /\ place' = [p \in Pods |-> IF p \in DOMAIN assign THEN assign[p]
                                    ELSE IF place[p] = victim THEN Nowhere ELSE place[p]]
    BY <1>8 DEF Commit, Survivors
  <2>2. /\ DOMAIN assign = Evictable /\ victim \in nodes \ targeted
        /\ Evicted' = Evicted \cup Evictable
        /\ DOMAIN plan' = DOMAIN plan \cup {Len(plan) + 1}
        /\ \A i \in DOMAIN plan : plan'[i] = plan[i]
        /\ plan'[Len(plan) + 1] = [node |-> victim, to |-> assign]
    BY <1>8, CommitEvicts
  <2>3. TryInv'
    BY <2>1 DEF TryInv
  <2>4. \A p \in DOMAIN assign : assign[p] \in nodes \ {victim}
    BY DEF TryInv, Survivors
  <2>5. Evictable \cap Evicted = {} /\ Evictable \subseteq Pods /\ Evicted \subseteq Pods
    <3>1. Evicted \subseteq Pods
      BY DEF DrainsAreComplete, Evicted
    <3>. QED
      BY <1>8, <3>1, VictimsPodsAreNew DEF Commit
  <2>6. PlaceInv'
    <3>1. targeted' \subseteq nodes'
      BY <2>1, <2>2, <2>4 DEF PlaceInv
    <3>2. \A p \in Pods : place'[p] \in nodes' \cup {Nowhere}
      BY <2>1, <2>4 DEF PlaceInv
    <3>3. \A p \in Evicted' : place'[p] \in targeted'
      BY <2>1, <2>2, <2>5 DEF PlaceInv
    <3>4. \A p \in Pods \ Evicted' : place'[p] = home'[p] \/ (IsDaemon(p) /\ place'[p] = Nowhere)
      <4>1. SUFFICES ASSUME NEW p \in Pods, p \notin Evicted, p \notin Evictable
                     PROVE  place'[p] = home[p] \/ (IsDaemon(p) /\ place'[p] = Nowhere)
        BY <2>1, <2>2
      <4>2. CASE place[p] = victim
        BY <2>1, <2>2, <4>1, <4>2 DEF Evictable, PlacedOn
      <4>3. CASE place[p] # victim
        BY <2>1, <2>2, <4>1, <4>3 DEF PlaceInv
      <4>. QED
        BY <4>2, <4>3
    <3>5. \A i \in DOMAIN plan' : plan'[i].node \notin nodes'
      BY <2>1, <2>2 DEF PlaceInv
    <3>. QED
      BY <3>1, <3>2, <3>3, <3>4, <3>5 DEF PlaceInv, IsDaemon
  <2>7. Evictable = {p \in Pods : home[p] = victim /\ ~IsDaemon(p)}
    <3>0. victim # Nowhere
      BY <2>2 DEF TypeOK
    <3>1. ASSUME NEW p \in Pods, place[p] = victim PROVE home[p] = victim
      BY <2>2, <3>0, <3>1 DEF PlaceInv
    <3>2. ASSUME NEW p \in Pods, home[p] = victim, ~IsDaemon(p) PROVE place[p] = victim
      <4>1. CASE p \notin Evicted
        BY <3>2, <4>1 DEF PlaceInv
      <4>2. CASE p \in Evicted
        <5>1. PICK i \in DOMAIN plan : p \in DOMAIN plan[i].to
          BY <4>2 DEF Evicted
        <5>2. home[p] = plan[i].node
          BY <5>1 DEF DrainsAreComplete
        <5>. QED
          BY <2>2, <3>2, <5>1, <5>2 DEF PlaceInv
      <4>. QED
        BY <4>1, <4>2
    <3>. QED
      BY <3>1, <3>2 DEF Evictable, PlacedOn
  <2>8. DrainsAreComplete'
    BY <2>1, <2>2, <2>7 DEF DrainsAreComplete, IsDaemon
  <2>. QED
    BY <2>3, <2>6, <2>8
<1>9. CASE UNCHANGED vars
  BY <1>1, <1>9 DEF vars, TryInv, Evictable, PlacedOn, Survivors
<1>. QED
  BY <1>2, <1>3, <1>4, <1>5, <1>6, <1>7, <1>8, <1>9 DEF Next

(* ---- Budgets ---- *)

\* The pods of a budget that the plan has evicted or the candidate has reserved are finitely many.
LEMMA TakenIsFinite ==
    ASSUME NEW b \in Budgets, NEW S
    PROVE  IsFiniteSet(Covers[b] \cap S) /\ Cardinality(Covers[b] \cap S) \in Nat
<1>1. Covers[b] \subseteq Pods
  OBVIOUS
<1>2. Covers[b] \cap S \subseteq Pods /\ IsFiniteSet(Pods)
  BY <1>1
<1>. QED
  BY <1>2, FS_Subset, FS_CardinalityType

\* A disruption is taken out of every budget that covers the pod and put back into the same, so
\* what is left and what is taken always make up the snapshot's allowance.
LEMMA LedgerKept == TypeOK /\ PlaceInv /\ TryInv /\ LedgerBalanced /\ [Next]_vars => LedgerBalanced'
<1>. SUFFICES ASSUME TypeOK, PlaceInv, TryInv, LedgerBalanced, [Next]_vars PROVE LedgerBalanced'
  OBVIOUS
<1>. USE DEF snapVars, planVars, NoAssignment
<1>. DEFINE Taken(b) == Covers[b] \cap (Evicted \cup reserved)
            all == PDBLedger(allowed)
<1>0. /\ ledger \in [Budgets -> Nat] /\ all \in [Budgets -> Nat]
      /\ \A b \in Budgets : ledger[b] + Cardinality(Taken(b)) = all[b]
  BY LedgerType DEF TypeOK, LedgerBalanced
<1>1. ASSUME UNCHANGED <<ledger, allowed>>, Evicted' \cup reserved' = Evicted \cup reserved
      PROVE  LedgerBalanced'
  BY <1>1 DEF LedgerBalanced
<1>2. ASSUME NEW p \in Pods, Reserve(p) PROVE LedgerBalanced'
  <2>1. /\ UNCHANGED <<plan, allowed>> /\ Evicted' = Evicted /\ p \in Evictable \ reserved
        /\ reserved' = reserved \cup {p} /\ p \notin Evicted /\ CanReserve(ledger, Covering(p))
        /\ ledger' = Reserved(ledger, Covering(p))
    BY <1>2, VictimsPodsAreNew DEF Reserve, Evicted
  <2>2. SUFFICES ASSUME NEW b \in Budgets PROVE ledger'[b] + Cardinality(Taken(b)') = all[b]
    BY <2>1 DEF LedgerBalanced
  <2>3. CASE p \in Covers[b]
    <3>1. Taken(b)' = Taken(b) \cup {p} /\ p \notin Taken(b)
      BY <2>1, <2>3
    <3>2. IsFiniteSet(Taken(b)) /\ Cardinality(Taken(b)) \in Nat
      BY TakenIsFinite
    <3>3. Cardinality(Taken(b)') = Cardinality(Taken(b)) + 1
      <4>. HIDE DEF Taken
      <4>. QED
        BY <3>1, <3>2, FS_AddElement
    <3>4. ledger'[b] = ledger[b] - 1 /\ ledger[b] \in Nat
      BY <1>0, <2>1, <2>3 DEF Reserved, Covering
    <3>. HIDE DEF Taken, all
    <3>. QED
      BY <1>0, <3>2, <3>3, <3>4
  <2>4. CASE p \notin Covers[b]
    <3>1. Taken(b)' = Taken(b) /\ ledger'[b] = ledger[b]
      BY <1>0, <2>1, <2>4 DEF Reserved, Covering
    <3>. HIDE DEF Taken, all
    <3>. QED
      BY <1>0, <3>1
  <2>. QED
    BY <2>3, <2>4
<1>3. ASSUME NEW p \in Pods, Release(p) PROVE LedgerBalanced'
  <2>1. /\ UNCHANGED <<plan, allowed>> /\ Evicted' = Evicted /\ p \in reserved
        /\ reserved' = reserved \ {p} /\ p \notin Evicted
        /\ ledger' = Released(ledger, all, Covering(p))
    BY <1>3, VictimsPodsAreNew DEF Release, Evicted, TryInv
  <2>2. SUFFICES ASSUME NEW b \in Budgets PROVE ledger'[b] + Cardinality(Taken(b)') = all[b]
    BY <2>1 DEF LedgerBalanced
  <2>3. CASE p \in Covers[b]
    <3>1. Taken(b)' = Taken(b) \ {p} /\ p \in Taken(b)
      BY <2>1, <2>3
    <3>2. IsFiniteSet(Taken(b)) /\ Cardinality(Taken(b)) \in Nat /\ Cardinality(Taken(b)') \in Nat
      BY TakenIsFinite, <2>1
    <3>3. Cardinality(Taken(b)') = Cardinality(Taken(b)) - 1
      <4>. HIDE DEF Taken
      <4>. QED
        BY <3>1, <3>2, FS_RemoveElement
    <3>4. ledger[b] < all[b]
      <4>. HIDE DEF Taken, all
      <4>. QED
        BY <1>0, <3>2, <3>3
    <3>5. ledger'[b] = ledger[b] + 1
      <4>. HIDE DEF all
      <4>. QED
        BY <1>0, <2>1, <2>3, <3>4 DEF Released, Covering
    <3>. HIDE DEF Taken, all
    <3>. QED
      BY <1>0, <3>2, <3>3, <3>5
  <2>4. CASE p \notin Covers[b]
    <3>1. Taken(b)' = Taken(b)
      BY <2>1, <2>4
    <3>2. ledger'[b] = ledger[b]
      <4>. HIDE DEF all
      <4>. QED
        BY <1>0, <2>1, <2>4 DEF Released, Covering
    <3>. HIDE DEF Taken, all
    <3>. QED
      BY <1>0, <3>1, <3>2
  <2>. QED
    BY <2>3, <2>4
<1>4. CASE Commit
  <2>1. Evicted' = Evicted \cup Evictable /\ reserved = Evictable /\ reserved' = {}
    BY <1>4, CommitEvicts DEF Commit
  <2>. QED
    BY <1>1, <1>4, <2>1 DEF Commit
<1>5. CASE Pick
  BY <1>1, <1>5 DEF Pick, TryInv, Evicted
<1>6. CASE Rightsize \/ Stop \/ AllReserved \/ NextCandidate \/ NoHeadroom \/ UNCHANGED vars
  BY <1>1, <1>6 DEF Rightsize, Stop, AllReserved, NextCandidate, NoHeadroom, vars, Evicted
<1>7. ASSUME NEW p \in Pods, Refused(p) \/ CannotPlace(p) PROVE LedgerBalanced'
  BY <1>1, <1>7 DEF Refused, CannotPlace, Evicted
<1>8. ASSUME NEW p \in Pods, NEW n \in Nodes, PlacePod(p, n) PROVE LedgerBalanced'
  BY <1>1, <1>8 DEF PlacePod, Evicted
<1>. QED
  BY <1>2, <1>3, <1>4, <1>5, <1>6, <1>7, <1>8 DEF Next

(* ---- Pods that must stay apart ---- *)

\* No pod of w is in the zone: that is what a count of zero says.
LEMMA NobodyThere ==
    ASSUME NEW w, NEW z, Count(w, z) = 0,
           NEW q \in Pods, WorkloadOf[q] = w, Sim(q) \in Survivors
    PROVE  Zone[Sim(q)] # z
<1>. DEFINE S == {p \in Pods : WorkloadOf[p] = w /\ \E n \in Survivors : Zone[n] = z /\ p \in SimOn(n)}
<1>1. IsFiniteSet(S)
  BY FS_Subset
<1>2. S = {}
  <2>1. Cardinality(S) = 0
    BY DEF Count
  <2>. HIDE DEF S
  <2>. QED
    BY <1>1, <2>1, FS_EmptySet
<1>3. q \in SimOn(Sim(q))
  BY DEF Sim, SimOn
<1>. QED
  BY <1>2, <1>3

\* A pod that the simulation places meets nobody it must stay apart from, and no later placement
\* or removal brings one: what a removal strands is gone from the simulation.
LEMMA ApartKept == TypeOK /\ PlaceInv /\ TryInv /\ ApartInv /\ ApartStayApart /\ [Next]_vars
                      => ApartInv' /\ ApartStayApart'
<1>. SUFFICES ASSUME TypeOK, PlaceInv, TryInv, ApartInv, ApartStayApart, [Next]_vars
              PROVE  ApartInv' /\ ApartStayApart'
  OBVIOUS
<1>. USE DEF snapVars, planVars, NoAssignment
<1>1. ASSUME UNCHANGED <<place, plan>> PROVE ApartStayApart'
  BY <1>1 DEF ApartStayApart, Evicted
<1>2. ASSUME UNCHANGED <<place, assign, nodes, victim>> PROVE ApartInv'
  BY <1>2 DEF ApartInv, Sim, Survivors
<1>3. ASSUME DOMAIN assign' = {} PROVE ApartInv'
  BY <1>3 DEF ApartInv
<1>4. CASE Pick \/ NextCandidate
  BY <1>1, <1>3, <1>4 DEF Pick, NextCandidate
<1>5. CASE Rightsize \/ Stop \/ AllReserved \/ NoHeadroom \/ UNCHANGED vars
  BY <1>1, <1>2, <1>5 DEF Rightsize, Stop, AllReserved, NoHeadroom, vars
<1>6. ASSUME NEW p \in Pods, Reserve(p) \/ Refused(p) \/ Release(p) \/ CannotPlace(p)
      PROVE  ApartInv' /\ ApartStayApart'
  BY <1>1, <1>2, <1>6 DEF Reserve, Refused, Release, CannotPlace
<1>7. ASSUME NEW p \in Pods, NEW n \in Nodes, PlacePod(p, n)
      PROVE  ApartInv' /\ ApartStayApart'
  <2>1. /\ UNCHANGED <<place, plan, nodes, victim>> /\ p \notin DOMAIN assign
        /\ TopologyAllows(p, n) /\ n \in Survivors
        /\ assign' = [q \in DOMAIN assign \cup {p} |-> IF q = p THEN n ELSE assign[q]]
    BY <1>7 DEF PlacePod, Unplaced, FitsOn
  <2>2. /\ Sim(p)' = n /\ assign'[p] = n /\ Survivors' = Survivors
        /\ \A q \in Pods \ {p} : Sim(q)' = Sim(q)
        /\ \A q \in DOMAIN assign : assign'[q] = assign[q] /\ Sim(q) = assign[q]
                                      /\ assign[q] \in Survivors /\ q \in Pods /\ q # p
    BY <2>1 DEF Sim, Survivors, TypeOK, TryInv
  <2>3. SUFFICES ASSUME NEW q \in DOMAIN assign', NEW r \in Pods, q # r, WorkloadOf[q] = WorkloadOf[r],
                        WorkloadOf[q] \in Apart, Sim(r)' \in Survivors
                 PROVE  Zone[assign'[q]] # Zone[Sim(r)']
    <3>1. ApartInv'
      BY <2>2, <2>3 DEF ApartInv
    <3>. QED
      BY <1>1, <2>1, <3>1
  <2>4. CASE q = p
    <3>1. Count(WorkloadOf[r], Zone[n]) = 0
      BY <2>1, <2>3, <2>4 DEF TopologyAllows
    <3>2. Sim(r)' = Sim(r)
      BY <2>2, <2>3, <2>4
    <3>3. Zone[Sim(r)] # Zone[n]
      BY <2>3, <3>1, <3>2, NobodyThere
    <3>. QED
      BY <2>2, <2>4, <3>2, <3>3
  <2>5. CASE r = p
    <3>1. q \in DOMAIN assign
      BY <2>1, <2>3, <2>5
    <3>2. Count(WorkloadOf[q], Zone[n]) = 0
      BY <2>1, <2>3, <2>5 DEF TopologyAllows
    <3>3. Sim(q) = assign[q] /\ assign'[q] = assign[q] /\ assign[q] \in Survivors /\ q \in Pods
      BY <2>2, <3>1
    <3>4. Zone[Sim(q)] # Zone[n]
      BY <3>2, <3>3, NobodyThere
    <3>. QED
      BY <2>2, <2>5, <3>3, <3>4
  <2>6. CASE q # p /\ r # p
    <3>1. q \in DOMAIN assign /\ Sim(r)' = Sim(r) /\ assign'[q] = assign[q]
      BY <2>1, <2>2, <2>3, <2>6
    <3>. QED
      BY <2>3, <3>1 DEF ApartInv
  <2>. QED
    BY <2>4, <2>5, <2>6
<1>8. CASE Commit
  <2>1. ApartInv'
    BY <1>3, <1>8 DEF Commit
  <2>2. /\ DOMAIN assign = Evictable /\ victim \in nodes \ targeted /\ Evicted' = Evicted \cup Evictable
    BY <1>8, CommitEvicts
  <2>3. \A q \in Pods : place'[q] # Nowhere => place'[q] = Sim(q) /\ Sim(q) \in Survivors
    BY <1>8 DEF Commit, Sim, Survivors, PlaceInv, TryInv
  <2>4. \A q \in Pods \ DOMAIN assign : place'[q] # Nowhere => place'[q] = place[q]
    BY <1>8 DEF Commit
  <2>9. Evicted \subseteq Pods
    <3>1. plan \in Seq(Removal)
      BY DEF TypeOK
    <3>2. \A i \in DOMAIN plan : DOMAIN plan[i].to \subseteq Pods
      <4>1. \A i \in DOMAIN plan : plan[i] \in Removal
        BY <3>1
      <4>2. \A r \in Removal : DOMAIN r.to \subseteq Pods
        BY DEF Removal
      <4>. QED
        BY <4>1, <4>2
    <3>. QED
      BY <3>2 DEF Evicted
  <2>5. SUFFICES ASSUME NEW p \in Evicted', NEW q \in Pods, p # q, WorkloadOf[p] = WorkloadOf[q],
                        WorkloadOf[p] \in Apart, place'[p] # Nowhere, place'[q] # Nowhere
                 PROVE  Zone[place'[p]] # Zone[place'[q]]
    BY <2>1 DEF ApartStayApart
  <2>6. CASE p \in DOMAIN assign
    <3>1. p \in Pods /\ Sim(p) = assign[p]
      BY <2>6 DEF Sim, TypeOK
    <3>. QED
      BY <2>3, <2>5, <2>6, <3>1 DEF ApartInv
  <2>7. CASE p \notin DOMAIN assign /\ q \in DOMAIN assign
    <3>1. Sim(q) = assign[q] /\ p \in Pods /\ p \in Evicted
      <4>1. p \in Evicted
        BY <2>2, <2>5, <2>7
      <4>. QED
        BY <2>7, <2>9, <4>1 DEF Sim
    <3>. QED
      BY <2>3, <2>5, <2>7, <3>1 DEF ApartInv
  <2>8. CASE p \notin DOMAIN assign /\ q \notin DOMAIN assign
    <3>1. p \in Evicted
      BY <2>2, <2>5, <2>8
    <3>2. place'[q] = place[q]
      BY <2>4, <2>5, <2>8
    <3>3. place'[p] = place[p]
      <4>1. place[p] # victim /\ place[p] # Nowhere
        BY <2>2, <3>1 DEF PlaceInv, TypeOK
      <4>. QED
        BY <1>8, <2>8, <2>9, <3>1, <4>1 DEF Commit
    <3>. QED
      BY <2>5, <3>1, <3>2, <3>3 DEF ApartStayApart
  <2>. QED
    BY <2>6, <2>7, <2>8
<1>. QED
  BY <1>4, <1>5, <1>6, <1>7, <1>8 DEF Next

(* ---- The theorems ---- *)

\* The invariant is inductive.
LEMMA NextInv == IInv /\ [Next]_vars => IInv'
BY TypesKept, PlacesKept, LedgerKept, ApartKept, CapacityKept DEF IInv

\* The planner's state keeps its type, whatever the snapshot.
THEOREM PlannerTypesHold == Spec => []TypeOK
<1>1. IInv => TypeOK
  BY DEF IInv
<1>. QED
  BY <1>1, InitInv, NextInv, PTL DEF Spec

\* plan.Build never asks more of a budget than the snapshot allows, and a candidate that is given
\* up leaves no reservation behind.
THEOREM LedgerIsBalanced == Spec => []LedgerBalanced
<1>1. IInv => LedgerBalanced
  BY DEF IInv
<1>. QED
  BY <1>1, InitInv, NextInv, PTL DEF Spec

\* Every removal evicts all the pods of its node that are not daemons, and nothing else.
THEOREM DrainsStayComplete == Spec => []DrainsAreComplete
<1>1. IInv => DrainsAreComplete
  BY DEF IInv
<1>. QED
  BY <1>1, InitInv, NextInv, PTL DEF Spec

\* Through all the removals of a plan, a moved replica shares its zone with none it must not.
THEOREM ApartStaysApart == Spec => []ApartStayApart
<1>1. IInv => ApartStayApart
  BY DEF IInv
<1>. QED
  BY <1>1, InitInv, NextInv, PTL DEF Spec

\* Whatever a plan counts on is still there when it is through, ready and not cordoned, and has
\* room for everything that all the plan's removals moved to it.
THEOREM TargetsStayFit == Spec => []TargetsHold
<1>1. IInv => TargetsHold
  BY DEF IInv
<1>. QED
  BY <1>1, InitInv, NextInv, PTL DEF Spec

====
