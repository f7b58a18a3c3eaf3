---------------------------- MODULE EvidenceProofs ----------------------------
(* Proofs about Evidence, for every cap, budget, scope, set of facts and provider. *)
EXTENDS Evidence, FiniteSetTheorems, SequenceTheorems, NaturalsInduction,
        WellFoundedInduction, TLAPS

(* ---- Least and greatest elements, and ranks ---- *)

\* A set of numbers has a least one.
LEMMA LeastNumber ==
  ASSUME NEW T \in SUBSET Nat, T # {}
  PROVE  \E n \in T : \A k \in T : n <= k
<1>. DEFINE R == OpToRel(<, Nat)
<1>1. IsWellFoundedOn(R, Nat)
  BY NatLessThanWellFounded
<1>2. \A x, y \in Nat : x < y => <<x, y>> \in R
  BY DEF OpToRel
<1>. HIDE DEF R
<1>3. PICK n \in T : \A k \in T : ~(<<k, n>> \in R)
  BY <1>1, WFMin
<1>4. ASSUME NEW k \in T PROVE n <= k
  <2>1. ~(k < n) /\ k \in Nat /\ n \in Nat
    BY <1>2, <1>3
  <2>. QED
    BY <2>1
<1>. QED
  BY <1>4

\* A family of parts of a finite set has one that contains no other.
LEMMA SmallestPart ==
  ASSUME NEW U, IsFiniteSet(U), NEW B \in SUBSET (SUBSET U), B # {}
  PROVE  \E S \in B : \A T \in B : T \subseteq S => T = S
<1>. DEFINE R == StrictSubsetOrdering(U)
<1>1. IsWellFoundedOn(R, SUBSET U)
  BY FS_StrictSubsetOrderingWellFounded, FS_FiniteSubsetsOfFinite
<1>2. \A S, T \in SUBSET U : T \subseteq S /\ T # S => <<T, S>> \in R
  BY DEF StrictSubsetOrdering
<1>. HIDE DEF R
<1>3. PICK S \in B : \A T \in B : ~(<<T, S>> \in R)
  BY <1>1, WFMin
<1>. QED
  BY <1>2, <1>3

\* What a finite set is ranked by has a greatest value in it.
LEMMA Highest ==
  ASSUME NEW S, IsFiniteSet(S), S # {}, NEW at \in [S -> Int]
  PROVE  \E m \in S : \A j \in S : at[j] <= at[m]
<1>. DEFINE bad == {T \in SUBSET S : T # {} /\ \A m \in T : \E j \in T : ~(at[j] <= at[m])}
<1>1. SUFFICES ASSUME bad # {} PROVE FALSE
  OBVIOUS
<1>2. PICK T \in bad : \A W \in bad : W \subseteq T => W = T
  <2>1. bad \in SUBSET (SUBSET S)
    OBVIOUS
  <2>. HIDE DEF bad
  <2>. QED
    BY <1>1, <2>1, SmallestPart
<1>3. PICK x \in T : TRUE
  OBVIOUS
<1>4. T \ {x} \notin bad
  BY <1>2, <1>3
<1>5. CASE T \ {x} = {}
  BY <1>3, <1>5
<1>6. CASE T \ {x} # {}
  <2>1. PICK y \in T \ {x} : \A j \in T \ {x} : at[j] <= at[y]
    BY <1>4, <1>6
  <2>2. \A j \in T : at[j] \in Int
    OBVIOUS
  <2>3. CASE at[x] <= at[y]
    BY <1>2, <2>1, <2>3
  <2>4. CASE ~(at[x] <= at[y])
    <3>1. \A j \in T : at[j] <= at[x]
      BY <1>3, <2>1, <2>2, <2>4
    <3>. QED
      BY <1>2, <1>3, <3>1
  <2>. QED
    BY <2>3, <2>4
<1>. QED
  BY <1>5, <1>6

\* The elements that are ranked no higher than i.
UpTo(S, at, i) == {j \in S : at[j] <= at[i]}

\* Every rank from one to their number is that of an element, where no two are ranked alike.
LEMMA Ranked ==
  ASSUME NEW K, IsFiniteSet(K), NEW at \in [K -> Int],
         \A i, j \in K : at[i] = at[j] => i = j,
         NEW n \in 1..Cardinality(K)
  PROVE  \E i \in K : Cardinality(UpTo(K, at, i)) = n
<1>. DEFINE rank(S, i) == Cardinality(UpTo(S, at, i))
            bad == {S \in SUBSET K : \E k \in 1..Cardinality(S) : \A i \in S : rank(S, i) # k}
<1>. SUFFICES ASSUME \A i \in K : rank(K, i) # n PROVE FALSE
  OBVIOUS
<1>1. K \in bad
  OBVIOUS
<1>2. PICK S \in bad : \A W \in bad : W \subseteq S => W = S
  <2>1. bad \in SUBSET (SUBSET K)
    OBVIOUS
  <2>. HIDE DEF bad
  <2>. QED
    BY <1>1, <2>1, SmallestPart
<1>3. PICK k \in 1..Cardinality(S) : \A i \in S : rank(S, i) # k
  OBVIOUS
<1>4. IsFiniteSet(S) /\ Cardinality(S) \in Nat
  BY FS_Subset, FS_CardinalityType
<1>5. S # {}
  BY <1>3, FS_EmptySet
<1>6. PICK m \in S : \A j \in S : at[j] <= at[m]
  <2>1. [i \in S |-> at[i]] \in [S -> Int]
    OBVIOUS
  <2>. QED
    BY <1>4, <1>5, <2>1, Highest
<1>7. Cardinality(S \ {m}) = Cardinality(S) - 1
  BY <1>4, <1>6, FS_RemoveElement
<1>8. rank(S, m) = Cardinality(S)
  <2>1. UpTo(S, at, m) = S
    BY <1>6 DEF UpTo
  <2>. QED
    BY <2>1
<1>9. k \in 1..Cardinality(S \ {m})
  BY <1>3, <1>4, <1>6, <1>7, <1>8
<1>10. S \ {m} \notin bad
  BY <1>2, <1>6
<1>11. PICK i \in S \ {m} : rank(S \ {m}, i) = k
  BY <1>9, <1>10
<1>12. ~(at[m] <= at[i])
  <2>1. at[i] # at[m] /\ at[i] <= at[m] /\ at[i] \in Int /\ at[m] \in Int
    BY <1>6, <1>11
  <2>. QED
    BY <2>1
<1>13. UpTo(S, at, i) = UpTo(S \ {m}, at, i)
  BY <1>12 DEF UpTo
<1>. QED
  BY <1>3, <1>11, <1>13

(* ---- Sums ---- *)

\* SumFunction adds up one element at a time, whichever CHOOSE takes.
Choice(s) == CHOOSE x \in s : TRUE
Adds(F, r, D) ==
  \A s \in D : F[s] = IF s = {} THEN 0 ELSE r[Choice(s)] + F[s \ {Choice(s)}]

\* A set that is not empty has the element that is taken first.
LEMMA ChoiceIsIn ==
  ASSUME NEW s, s # {}
  PROVE  Choice(s) \in s
BY DEF Choice

\* What adds up every part exists: it is extended from the sets of n to those of n + 1.
LEMMA AdderExists ==
  ASSUME NEW U, IsFiniteSet(U), NEW r \in [U -> Int]
  PROVE  \E F \in [SUBSET U -> Int] : Adds(F, r, SUBSET U)
<1>. DEFINE Small(n) == {s \in SUBSET U : Cardinality(s) <= n}
            P(n) == \E F \in [Small(n) -> Int] : Adds(F, r, Small(n))
            bad == {n \in Nat : ~P(n)}
<1>1. \A s \in SUBSET U : IsFiniteSet(s) /\ Cardinality(s) \in Nat
  BY FS_Subset, FS_CardinalityType
<1>2. P(0)
  <2>1. \A s \in Small(0) : s = {}
    BY <1>1, FS_EmptySet
  <2>2. [s \in Small(0) |-> 0] \in [Small(0) -> Int] /\ Adds([s \in Small(0) |-> 0], r, Small(0))
    BY <2>1 DEF Adds
  <2>. QED
    BY <2>2
<1>3. ASSUME NEW n \in Nat, P(n) PROVE P(n + 1)
  <2>1. PICK F \in [Small(n) -> Int] : Adds(F, r, Small(n))
    BY <1>3
  <2>2. ASSUME NEW s \in Small(n + 1), s # {}
        PROVE  Choice(s) \in U /\ s \ {Choice(s)} \in Small(n)
    <3>1. Choice(s) \in s
      BY <2>2, ChoiceIsIn
    <3>2. Cardinality(s \ {Choice(s)}) = Cardinality(s) - 1
      BY <1>1, <3>1, FS_RemoveElement
    <3>. QED
      BY <1>1, <3>1, <3>2
  <2>3. Small(n) \subseteq Small(n + 1)
    BY <1>1
  <2>. DEFINE G == [s \in Small(n + 1) |-> IF s \in Small(n) THEN F[s] ELSE r[Choice(s)] + F[s \ {Choice(s)}]]
  <2>4. {} \in Small(n)
    BY FS_EmptySet
  <2>. HIDE DEF Small
  <2>5. ASSUME NEW s \in Small(n + 1)
        PROVE  /\ G[s] \in Int
               /\ G[s] = IF s = {} THEN 0 ELSE r[Choice(s)] + G[s \ {Choice(s)}]
    <3>1. CASE s = {}
      BY <2>1, <2>4, <3>1 DEF Adds
    <3>2. CASE s # {}
      <4>1. Choice(s) \in U /\ s \ {Choice(s)} \in Small(n)
        BY <2>2, <3>2
      <4>2. G[s \ {Choice(s)}] = F[s \ {Choice(s)}]
        BY <2>3, <4>1
      <4>3. G[s] = r[Choice(s)] + F[s \ {Choice(s)}]
        BY <2>1, <3>2 DEF Adds
      <4>4. r[Choice(s)] \in Int /\ F[s \ {Choice(s)}] \in Int
        BY <2>1, <4>1
      <4>. QED
        BY <3>2, <4>2, <4>3, <4>4
    <3>. QED
      BY <3>1, <3>2
  <2>6. G \in [Small(n + 1) -> Int] /\ Adds(G, r, Small(n + 1))
    <3>1. G \in [Small(n + 1) -> Int]
      BY <2>5
    <3>2. Adds(G, r, Small(n + 1))
      BY <2>5 DEF Adds
    <3>. QED
      BY <3>1, <3>2
  <2>. QED
    BY <2>6
<1>4. bad = {}
  <2>1. ASSUME bad # {} PROVE FALSE
    <3>1. PICK n \in bad : \A k \in bad : n <= k
      <4>1. bad \in SUBSET Nat
        OBVIOUS
      <4>. HIDE DEF bad
      <4>. QED
        BY <2>1, <4>1, LeastNumber
    <3>. HIDE DEF P
    <3>2. n # 0 /\ n \in Nat
      BY <1>2
    <3>3. n - 1 \in Nat /\ n - 1 \notin bad /\ (n - 1) + 1 = n
      <4>. HIDE DEF bad
      <4>. QED
        BY <3>1, <3>2
    <3>4. P(n - 1)
      BY <3>3
    <3>5. P(n)
      BY <1>3, <3>3, <3>4
    <3>. QED
      BY <3>5
  <2>. QED
    BY <2>1
<1>5. Small(Cardinality(U)) = SUBSET U
  BY <1>1, FS_Subset
<1>6. P(Cardinality(U))
  <2>1. Cardinality(U) \in Nat
    BY <1>1
  <2>. HIDE DEF P
  <2>. QED
    BY <1>4, <2>1
<1>. HIDE DEF Small
<1>. QED
  BY <1>5, <1>6

\* Two functions that add up agree on the parts that both know.
LEMMA AddersAgree ==
  ASSUME NEW U, IsFiniteSet(U), NEW V, NEW r, NEW F, NEW G,
         Adds(F, r, SUBSET U), Adds(G, r, SUBSET V),
         NEW S \in SUBSET (U \cap V)
  PROVE  F[S] = G[S]
<1>. DEFINE bad == {T \in SUBSET (U \cap V) : F[T] # G[T]}
<1>1. SUFFICES ASSUME bad # {} PROVE FALSE
  OBVIOUS
<1>2. PICK T \in bad : \A W \in bad : W \subseteq T => W = T
  <2>1. bad \in SUBSET (SUBSET U)
    OBVIOUS
  <2>. HIDE DEF bad
  <2>. QED
    BY <1>1, <2>1, SmallestPart
<1>3. T # {}
  BY DEF Adds
<1>4. Choice(T) \in T
  BY <1>3, ChoiceIsIn
<1>5. F[T \ {Choice(T)}] = G[T \ {Choice(T)}]
  <2>1. T \ {Choice(T)} \subseteq T /\ T \ {Choice(T)} # T /\ T \ {Choice(T)} \in SUBSET (U \cap V)
    BY <1>4
  <2>. QED
    BY <1>2, <2>1
<1>6. F[T] = r[Choice(T)] + F[T \ {Choice(T)}] /\ G[T] = r[Choice(T)] + G[T \ {Choice(T)}]
  BY <1>3 DEF Adds
<1>. QED
  BY <1>5, <1>6

\* What adds up a finite set: any element may be taken out, and every sum over a part is its value.
IsSum(F, r, U) ==
  /\ F \in [SUBSET U -> Int] /\ Adds(F, r, SUBSET U)
  /\ \A W \in SUBSET U : \A x \in W : F[W] = r[x] + F[W \ {x}]
  /\ \A W \in SUBSET U : \A H : Adds(H, r, SUBSET W) => F[W] = H[W]

\* Every finite set of numbered things can be summed up.
LEMMA SumExists ==
  ASSUME NEW U, IsFiniteSet(U), NEW r \in [U -> Int]
  PROVE  \E F : IsSum(F, r, U)
<1>1. PICK F \in [SUBSET U -> Int] : Adds(F, r, SUBSET U)
  BY AdderExists
<1>2. \A W \in SUBSET U : \A x \in W : F[W] = r[x] + F[W \ {x}]
  <2>. DEFINE Off(T) == {y \in T : F[T] # r[y] + F[T \ {y}]}
              bad == {T \in SUBSET U : Off(T) # {}}
  <2>1. SUFFICES ASSUME bad # {} PROVE FALSE
    OBVIOUS
  <2>2. PICK T \in bad : \A W \in bad : W \subseteq T => W = T
    <3>1. bad \in SUBSET (SUBSET U)
      OBVIOUS
    <3>. HIDE DEF bad
    <3>. QED
      BY <2>1, <3>1, SmallestPart
  <2>3. PICK y \in T : F[T] # r[y] + F[T \ {y}]
    OBVIOUS
  <2>. DEFINE c == Choice(T)
  <2>4. c \in T /\ F[T] = r[c] + F[T \ {c}]
    BY <1>1, <2>3, ChoiceIsIn DEF Adds
  <2>. HIDE DEF c
  <2>5. y # c
    BY <2>3, <2>4
  <2>6. F[T \ {c}] = r[y] + F[(T \ {c}) \ {y}]
    <3>1. T \ {c} \subseteq T /\ T \ {c} # T /\ T \ {c} \in SUBSET U /\ y \in T \ {c}
      BY <2>4, <2>5
    <3>2. T \ {c} \notin bad
      BY <2>2, <3>1
    <3>. QED
      BY <3>1, <3>2
  <2>7. F[T \ {y}] = r[c] + F[(T \ {y}) \ {c}]
    <3>1. T \ {y} \subseteq T /\ T \ {y} # T /\ T \ {y} \in SUBSET U /\ c \in T \ {y}
      BY <2>4, <2>5
    <3>2. T \ {y} \notin bad
      BY <2>2, <3>1
    <3>. QED
      BY <3>1, <3>2
  <2>8. (T \ {y}) \ {c} = (T \ {c}) \ {y}
    OBVIOUS
  <2>. DEFINE rest == F[(T \ {c}) \ {y}]
  <2>9. r[c] \in Int /\ r[y] \in Int /\ rest \in Int
    <3>1. (T \ {c}) \ {y} \in SUBSET U /\ c \in U /\ y \in U
      BY <2>4
    <3>. QED
      BY <1>1, <3>1
  <2>10. F[T] = r[c] + (r[y] + rest) /\ r[y] + F[T \ {y}] = r[y] + (r[c] + rest)
    BY <2>4, <2>6, <2>7, <2>8
  <2>. HIDE DEF rest, bad
  <2>. QED
    BY <2>3, <2>9, <2>10
<1>3. ASSUME NEW W \in SUBSET U, NEW H, Adds(H, r, SUBSET W) PROVE F[W] = H[W]
  <2>1. W \in SUBSET (U \cap W)
    OBVIOUS
  <2>2. Adds(F, r, SUBSET U)
    BY <1>1
  <2>. QED
    BY <1>3, <2>1, <2>2, AddersAgree
<1>. QED
  BY <1>1, <1>2, <1>3 DEF IsSum

\* The sum over a function, spelled out.
Fits(G, q) == G = [s \in SUBSET DOMAIN q |-> IF s = {} THEN 0 ELSE q[Choice(s)] + G[s \ {Choice(s)}]]
Summed(q) == (CHOOSE G : Fits(G, q))[DOMAIN q]

\* The sum over a part of what was summed up is what its function has there.
LEMMA SumOfPart ==
  ASSUME NEW U, NEW r, NEW F, IsSum(F, r, U),
         NEW T \in SUBSET U, NEW q, DOMAIN q = T, \A x \in T : q[x] = r[x]
  PROVE  Summed(q) = F[T]
<1>. DEFINE K == [s \in SUBSET T |-> F[s]]
            H == CHOOSE G : Fits(G, q)
<1>1. \A s \in SUBSET T : s # {} => Choice(s) \in s /\ q[Choice(s)] = r[Choice(s)]
  BY ChoiceIsIn
<1>2. Fits(K, q)
  <2>1. \A s \in SUBSET T : K[s] = F[s] /\ K[s \ {Choice(s)}] = F[s \ {Choice(s)}]
    OBVIOUS
  <2>2. \A s \in SUBSET T : F[s] = IF s = {} THEN 0 ELSE q[Choice(s)] + F[s \ {Choice(s)}]
    BY <1>1 DEF IsSum, Adds
  <2>3. \A s \in SUBSET T : K[s] = IF s = {} THEN 0 ELSE q[Choice(s)] + K[s \ {Choice(s)}]
    BY <2>1, <2>2
  <2>4. K = [s \in SUBSET T |-> K[s]]
    OBVIOUS
  <2>. HIDE DEF K
  <2>. QED
    BY <2>3, <2>4 DEF Fits
<1>3. Fits(H, q)
  <2>. HIDE DEF K
  <2>. QED
    BY <1>2
<1>. HIDE DEF H
<1>4. Adds(H, r, SUBSET T)
  BY <1>1, <1>3 DEF Adds, Fits
<1>5. H[T] = F[T]
  BY <1>4 DEF IsSum
<1>. QED
  BY <1>5 DEF Summed, H

\* What is left of a sum when a part is taken out.
LEMMA SumWithout ==
  ASSUME NEW U, IsFiniteSet(U), NEW r \in [U -> Int], NEW F, IsSum(F, r, U),
         NEW B \in SUBSET U, NEW A \in SUBSET B
  PROVE  F[B \ A] = F[B] - F[A]
<1>. DEFINE bad == {T \in SUBSET B : F[B \ T] # F[B] - F[T]}
<1>1. SUFFICES ASSUME bad # {} PROVE FALSE
  OBVIOUS
<1>2. PICK T \in bad : \A W \in bad : W \subseteq T => W = T
  <2>1. bad \in SUBSET (SUBSET U)
    OBVIOUS
  <2>. HIDE DEF bad
  <2>. QED
    BY <1>1, <2>1, SmallestPart
<1>3. F[{}] = 0 /\ \A W \in SUBSET U : F[W] \in Int
  BY DEF IsSum, Adds
<1>4. T # {}
  <2>1. B \ {} = B /\ F[B] - F[{}] = F[B]
    BY <1>3
  <2>2. {} \notin bad
    BY <2>1
  <2>. HIDE DEF bad
  <2>. QED
    BY <2>2
<1>5. PICK x \in T : TRUE
  BY <1>4
<1>6. T \ {x} \in SUBSET B /\ T \ {x} \notin bad
  BY <1>2, <1>5
<1>7. F[B \ (T \ {x})] = F[B] - F[T \ {x}]
  BY <1>6
<1>8. F[T] = r[x] + F[T \ {x}]
  BY <1>5 DEF IsSum
<1>9. F[B \ (T \ {x})] = r[x] + F[B \ T]
  <2>1. (B \ (T \ {x})) \ {x} = B \ T /\ x \in B \ (T \ {x}) /\ B \ (T \ {x}) \in SUBSET U
    BY <1>5
  <2>. QED
    BY <2>1 DEF IsSum
<1>10. F[B \ T] # F[B] - F[T]
  OBVIOUS
<1>11. r[x] \in Int /\ F[B] \in Int /\ F[T] \in Int /\ F[T \ {x}] \in Int /\ F[B \ T] \in Int
  <2>1. x \in U /\ T \in SUBSET U /\ T \ {x} \in SUBSET U /\ B \ T \in SUBSET U
    BY <1>5
  <2>. QED
    BY <1>3, <2>1
<1>. HIDE DEF bad
<1>. QED
  BY <1>7, <1>8, <1>9, <1>10, <1>11

\* Numbers that are not negative add up to one that is not.
LEMMA SumIsNat ==
  ASSUME NEW U, IsFiniteSet(U), NEW r \in [U -> Int], NEW F, IsSum(F, r, U),
         NEW B \in SUBSET U, \A x \in B : r[x] \in Nat
  PROVE  F[B] \in Nat
<1>. DEFINE bad == {T \in SUBSET B : F[T] \notin Nat}
<1>1. SUFFICES ASSUME bad # {} PROVE FALSE
  OBVIOUS
<1>2. PICK T \in bad : \A W \in bad : W \subseteq T => W = T
  <2>1. bad \in SUBSET (SUBSET U)
    OBVIOUS
  <2>. HIDE DEF bad
  <2>. QED
    BY <1>1, <2>1, SmallestPart
<1>3. F[{}] = 0
  BY DEF IsSum, Adds
<1>4. PICK x \in T : TRUE
  BY <1>3
<1>5. T \ {x} \in SUBSET B /\ T \ {x} \notin bad
  BY <1>2, <1>4
<1>6. F[T \ {x}] \in Nat /\ r[x] \in Nat /\ T \in SUBSET U
  BY <1>4, <1>5
<1>7. F[T] = r[x] + F[T \ {x}]
  BY <1>4, <1>6 DEF IsSum
<1>8. F[T] \notin Nat
  OBVIOUS
<1>. QED
  BY <1>6, <1>7, <1>8

\* The sizes of sets are the same in the instances as here.
LEMMA SameSizes == \A S : Log!Cardinality(S) = Cardinality(S) /\ Inv!Cardinality(S) = Cardinality(S)
BY DEF Log!Cardinality, Inv!Cardinality, Cardinality

(* ---- The log: what an append takes ---- *)

Entries == [key : Keys, at : Nat, severity : Log!Severities, seq : Nat, b : Nat]
Rings == [Subjects -> Seq(Entries)]

\* Arrival numbers ascend in a ring, no two rings share one, and all are below n.
Numbered(l, n) ==
  /\ l \in Rings
  /\ \A s \in Subjects : Log!Loads(l[s])
  /\ \A s, t \in Subjects : \A i \in DOMAIN l[s], j \in DOMAIN l[t] :
       l[s][i].seq = l[t][j].seq => s = t
  /\ \A s \in Subjects : \A i \in DOMAIN l[s] : l[s][i].seq <= n

\* The books balance, within the budget.
Balanced(l, b) == b = Log!Accounted(l) /\ b <= MaxEventBytes

LogInv == run \in Nat /\ Numbered(db, run) /\ Balanced(db, hour)

\* m is what is left of l when entries were taken that are older than all that are left.
Sheds(l, m) ==
  /\ \A s \in Subjects : Log!Seqs(m, s) \subseteq Log!Seqs(l, s)
  /\ \A s, o \in Subjects : \A lost \in Log!Seqs(l, s) \ Log!Seqs(m, s), kept \in Log!Seqs(m, o) :
       kept > lost

\* The arrival numbers of a ring, spelled out.
LEMMA SeqsOf ==
  ASSUME NEW l, NEW s
  PROVE  Log!Seqs(l, s) = {l[s][i].seq : i \in DOMAIN l[s]}
BY DEF Log!Seqs, Log!Range

\* Of the subjects that hold something, one has the oldest entry of all.
LEMMA OldestIs ==
  ASSUME NEW n, NEW l, Numbered(l, n), Log!Present(l) # {}
  PROVE  /\ Log!Oldest(l) \in Log!Present(l)
         /\ \A o \in Log!Present(l) : Head(l[Log!Oldest(l)]).seq <= Head(l[o]).seq
<1>. DEFINE T == {Head(l[s]).seq : s \in Log!Present(l)}
<1>1. \A s \in Log!Present(l) : s \in Subjects /\ l[s] \in Seq(Entries) /\ l[s] # <<>>
  BY DEF Numbered, Rings, Log!Present
<1>2. \A s \in Log!Present(l) : Head(l[s]) \in Entries
  BY <1>1, HeadTailProperties
<1>3. T \in SUBSET Nat /\ T # {}
  BY <1>2 DEF Entries
<1>4. PICK least \in T : \A k \in T : least <= k
  <2>. HIDE DEF T
  <2>. QED
    BY <1>3, LeastNumber
<1>5. \E s \in Log!Present(l) : \A o \in Log!Present(l) : Head(l[s]).seq <= Head(l[o]).seq
  BY <1>4
<1>. QED
  BY <1>5 DEF Log!Oldest

\* Taking the oldest entry of all leaves the rings numbered and sheds it.
LEMMA EvictionSheds ==
  ASSUME NEW n, NEW x, Numbered(x.log, n), Log!Present(x.log) # {},
         NEW y, y = Log!EvictFront(x, Log!Oldest(x.log))
  PROVE  Numbered(y.log, n) /\ Sheds(x.log, y.log)
<1>. DEFINE l == x.log
            s == Log!Oldest(l)
            m == [l EXCEPT ![s] = Tail(@)]
<1>1. y.log = m
  BY DEF Log!EvictFront
<1>2. s \in Subjects /\ l[s] # <<>> /\ l \in Rings
  BY OldestIs DEF Log!Present, Numbered
<1>3. \A o \in Subjects : l[o] # <<>> => Head(l[s]).seq <= Head(l[o]).seq
  BY OldestIs DEF Log!Present
<1>. HIDE DEF l, s
<1>4. /\ m \in Rings
      /\ \A o \in Subjects : o # s => m[o] = l[o]
      /\ m[s] = Tail(l[s])
  BY <1>2, HeadTailProperties DEF Rings
<1>5. /\ l[s] \in Seq(Entries) /\ m[s] \in Seq(Entries) /\ Len(m[s]) = Len(l[s]) - 1
      /\ \A i \in 1..Len(m[s]) : m[s][i] = l[s][i + 1]
      /\ Head(l[s]) = l[s][1] /\ Len(l[s]) \in Nat \ {0}
      /\ DOMAIN l[s] = 1..Len(l[s]) /\ DOMAIN m[s] = 1..Len(m[s])
  BY <1>2, <1>4, HeadTailProperties, EmptySeq, LenProperties DEF Rings
<1>. HIDE DEF m
<1>6. \A i \in DOMAIN m[s] : i + 1 \in DOMAIN l[s] /\ m[s][i] = l[s][i + 1]
  BY <1>5
<1>7. \A o \in Subjects : \A i \in DOMAIN m[o] : \E j \in DOMAIN l[o] : m[o][i] = l[o][j]
  BY <1>4, <1>6
<1>8. \A o \in Subjects : Log!Loads(m[o])
  <2>1. \A o \in Subjects : o # s => Log!Loads(m[o])
    BY <1>4 DEF Numbered, l
  <2>2. Log!Loads(l[s])
    BY <1>2 DEF Numbered, l
  <2>3. Len(m[s]) <= MaxEventsPerSubject
    <3>1. Len(l[s]) <= MaxEventsPerSubject
      BY <2>2 DEF Log!Loads
    <3>2. MaxEventsPerSubject \in Nat
      BY EvidenceAssumption
    <3>. QED
      BY <1>5, <3>1, <3>2
  <2>4. \A i, j \in DOMAIN m[s] : i < j => m[s][i].seq < m[s][j].seq
    <3>1. \A i, j \in DOMAIN m[s] : i < j => i + 1 < j + 1
      BY <1>5
    <3>. QED
      BY <1>6, <2>2, <3>1 DEF Log!Loads
  <2>. QED
    BY <2>1, <2>3, <2>4 DEF Log!Loads
<1>9. Numbered(m, n)
  <2>1. \A o, t \in Subjects : \A i \in DOMAIN m[o], j \in DOMAIN m[t] :
          m[o][i].seq = m[t][j].seq => o = t
    BY <1>7 DEF Numbered, l
  <2>2. \A o \in Subjects : \A i \in DOMAIN m[o] : m[o][i].seq <= n
    BY <1>7 DEF Numbered, l
  <2>. QED
    BY <1>4, <1>8, <2>1, <2>2 DEF Numbered
<1>10. \A o \in Subjects : Log!Seqs(m, o) \subseteq Log!Seqs(l, o)
  BY <1>7, SeqsOf
<1>11. ASSUME NEW o \in Subjects, NEW t \in Subjects,
              NEW lost \in Log!Seqs(l, o) \ Log!Seqs(m, o), NEW kept \in Log!Seqs(m, t)
       PROVE  kept > lost
  <2>1. o = s
    BY <1>4, <1>11, SeqsOf
  <2>2. lost = l[s][1].seq
    <3>1. PICK i \in DOMAIN l[s] : lost = l[s][i].seq
      BY <1>11, <2>1, SeqsOf
    <3>2. CASE i # 1
      <4>1. i - 1 \in DOMAIN m[s] /\ m[s][i - 1] = l[s][i]
        BY <1>5, <3>1, <3>2
      <4>. QED
        BY <1>11, <2>1, <3>1, <4>1, SeqsOf
    <3>. QED
      BY <3>1, <3>2
  <2>3. PICK j \in DOMAIN m[t] : kept = m[t][j].seq
    BY <1>11, SeqsOf
  <2>4. CASE t = s
    <3>1. j + 1 \in DOMAIN l[s] /\ kept = l[s][j + 1].seq /\ 1 < j + 1 /\ 1 \in DOMAIN l[s]
      BY <1>5, <1>6, <2>3, <2>4
    <3>2. Log!Loads(l[s])
      BY <1>2 DEF Numbered, l
    <3>3. l[s][1].seq < l[s][j + 1].seq
      BY <3>1, <3>2 DEF Log!Loads
    <3>4. l[s][1] \in Entries /\ l[s][j + 1] \in Entries
      BY <1>5, <3>1, ElementOfSeq
    <3>. QED
      BY <2>2, <3>1, <3>3, <3>4 DEF Entries
  <2>5. CASE t # s
    <3>1. j \in DOMAIN l[t] /\ kept = l[t][j].seq /\ l[t] \in Seq(Entries)
      BY <1>2, <1>4, <2>3, <2>5 DEF Rings
    <3>2. l[t] # <<>> /\ 1 \in DOMAIN l[t] /\ DOMAIN l[t] = 1..Len(l[t]) /\ Head(l[t]) = l[t][1]
      BY <3>1, LenProperties
    <3>3. l[t][1] \in Entries /\ l[t][j] \in Entries /\ l[s][1] \in Entries
      BY <1>5, <3>1, <3>2, ElementOfSeq
    <3>4. l[t][1].seq <= l[t][j].seq
      <4>1. Log!Loads(l[t])
        BY DEF Numbered, l
      <4>2. CASE j = 1
        BY <3>3, <4>2 DEF Entries
      <4>3. CASE j # 1
        <5>1. 1 < j
          BY <3>1, <3>2, <4>3
        <5>2. l[t][1].seq < l[t][j].seq
          BY <3>1, <3>2, <4>1, <5>1 DEF Log!Loads
        <5>3. l[t][1].seq \in Nat /\ l[t][j].seq \in Nat
          BY <3>3 DEF Entries
        <5>. QED
          BY <5>2, <5>3
      <4>. QED
        BY <4>2, <4>3
    <3>5. l[s][1].seq <= l[t][1].seq
      BY <1>3, <1>5, <3>2
    <3>6. l[s][1].seq # l[t][j].seq
      BY <1>2, <1>5, <2>5, <3>1 DEF Numbered, l
    <3>7. l[t][1].seq \in Nat /\ l[t][j].seq \in Nat /\ l[s][1].seq \in Nat
      BY <3>3 DEF Entries
    <3>. QED
      BY <2>2, <3>1, <3>4, <3>5, <3>6, <3>7
  <2>. QED
    BY <2>4, <2>5
<1>. QED
  BY <1>1, <1>9, <1>10, <1>11 DEF Sheds, l

\* What is shed of what was shed is shed.
LEMMA ShedsMore ==
  ASSUME NEW l, NEW m, NEW k, Sheds(l, m), Sheds(m, k)
  PROVE  Sheds(l, k)
BY DEF Sheds

(* ---- The log: its books ---- *)

\* The sum in the log's instance is the one that is spelled out here.
LEMMA LogSums == \A q : Log!SumFunction(q) = Summed(q)
BY DEF Log!SumFunction, Log!SumFunctionOnSet, Log!FoldFunctionOnSet, Log!MapThenFoldSet,
       Summed, Fits, Choice

\* Charges of sets of entries add up, entry by entry.
LEMMA ChargesAddUp ==
  ASSUME NEW U, IsFiniteSet(U), \A x \in U : x[2].b \in Int
  PROVE  /\ Log!Charge({}) = 0
         /\ \A B \in SUBSET U : Log!Charge(B) \in Int
         /\ \A B \in SUBSET U : \A x \in U \ B : Log!Charge(B \cup {x}) = Log!Charge(B) + x[2].b
         /\ \A B \in SUBSET U : \A A \in SUBSET B :
              Log!Charge(B \ A) = Log!Charge(B) - Log!Charge(A)
         /\ \A B \in SUBSET U : (\A x \in B : x[2].b \in Nat) => Log!Charge(B) \in Nat
<1>. DEFINE r == [x \in U |-> x[2].b]
<1>1. r \in [U -> Int] /\ \A x \in U : r[x] = x[2].b
  OBVIOUS
<1>2. PICK F : IsSum(F, r, U)
  <2>. HIDE DEF r
  <2>. QED
    BY <1>1, SumExists
<1>3. ASSUME NEW B \in SUBSET U PROVE Log!Charge(B) = F[B]
  <2>. DEFINE q == [x \in B |-> x[2].b]
  <2>1. DOMAIN q = B /\ \A x \in B : q[x] = r[x]
    OBVIOUS
  <2>2. Log!Charge(B) = Summed(q)
    BY LogSums DEF Log!Charge
  <2>. HIDE DEF q, r
  <2>. QED
    BY <1>2, <2>1, <2>2, SumOfPart
<1>. HIDE DEF r
<1>4. F[{}] = 0 /\ \A W \in SUBSET U : F[W] \in Int
  BY <1>2 DEF IsSum, Adds
<1>5. ASSUME NEW B \in SUBSET U, NEW x \in U \ B PROVE F[B \cup {x}] = F[B] + x[2].b
  <2>1. B \cup {x} \in SUBSET U /\ x \in B \cup {x} /\ (B \cup {x}) \ {x} = B
    OBVIOUS
  <2>2. F[B \cup {x}] = r[x] + F[B]
    BY <1>2, <2>1 DEF IsSum
  <2>3. r[x] = x[2].b /\ r[x] \in Int /\ F[B] \in Int
    BY <1>1, <1>4
  <2>. QED
    BY <2>2, <2>3
<1>6. ASSUME NEW B \in SUBSET U, NEW A \in SUBSET B PROVE F[B \ A] = F[B] - F[A]
  BY <1>1, <1>2, SumWithout
<1>7. \A B \in SUBSET U : \A x \in U \ B : B \cup {x} \in SUBSET U
  OBVIOUS
<1>8. \A B \in SUBSET U : \A A \in SUBSET B : A \in SUBSET U /\ B \ A \in SUBSET U
  OBVIOUS
<1>9. {} \in SUBSET U
  OBVIOUS
<1>10. ASSUME NEW B \in SUBSET U, \A x \in B : x[2].b \in Nat PROVE F[B] \in Nat
  BY <1>1, <1>2, <1>10, SumIsNat
<1>. QED
  BY <1>3, <1>4, <1>5, <1>6, <1>7, <1>8, <1>9, <1>10

\* What is stored, spelled out.
LEMMA StoredIs ==
  ASSUME NEW l \in Rings
  PROVE  /\ \A s, e : <<s, e>> \in Log!Stored(l) <=> s \in Subjects /\ \E i \in DOMAIN l[s] : e = l[s][i]
         /\ \A x \in Log!Stored(l) : x = <<x[1], x[2]>> /\ x[1] \in Subjects /\ x[2] \in Entries
         /\ \A s \in Subjects : l[s] \in Seq(Entries) /\ DOMAIN l[s] = 1..Len(l[s]) /\ Len(l[s]) \in Nat
         /\ \A s \in Subjects : \A i \in DOMAIN l[s] : l[s][i] \in Entries
<1>1. \A s \in Subjects : l[s] \in Seq(Entries) /\ DOMAIN l[s] = 1..Len(l[s]) /\ Len(l[s]) \in Nat
  BY LenProperties DEF Rings
<1>2. \A s \in Subjects : \A i \in DOMAIN l[s] : l[s][i] \in Entries
  BY <1>1, ElementOfSeq
<1>3. \A s : Log!Range(l[s]) = {l[s][i] : i \in DOMAIN l[s]}
  BY DEF Log!Range
<1>4. ASSUME NEW s, NEW e
      PROVE  <<s, e>> \in Log!Stored(l) <=> s \in Subjects /\ \E i \in DOMAIN l[s] : e = l[s][i]
  <2>1. <<s, e>> \in Log!Stored(l) <=> \E t \in Subjects : <<s, e>> \in {t} \X Log!Range(l[t])
    BY DEF Log!Stored
  <2>2. \A t : <<s, e>> \in {t} \X Log!Range(l[t]) <=> s = t /\ e \in Log!Range(l[t])
    OBVIOUS
  <2>. QED
    BY <1>3, <2>1, <2>2
<1>5. \A x \in Log!Stored(l) : x = <<x[1], x[2]>>
  BY DEF Log!Stored
<1>. QED
  BY <1>1, <1>2, <1>4, <1>5

\* The entries are finitely many, and each is charged a number.
LEMMA StoredIsFinite ==
  ASSUME NEW n, NEW l, Numbered(l, n)
  PROVE  /\ IsFiniteSet(Log!Stored(l))
         /\ \A x \in Log!Stored(l) : x[2].b \in Int
         /\ IsFiniteSet(Log!Present(l)) /\ Cardinality(Log!Present(l)) \in Nat
<1>. DEFINE P == Subjects \X (1..MaxEventsPerSubject)
            f == [p \in P |-> <<p[1], l[p[1]][p[2]]>>]
            T == {f[p] : p \in P}
<1>1. l \in Rings /\ \A s \in Subjects : Len(l[s]) <= MaxEventsPerSubject
  BY DEF Numbered, Log!Loads
<1>2. IsFiniteSet(P)
  <2>1. IsFiniteSet(Subjects) /\ MaxEventsPerSubject \in Int /\ 1 \in Int
    BY EvidenceAssumption
  <2>2. IsFiniteSet(1..MaxEventsPerSubject)
    BY <2>1, FS_Interval
  <2>. QED
    BY <2>1, <2>2, FS_Product
<1>3. IsFiniteSet(T)
  <2>. HIDE DEF P
  <2>1. f \in Surjection(P, T)
    BY DEF Surjection
  <2>. HIDE DEF f, T
  <2>. QED
    BY <1>2, <2>1, FS_Surjection
<1>4. Log!Stored(l) \subseteq T
  <2>1. ASSUME NEW x \in Log!Stored(l) PROVE x \in T
    <3>1. x = <<x[1], x[2]>> /\ x[1] \in Subjects
      BY <1>1, StoredIs
    <3>2. PICK i \in DOMAIN l[x[1]] : x[2] = l[x[1]][i]
      BY <1>1, <3>1, StoredIs
    <3>3. i \in 1..MaxEventsPerSubject
      <4>1. DOMAIN l[x[1]] = 1..Len(l[x[1]]) /\ Len(l[x[1]]) \in Nat
        BY <1>1, <3>1, StoredIs
      <4>2. MaxEventsPerSubject \in Nat
        BY EvidenceAssumption
      <4>. QED
        BY <1>1, <3>1, <3>2, <4>1, <4>2
    <3>4. <<x[1], i>> \in P /\ f[<<x[1], i>>] = x
      BY <3>1, <3>2, <3>3
    <3>. QED
      BY <3>4
  <2>. QED
    BY <2>1
<1>5. \A x \in Log!Stored(l) : x[2].b \in Int
  BY <1>1, StoredIs DEF Entries
<1>6. IsFiniteSet(Log!Present(l)) /\ Cardinality(Log!Present(l)) \in Nat
  <2>1. Log!Present(l) \subseteq Subjects
    BY DEF Log!Present
  <2>. QED
    BY <2>1, EvidenceAssumption, FS_Subset, FS_CardinalityType
<1>. HIDE DEF T
<1>. QED
  BY <1>3, <1>4, <1>5, <1>6, FS_Subset

\* Where nothing is stored nothing is accounted for.
LEMMA NothingStored ==
  ASSUME NEW l \in Rings, Log!Present(l) = {}
  PROVE  Log!Accounted(l) = 0 /\ Log!Stored(l) = {}
<1>1. \A s \in Subjects : l[s] = <<>>
  BY DEF Log!Present
<1>2. Log!Stored(l) = {}
  <2>1. ASSUME NEW x \in Log!Stored(l) PROVE FALSE
    <3>1. x = <<x[1], x[2]>> /\ x[1] \in Subjects
      BY StoredIs
    <3>2. PICK i \in DOMAIN l[x[1]] : TRUE
      BY <3>1, StoredIs
    <3>. QED
      BY <1>1, <3>1, <3>2
  <2>. QED
    BY <2>1
<1>3. Log!Charge({}) = 0
  BY FS_EmptySet, ChargesAddUp
<1>4. Log!Cardinality(Log!Present(l)) = 0
  BY SameSizes, FS_EmptySet
<1>. QED
  BY <1>2, <1>3, <1>4 DEF Log!Accounted, Log!subjectOverheadBytes

\* A ring that loses its oldest entry: that one is gone, and no other.
LEMMA TailStored ==
  ASSUME NEW n, NEW l, Numbered(l, n), NEW s \in Subjects, l[s] # <<>>,
         NEW m \in Rings, m[s] = Tail(l[s]), \A o \in Subjects : o # s => m[o] = l[o]
  PROVE  /\ Head(l[s]) \in Entries /\ <<s, Head(l[s])>> \in Log!Stored(l)
         /\ Log!Stored(m) = Log!Stored(l) \ {<<s, Head(l[s])>>}
         /\ s \in Log!Present(l)
         /\ Log!Present(m) = IF Tail(l[s]) = <<>> THEN Log!Present(l) \ {s} ELSE Log!Present(l)
<1>1. l \in Rings /\ l[s] \in Seq(Entries)
  BY StoredIs DEF Numbered
<1>2. /\ Tail(l[s]) \in Seq(Entries) /\ Len(Tail(l[s])) = Len(l[s]) - 1
      /\ \A i \in 1..Len(Tail(l[s])) : Tail(l[s])[i] = l[s][i + 1]
      /\ Head(l[s]) = l[s][1] /\ Head(l[s]) \in Entries /\ Len(l[s]) \in Nat \ {0}
      /\ DOMAIN l[s] = 1..Len(l[s]) /\ DOMAIN Tail(l[s]) = 1..Len(Tail(l[s]))
  BY <1>1, HeadTailProperties, EmptySeq, LenProperties
<1>3. m \in Rings /\ m[s] = Tail(l[s]) /\ \A o \in Subjects : o # s => m[o] = l[o]
  OBVIOUS
<1>4. \A i \in DOMAIN l[s] : i # 1 => l[s][i] # l[s][1]
  <2>1. \A i \in DOMAIN l[s] : i # 1 => 1 < i /\ 1 \in DOMAIN l[s]
    BY <1>2
  <2>2. \A i \in DOMAIN l[s] : i # 1 => l[s][1].seq < l[s][i].seq
    BY <2>1 DEF Numbered, Log!Loads
  <2>3. \A i \in DOMAIN l[s] : l[s][i].seq \in Nat
    BY <1>1, StoredIs DEF Entries
  <2>. QED
    BY <2>1, <2>2, <2>3
<1>5. \A e : (\E i \in DOMAIN m[s] : e = m[s][i]) <=> (\E i \in DOMAIN l[s] : e = l[s][i]) /\ e # l[s][1]
  <2>1. ASSUME NEW i \in DOMAIN m[s]
        PROVE  i + 1 \in DOMAIN l[s] /\ m[s][i] = l[s][i + 1] /\ i + 1 # 1
    <3>1. DOMAIN m[s] = 1..(Len(l[s]) - 1) /\ i \in 1..Len(Tail(l[s]))
      BY <1>2, <1>3
    <3>. QED
      BY <1>2, <1>3, <3>1
  <2>2. ASSUME NEW i \in DOMAIN l[s], i # 1
        PROVE  i - 1 \in DOMAIN m[s] /\ m[s][i - 1] = l[s][i]
    <3>1. i - 1 \in 1..Len(Tail(l[s])) /\ (i - 1) + 1 = i
      BY <1>2, <2>2
    <3>. QED
      BY <1>2, <1>3, <3>1
  <2>3. ASSUME NEW e, NEW i \in DOMAIN m[s], e = m[s][i]
        PROVE  (\E j \in DOMAIN l[s] : e = l[s][j]) /\ e # l[s][1]
    <3>1. i + 1 \in DOMAIN l[s] /\ e = l[s][i + 1] /\ i + 1 # 1
      BY <2>1, <2>3
    <3>. QED
      BY <1>4, <3>1
  <2>4. ASSUME NEW e, NEW i \in DOMAIN l[s], e = l[s][i], e # l[s][1]
        PROVE  \E j \in DOMAIN m[s] : e = m[s][j]
    <3>1. i - 1 \in DOMAIN m[s] /\ m[s][i - 1] = e
      BY <2>2, <2>4
    <3>. QED
      BY <3>1
  <2>. QED
    BY <2>3, <2>4
<1>6. ASSUME NEW o, NEW e
      PROVE  <<o, e>> \in Log!Stored(m) <=> <<o, e>> \in Log!Stored(l) /\ <<o, e>> # <<s, l[s][1]>>
  <2>1. <<o, e>> \in Log!Stored(m) <=> (o \in Subjects /\ \E i \in DOMAIN m[o] : e = m[o][i])
    BY <1>3, StoredIs
  <2>2. <<o, e>> \in Log!Stored(l) <=> (o \in Subjects /\ \E i \in DOMAIN l[o] : e = l[o][i])
    BY <1>1, StoredIs
  <2>3. <<o, e>> = <<s, l[s][1]>> <=> o = s /\ e = l[s][1]
    OBVIOUS
  <2>4. CASE o = s
    BY <1>5, <2>1, <2>2, <2>3, <2>4
  <2>5. CASE o # s
    BY <1>3, <2>1, <2>2, <2>3, <2>5
  <2>. QED
    BY <2>4, <2>5
<1>7. Log!Stored(m) = Log!Stored(l) \ {<<s, l[s][1]>>}
  <2>1. \A x \in Log!Stored(m) \cup Log!Stored(l) : x = <<x[1], x[2]>>
    BY <1>1, <1>3, StoredIs
  <2>. DEFINE out == <<s, l[s][1]>>
  <2>2. out = <<s, l[s][1]>>
    OBVIOUS
  <2>. HIDE DEF out
  <2>3. ASSUME NEW x \in Log!Stored(m) \cup Log!Stored(l)
        PROVE  x \in Log!Stored(m) <=> x \in Log!Stored(l) /\ x # out
    <3>1. PICK o, e : x = <<o, e>>
      BY <2>1
    <3>. QED
      BY <1>6, <2>2, <3>1
  <2>4. Log!Stored(m) = Log!Stored(l) \ {out}
    BY <2>3
  <2>. QED
    BY <2>2, <2>4
<1>8. <<s, l[s][1]>> \in Log!Stored(l)
  BY <1>1, <1>2, StoredIs
<1>. QED
  BY <1>2, <1>3, <1>7, <1>8 DEF Log!Present

\* A ring that gains an entry no other is numbered like.
LEMMA AppendStored ==
  ASSUME NEW l \in Rings, NEW s \in Subjects, NEW e \in Entries,
         \A i \in DOMAIN l[s] : l[s][i].seq # e.seq,
         NEW m \in Rings, m[s] = Append(l[s], e), \A o \in Subjects : o # s => m[o] = l[o]
  PROVE  /\ Log!Stored(m) = Log!Stored(l) \cup {<<s, e>>}
         /\ <<s, e>> \notin Log!Stored(l)
         /\ Log!Present(m) = Log!Present(l) \cup {s}
<1>1. l[s] \in Seq(Entries) /\ DOMAIN l[s] = 1..Len(l[s]) /\ Len(l[s]) \in Nat
  BY StoredIs
<1>2. /\ Append(l[s], e) \in Seq(Entries) /\ DOMAIN Append(l[s], e) = 1..(Len(l[s]) + 1)
      /\ \A i \in DOMAIN l[s] : Append(l[s], e)[i] = l[s][i]
      /\ Append(l[s], e)[Len(l[s]) + 1] = e /\ Append(l[s], e) # <<>>
  BY <1>1, AppendProperties, LenProperties
<1>3. m \in Rings /\ m[s] = Append(l[s], e) /\ \A o \in Subjects : o # s => m[o] = l[o]
  OBVIOUS
<1>4. \A x : (\E i \in DOMAIN m[s] : x = m[s][i]) <=> (\E i \in DOMAIN l[s] : x = l[s][i]) \/ x = e
  <2>1. \A i \in DOMAIN m[s] : i \in DOMAIN l[s] \/ i = Len(l[s]) + 1
    BY <1>1, <1>2, <1>3
  <2>2. DOMAIN l[s] \subseteq DOMAIN m[s] /\ Len(l[s]) + 1 \in DOMAIN m[s]
    BY <1>1, <1>2, <1>3
  <2>. QED
    BY <1>2, <1>3, <2>1, <2>2
<1>5. ASSUME NEW o, NEW x
      PROVE  <<o, x>> \in Log!Stored(m) <=> <<o, x>> \in Log!Stored(l) \/ <<o, x>> = <<s, e>>
  <2>1. <<o, x>> \in Log!Stored(m) <=> (o \in Subjects /\ \E i \in DOMAIN m[o] : x = m[o][i])
    BY <1>3, StoredIs
  <2>2. <<o, x>> \in Log!Stored(l) <=> (o \in Subjects /\ \E i \in DOMAIN l[o] : x = l[o][i])
    BY StoredIs
  <2>3. <<o, x>> = <<s, e>> <=> o = s /\ x = e
    OBVIOUS
  <2>4. CASE o = s
    BY <1>4, <2>1, <2>2, <2>3, <2>4
  <2>5. CASE o # s
    BY <1>3, <2>1, <2>2, <2>3, <2>5
  <2>. QED
    BY <2>4, <2>5
<1>6. Log!Stored(m) = Log!Stored(l) \cup {<<s, e>>}
  <2>1. \A x \in Log!Stored(m) \cup Log!Stored(l) : x = <<x[1], x[2]>>
    BY <1>3, StoredIs
  <2>. DEFINE in == <<s, e>>
  <2>2. in = <<s, e>>
    OBVIOUS
  <2>. HIDE DEF in
  <2>3. ASSUME NEW x \in Log!Stored(m) \cup Log!Stored(l)
        PROVE  x \in Log!Stored(m) <=> x \in Log!Stored(l) \/ x = in
    <3>1. PICK o, y : x = <<o, y>>
      BY <2>1
    <3>. QED
      BY <1>5, <2>2, <3>1
  <2>4. in \in Log!Stored(m)
    BY <1>5, <2>2
  <2>5. Log!Stored(m) = Log!Stored(l) \cup {in}
    BY <2>3, <2>4
  <2>. QED
    BY <2>2, <2>5
<1>7. <<s, e>> \notin Log!Stored(l)
  BY StoredIs
<1>. QED
  BY <1>2, <1>3, <1>6, <1>7 DEF Log!Present

\* Whatever is accounted for is a number.
LEMMA AccountedIsInt ==
  ASSUME NEW l, IsFiniteSet(Log!Stored(l)), \A x \in Log!Stored(l) : x[2].b \in Int,
         IsFiniteSet(Log!Present(l))
  PROVE  /\ Log!Charge(Log!Stored(l)) \in Int /\ Cardinality(Log!Present(l)) \in Nat
         /\ Log!Accounted(l) = Log!Charge(Log!Stored(l)) + 256 * Cardinality(Log!Present(l))
         /\ Log!Accounted(l) \in Int
<1>1. Log!Charge(Log!Stored(l)) \in Int
  BY ChargesAddUp
<1>2. Cardinality(Log!Present(l)) \in Nat
  BY FS_CardinalityType
<1>. QED
  BY <1>1, <1>2, SameSizes DEF Log!Accounted, Log!subjectOverheadBytes

\* A ring that loses its oldest entry gives back what that was charged.
LEMMA TailAccounts ==
  ASSUME NEW n, NEW l, Numbered(l, n), NEW s \in Subjects, l[s] # <<>>,
         NEW m \in Rings, m[s] = Tail(l[s]), \A o \in Subjects : o # s => m[o] = l[o]
  PROVE  /\ Log!Accounted(m) = Log!Accounted(l) - Head(l[s]).b - (IF Tail(l[s]) = <<>> THEN 256 ELSE 0)
         /\ Log!Accounted(l) \in Int /\ Log!Accounted(m) \in Int
         /\ IsFiniteSet(Log!Stored(m)) /\ IsFiniteSet(Log!Present(m))
         /\ Cardinality(Log!Stored(m)) = Cardinality(Log!Stored(l)) - 1
<1>. DEFINE e == Head(l[s])
            d == IF Tail(l[s]) = <<>> THEN 1 ELSE 0
<1>1. /\ e \in Entries /\ <<s, e>> \in Log!Stored(l)
      /\ Log!Stored(m) = Log!Stored(l) \ {<<s, e>>} /\ s \in Log!Present(l)
      /\ Log!Present(m) = IF Tail(l[s]) = <<>> THEN Log!Present(l) \ {s} ELSE Log!Present(l)
  BY TailStored
<1>2. /\ IsFiniteSet(Log!Stored(l)) /\ \A z \in Log!Stored(l) : z[2].b \in Int
      /\ IsFiniteSet(Log!Present(l))
  BY StoredIsFinite
<1>3. e.b \in Int /\ d \in Int
  BY <1>1 DEF Entries
<1>. HIDE DEF e
<1>4. IsFiniteSet(Log!Stored(m)) /\ IsFiniteSet(Log!Present(m)) /\ \A z \in Log!Stored(m) : z[2].b \in Int
  <2>1. Log!Stored(m) \subseteq Log!Stored(l) /\ Log!Present(m) \subseteq Log!Present(l)
    BY <1>1
  <2>. QED
    BY <1>2, <2>1, FS_Subset
<1>5. Log!Charge(Log!Stored(l)) = Log!Charge(Log!Stored(m)) + e.b
  <2>1. /\ Log!Stored(m) \in SUBSET Log!Stored(l) /\ <<s, e>> \in Log!Stored(l) \ Log!Stored(m)
        /\ Log!Stored(m) \cup {<<s, e>>} = Log!Stored(l) /\ <<s, e>>[2].b = e.b
    BY <1>1
  <2>2. Log!Charge(Log!Stored(m) \cup {<<s, e>>}) = Log!Charge(Log!Stored(m)) + <<s, e>>[2].b
    BY <1>2, <2>1, ChargesAddUp
  <2>. QED
    BY <2>1, <2>2
<1>6. Cardinality(Log!Present(m)) = Cardinality(Log!Present(l)) - d
  <2>1. Cardinality(Log!Present(l) \ {s}) = Cardinality(Log!Present(l)) - 1
    BY <1>1, <1>2, FS_RemoveElement
  <2>2. Cardinality(Log!Present(l)) \in Nat
    BY <1>2, FS_CardinalityType
  <2>. QED
    BY <1>1, <2>1, <2>2
<1>7. Cardinality(Log!Stored(m)) = Cardinality(Log!Stored(l)) - 1
  BY <1>1, <1>2, FS_RemoveElement
<1>8. d = (IF Tail(l[s]) = <<>> THEN 1 ELSE 0)
  OBVIOUS
<1>9. Log!Accounted(m) = Log!Accounted(l) - e.b - 256 * d /\ Log!Accounted(l) \in Int /\ Log!Accounted(m) \in Int
  <2>. DEFINE c == Log!Charge(Log!Stored(m))
              k == Log!Charge(Log!Stored(l))
              p == Cardinality(Log!Present(l))
              q == Cardinality(Log!Present(m))
  <2>1. Log!Accounted(l) = k + 256 * p /\ k \in Int /\ p \in Nat
    BY <1>2, AccountedIsInt
  <2>2. Log!Accounted(m) = c + 256 * q /\ c \in Int /\ q \in Nat
    BY <1>4, AccountedIsInt
  <2>3. k = c + e.b /\ q = p - d
    BY <1>5, <1>6
  <2>. HIDE DEF c, k, p, q, d
  <2>. QED
    BY <1>3, <2>1, <2>2, <2>3
<1>10. 256 * d = (IF Tail(l[s]) = <<>> THEN 256 ELSE 0)
  BY <1>8
<1>. HIDE DEF d
<1>. QED
  BY <1>4, <1>7, <1>9, <1>10 DEF e

\* A ring that gains an entry is charged for it.
LEMMA AppendAccounts ==
  ASSUME NEW l \in Rings, IsFiniteSet(Log!Stored(l)), IsFiniteSet(Log!Present(l)),
         NEW s \in Subjects, NEW e \in Entries, \A i \in DOMAIN l[s] : l[s][i].seq # e.seq,
         NEW m \in Rings, m[s] = Append(l[s], e), \A o \in Subjects : o # s => m[o] = l[o]
  PROVE  /\ Log!Accounted(m) = Log!Accounted(l) + e.b + (IF l[s] = <<>> THEN 256 ELSE 0)
         /\ Log!Accounted(l) \in Int
<1>. DEFINE d == IF l[s] = <<>> THEN 1 ELSE 0
<1>1. /\ Log!Stored(m) = Log!Stored(l) \cup {<<s, e>>} /\ <<s, e>> \notin Log!Stored(l)
      /\ Log!Present(m) = Log!Present(l) \cup {s}
  BY AppendStored
<1>2. /\ \A z \in Log!Stored(l) : z[2].b \in Int
      /\ e.b \in Int /\ <<s, e>>[2].b = e.b
  BY StoredIs DEF Entries
<1>3. /\ IsFiniteSet(Log!Stored(m)) /\ IsFiniteSet(Log!Present(m))
      /\ \A z \in Log!Stored(m) : z[2].b \in Int
  BY <1>1, <1>2, FS_AddElement
<1>4. Log!Charge(Log!Stored(m)) = Log!Charge(Log!Stored(l)) + e.b
  <2>1. Log!Stored(l) \in SUBSET Log!Stored(m) /\ <<s, e>> \in Log!Stored(m) \ Log!Stored(l)
    BY <1>1
  <2>2. Log!Charge(Log!Stored(l) \cup {<<s, e>>}) = Log!Charge(Log!Stored(l)) + <<s, e>>[2].b
    BY <1>3, <2>1, ChargesAddUp
  <2>. QED
    BY <1>1, <1>2, <2>2
<1>5. Cardinality(Log!Present(m)) = Cardinality(Log!Present(l)) + d
  <2>1. s \in Log!Present(l) <=> l[s] # <<>>
    BY DEF Log!Present
  <2>2. s \notin Log!Present(l) => Cardinality(Log!Present(l) \cup {s}) = Cardinality(Log!Present(l)) + 1
    BY FS_AddElement
  <2>3. s \in Log!Present(l) => Log!Present(m) = Log!Present(l)
    BY <1>1
  <2>4. Cardinality(Log!Present(l)) \in Nat
    BY FS_CardinalityType
  <2>5. CASE l[s] = <<>>
    BY <1>1, <2>1, <2>2, <2>5
  <2>6. CASE l[s] # <<>>
    BY <2>1, <2>3, <2>4, <2>6
  <2>. QED
    BY <2>5, <2>6
<1>6. d \in Int /\ 256 * d = (IF l[s] = <<>> THEN 256 ELSE 0)
  OBVIOUS
<1>7. Log!Accounted(m) = Log!Accounted(l) + e.b + 256 * d /\ Log!Accounted(l) \in Int
  <2>. DEFINE c == Log!Charge(Log!Stored(m))
              k == Log!Charge(Log!Stored(l))
              p == Cardinality(Log!Present(l))
              q == Cardinality(Log!Present(m))
  <2>1. Log!Accounted(l) = k + 256 * p /\ k \in Int /\ p \in Nat
    BY <1>2, AccountedIsInt
  <2>2. Log!Accounted(m) = c + 256 * q /\ c \in Int /\ q \in Nat
    BY <1>3, AccountedIsInt
  <2>3. c = k + e.b /\ q = p + d
    BY <1>4, <1>5
  <2>. HIDE DEF c, k, p, q, d
  <2>. QED
    BY <1>2, <1>6, <2>1, <2>2, <2>3
<1>. HIDE DEF d
<1>. QED
  BY <1>6, <1>7

(* ---- The log: its operations ---- *)

\* The function that enforceBudget recurs on.
Rounds(F, st, N) == F = [n \in 0..N |-> IF n = 0 THEN st ELSE Log!Round(F[n - 1])]

\* enforceBudget step by step: the function it recurs on exists.
LEMMA EvictionsExist ==
  ASSUME NEW st, NEW N \in Nat
  PROVE  \E F : Rounds(F, st, N)
<1>. DEFINE Is(F, k) == F = [n \in 0..k |-> IF n = 0 THEN st ELSE Log!Round(F[n - 1])]
            bad == {k \in Nat : ~ \E F : Is(F, k)}
<1>1. \E F : Is(F, 0)
  <2>1. Is([n \in 0..0 |-> st], 0)
    OBVIOUS
  <2>. QED
    BY <2>1
<1>2. ASSUME NEW k \in Nat, NEW F, Is(F, k) PROVE \E G : Is(G, k + 1)
  <2>. DEFINE G == [n \in 0..(k + 1) |-> IF n = 0 THEN st ELSE Log!Round(F[n - 1])]
  <2>1. \A n \in 0..k : G[n] = F[n]
    BY <1>2
  <2>2. \A n \in 0..(k + 1) : n # 0 => n - 1 \in 0..k
    OBVIOUS
  <2>3. Is(G, k + 1)
    BY <2>1, <2>2
  <2>. QED
    BY <2>3
<1>3. bad = {}
  <2>1. SUFFICES ASSUME bad # {} PROVE FALSE
    OBVIOUS
  <2>2. PICK k \in bad : \A i \in bad : k <= i
    <3>1. bad \in SUBSET Nat
      OBVIOUS
    <3>. HIDE DEF bad
    <3>. QED
      BY <2>1, <3>1, LeastNumber
  <2>. HIDE DEF Is
  <2>3. k \in Nat /\ k # 0
    BY <1>1
  <2>4. k - 1 \in Nat /\ k - 1 \notin bad /\ (k - 1) + 1 = k
    <3>. HIDE DEF bad
    <3>. QED
      BY <2>2, <2>3
  <2>5. PICK F : Is(F, k - 1)
    BY <2>4
  <2>6. \E G : Is(G, k)
    BY <1>2, <2>4, <2>5
  <2>. QED
    BY <2>6
<1>4. PICK F : Is(F, N)
  <2>. HIDE DEF Is
  <2>. QED
    BY <1>3
<1>. QED
  BY <1>4 DEF Rounds

\* Its rounds are as many as there are entries, each from where the last one left off.
BudgetRun(st, f, all) ==
  /\ all = Cardinality(Log!Stored(st.log)) /\ Log!enforceBudget(st) = f[all] /\ f[0] = st
  /\ \A k \in 0..all : k # 0 => f[k] = Log!Round(f[k - 1])
LEMMA BudgetRounds ==
  ASSUME NEW n, NEW st, Numbered(st.log, n)
  PROVE  \E all \in Nat : \E f : BudgetRun(st, f, all)
<1>. DEFINE all == Log!Cardinality(Log!Stored(st.log))
            f == CHOOSE F : Rounds(F, st, all)
<1>1. Log!enforceBudget(st) = f[all]
  BY DEF Log!enforceBudget, Rounds
<1>2. all \in Nat /\ all = Cardinality(Log!Stored(st.log))
  <2>1. IsFiniteSet(Log!Stored(st.log))
    BY StoredIsFinite
  <2>. QED
    BY <2>1, SameSizes, FS_CardinalityType
<1>. HIDE DEF all
<1>3. Rounds(f, st, all)
  BY <1>2, EvictionsExist
<1>. HIDE DEF f
<1>4. f[0] = st /\ \A k \in 0..all : k # 0 => f[k] = Log!Round(f[k - 1])
  BY <1>2, <1>3 DEF Rounds
<1>. QED
  BY <1>1, <1>2, <1>4 DEF BudgetRun

\* enforceBudget only ever sheds.
LEMMA BudgetSheds ==
  ASSUME NEW n, NEW st, Numbered(st.log, n), NEW out, out = Log!enforceBudget(st)
  PROVE  Numbered(out.log, n) /\ Sheds(st.log, out.log)
<1>1. PICK all \in Nat : \E f : BudgetRun(st, f, all)
  BY BudgetRounds
<1>2. PICK f : /\ out = f[all] /\ f[0] = st
               /\ \A k \in 0..all : k # 0 => f[k] = Log!Round(f[k - 1])
  BY <1>1 DEF BudgetRun
<1>3. ASSUME NEW x, Numbered(x.log, n) PROVE Numbered(Log!Round(x).log, n) /\ Sheds(x.log, Log!Round(x).log)
  <2>1. CASE Log!OverBudget(x)
    <3>1. Log!Present(x.log) # {}
      BY <2>1 DEF Log!OverBudget
    <3>2. Log!Round(x) = Log!EvictFront(x, Log!Oldest(x.log))
      BY <2>1 DEF Log!Round
    <3>. QED
      BY <1>3, <3>1, <3>2, EvictionSheds
  <2>2. CASE ~Log!OverBudget(x)
    BY <1>3, <2>2 DEF Sheds, Log!Round
  <2>. QED
    BY <2>1, <2>2
<1>. DEFINE Fine(k) == Numbered(f[k].log, n) /\ Sheds(st.log, f[k].log)
            bad == {k \in 0..all : ~Fine(k)}
<1>4. bad = {}
  <2>1. SUFFICES ASSUME bad # {} PROVE FALSE
    OBVIOUS
  <2>2. PICK k \in bad : \A i \in bad : k <= i
    <3>1. bad \in SUBSET Nat
      OBVIOUS
    <3>. HIDE DEF bad
    <3>. QED
      BY <2>1, <3>1, LeastNumber
  <2>3. Fine(0)
    BY <1>2 DEF Sheds
  <2>. HIDE DEF Fine
  <2>4. k \in 0..all /\ k # 0
    BY <2>3
  <2>5. k - 1 \in 0..all /\ k - 1 \notin bad
    <3>. HIDE DEF bad
    <3>. QED
      BY <1>2, <2>2, <2>4
  <2>6. Fine(k - 1)
    BY <2>5
  <2>7. f[k] = Log!Round(f[k - 1])
    BY <1>2, <2>4
  <2>8. Fine(k)
    BY <1>3, <2>6, <2>7, ShedsMore DEF Fine
  <2>. QED
    BY <2>8
<1>. QED
  BY <1>2, <1>4

\* Taking the oldest entry gives back what it was charged, and the overhead of the last one.
LEMMA EvictionBalances ==
  ASSUME NEW n, NEW x, Numbered(x.log, n), Log!Present(x.log) # {},
         x.bytes = Log!Accounted(x.log),
         NEW y, y = Log!EvictFront(x, Log!Oldest(x.log))
  PROVE  /\ y.bytes = Log!Accounted(y.log)
         /\ Cardinality(Log!Stored(y.log)) = Cardinality(Log!Stored(x.log)) - 1
<1>. DEFINE l == x.log
            s == Log!Oldest(l)
            m == y.log
            e == Head(l[s])
<1>1. /\ y.log = [l EXCEPT ![s] = Tail(@)]
      /\ y.bytes = x.bytes - e.b - (IF Tail(l[s]) = <<>> THEN Log!subjectOverheadBytes ELSE 0)
  BY DEF Log!EvictFront
<1>2. s \in Subjects /\ l[s] # <<>> /\ l \in Rings /\ m \in Rings
  <2>1. s \in Log!Present(l) /\ Numbered(l, n)
    BY OldestIs
  <2>2. Numbered(m, n)
    BY EvictionSheds
  <2>. HIDE DEF l, m, s
  <2>. QED
    BY <2>1, <2>2 DEF Log!Present, Numbered
<1>3. m[s] = Tail(l[s]) /\ \A o \in Subjects : o # s => m[o] = l[o]
  BY <1>1, <1>2 DEF Rings
<1>4. Numbered(l, n) /\ x.bytes = Log!Accounted(l)
  OBVIOUS
<1>. HIDE DEF l, s, m
<1>5. /\ Log!Accounted(m) = Log!Accounted(l) - e.b - (IF Tail(l[s]) = <<>> THEN 256 ELSE 0)
      /\ Cardinality(Log!Stored(m)) = Cardinality(Log!Stored(l)) - 1
  BY <1>2, <1>3, <1>4, TailAccounts
<1>. QED
  BY <1>1, <1>4, <1>5 DEF l, m, Log!subjectOverheadBytes

\* enforceBudget leaves books that balance and, as a round takes an entry, are within the budget.
LEMMA BudgetBalances ==
  ASSUME NEW n, NEW st, Numbered(st.log, n), st.bytes = Log!Accounted(st.log),
         NEW out, out = Log!enforceBudget(st)
  PROVE  out.bytes = Log!Accounted(out.log) /\ out.bytes <= MaxEventBytes
<1>1. PICK all \in Nat : \E f : BudgetRun(st, f, all)
  BY BudgetRounds
<1>2. PICK f : /\ all = Cardinality(Log!Stored(st.log)) /\ out = f[all] /\ f[0] = st
               /\ \A k \in 0..all : k # 0 => f[k] = Log!Round(f[k - 1])
  BY <1>1 DEF BudgetRun
<1>. DEFINE Size(x) == Cardinality(Log!Stored(x.log))
            Books(x) == Numbered(x.log, n) /\ x.bytes = Log!Accounted(x.log)
            Fine(k) == Books(f[k]) /\ (Log!OverBudget(f[k]) => Size(f[k]) + k = all)
            bad == {k \in 0..all : ~Fine(k)}
<1>3. ASSUME NEW x, Books(x), Log!OverBudget(x)
      PROVE  Books(Log!Round(x)) /\ Size(Log!Round(x)) = Size(x) - 1
  <2>1. Log!Present(x.log) # {} /\ Log!Round(x) = Log!EvictFront(x, Log!Oldest(x.log))
    BY <1>3 DEF Log!OverBudget, Log!Round
  <2>. QED
    BY <1>3, <2>1, EvictionSheds, EvictionBalances
<1>4. ASSUME NEW x, Books(x) PROVE Size(x) \in Nat
  BY <1>4, StoredIsFinite, FS_CardinalityType
<1>5. bad = {}
  <2>1. SUFFICES ASSUME bad # {} PROVE FALSE
    OBVIOUS
  <2>2. PICK k \in bad : \A i \in bad : k <= i
    <3>1. bad \in SUBSET Nat
      OBVIOUS
    <3>. HIDE DEF bad
    <3>. QED
      BY <2>1, <3>1, LeastNumber
  <2>3. Fine(0)
    BY <1>2
  <2>. HIDE DEF Fine, Books, Size
  <2>4. k \in 0..all /\ k # 0
    BY <2>3
  <2>5. k - 1 \in 0..all /\ k - 1 \notin bad
    <3>. HIDE DEF bad
    <3>. QED
      BY <1>2, <2>2, <2>4
  <2>6. Fine(k - 1)
    BY <2>5
  <2>7. f[k] = Log!Round(f[k - 1])
    BY <1>2, <2>4
  <2>8. CASE Log!OverBudget(f[k - 1])
    <3>1. Books(f[k]) /\ Size(f[k]) = Size(f[k - 1]) - 1 /\ Size(f[k - 1]) + (k - 1) = all
      BY <1>3, <2>6, <2>7, <2>8 DEF Fine
    <3>2. Size(f[k - 1]) \in Nat
      BY <1>4, <2>6 DEF Fine
    <3>3. Fine(k)
      BY <2>4, <3>1, <3>2 DEF Fine
    <3>. QED
      BY <3>3
  <2>9. CASE ~Log!OverBudget(f[k - 1])
    <3>1. f[k] = f[k - 1]
      BY <2>7, <2>9 DEF Log!Round
    <3>2. Fine(k)
      BY <2>6, <2>9, <3>1 DEF Fine
    <3>. QED
      BY <3>2
  <2>. QED
    BY <2>8, <2>9
<1>6. Books(out) /\ (Log!OverBudget(out) => Size(out) = 0)
  <2>1. Fine(all)
    BY <1>2, <1>5
  <2>. HIDE DEF Books, Size
  <2>2. Books(out) /\ (Log!OverBudget(out) => Size(out) + all = all)
    BY <1>2, <2>1
  <2>. QED
    BY <1>4, <2>2
<1>7. ~Log!OverBudget(out)
  <2>1. SUFFICES ASSUME Log!OverBudget(out) PROVE FALSE
    OBVIOUS
  <2>2. Log!Stored(out.log) = {}
    BY <1>6, <2>1, StoredIsFinite, FS_EmptySet
  <2>3. PICK s \in Subjects : out.log[s] # <<>>
    BY <2>1 DEF Log!OverBudget, Log!Present
  <2>4. out.log \in Rings
    BY <1>6 DEF Numbered
  <2>5. 1 \in DOMAIN out.log[s]
    BY <2>3, <2>4, StoredIs, EmptySeq
  <2>6. <<s, out.log[s][1]>> \in Log!Stored(out.log)
    BY <2>4, <2>5, StoredIs
  <2>. QED
    BY <2>2, <2>6
<1>8. out.bytes <= MaxEventBytes
  <2>1. CASE Log!Present(out.log) = {}
    <3>1. out.log \in Rings
      BY <1>6 DEF Numbered
    <3>2. out.bytes = 0
      BY <1>6, <2>1, <3>1, NothingStored
    <3>. QED
      BY <3>2, EvidenceAssumption
  <2>2. CASE Log!Present(out.log) # {}
    <3>1. ~(out.bytes > MaxEventBytes)
      BY <1>7, <2>2 DEF Log!OverBudget
    <3>2. Log!Accounted(out.log) \in Int
      <4>1. IsFiniteSet(Log!Stored(out.log)) /\ \A z \in Log!Stored(out.log) : z[2].b \in Int
        BY <1>6, StoredIsFinite
      <4>2. Log!Charge(Log!Stored(out.log)) \in Int
        BY <4>1, ChargesAddUp
      <4>3. Log!Cardinality(Log!Present(out.log)) \in Nat
        BY <1>6, SameSizes, StoredIsFinite
      <4>. QED
        BY <4>2, <4>3 DEF Log!Accounted, Log!subjectOverheadBytes
    <3>3. MaxEventBytes \in Nat
      BY EvidenceAssumption
    <3>. QED
      BY <1>6, <3>1, <3>2, <3>3
  <2>. QED
    BY <2>1, <2>2
<1>. QED
  BY <1>6, <1>8

\* The rings are empty to begin with.
LEMMA LogInit == Log!Init => LogInv
<1>. SUFFICES ASSUME Log!Init PROVE LogInv
  OBVIOUS
<1>1. db = [s \in Subjects |-> <<>>] /\ run = 0
  BY DEF Log!Init
<1>2. db \in Rings
  BY <1>1, EmptySeq DEF Rings
<1>3. \A s \in Subjects : DOMAIN db[s] = {} /\ Len(db[s]) = 0
  BY <1>1
<1>4. \A s \in Subjects : Log!Loads(db[s])
  <2>1. MaxEventsPerSubject \in Nat
    BY EvidenceAssumption
  <2>. QED
    BY <1>3, <2>1 DEF Log!Loads
<1>5. Balanced(db, hour)
  <2>1. Log!Present(db) = {} /\ hour = 0
    BY <1>1 DEF Log!Init, Log!Present
  <2>2. MaxEventBytes \in Nat
    BY EvidenceAssumption
  <2>. QED
    BY <1>2, <2>1, <2>2, NothingStored DEF Balanced
<1>. QED
  BY <1>1, <1>2, <1>3, <1>4, <1>5 DEF LogInv, Numbered

\* The newest of the entries that match is one of them.
LEMMA NewestMatch ==
  ASSUME NEW k \in Nat, NEW S \in SUBSET (1..k), S # {}
  PROVE  Log!Max(S) \in S
<1>1. IsFiniteSet(S)
  <2>1. 1 \in Int /\ k \in Int
    OBVIOUS
  <2>2. IsFiniteSet(1..k)
    BY <2>1, FS_Interval
  <2>. QED
    BY <2>2, FS_Subset
<1>2. [i \in S |-> i] \in [S -> Int]
  OBVIOUS
<1>3. PICK m \in S : \A j \in S : [i \in S |-> i][j] <= [i \in S |-> i][m]
  BY <1>1, <1>2, Highest
<1>4. \A j \in S : m >= j
  BY <1>3
<1>. QED
  BY <1>3, <1>4 DEF Log!Max

\* An entry that takes another's place and number is charged instead of it.
LEMMA ReplacedStored ==
  ASSUME NEW n, NEW l, Numbered(l, n), NEW s \in Subjects, NEW i \in DOMAIN l[s],
         NEW e \in Entries, e.seq = l[s][i].seq,
         NEW m \in Rings, DOMAIN m[s] = DOMAIN l[s],
         \A j \in DOMAIN l[s] : m[s][j] = IF j = i THEN e ELSE l[s][j],
         \A o \in Subjects : o # s => m[o] = l[o]
  PROVE  Log!Accounted(m) = Log!Accounted(l) + e.b - l[s][i].b
<1>. DEFINE was0 == <<s, l[s][i]>>
            now == <<s, e>>
            rest == Log!Stored(l) \ {was0}
<1>1. l \in Rings
  BY DEF Numbered
<1>2. \A j \in DOMAIN l[s] : j # i => l[s][j].seq # l[s][i].seq
  <2>1. \A j, k \in DOMAIN l[s] : j < k => l[s][j].seq < l[s][k].seq
    BY DEF Numbered, Log!Loads
  <2>2. \A j \in DOMAIN l[s] : l[s][j].seq \in Nat /\ j \in Nat
    <3>1. DOMAIN l[s] = 1..Len(l[s]) /\ Len(l[s]) \in Nat /\ \A j \in DOMAIN l[s] : l[s][j] \in Entries
      BY <1>1, StoredIs
    <3>. QED
      BY <3>1 DEF Entries
  <2>3. \A j \in DOMAIN l[s] : j # i => j < i \/ i < j
    BY <2>2
  <2>. QED
    BY <2>1, <2>2, <2>3
<1>3. ASSUME NEW x
      PROVE  /\ x \in Log!Stored(l) => x = <<x[1], x[2]>>
             /\ x \in Log!Stored(m) => x = <<x[1], x[2]>>
  BY <1>1, StoredIs
<1>4. ASSUME NEW o, NEW x
      PROVE  /\ <<o, x>> \in Log!Stored(m) <=> (o \in Subjects /\ \E j \in DOMAIN m[o] : x = m[o][j])
             /\ <<o, x>> \in Log!Stored(l) <=> (o \in Subjects /\ \E j \in DOMAIN l[o] : x = l[o][j])
  <2>1. <<o, x>> \in Log!Stored(m) <=> (o \in Subjects /\ \E j \in DOMAIN m[o] : x = m[o][j])
    BY StoredIs
  <2>2. <<o, x>> \in Log!Stored(l) <=> (o \in Subjects /\ \E j \in DOMAIN l[o] : x = l[o][j])
    BY <1>1, StoredIs
  <2>. QED
    BY <2>1, <2>2
<1>5. was0 \in Log!Stored(l) /\ now \in Log!Stored(m)
  BY <1>4
<1>6. now \notin rest
  <2>1. ASSUME <<s, e>> \in Log!Stored(l) PROVE e = l[s][i]
    <3>1. PICK j \in DOMAIN l[s] : e = l[s][j]
      BY <1>4, <2>1
    <3>. QED
      BY <1>2, <3>1
  <2>. QED
    BY <2>1
<1>7. Log!Stored(m) = rest \cup {now}
  <2>1. ASSUME NEW o, NEW x, <<o, x>> \in Log!Stored(m)
        PROVE  <<o, x>> \in rest \/ <<o, x>> = now
    <3>1. PICK j \in DOMAIN m[o] : x = m[o][j] /\ o \in Subjects
      BY <1>4, <2>1
    <3>2. CASE o # s
      <4>1. x = l[o][j] /\ j \in DOMAIN l[o]
        BY <3>1, <3>2
      <4>2. <<o, x>> \in Log!Stored(l)
        BY <1>4, <3>1, <4>1
      <4>. QED
        BY <3>2, <4>2
    <3>3. CASE o = s /\ j = i
      BY <3>1, <3>3
    <3>4. CASE o = s /\ j # i
      <4>1. j \in DOMAIN l[s] /\ x = l[s][j]
        BY <3>1, <3>4
      <4>2. <<o, x>> \in Log!Stored(l)
        BY <1>4, <3>1, <3>4, <4>1
      <4>3. x # l[s][i]
        BY <1>2, <3>4, <4>1
      <4>. QED
        BY <3>4, <4>2, <4>3
    <3>. QED
      BY <3>2, <3>3, <3>4
  <2>2. ASSUME NEW o, NEW x, <<o, x>> \in rest PROVE <<o, x>> \in Log!Stored(m)
    <3>1. PICK j \in DOMAIN l[o] : x = l[o][j] /\ o \in Subjects
      BY <1>4, <2>2
    <3>2. ~(o = s /\ j = i)
      BY <2>2, <3>1
    <3>3. j \in DOMAIN m[o] /\ x = m[o][j]
      BY <3>1, <3>2
    <3>. QED
      BY <1>4, <3>1, <3>3
  <2>. HIDE DEF now, rest
  <2>3. ASSUME NEW x PROVE x \in Log!Stored(m) => x \in rest \/ x = now
    BY <1>3, <2>1
  <2>4. ASSUME NEW x \in rest PROVE x \in Log!Stored(m)
    <3>1. x \in Log!Stored(l)
      BY DEF rest
    <3>. QED
      BY <1>3, <2>2, <3>1
  <2>. QED
    BY <1>5, <2>3, <2>4
<1>8. Log!Present(m) = Log!Present(l)
  <2>1. m[s] # <<>> /\ l[s] # <<>>
    OBVIOUS
  <2>. QED
    BY <2>1 DEF Log!Present
<1>9. /\ IsFiniteSet(Log!Stored(l)) /\ IsFiniteSet(Log!Present(l))
      /\ \A x \in Log!Stored(l) : x[2].b \in Int
  BY StoredIsFinite
<1>10. /\ now[2].b = e.b /\ was0[2].b = l[s][i].b /\ e.b \in Int /\ l[s][i].b \in Int
  <2>1. l[s][i] \in Entries
    BY <1>1, StoredIs
  <2>. QED
    BY <2>1 DEF Entries
<1>. HIDE DEF was0, now
<1>11. /\ rest \subseteq Log!Stored(l) /\ rest \cup {was0} = Log!Stored(l)
  BY <1>5
<1>12. Log!Charge(Log!Stored(l)) = Log!Charge(rest) + l[s][i].b
  <2>1. rest \in SUBSET Log!Stored(l) /\ was0 \in Log!Stored(l) \ rest
    BY <1>5
  <2>2. Log!Charge(rest \cup {was0}) = Log!Charge(rest) + was0[2].b
    BY <1>9, <2>1, ChargesAddUp
  <2>. QED
    BY <1>10, <1>11, <2>2
<1>. HIDE DEF rest
<1>13. IsFiniteSet(Log!Stored(m)) /\ \A x \in Log!Stored(m) : x[2].b \in Int
  <2>1. IsFiniteSet(rest)
    BY <1>9, <1>11, FS_Subset
  <2>. QED
    BY <1>7, <1>9, <1>10, <1>11, <2>1, FS_AddElement
<1>14. Log!Charge(Log!Stored(m)) = Log!Charge(rest) + e.b /\ Log!Charge(rest) \in Int
  <2>1. rest \in SUBSET Log!Stored(m) /\ now \in Log!Stored(m) \ rest
    BY <1>5, <1>6, <1>7
  <2>2. Log!Charge(rest \cup {now}) = Log!Charge(rest) + now[2].b /\ Log!Charge(rest) \in Int
    BY <1>13, <2>1, ChargesAddUp
  <2>. QED
    BY <1>7, <1>10, <2>2
<1>15. /\ Log!Accounted(l) = Log!Charge(Log!Stored(l)) + 256 * Cardinality(Log!Present(l))
       /\ Cardinality(Log!Present(l)) \in Nat
  BY <1>9, AccountedIsInt
<1>16. Log!Accounted(m) = Log!Charge(Log!Stored(m)) + 256 * Cardinality(Log!Present(l))
  BY <1>8, <1>9, <1>13, AccountedIsInt
<1>. QED
  BY <1>10, <1>12, <1>14, <1>15, <1>16

\* Folding changes nothing an entry is numbered by.
LEMMA FoldKeeps ==
  ASSUME LogInv, NEW s \in Subjects, NEW key \in Keys, NEW at \in 0..MaxHour,
         NEW severity \in Log!Severities, Log!Fold(s, key, at, severity)
  PROVE  LogInv' /\ run' = run
<1>. DEFINE i == Log!Max(Log!Matches(s, key, at))
            e == db[s][i]
            raised == IF severity = "critical" THEN severity ELSE e.severity
            new == [e EXCEPT !.at = IF at > @ THEN at ELSE @, !.severity = raised,
                             !.b = Log!eventBytes(raised)]
            l == [db EXCEPT ![s][i] = new]
            st == [log |-> l, bytes |-> hour + new.b - e.b]
<1>1. /\ db' = Log!enforceBudget(st).log /\ hour' = Log!enforceBudget(st).bytes
      /\ run' = run /\ Log!Matches(s, key, at) # {}
  BY DEF Log!Fold, Log!Commit
<1>2. db \in Rings /\ db[s] \in Seq(Entries) /\ DOMAIN db[s] = 1..Len(db[s]) /\ Len(db[s]) \in Nat
  BY LenProperties DEF LogInv, Numbered, Rings
<1>3. i \in DOMAIN db[s]
  <2>1. Log!Matches(s, key, at) \in SUBSET (1..Len(db[s]))
    BY <1>2 DEF Log!Matches
  <2>2. i \in Log!Matches(s, key, at)
    BY <1>1, <1>2, <2>1, NewestMatch
  <2>. QED
    BY <2>2 DEF Log!Matches
<1>. HIDE DEF i
<1>4. e \in Entries
  BY <1>2, <1>3, ElementOfSeq
<1>5. new \in Entries /\ new.seq = e.seq
  <2>1. raised \in Log!Severities
    BY <1>4 DEF Entries
  <2>2. Log!eventBytes(raised) \in Nat
    BY <2>1 DEF Log!eventBytes, Log!eventFixedBytes
  <2>3. at \in Nat
    BY EvidenceAssumption
  <2>. QED
    BY <1>4, <2>1, <2>2, <2>3 DEF Entries
<1>. HIDE DEF new
<1>6. /\ l \in Rings
      /\ \A o \in Subjects : Len(l[o]) = Len(db[o]) /\ DOMAIN l[o] = DOMAIN db[o]
      /\ \A o \in Subjects : \A j \in DOMAIN db[o] : l[o][j].seq = db[o][j].seq
      /\ \A j \in DOMAIN db[s] : l[s][j] = IF j = i THEN new ELSE db[s][j]
      /\ \A o \in Subjects : o # s => l[o] = db[o]
  <2>1. \A o \in Subjects : o # s => l[o] = db[o]
    BY <1>2 DEF Rings
  <2>2. l[s] = [db[s] EXCEPT ![i] = new]
    BY <1>2 DEF Rings
  <2>3. l[s] \in Seq(Entries) /\ Len(l[s]) = Len(db[s]) /\ DOMAIN l[s] = DOMAIN db[s]
        /\ \A j \in DOMAIN db[s] : l[s][j] = IF j = i THEN new ELSE db[s][j]
    BY <1>2, <1>3, <1>5, <2>2, ExceptSeq, LenProperties
  <2>4. l \in Rings
    BY <1>2, <2>3 DEF Rings
  <2>. QED
    BY <1>5, <2>1, <2>3, <2>4
<1>. HIDE DEF l
<1>7. Numbered(l, run)
  BY <1>6 DEF LogInv, Numbered, Log!Loads
<1>8. Numbered(st.log, run) /\ st.log = l /\ st.bytes = hour + new.b - e.b
  BY <1>7
<1>. HIDE DEF st
<1>9. st.bytes = Log!Accounted(st.log)
  <2>1. Log!Accounted(l) = Log!Accounted(db) + new.b - e.b
    <3>1. Numbered(db, run)
      BY DEF LogInv
    <3>. QED
      BY <1>3, <1>5, <1>6, <3>1, ReplacedStored
  <2>. QED
    BY <1>8, <2>1 DEF LogInv, Balanced
<1>10. Numbered(db', run)
  BY <1>1, <1>8, BudgetSheds
<1>11. hour' = Log!Accounted(db') /\ hour' <= MaxEventBytes
  BY <1>1, <1>8, <1>9, BudgetBalances
<1>. QED
  BY <1>1, <1>10, <1>11 DEF LogInv, Numbered, Balanced

\* A new entry takes the next number, and what goes for it is the oldest of all, or the oldest
\* of its own subject when that is full.
LEMMA StoreKeeps ==
  ASSUME LogInv, NEW s \in Subjects, NEW key \in Keys, NEW at \in 0..MaxHour,
         NEW severity \in Log!Severities, Log!Store(s, key, at, severity)
  PROVE  LogInv' /\ Log!TakesTheOldest
<1>. DEFINE e == [key |-> key, at |-> at, severity |-> severity,
                  seq |-> run + 1, b |-> Log!eventBytes(severity)]
            full == Len(db[s]) >= MaxEventsPerSubject
            kept == IF full THEN Tail(db[s]) ELSE db[s]
            l == [db EXCEPT ![s] = Append(kept, e)]
            st == [log |-> l,
                   bytes |-> hour + e.b - (IF full THEN Head(db[s]).b ELSE 0)
                             + (IF db[s] = <<>> THEN Log!subjectOverheadBytes ELSE 0)]
<1>1. db' = Log!enforceBudget(st).log /\ hour' = Log!enforceBudget(st).bytes /\ run' = run + 1
  BY DEF Log!Store, Log!Commit
<1>2. /\ db \in Rings /\ db[s] \in Seq(Entries) /\ DOMAIN db[s] = 1..Len(db[s]) /\ Len(db[s]) \in Nat
      /\ run \in Nat /\ Len(db[s]) <= MaxEventsPerSubject /\ MaxEventsPerSubject \in Nat \ {0}
  BY LenProperties, EvidenceAssumption DEF LogInv, Numbered, Rings, Log!Loads
<1>3. e \in Entries /\ e.seq = run + 1
  <2>1. Log!eventBytes(severity) \in Nat
    BY DEF Log!eventBytes, Log!eventFixedBytes
  <2>2. at \in Nat
    BY EvidenceAssumption
  <2>. QED
    BY <1>2, <2>1, <2>2 DEF Entries
<1>. HIDE DEF e
<1>4. /\ kept \in Seq(Entries) /\ Len(kept) < MaxEventsPerSubject
      /\ Len(kept) \in Nat /\ DOMAIN kept = 1..Len(kept)
      /\ \A i \in DOMAIN kept :
           kept[i] = (IF full THEN db[s][i + 1] ELSE db[s][i])
           /\ (IF full THEN i + 1 ELSE i) \in DOMAIN db[s]
  <2>1. CASE full
    <3>1. db[s] # <<>>
      BY <1>2, <2>1
    <3>. QED
      BY <1>2, <2>1, <3>1, HeadTailProperties, LenProperties
  <2>2. CASE ~full
    BY <1>2, <2>2
  <2>. QED
    BY <2>1, <2>2
<1>5. \A i \in DOMAIN db[s] : db[s][i] \in Entries
  BY <1>2, ElementOfSeq
<1>6. /\ \A i \in DOMAIN kept : \E j \in DOMAIN db[s] : kept[i] = db[s][j]
      /\ \A i, j \in DOMAIN kept : i < j => kept[i].seq < kept[j].seq
  <2>1. Log!Loads(db[s])
    BY DEF LogInv, Numbered
  <2>2. \A i, j \in DOMAIN kept : i < j => kept[i].seq < kept[j].seq
    <3>1. CASE full
      <4>1. \A i, j \in DOMAIN kept : i < j => i + 1 < j + 1
        BY <1>4
      <4>. QED
        BY <1>4, <2>1, <3>1, <4>1 DEF Log!Loads
    <3>2. CASE ~full
      BY <1>4, <2>1, <3>2 DEF Log!Loads
    <3>. QED
      BY <3>1, <3>2
  <2>. QED
    BY <1>4, <2>2
<1>7. \A i \in DOMAIN db[s] : i \notin DOMAIN kept \/ kept[i] # db[s][i] => full
  BY <1>2, <1>4
<1>8. \A i \in DOMAIN db[s] : full /\ i # 1 => i - 1 \in DOMAIN kept /\ kept[i - 1] = db[s][i]
  <2>1. full => Len(kept) = Len(db[s]) - 1
    <3>1. full => db[s] # <<>>
      BY <1>2
    <3>. QED
      BY <1>2, <3>1, HeadTailProperties
  <2>. HIDE DEF kept, full
  <2>2. \A i \in DOMAIN db[s] : full /\ i # 1 => i - 1 \in DOMAIN kept /\ (i - 1) + 1 = i
    BY <1>2, <1>4, <2>1
  <2>. QED
    BY <1>4, <2>2
<1>. DEFINE rest == [db EXCEPT ![s] = kept]
<1>9. /\ rest \in Rings /\ rest[s] = kept /\ \A o \in Subjects : o # s => rest[o] = db[o]
      /\ full => kept = Tail(db[s]) /\ db[s] # <<>>
      /\ ~full => rest = db
  <2>1. rest \in Rings /\ rest[s] = kept /\ \A o \in Subjects : o # s => rest[o] = db[o]
    BY <1>2, <1>4 DEF Rings
  <2>2. full => kept = Tail(db[s]) /\ db[s] # <<>>
    BY <1>2
  <2>3. ASSUME ~full PROVE rest = db
    BY <1>2, <2>3 DEF Rings
  <2>. QED
    BY <2>1, <2>2, <2>3
<1>. HIDE DEF kept
<1>10. /\ Append(kept, e) \in Seq(Entries) /\ Len(Append(kept, e)) = Len(kept) + 1
       /\ DOMAIN Append(kept, e) = 1..(Len(kept) + 1)
       /\ \A i \in DOMAIN kept : Append(kept, e)[i] = kept[i]
       /\ Append(kept, e)[Len(kept) + 1] = e
  BY <1>3, <1>4, AppendProperties, LenProperties
<1>11. l \in Rings /\ l[s] = Append(kept, e) /\ \A o \in Subjects : o # s => l[o] = db[o]
  BY <1>2, <1>10 DEF Rings
<1>. HIDE DEF l
<1>12. \A o \in Subjects : \A i \in DOMAIN l[o] :
         \/ \E j \in DOMAIN db[o] : l[o][i] = db[o][j]
         \/ o = s /\ i = Len(kept) + 1 /\ l[o][i] = e
  <2>1. \A i \in DOMAIN l[s] : i \in DOMAIN kept \/ i = Len(kept) + 1
    BY <1>4, <1>10, <1>11
  <2>. QED
    BY <1>6, <1>10, <1>11, <2>1
<1>13. \A o \in Subjects : \A j \in DOMAIN db[o] : db[o][j].seq <= run /\ db[o][j].seq \in Nat
  <2>1. \A o \in Subjects : db[o] \in Seq(Entries)
    BY <1>2 DEF Rings
  <2>2. \A o \in Subjects : \A j \in DOMAIN db[o] : db[o][j] \in Entries
    BY <2>1, LenProperties, ElementOfSeq
  <2>. QED
    BY <2>2 DEF LogInv, Numbered, Entries
<1>14. Numbered(l, run + 1)
  <2>1. \A o \in Subjects : Log!Loads(l[o])
    <3>1. ASSUME NEW i \in DOMAIN l[s], NEW j \in DOMAIN l[s], i < j PROVE l[s][i].seq < l[s][j].seq
      <4>1. i \in DOMAIN kept
        BY <1>4, <1>10, <1>11, <3>1
      <4>2. CASE j \in DOMAIN kept
        BY <1>6, <1>10, <1>11, <3>1, <4>1, <4>2
      <4>3. CASE j \notin DOMAIN kept
        <5>1. l[s][j] = e
          BY <1>4, <1>10, <1>11, <4>3
        <5>2. l[s][i].seq <= run /\ l[s][i].seq \in Nat
          BY <1>6, <1>10, <1>11, <1>13, <4>1
        <5>. QED
          BY <1>2, <1>3, <5>1, <5>2
      <4>. QED
        BY <4>2, <4>3
    <3>2. Len(l[s]) <= MaxEventsPerSubject
      BY <1>2, <1>4, <1>10, <1>11
    <3>3. \A o \in Subjects : o # s => Log!Loads(l[o])
      BY <1>11 DEF LogInv, Numbered
    <3>. QED
      BY <3>1, <3>2, <3>3 DEF Log!Loads
  <2>2. ASSUME NEW o \in Subjects, NEW t \in Subjects, NEW i \in DOMAIN l[o], NEW j \in DOMAIN l[t],
               l[o][i].seq = l[t][j].seq
        PROVE  o = t
    <3>1. CASE o = s /\ l[o][i] = e
      BY <1>2, <1>3, <1>12, <1>13, <2>2, <3>1
    <3>2. CASE t = s /\ l[t][j] = e
      BY <1>2, <1>3, <1>12, <1>13, <2>2, <3>2
    <3>3. CASE (\E k \in DOMAIN db[o] : l[o][i] = db[o][k]) /\ (\E k \in DOMAIN db[t] : l[t][j] = db[t][k])
      BY <2>2, <3>3 DEF LogInv, Numbered
    <3>. QED
      BY <1>12, <3>1, <3>2, <3>3
  <2>3. \A o \in Subjects : \A i \in DOMAIN l[o] : l[o][i].seq <= run + 1
    BY <1>2, <1>3, <1>12, <1>13
  <2>. QED
    BY <1>11, <2>1, <2>2, <2>3 DEF Numbered
<1>15. /\ Numbered(st.log, run + 1) /\ st.log = l
       /\ st.bytes = hour + e.b - (IF full THEN Head(db[s]).b ELSE 0)
                      + (IF db[s] = <<>> THEN 256 ELSE 0)
  BY <1>14 DEF Log!subjectOverheadBytes
<1>. HIDE DEF st, rest
<1>16. Log!Accounted(l) = Log!Accounted(rest) + e.b + (IF kept = <<>> THEN 256 ELSE 0)
  <2>1. IsFiniteSet(Log!Stored(rest)) /\ IsFiniteSet(Log!Present(rest))
    <3>1. Numbered(db, run)
      BY DEF LogInv
    <3>2. CASE full
      BY <1>9, <3>1, <3>2, TailAccounts
    <3>3. CASE ~full
      BY <1>9, <3>1, <3>3, StoredIsFinite
    <3>. QED
      BY <3>2, <3>3
  <2>2. \A i \in DOMAIN rest[s] : rest[s][i].seq # e.seq
    BY <1>2, <1>3, <1>6, <1>13, <1>9
  <2>3. l[s] = Append(rest[s], e) /\ \A o \in Subjects : o # s => l[o] = rest[o]
    BY <1>11, <1>9
  <2>. QED
    BY <1>3, <1>11, <1>9, <2>1, <2>2, <2>3, AppendAccounts
<1>17. st.bytes = Log!Accounted(st.log)
  <2>1. hour = Log!Accounted(db) /\ Numbered(db, run)
    BY DEF LogInv, Balanced
  <2>2. e.b \in Int
    BY <1>3 DEF Entries
  <2>3. CASE full
    <3>1. /\ Log!Accounted(rest) = hour - Head(db[s]).b - (IF kept = <<>> THEN 256 ELSE 0)
          /\ hour \in Int
      <4>1. kept = Tail(db[s]) /\ db[s] # <<>> /\ rest[s] = Tail(db[s]) /\ rest \in Rings
        BY <1>9, <2>3
      <4>2. \A o \in Subjects : o # s => rest[o] = db[o]
        BY <1>9
      <4>3. /\ Log!Accounted(rest) = Log!Accounted(db) - Head(db[s]).b
                                      - (IF Tail(db[s]) = <<>> THEN 256 ELSE 0)
            /\ Log!Accounted(db) \in Int
        BY <2>1, <4>1, <4>2, TailAccounts
      <4>. QED
        BY <2>1, <4>1, <4>3
    <3>2. Head(db[s]).b \in Int
      <4>1. Head(db[s]) \in Entries
        BY <1>9, <2>1, <2>3, TailStored
      <4>. QED
        BY <4>1 DEF Entries
    <3>3. st.bytes = hour + e.b - Head(db[s]).b
      BY <1>15, <1>9, <2>2, <2>3, <3>1, <3>2
    <3>. QED
      BY <1>15, <1>16, <2>2, <3>1, <3>2, <3>3
  <2>4. CASE ~full
    <3>1. hour \in Int
      <4>1. /\ IsFiniteSet(Log!Stored(db)) /\ IsFiniteSet(Log!Present(db))
            /\ \A z \in Log!Stored(db) : z[2].b \in Int
        BY <2>1, StoredIsFinite
      <4>. QED
        BY <2>1, <4>1, AccountedIsInt
    <3>2. rest = db /\ kept = db[s]
      BY <1>9, <2>4
    <3>3. st.bytes = hour + e.b + (IF db[s] = <<>> THEN 256 ELSE 0)
      BY <1>15, <2>2, <2>4, <3>1
    <3>. QED
      BY <1>15, <1>16, <2>1, <3>2, <3>3
  <2>. QED
    BY <2>3, <2>4
<1>18. Numbered(db', run + 1) /\ Sheds(l, db')
  BY <1>1, <1>15, BudgetSheds
<1>19. hour' = Log!Accounted(db') /\ hour' <= MaxEventBytes
  BY <1>1, <1>15, <1>17, BudgetBalances
<1>20. LogInv'
  BY <1>1, <1>2, <1>18, <1>19 DEF LogInv, Numbered, Balanced
<1>21. ASSUME NEW o \in Subjects, NEW lost \in Log!Seqs(db, o) \ Log!Seqs(db', o)
       PROVE  \/ Len(db[o]) = MaxEventsPerSubject /\ lost = Head(db[o]).seq
              \/ \A t \in Subjects : \A k \in Log!Seqs(db', t) : k > lost
  <2>1. CASE lost \in Log!Seqs(l, o)
    BY <1>18, <1>21, <2>1 DEF Sheds
  <2>2. CASE lost \notin Log!Seqs(l, o)
    <3>1. o = s
      BY <1>11, <1>21, <2>2, SeqsOf
    <3>2. PICK i \in DOMAIN db[s] : lost = db[s][i].seq
      BY <1>21, <3>1, SeqsOf
    <3>3. \A j \in DOMAIN kept : kept[j].seq \in Log!Seqs(l, s)
      BY <1>4, <1>10, <1>11, SeqsOf
    <3>4. full /\ i = 1
      BY <1>7, <1>8, <2>2, <3>1, <3>2, <3>3
    <3>. QED
      BY <1>2, <3>1, <3>2, <3>4
  <2>. QED
    BY <2>1, <2>2
<1>. QED
  BY <1>20, <1>21 DEF Log!TakesTheOldest

\* What is sifted out of a ring is a ring of its entries, in their order.
LEMMA SiftedKeeps ==
  ASSUME NEW ring \in Seq(Entries), Log!Loads(ring), NEW K \in SUBSET (DOMAIN ring),
         NEW r, r = Log!Sifted(ring, K)
  PROVE  r \in Seq(Entries) /\ Log!Loads(r) /\ \A n \in DOMAIN r : \E i \in K : r[n] = ring[i]
<1>. DEFINE below(i) == {j \in K : j <= i}
            g(n) == CHOOSE i \in K : Log!Cardinality(below(i)) = n
            size == Cardinality(K)
            at == [i \in K |-> i]
<1>1. DOMAIN ring = 1..Len(ring) /\ Len(ring) \in Nat
  BY LenProperties
<1>2. IsFiniteSet(K) /\ size \in Nat /\ size <= Len(ring)
  <2>1. 1 \in Int /\ Len(ring) \in Int
    BY <1>1
  <2>2. /\ IsFiniteSet(1..Len(ring))
        /\ Cardinality(1..Len(ring)) = IF 1 > Len(ring) THEN 0 ELSE Len(ring) - 1 + 1
    BY <2>1, FS_Interval
  <2>3. K \in SUBSET (1..Len(ring))
    BY <1>1
  <2>. QED
    BY <1>1, <2>2, <2>3, FS_Subset, FS_CardinalityType
<1>3. r = [n \in 1..size |-> ring[g(n)]]
  <2>1. r = [n \in 1..Log!Cardinality(K) |-> ring[g(n)]]
    BY DEF Log!Sifted
  <2>2. Log!Cardinality(K) = size
    BY SameSizes
  <2>. QED
    BY <2>1, <2>2
<1>4. \A n \in 1..size : g(n) \in K /\ Cardinality(below(g(n))) = n
  <2>1. ASSUME NEW n \in 1..size PROVE \E i \in K : Cardinality(below(i)) = n
    <3>1. at \in [K -> Int] /\ (\A i, j \in K : at[i] = at[j] => i = j)
      BY <1>1
    <3>. HIDE DEF at
    <3>2. PICK i \in K : Cardinality(UpTo(K, at, i)) = n
      BY <1>2, <3>1, Ranked
    <3>3. UpTo(K, at, i) = below(i)
      BY DEF at, UpTo
    <3>. QED
      BY <3>2, <3>3
  <2>2. ASSUME NEW n \in 1..size PROVE \E i \in K : Log!Cardinality(below(i)) = n
    BY <2>1, SameSizes
  <2>. HIDE DEF below
  <2>3. \A n \in 1..size : g(n) \in K /\ Log!Cardinality(below(g(n))) = n
    BY <2>2
  <2>. HIDE DEF g
  <2>. QED
    BY <2>3, SameSizes
<1>5. ASSUME NEW n \in 1..size, NEW m \in 1..size, n < m PROVE g(n) < g(m)
  <2>. HIDE DEF g, below
  <2>1. g(n) \in Nat /\ g(m) \in Nat
    BY <1>1, <1>4
  <2>. SUFFICES ASSUME g(m) <= g(n) PROVE FALSE
    BY <2>1
  <2>2. \A i \in K : i \in Nat
    BY <1>1
  <2>3. below(g(m)) \subseteq below(g(n)) /\ below(g(n)) \subseteq K
    BY <2>1, <2>2 DEF below
  <2>4. IsFiniteSet(below(g(n)))
    BY <1>2, <2>3, FS_Subset
  <2>5. Cardinality(below(g(m))) <= Cardinality(below(g(n)))
    BY <2>3, <2>4, FS_Subset
  <2>. QED
    BY <1>4, <1>5, <2>5
<1>. HIDE DEF g, size, at
<1>6. r \in Seq(Entries) /\ Len(r) = size /\ DOMAIN r = 1..size
  <2>1. \A n \in 1..size : ring[g(n)] \in Entries
    BY <1>1, <1>4, ElementOfSeq
  <2>2. r \in [1..size -> Entries]
    BY <1>3, <2>1
  <2>3. r \in Seq(Entries)
    BY <1>2, <2>2, SeqDef
  <2>. QED
    BY <1>2, <1>3, <2>3, LenProperties
<1>7. \A n \in DOMAIN r : r[n] = ring[g(n)] /\ g(n) \in K
  BY <1>3, <1>4, <1>6
<1>8. Log!Loads(r)
  <2>1. \A n, m \in DOMAIN r : n < m => r[n].seq < r[m].seq
    BY <1>4, <1>5, <1>6, <1>7 DEF Log!Loads
  <2>2. Len(r) <= MaxEventsPerSubject
    <3>1. Len(ring) <= MaxEventsPerSubject
      BY DEF Log!Loads
    <3>2. MaxEventsPerSubject \in Nat
      BY EvidenceAssumption
    <3>. QED
      BY <1>1, <1>2, <1>6, <3>1, <3>2
  <2>. QED
    BY <2>1, <2>2 DEF Log!Loads
<1>. QED
  BY <1>6, <1>7, <1>8

\* Pruning takes entries out of rings and leaves the rest in order.
LEMMA PruneKeeps ==
  ASSUME LogInv, NEW now, Log!Prune(now)
  PROVE  LogInv' /\ run' = run
<1>. DEFINE young(s) == {i \in DOMAIN db[s] : db[s][i].at >= now - MaxAge}
<1>1. /\ db' = [s \in Subjects |-> Log!Sifted(db[s], young(s))] /\ run' = run
      /\ hour' = hour - Log!Charge(Log!Stored(db) \ Log!Stored(db'))
                      - 256 * Log!Cardinality(Log!Present(db) \ Log!Present(db'))
  <2>. DEFINE left == [s \in Subjects |-> Log!Sifted(db[s], young(s))]
  <2>1. /\ db' = left /\ run' = run
        /\ hour' = hour - Log!Charge(Log!Stored(db) \ Log!Stored(left))
                        - Log!subjectOverheadBytes * Log!Cardinality(Log!Present(db) \ Log!Present(left))
    BY DEF Log!Prune
  <2>. HIDE DEF left
  <2>. QED
    BY <2>1 DEF left, Log!subjectOverheadBytes
<1>2. ASSUME NEW s \in Subjects
      PROVE  /\ db'[s] \in Seq(Entries) /\ Log!Loads(db'[s])
             /\ \A n \in DOMAIN db'[s] : \E i \in DOMAIN db[s] : db'[s][n] = db[s][i]
  <2>1. db[s] \in Seq(Entries) /\ Log!Loads(db[s])
    BY DEF LogInv, Numbered, Rings
  <2>2. young(s) \in SUBSET (DOMAIN db[s])
    OBVIOUS
  <2>3. db'[s] = Log!Sifted(db[s], young(s))
    BY <1>1
  <2>. HIDE DEF young
  <2>4. /\ db'[s] \in Seq(Entries) /\ Log!Loads(db'[s])
        /\ \A n \in DOMAIN db'[s] : \E i \in young(s) : db'[s][n] = db[s][i]
    BY <2>1, <2>2, <2>3, SiftedKeeps
  <2>. QED
    BY <2>2, <2>4
<1>3. db' \in Rings
  <2>1. DOMAIN db' = Subjects /\ db' = [s \in Subjects |-> db'[s]]
    BY <1>1
  <2>. QED
    BY <1>2, <2>1 DEF Rings
<1>4. \A s, t \in Subjects : \A i \in DOMAIN db'[s], j \in DOMAIN db'[t] :
        db'[s][i].seq = db'[t][j].seq => s = t
  BY <1>2 DEF LogInv, Numbered
<1>5. \A s \in Subjects : \A i \in DOMAIN db'[s] : db'[s][i].seq <= run
  BY <1>2 DEF LogInv, Numbered
<1>6. Numbered(db, run) /\ db \in Rings
  BY DEF LogInv, Numbered
<1>7. /\ IsFiniteSet(Log!Stored(db)) /\ IsFiniteSet(Log!Present(db))
      /\ \A x \in Log!Stored(db) : x[2].b \in Nat
  BY <1>6, StoredIsFinite, StoredIs DEF Entries
<1>8. Log!Stored(db') \subseteq Log!Stored(db)
  <2>1. ASSUME NEW x \in Log!Stored(db') PROVE x \in Log!Stored(db)
    <3>1. x = <<x[1], x[2]>> /\ x[1] \in Subjects
      BY <1>3, StoredIs
    <3>2. PICK n \in DOMAIN db'[x[1]] : x[2] = db'[x[1]][n]
      BY <1>3, <3>1, StoredIs
    <3>3. PICK i \in DOMAIN db[x[1]] : x[2] = db[x[1]][i]
      BY <1>2, <3>1, <3>2
    <3>. QED
      BY <1>6, <3>1, <3>3, StoredIs
  <2>. QED
    BY <2>1
<1>9. Log!Present(db') \subseteq Log!Present(db)
  <2>1. ASSUME NEW s \in Subjects, db'[s] # <<>> PROVE db[s] # <<>>
    <3>1. 1 \in DOMAIN db'[s]
      BY <1>3, <2>1, StoredIs, EmptySeq
    <3>2. PICK i \in DOMAIN db[s] : TRUE
      BY <1>2, <3>1
    <3>. QED
      BY <3>2
  <2>. QED
    BY <2>1 DEF Log!Present
<1>10. Balanced(db', hour')
  <2>. DEFINE A == Log!Charge(Log!Stored(db))
              B == Log!Charge(Log!Stored(db'))
              C == Log!Charge(Log!Stored(db) \ Log!Stored(db'))
              p == Cardinality(Log!Present(db))
              q == Cardinality(Log!Present(db'))
              d == Cardinality(Log!Present(db) \ Log!Present(db'))
  <2>1. C = A - B /\ C \in Nat /\ A \in Int /\ B \in Int
    <3>1. Log!Stored(db') \in SUBSET Log!Stored(db)
      BY <1>8
    <3>. DEFINE out == Log!Stored(db) \ Log!Stored(db')
    <3>2. out \in SUBSET Log!Stored(db) /\ (\A x \in out : x[2].b \in Nat)
      BY <1>7
    <3>. HIDE DEF out
    <3>3. Log!Charge(out) \in Nat
      BY <1>7, <3>2, ChargesAddUp
    <3>4. A \in Int /\ B \in Int /\ C = A - B
      BY <1>7, <3>1, ChargesAddUp
    <3>. QED
      BY <3>3, <3>4 DEF out
  <2>2. d = p - q /\ d \in Nat /\ p \in Nat /\ q \in Nat
    <3>1. Log!Present(db) \cap Log!Present(db') = Log!Present(db')
      BY <1>9
    <3>2. d = p - q /\ IsFiniteSet(Log!Present(db) \ Log!Present(db'))
      BY <1>7, <3>1, FS_Difference
    <3>. QED
      BY <1>7, <1>9, <3>2, FS_CardinalityType, FS_Subset
  <2>3. hour = A + 256 * p /\ hour <= MaxEventBytes
    <3>1. hour = Log!Accounted(db) /\ hour <= MaxEventBytes
      BY DEF LogInv, Balanced
    <3>. QED
      BY <1>7, <3>1, AccountedIsInt
  <2>4. Log!Accounted(db') = B + 256 * q
    BY SameSizes DEF Log!Accounted, Log!subjectOverheadBytes
  <2>5. hour' = hour - C - 256 * d
    BY <1>1, SameSizes
  <2>6. MaxEventBytes \in Nat
    BY EvidenceAssumption
  <2>. HIDE DEF A, B, C, p, q, d
  <2>. QED
    BY <2>1, <2>2, <2>3, <2>4, <2>5, <2>6 DEF Balanced
<1>. QED
  BY <1>1, <1>2, <1>3, <1>4, <1>5, <1>10 DEF LogInv, Numbered, Log!Loads

\* A restart appends what was stored and enforces the budget.
LEMMA RestartKeeps ==
  ASSUME LogInv, Log!Restart
  PROVE  LogInv' /\ run' = run
<1>. DEFINE st == [log |-> db, bytes |-> Log!Accounted(db)]
<1>1. db' = Log!enforceBudget(st).log /\ hour' = Log!enforceBudget(st).bytes /\ run' = run
  BY DEF Log!Restart, Log!Commit
<1>2. Numbered(st.log, run) /\ st.bytes = Log!Accounted(st.log)
  BY DEF LogInv
<1>. HIDE DEF st
<1>3. Numbered(db', run)
  BY <1>1, <1>2, BudgetSheds
<1>4. hour' = Log!Accounted(db') /\ hour' <= MaxEventBytes
  BY <1>1, <1>2, BudgetBalances
<1>. QED
  BY <1>1, <1>3, <1>4 DEF LogInv, Numbered, Balanced

\* No operation of the log takes a newer entry for an older one, and the rings stay numbered.
LEMMA LogNext == LogInv /\ [Log!Next]_(Log!vars) => LogInv' /\ Log!TakesTheOldest
<1>. SUFFICES ASSUME LogInv, [Log!Next]_(Log!vars) PROVE LogInv' /\ Log!TakesTheOldest
  OBVIOUS
<1>1. run' = run => Log!TakesTheOldest
  BY DEF Log!TakesTheOldest
<1>2. CASE UNCHANGED Log!vars
  BY <1>1, <1>2 DEF Log!vars, LogInv, Numbered, Log!Loads, Balanced
<1>3. CASE Log!Restart
  BY <1>1, <1>3, RestartKeeps
<1>4. CASE \E now \in 0..MaxHour : Log!Prune(now)
  BY <1>1, <1>4, PruneKeeps
<1>5. ASSUME NEW s \in Subjects, NEW k \in Keys, NEW at \in 0..MaxHour, NEW sev \in Log!Severities,
             Log!Fold(s, k, at, sev) \/ Log!Store(s, k, at, sev)
      PROVE  LogInv' /\ Log!TakesTheOldest
  <2>1. CASE Log!Fold(s, k, at, sev)
    BY <1>1, <2>1, FoldKeeps
  <2>2. CASE Log!Store(s, k, at, sev)
    BY <2>2, StoreKeeps
  <2>. QED
    BY <1>5, <2>1, <2>2
<1>. QED
  BY <1>2, <1>3, <1>4, <1>5 DEF Log!Next

(* ---- The series: their rings ---- *)

Samples == [at : Nat, level : Levels, killed : BOOLEAN]
Digests == {d \in [start : Nat, end : Nat, level : Levels, samples : Nat \ {0}, kills : Nat] :
              d.start < d.end}
Hours == [start : Nat, kept : 1..MaxSamplesPerHour, dropped : Nat, level : Levels, kills : Nat]

\* Digests one after another, and all over by t.
Ordered(ring) == \A i, j \in DOMAIN ring : i < j => ring[i].end <= ring[j].start
Before(ring, t) == \A i \in DOMAIN ring : ring[i].end <= t

\* A tier of digests under its cap, over by t.
Tier(ring, cap, t) ==
  ring \in Seq(Digests) /\ Len(ring) <= cap /\ Ordered(ring) /\ Before(ring, t)

\* A ring spelled out: its length, its places and what is at them.
LEMMA RingIs ==
  ASSUME NEW S, NEW ring \in Seq(S)
  PROVE  /\ Len(ring) \in Nat /\ DOMAIN ring = 1..Len(ring)
         /\ \A i \in DOMAIN ring : ring[i] \in S
         /\ ring # <<>> <=> Len(ring) > 0
<1>1. Len(ring) \in Nat /\ DOMAIN ring = 1..Len(ring)
  BY LenProperties
<1>2. \A i \in DOMAIN ring : ring[i] \in S
  BY <1>1, ElementOfSeq
<1>3. ring # <<>> <=> Len(ring) > 0
  BY <1>1, EmptySeq
<1>. QED
  BY <1>1, <1>2, <1>3

\* A ring that loses its oldest item.
LEMMA TailIs ==
  ASSUME NEW S, NEW ring \in Seq(S), ring # <<>>
  PROVE  /\ Tail(ring) \in Seq(S) /\ Len(Tail(ring)) = Len(ring) - 1
         /\ \A i \in DOMAIN Tail(ring) : i + 1 \in DOMAIN ring /\ Tail(ring)[i] = ring[i + 1]
<1>1. /\ Tail(ring) \in Seq(S) /\ Len(Tail(ring)) = Len(ring) - 1
      /\ \A i \in 1..Len(Tail(ring)) : Tail(ring)[i] = ring[i + 1]
  BY HeadTailProperties
<1>2. DOMAIN Tail(ring) = 1..Len(Tail(ring)) /\ DOMAIN ring = 1..Len(ring) /\ Len(ring) \in Nat
  BY <1>1, RingIs
<1>. QED
  BY <1>1, <1>2

\* out is what is left of ring, none or one of its oldest gone, with x at its end.
Pushed(out, ring, x) ==
  \E k \in {0, 1} : \A i \in DOMAIN out :
    IF i = Len(out) THEN out[i] = x ELSE i + k \in DOMAIN ring /\ out[i] = ring[i + k]

\* What is pushed goes last, and takes the place of the oldest when the ring is full.
LEMMA PushIs ==
  ASSUME NEW S, NEW ring \in Seq(S), NEW cap \in Nat \ {0}, Len(ring) <= cap, NEW x \in S,
         NEW cost \in Nat
  PROVE  /\ Ser!Push(ring, x, cap) \in Seq(S) /\ Len(Ser!Push(ring, x, cap)) <= cap
         /\ Len(Ser!Push(ring, x, cap)) > 0
         /\ Ser!PushBytes(ring, cap, cost) = cost * (Len(Ser!Push(ring, x, cap)) - Len(ring))
         /\ Pushed(Ser!Push(ring, x, cap), ring, x)
<1>. DEFINE full == Len(ring) >= cap
            rest == IF full THEN Tail(ring) ELSE ring
            out == Ser!Push(ring, x, cap)
            k == IF full THEN 1 ELSE 0
<1>1. Len(ring) \in Nat /\ DOMAIN ring = 1..Len(ring) /\ (full => ring # <<>>)
  BY RingIs
<1>2. /\ rest \in Seq(S) /\ Len(rest) = Len(ring) - k
      /\ \A i \in DOMAIN rest : i + k \in DOMAIN ring /\ rest[i] = ring[i + k]
  <2>1. CASE full
    BY <1>1, <2>1, TailIs
  <2>2. CASE ~full
    BY <1>1, <2>2
  <2>. QED
    BY <2>1, <2>2
<1>3. out = Append(rest, x) /\ Ser!PushBytes(ring, cap, cost) = (IF full THEN 0 ELSE cost)
  BY DEF Ser!Push, Ser!PushBytes
<1>4. k = (IF full THEN 1 ELSE 0) /\ k \in {0, 1}
  OBVIOUS
<1>5. cap \in Nat /\ Len(ring) <= cap
  OBVIOUS
<1>. HIDE DEF rest, out, k
<1>6. (full => Len(ring) = cap) /\ (~full => Len(ring) < cap)
  <2>. DEFINE n == Len(ring)
  <2>1. n \in Nat /\ n <= cap /\ cap \in Nat
    BY <1>1, <1>5
  <2>. HIDE DEF n
  <2>2. (n >= cap => n = cap) /\ (~(n >= cap) => n < cap)
    BY <2>1
  <2>. QED
    BY <2>2 DEF n
<1>. HIDE DEF full
<1>7. /\ out \in Seq(S) /\ Len(out) = Len(rest) + 1
      /\ \A i \in 1..Len(rest) : out[i] = rest[i]
      /\ out[Len(rest) + 1] = x
  BY <1>2, <1>3, AppendProperties
<1>8. Len(rest) \in Nat /\ DOMAIN rest = 1..Len(rest) /\ DOMAIN out = 1..Len(out)
  BY <1>2, <1>7, RingIs
<1>9. Len(out) <= cap /\ Len(out) > 0
  <2>1. Len(rest) + 1 <= cap
    <3>1. CASE full
      BY <1>1, <1>2, <1>4, <1>5, <1>6, <3>1
    <3>2. CASE ~full
      <4>1. k = 0 /\ Len(ring) < cap
        BY <1>4, <1>6, <3>2
      <4>2. Len(rest) = Len(ring)
        BY <1>1, <1>2, <4>1
      <4>. QED
        BY <1>1, <1>5, <4>1, <4>2
    <3>. QED
      BY <3>1, <3>2
  <2>. QED
    BY <1>7, <1>8, <2>1
<1>10. Ser!PushBytes(ring, cap, cost) = cost * (Len(out) - Len(ring))
  <2>1. CASE full
    <3>1. Len(out) - Len(ring) = 0
      BY <1>1, <1>2, <1>4, <1>7, <2>1
    <3>. QED
      BY <1>3, <2>1, <3>1
  <2>2. CASE ~full
    <3>1. Len(out) - Len(ring) = 1
      BY <1>1, <1>2, <1>4, <1>7, <2>2
    <3>. QED
      BY <1>3, <2>2, <3>1
  <2>. QED
    BY <2>1, <2>2
<1>11. ASSUME NEW i \in DOMAIN out
       PROVE  IF i = Len(out) THEN out[i] = x ELSE i + k \in DOMAIN ring /\ out[i] = ring[i + k]
  <2>1. CASE i = Len(out)
    BY <1>7, <2>1
  <2>2. CASE i # Len(out)
    <3>1. i \in 1..Len(rest)
      BY <1>7, <1>8, <2>2
    <3>. QED
      BY <1>2, <1>7, <1>8, <2>2, <3>1
  <2>. QED
    BY <2>1, <2>2
<1>12. Pushed(out, ring, x)
  BY <1>4, <1>11 DEF Pushed
<1>. QED
  BY <1>7, <1>9, <1>10, <1>12 DEF out

\* A tier stays one when it loses its oldest digest.
LEMMA TierTail ==
  ASSUME NEW ring, NEW cap \in Nat, NEW t \in Nat, Tier(ring, cap, t), ring # <<>>
  PROVE  Tier(Tail(ring), cap, t) /\ Len(Tail(ring)) = Len(ring) - 1
<1>1. ring \in Seq(Digests) /\ Len(ring) \in Nat /\ Len(ring) <= cap /\ DOMAIN ring = 1..Len(ring)
  BY RingIs DEF Tier
<1>2. /\ Tail(ring) \in Seq(Digests) /\ Len(Tail(ring)) = Len(ring) - 1
      /\ \A i \in DOMAIN Tail(ring) : i + 1 \in DOMAIN ring /\ Tail(ring)[i] = ring[i + 1]
  BY <1>1, TailIs
<1>3. DOMAIN Tail(ring) = 1..Len(Tail(ring))
  BY <1>2, RingIs
<1>. DEFINE rest == Tail(ring)
<1>. HIDE DEF rest
<1>4. Ordered(rest)
  <2>1. \A i, j \in DOMAIN rest : i < j => i + 1 < j + 1
    BY <1>1, <1>2, <1>3 DEF rest
  <2>. QED
    BY <1>2, <2>1 DEF Tier, Ordered, rest
<1>5. Before(rest, t)
  BY <1>2 DEF Tier, Before, rest
<1>. QED
  BY <1>1, <1>2, <1>4, <1>5 DEF Tier, rest

\* A tier that is over by t is over by what is later.
LEMMA TierLater ==
  ASSUME NEW ring, NEW cap, NEW t \in Nat, NEW u \in Nat, t <= u, Tier(ring, cap, t)
  PROVE  Tier(ring, cap, u)
<1>1. \A i \in DOMAIN ring : ring[i].end \in Nat
  BY RingIs DEF Tier, Digests
<1>. QED
  BY <1>1 DEF Tier, Before

\* A digest that is folded into one that starts no later than it ends.
LEMMA FoldIs ==
  ASSUME NEW p \in Digests, NEW d \in Digests, p.start < d.end
  PROVE  /\ Ser!foldInto(p, d) \in Digests
         /\ Ser!foldInto(p, d).start = p.start /\ Ser!foldInto(p, d).end = d.end
<1>1. p \in [start : Nat, end : Nat, level : Levels, samples : Nat \ {0}, kills : Nat]
  BY DEF Digests
<1>. DEFINE l == Ser!Bigger(p.level, d.level)
<1>2. Ser!foldInto(p, d) = [p EXCEPT !.end = d.end, !.level = l, !.samples = p.samples + d.samples,
                                     !.kills = p.kills + d.kills]
  BY DEF Ser!foldInto
<1>3. l \in Levels
  BY DEF Digests, Ser!Bigger
<1>. HIDE DEF l
<1>4. p = [start |-> p.start, end |-> p.end, level |-> p.level, samples |-> p.samples,
           kills |-> p.kills]
  BY <1>1
<1>5. Ser!foldInto(p, d) = [start |-> p.start, end |-> d.end, level |-> l,
                            samples |-> p.samples + d.samples, kills |-> p.kills + d.kills]
  BY <1>2, <1>4
<1>6. /\ p.start \in Nat /\ d.end \in Nat /\ p.samples + d.samples \in Nat \ {0}
      /\ p.kills + d.kills \in Nat
  BY DEF Digests
<1>. QED
  BY <1>3, <1>5, <1>6 DEF Digests

\* A digest that starts when a tier is over is pushed or folded into the last, and is accounted for.
LEMMA TierAppend ==
  ASSUME NEW ring, NEW cap \in Nat \ {0}, NEW d \in Digests, Tier(ring, cap, d.start)
  PROVE  /\ Tier(Ser!appendDigest(ring, d, cap), cap, d.end)
         /\ Ser!AppendBytes(ring, d, cap) = 136 * (Len(Ser!appendDigest(ring, d, cap)) - Len(ring))
<1>. DEFINE out == Ser!appendDigest(ring, d, cap)
<1>1. /\ ring \in Seq(Digests) /\ Len(ring) \in Nat /\ Len(ring) <= cap /\ DOMAIN ring = 1..Len(ring)
      /\ \A i \in DOMAIN ring : ring[i] \in Digests
  BY RingIs DEF Tier
<1>2. /\ d.start \in Nat /\ d.end \in Nat /\ d.start < d.end
      /\ \A i \in DOMAIN ring : ring[i].start \in Nat /\ ring[i].end \in Nat
                                /\ ring[i].start < ring[i].end /\ ring[i].end <= d.start
  BY <1>1 DEF Tier, Before, Digests
<1>3. CASE Ser!Coalesces(ring, d)
  <2>. DEFINE n == Len(ring)
              e == Ser!foldInto(ring[n], d)
  <2>1. n \in DOMAIN ring /\ out = [ring EXCEPT ![n] = e] /\ Ser!AppendBytes(ring, d, cap) = 0
    <3>1. ring # <<>>
      BY <1>3 DEF Ser!Coalesces
    <3>. QED
      BY <1>1, <1>3, <3>1, RingIs DEF Ser!appendDigest, Ser!AppendBytes
  <2>2. e \in Digests /\ e.start = ring[n].start /\ e.end = d.end
    <3>1. ring[n] \in Digests /\ ring[n].start < d.end
      BY <1>1, <1>2, <2>1
    <3>. QED
      BY <3>1, FoldIs
  <2>. HIDE DEF e, out, n
  <2>3. /\ out \in Seq(Digests) /\ Len(out) = Len(ring) /\ DOMAIN out = DOMAIN ring
        /\ \A i \in DOMAIN ring : out[i] = IF i = n THEN e ELSE ring[i]
    BY <1>1, <2>1, <2>2, ExceptSeq, LenProperties
  <2>4. Before(out, d.end)
    BY <1>2, <2>2, <2>3 DEF Before
  <2>5. Ordered(out)
    <3>1. ASSUME NEW i \in DOMAIN ring, NEW j \in DOMAIN ring, i < j PROVE out[i].end <= out[j].start
      <4>1. ring[i].end <= ring[j].start /\ i # n
        BY <1>1, <3>1 DEF Tier, Ordered, n
      <4>. QED
        BY <2>2, <2>3, <4>1
    <3>. QED
      BY <2>3, <3>1 DEF Ordered
  <2>6. Tier(out, cap, d.end)
    BY <1>1, <2>3, <2>4, <2>5 DEF Tier
  <2>7. Len(out) - Len(ring) = 0
    BY <1>1, <2>3
  <2>. QED
    BY <2>1, <2>6, <2>7 DEF out
<1>4. CASE ~Ser!Coalesces(ring, d)
  <2>1. /\ out = Ser!Push(ring, d, cap)
        /\ Ser!AppendBytes(ring, d, cap) = Ser!PushBytes(ring, cap, 136)
    BY <1>4 DEF Ser!appendDigest, Ser!AppendBytes, Ser!digestBytes
  <2>. HIDE DEF out
  <2>2. /\ out \in Seq(Digests) /\ Len(out) <= cap /\ Len(out) > 0
        /\ Ser!PushBytes(ring, cap, 136) = 136 * (Len(out) - Len(ring))
        /\ Pushed(out, ring, d)
    <3>. DEFINE cost == 136
    <3>1. cost \in Nat
      OBVIOUS
    <3>. HIDE DEF cost
    <3>2. /\ Ser!Push(ring, d, cap) \in Seq(Digests) /\ Len(Ser!Push(ring, d, cap)) <= cap
          /\ Len(Ser!Push(ring, d, cap)) > 0
          /\ Ser!PushBytes(ring, cap, cost) = cost * (Len(Ser!Push(ring, d, cap)) - Len(ring))
          /\ Pushed(Ser!Push(ring, d, cap), ring, d)
      BY <1>1, <3>1, PushIs
    <3>. QED
      BY <2>1, <3>2 DEF cost
  <2>3. PICK k \in {0, 1} : \A i \in DOMAIN out :
          IF i = Len(out) THEN out[i] = d ELSE i + k \in DOMAIN ring /\ out[i] = ring[i + k]
    BY <2>2 DEF Pushed
  <2>4. Len(out) \in Nat /\ DOMAIN out = 1..Len(out)
    BY <2>2, RingIs
  <2>5. Before(out, d.end)
    <3>1. ASSUME NEW i \in DOMAIN out PROVE out[i].end <= d.end
      <4>1. CASE i = Len(out)
        BY <1>2, <2>3, <4>1
      <4>2. CASE i # Len(out)
        BY <1>2, <2>3, <4>2
      <4>. QED
        BY <4>1, <4>2
    <3>. QED
      BY <3>1 DEF Before
  <2>6. Ordered(out)
    <3>1. ASSUME NEW i \in DOMAIN out, NEW j \in DOMAIN out, i < j PROVE out[i].end <= out[j].start
      <4>1. i # Len(out) /\ i + k \in DOMAIN ring /\ out[i] = ring[i + k]
        BY <2>3, <2>4, <3>1
      <4>2. CASE j = Len(out)
        BY <1>2, <2>3, <4>1, <4>2
      <4>3. CASE j # Len(out)
        <5>1. j + k \in DOMAIN ring /\ out[j] = ring[j + k] /\ i + k < j + k
          BY <2>3, <2>4, <3>1, <4>3
        <5>. QED
          BY <4>1, <5>1 DEF Tier, Ordered
      <4>. QED
        BY <4>2, <4>3
    <3>. QED
      BY <3>1 DEF Ordered
  <2>. QED
    BY <2>1, <2>2, <2>5, <2>6 DEF Tier, out
<1>. QED
  BY <1>3, <1>4

\* What is cut off a ring is its old end.
LEMMA CutIs ==
  ASSUME NEW S, NEW ring \in Seq(S), NEW young \in SUBSET (DOMAIN ring)
  PROVE  /\ Ser!Cut(ring, young) \in Seq(S) /\ Len(Ser!Cut(ring, young)) <= Len(ring)
         /\ \E k \in Nat : \A i \in DOMAIN Ser!Cut(ring, young) :
              i + k \in DOMAIN ring /\ Ser!Cut(ring, young)[i] = ring[i + k]
<1>. DEFINE out == Ser!Cut(ring, young)
<1>1. Len(ring) \in Nat /\ DOMAIN ring = 1..Len(ring) /\ \A i \in DOMAIN ring : ring[i] \in S
  BY RingIs
<1>2. CASE young = {}
  <2>1. out = <<>>
    BY <1>2 DEF Ser!Cut
  <2>2. out \in Seq(S) /\ Len(out) = 0 /\ DOMAIN out = {}
    BY <2>1
  <2>. HIDE DEF out
  <2>3. \A i \in DOMAIN out : i + 0 \in DOMAIN ring /\ out[i] = ring[i + 0]
    BY <2>2
  <2>. QED
    BY <1>1, <2>2, <2>3 DEF out
<1>3. CASE young # {}
  <2>. DEFINE a == Ser!Min(young)
  <2>1. a \in young
    <3>1. young \in SUBSET Nat
      BY <1>1
    <3>2. \E n \in young : \A k \in young : n <= k
      BY <1>3, <3>1, LeastNumber
    <3>. QED
      BY <3>2 DEF Ser!Min
  <2>2. out = SubSeq(ring, a, Len(ring))
    BY <1>3 DEF Ser!Cut
  <2>. HIDE DEF a, out
  <2>3. a \in 1..Len(ring)
    BY <1>1, <2>1
  <2>4. out = [i \in 1..(Len(ring) - a + 1) |-> ring[a + i - 1]]
    BY <1>1, <2>2, <2>3
  <2>5. \A i \in 1..(Len(ring) - a + 1) : a + i - 1 \in DOMAIN ring /\ i + (a - 1) = a + i - 1
    BY <1>1, <2>3
  <2>6. out \in [1..(Len(ring) - a + 1) -> S] /\ Len(ring) - a + 1 \in Nat
    BY <1>1, <2>3, <2>4, <2>5
  <2>7. out \in Seq(S) /\ Len(out) = Len(ring) - a + 1 /\ DOMAIN out = 1..(Len(ring) - a + 1)
    <3>1. out \in Seq(S)
      BY <2>6, SeqDef
    <3>2. DOMAIN out = 1..(Len(ring) - a + 1)
      BY <2>4
    <3>. QED
      BY <2>6, <3>1, <3>2, LenProperties
  <2>8. \A i \in DOMAIN out : i + (a - 1) \in DOMAIN ring /\ out[i] = ring[i + (a - 1)]
    BY <2>4, <2>5, <2>7
  <2>9. a - 1 \in Nat /\ Len(out) <= Len(ring)
    BY <1>1, <2>3, <2>7
  <2>. QED
    BY <2>7, <2>8, <2>9 DEF out
<1>. QED
  BY <1>2, <1>3

\* A tier stays one when its old end is cut off.
LEMMA TierCut ==
  ASSUME NEW ring, NEW cap \in Nat, NEW t \in Nat, Tier(ring, cap, t),
         NEW young \in SUBSET (DOMAIN ring)
  PROVE  Tier(Ser!Cut(ring, young), cap, t) /\ Len(Ser!Cut(ring, young)) <= Len(ring)
<1>. DEFINE out == Ser!Cut(ring, young)
<1>1. ring \in Seq(Digests) /\ Len(ring) \in Nat /\ Len(ring) <= cap /\ DOMAIN ring = 1..Len(ring)
  BY RingIs DEF Tier
<1>2. /\ out \in Seq(Digests) /\ Len(out) <= Len(ring)
      /\ \E k \in Nat : \A i \in DOMAIN out : i + k \in DOMAIN ring /\ out[i] = ring[i + k]
  BY <1>1, CutIs
<1>. HIDE DEF out
<1>3. PICK k \in Nat : \A i \in DOMAIN out : i + k \in DOMAIN ring /\ out[i] = ring[i + k]
  BY <1>2
<1>4. Len(out) \in Nat /\ DOMAIN out = 1..Len(out)
  BY <1>2, RingIs
<1>5. Ordered(out)
  <2>1. \A i, j \in DOMAIN out : i < j => i + k < j + k
    BY <1>4
  <2>. QED
    BY <1>3, <2>1 DEF Tier, Ordered
<1>6. Before(out, t)
  BY <1>3 DEF Tier, Before
<1>. QED
  BY <1>1, <1>2, <1>4, <1>5, <1>6 DEF Tier, out

(* ---- The series: one subject's ---- *)

\* A series as it is held.
Spans == [raw : Seq(Samples), hourly : Seq(Digests), daily : Seq(Digests),
          acc : Hours \cup {Ser!None}, day : Digests \cup {Ser!None}, lastAt : Nat, lastSeq : Nat]

\* Raw samples in the order of their times, none later than t.
Ascends(raw, t) ==
  /\ \A i, j \in DOMAIN raw : i <= j => raw[i].at <= raw[j].at
  /\ \A i \in DOMAIN raw : raw[i].at <= t

\* All digests are over by t, and the finished days by the start of the day that accumulates.
Over(sr, t) ==
  /\ Tier(sr.hourly, HourlyCap, t)
  /\ sr.day = Ser!None => Tier(sr.daily, DailyCap, t)
  /\ sr.day # Ser!None => sr.day.end <= t /\ Tier(sr.daily, DailyCap, sr.day.start)

\* Where the digests must end: at the hour that accumulates, or at the last sample.
Edge(sr) == IF sr.acc = Ser!None THEN sr.lastAt ELSE sr.acc.start

\* What every operation keeps of a series.
Kept(sr) ==
  /\ sr \in Spans /\ Len(sr.raw) <= RawSampleCap /\ Ascends(sr.raw, sr.lastAt)
  /\ Over(sr, Edge(sr)) /\ Edge(sr) <= sr.lastAt

DayBytes(day) == IF day = Ser!None THEN 0 ELSE 136
One(x) == IF x = Ser!None THEN 0 ELSE 1

\* The caps and ages of the series.
LEMMA SeriesCaps ==
  /\ RawSampleCap \in Nat \ {0} /\ HourlyCap \in Nat \ {0} /\ DailyCap \in Nat \ {0}
  /\ MaxSamplesPerHour \in Nat \ {0} /\ MaxSeriesBytes \in Nat
BY EvidenceAssumption

\* A series spelled out.
LEMMA SpanIs ==
  ASSUME NEW sr \in Spans
  PROVE  /\ sr.raw \in Seq(Samples) /\ sr.hourly \in Seq(Digests) /\ sr.daily \in Seq(Digests)
         /\ sr.lastAt \in Nat /\ sr.lastSeq \in Nat
         /\ Len(sr.raw) \in Nat /\ Len(sr.hourly) \in Nat /\ Len(sr.daily) \in Nat
         /\ sr.acc # Ser!None => sr.acc \in Hours
         /\ sr.day # Ser!None => sr.day \in Digests
         /\ sr # Ser!Absent /\ Edge(sr) \in Nat
<1>1. /\ sr.raw \in Seq(Samples) /\ sr.hourly \in Seq(Digests) /\ sr.daily \in Seq(Digests)
      /\ sr.lastAt \in Nat /\ sr.lastSeq \in Nat
      /\ sr.acc \in Hours \cup {Ser!None} /\ sr.day \in Digests \cup {Ser!None}
  BY DEF Spans
<1>2. Len(sr.raw) \in Nat /\ Len(sr.hourly) \in Nat /\ Len(sr.daily) \in Nat
  BY <1>1, RingIs
<1>3. sr # Ser!Absent
  <2>1. Ser!Absent.lastAt = -1
    BY DEF Ser!Absent
  <2>2. -1 \notin Nat
    OBVIOUS
  <2>. QED
    BY <1>1, <2>1, <2>2
<1>4. \A a \in Hours : a.start \in Nat
  BY DEF Hours
<1>. QED
  BY <1>1, <1>2, <1>3, <1>4 DEF Edge

\* What an hour and a day are charged, and that neither is nothing.
LEMMA PartsAre ==
  /\ \A a \in Hours : a # Ser!None /\ Ser!AccBytes(a) = a.kept * 24 /\ a.start \in Nat /\ a.kept \in Nat
  /\ \A d \in Digests : d # Ser!None /\ d.start \in Nat /\ d.end \in Nat /\ d.start < d.end
  /\ Ser!AccBytes(Ser!None) = 0
<1>1. Ser!None.start = -1 /\ -1 \notin Nat
  BY DEF Ser!None
<1>2. \A a \in Hours : a.start \in Nat /\ a.kept \in Nat
  BY SeriesCaps DEF Hours
<1>3. \A d \in Digests : d.start \in Nat /\ d.end \in Nat /\ d.start < d.end
  BY DEF Digests
<1>. QED
  BY <1>1, <1>2, <1>3 DEF Ser!AccBytes, Ser!accSampleBytes

\* The bytes and the items of a series.
LEMMA SpanBytes ==
  ASSUME NEW sr \in Spans
  PROVE  /\ Ser!AccBytes(sr.acc) \in Nat
         /\ Ser!SeriesBytes(sr) = Len(sr.raw) * 48 + (Len(sr.hourly) + Len(sr.daily)) * 136
                                  + Ser!AccBytes(sr.acc) + DayBytes(sr.day)
         /\ Ser!SeriesBytes(sr) \in Nat
         /\ Ser!Items(sr) = Len(sr.raw) + Len(sr.hourly) + Len(sr.daily) + One(sr.acc) + One(sr.day)
         /\ Ser!Items(sr) \in Nat
         /\ Ser!Hollow(sr) <=> Ser!Items(sr) = 0
<1>1. /\ Len(sr.raw) \in Nat /\ Len(sr.hourly) \in Nat /\ Len(sr.daily) \in Nat /\ sr # Ser!Absent
      /\ sr.raw \in Seq(Samples) /\ sr.hourly \in Seq(Digests) /\ sr.daily \in Seq(Digests)
      /\ sr.acc # Ser!None => sr.acc \in Hours
  BY SpanIs
<1>2. Ser!AccBytes(sr.acc) \in Nat
  <2>1. CASE sr.acc = Ser!None
    BY <2>1, PartsAre
  <2>2. CASE sr.acc # Ser!None
    <3>1. Ser!AccBytes(sr.acc) = sr.acc.kept * 24 /\ sr.acc.kept \in Nat
      BY <1>1, <2>2, PartsAre
    <3>. QED
      BY <3>1
  <2>. QED
    BY <2>1, <2>2
<1>3. Ser!SeriesBytes(sr) = Len(sr.raw) * 48 + (Len(sr.hourly) + Len(sr.daily)) * 136
                                  + Ser!AccBytes(sr.acc) + DayBytes(sr.day)
  BY DEF Ser!SeriesBytes, Ser!sampleBytes, Ser!digestBytes, DayBytes
<1>4. DayBytes(sr.day) \in {0, 136} /\ One(sr.acc) \in {0, 1} /\ One(sr.day) \in {0, 1}
  BY DEF DayBytes, One
<1>5. Ser!Items(sr) = Len(sr.raw) + Len(sr.hourly) + Len(sr.daily) + One(sr.acc) + One(sr.day)
  BY <1>1 DEF Ser!Items, One
<1>. DEFINE a == Len(sr.raw)
            b == Len(sr.hourly)
            c == Len(sr.daily)
            k == Ser!AccBytes(sr.acc)
            d == DayBytes(sr.day)
            i == One(sr.acc)
            j == One(sr.day)
<1>6. (a = 0 <=> sr.raw = <<>>) /\ (b = 0 <=> sr.hourly = <<>>) /\ (c = 0 <=> sr.daily = <<>>)
  BY <1>1, EmptySeq
<1>7. (i = 0 <=> sr.acc = Ser!None) /\ (j = 0 <=> sr.day = Ser!None)
  BY DEF One
<1>8. Ser!Hollow(sr) <=> (a = 0 /\ b = 0 /\ c = 0 /\ i = 0 /\ j = 0)
  BY <1>6, <1>7 DEF Ser!Hollow
<1>. HIDE DEF a, b, c, d, i, j, k
<1>9. a \in Nat /\ b \in Nat /\ c \in Nat /\ k \in Nat /\ d \in {0, 136} /\ i \in {0, 1} /\ j \in {0, 1}
  BY <1>1, <1>2, <1>4 DEF a, b, c, d, i, j, k
<1>10. a * 48 + (b + c) * 136 + k + d \in Nat
  BY <1>9
<1>11. a + b + c + i + j \in Nat /\ (a + b + c + i + j = 0 <=> (a = 0 /\ b = 0 /\ c = 0 /\ i = 0 /\ j = 0))
  BY <1>9
<1>. QED
  BY <1>2, <1>3, <1>5, <1>8, <1>10, <1>11 DEF a, b, c, d, i, j, k

\* Sums differ by what their terms do.
LEMMA TermsDiffer ==
  ASSUME NEW A \in Int, NEW B \in Int, NEW C \in Int, NEW K \in Int, NEW D \in Int,
         NEW A1 \in Int, NEW B1 \in Int, NEW C1 \in Int, NEW K1 \in Int, NEW D1 \in Int
  PROVE  /\ (A1 * 48 + (B1 + C1) * 136 + K1 + D1) - (A * 48 + (B + C) * 136 + K + D)
            = (A1 - A) * 48 + (B1 - B) * 136 + (C1 - C) * 136 + (K1 - K) + (D1 - D)
         /\ (A1 + B1 + C1 + K1 + D1) - (A + B + C + K + D)
            = (A1 - A) + (B1 - B) + (C1 - C) + ((K1 - K) + (D1 - D))
OBVIOUS

\* What two series differ by, part by part.
RawDiff(m, sr) == Len(m.raw) - Len(sr.raw)
HourlyDiff(m, sr) == Len(m.hourly) - Len(sr.hourly)
DailyDiff(m, sr) == Len(m.daily) - Len(sr.daily)
AccDiff(m, sr) == Ser!AccBytes(m.acc) - Ser!AccBytes(sr.acc)
DayDiff(m, sr) == DayBytes(m.day) - DayBytes(sr.day)
OneDiff(m, sr) == (One(m.acc) - One(sr.acc)) + (One(m.day) - One(sr.day))

\* What two series differ by in bytes and in items is what their parts do.
LEMMA SpansDiffer ==
  ASSUME NEW sr \in Spans, NEW m \in Spans
  PROVE  /\ Ser!SeriesBytes(m) - Ser!SeriesBytes(sr)
            = RawDiff(m, sr) * 48 + HourlyDiff(m, sr) * 136 + DailyDiff(m, sr) * 136
              + AccDiff(m, sr) + DayDiff(m, sr)
         /\ Ser!Items(m) - Ser!Items(sr)
            = RawDiff(m, sr) + HourlyDiff(m, sr) + DailyDiff(m, sr) + OneDiff(m, sr)
<1>. DEFINE A == Len(sr.raw)
            B == Len(sr.hourly)
            C == Len(sr.daily)
            K == Ser!AccBytes(sr.acc)
            D == DayBytes(sr.day)
            I == One(sr.acc)
            J == One(sr.day)
            A1 == Len(m.raw)
            B1 == Len(m.hourly)
            C1 == Len(m.daily)
            K1 == Ser!AccBytes(m.acc)
            D1 == DayBytes(m.day)
            I1 == One(m.acc)
            J1 == One(m.day)
<1>1. \A n \in Nat : n \in Int
  OBVIOUS
<1>2. /\ A \in Int /\ B \in Int /\ C \in Int /\ K \in Int
      /\ A1 \in Int /\ B1 \in Int /\ C1 \in Int /\ K1 \in Int
  <2>1. /\ A \in Nat /\ B \in Nat /\ C \in Nat /\ K \in Nat
        /\ A1 \in Nat /\ B1 \in Nat /\ C1 \in Nat /\ K1 \in Nat
    BY SpanIs, SpanBytes
  <2>. QED
    BY <1>1, <2>1
<1>3. D \in Int /\ D1 \in Int /\ I \in Int /\ J \in Int /\ I1 \in Int /\ J1 \in Int
  BY DEF DayBytes, One
<1>4. /\ Ser!SeriesBytes(sr) = A * 48 + (B + C) * 136 + K + D /\ Ser!Items(sr) = A + B + C + I + J
      /\ Ser!SeriesBytes(m) = A1 * 48 + (B1 + C1) * 136 + K1 + D1 /\ Ser!Items(m) = A1 + B1 + C1 + I1 + J1
  BY SpanBytes
<1>. HIDE DEF A, B, C, K, D, I, J, A1, B1, C1, K1, D1, I1, J1
<1>5. (A1 * 48 + (B1 + C1) * 136 + K1 + D1) - (A * 48 + (B + C) * 136 + K + D)
      = (A1 - A) * 48 + (B1 - B) * 136 + (C1 - C) * 136 + (K1 - K) + (D1 - D)
  BY <1>2, <1>3, TermsDiffer
<1>6. (A1 + B1 + C1 + I1 + J1) - (A + B + C + I + J)
      = (A1 - A) + (B1 - B) + (C1 - C) + ((I1 - I) + (J1 - J))
  BY <1>2, <1>3, TermsDiffer
<1>7. Ser!SeriesBytes(m) - Ser!SeriesBytes(sr)
      = (A1 - A) * 48 + (B1 - B) * 136 + (C1 - C) * 136 + (K1 - K) + (D1 - D)
  BY <1>4, <1>5
<1>8. Ser!Items(m) - Ser!Items(sr) = (A1 - A) + (B1 - B) + (C1 - C) + ((I1 - I) + (J1 - J))
  BY <1>4, <1>6
<1>. QED
  BY <1>7, <1>8 DEF A, B, C, K, D, I, J, A1, B1, C1, K1, D1, I1, J1,
                    RawDiff, HourlyDiff, DailyDiff, AccDiff, DayDiff, OneDiff

\* Digests that are over by t are over by what is later.
LEMMA OverLater ==
  ASSUME NEW sr \in Spans, NEW t \in Nat, NEW u \in Nat, t <= u, Over(sr, t)
  PROVE  Over(sr, u)
<1>1. Tier(sr.hourly, HourlyCap, u)
  BY TierLater DEF Over
<1>2. sr.day = Ser!None => Tier(sr.daily, DailyCap, u)
  BY TierLater DEF Over
<1>3. sr.day # Ser!None => sr.day.end <= u
  <2>1. sr.day # Ser!None => sr.day.end \in Nat
    BY SpanIs, PartsAre
  <2>. QED
    BY <2>1 DEF Over
<1>. QED
  BY <1>1, <1>2, <1>3 DEF Over

\* Without its day, what was over by t still is.
LEMMA DayIsOver ==
  ASSUME NEW sr \in Spans, NEW t \in Nat, Over(sr, t)
  PROVE  Tier(sr.daily, DailyCap, t)
<1>1. CASE sr.day # Ser!None
  <2>1. sr.day.start \in Nat /\ sr.day.end \in Nat /\ sr.day.start < sr.day.end /\ sr.day.end <= t
    BY <1>1, SpanIs, PartsAre DEF Over
  <2>2. sr.day.start <= t
    BY <2>1
  <2>. QED
    BY <1>1, <2>1, <2>2, TierLater DEF Over
<1>. QED
  BY <1>1 DEF Over

\* Two series with the same last sample.
Alike(m, sr) == m.lastAt = sr.lastAt /\ m.lastSeq = sr.lastSeq

\* A series that is not hollow gives up one item and is charged that much less.
LEMMA EvictOneIs ==
  ASSUME NEW sr, Kept(sr), ~Ser!Hollow(sr), NEW out, out = Ser!evictOne(sr)
  PROVE  /\ Kept(out.sr) /\ Alike(out.sr, sr)
         /\ out.delta = Ser!SeriesBytes(sr) - Ser!SeriesBytes(out.sr)
         /\ Ser!Items(out.sr) = Ser!Items(sr) - 1
<1>. DEFINE m == out.sr
            t == Edge(sr)
<1>1. /\ sr \in Spans /\ Len(sr.raw) <= RawSampleCap /\ Ascends(sr.raw, sr.lastAt)
      /\ Over(sr, t) /\ t <= sr.lastAt /\ t \in Nat /\ sr.lastAt \in Nat
  BY SpanIs DEF Kept
<1>2. /\ sr.raw \in Seq(Samples) /\ sr.hourly \in Seq(Digests) /\ sr.daily \in Seq(Digests)
      /\ Len(sr.raw) \in Nat /\ Len(sr.hourly) \in Nat /\ Len(sr.daily) \in Nat
      /\ RawSampleCap \in Nat /\ HourlyCap \in Nat /\ DailyCap \in Nat
  BY <1>1, SpanIs, SeriesCaps
<1>3. /\ Ser!AccBytes(sr.acc) \in Int /\ DayBytes(sr.day) \in Int
      /\ One(sr.acc) \in Int /\ One(sr.day) \in Int
  <2>1. Ser!AccBytes(sr.acc) \in Nat
    BY <1>1, SpanBytes
  <2>. QED
    BY <2>1 DEF DayBytes, One
<1>4. SUFFICES /\ Kept(m) /\ Alike(m, sr) /\ out.delta \in Nat
               /\ Ser!SeriesBytes(m) - Ser!SeriesBytes(sr) = 0 - out.delta
               /\ Ser!Items(m) - Ser!Items(sr) = -1
  <2>. DEFINE x == Ser!SeriesBytes(m)
              y == Ser!SeriesBytes(sr)
              i == Ser!Items(m)
              j == Ser!Items(sr)
              z == out.delta
  <2>1. ASSUME Kept(m) PROVE x \in Nat /\ y \in Nat /\ i \in Nat /\ j \in Nat
    BY <1>1, <2>1, SpanBytes DEF Kept
  <2>. HIDE DEF m, x, y, i, j, z
  <2>2. ASSUME x \in Nat, y \in Nat, i \in Nat, j \in Nat, z \in Nat, x - y = 0 - z, i - j = -1
        PROVE  z = y - x /\ i = j - 1
    BY <2>2
  <2>. QED
    BY <2>1, <2>2 DEF m, x, y, i, j, z
<1>5. CASE sr.raw # <<>>
  <2>1. m = [sr EXCEPT !.raw = Tail(sr.raw)] /\ out.delta = 48
    BY <1>5 DEF Ser!evictOne, Ser!sampleBytes
  <2>2. /\ Tail(sr.raw) \in Seq(Samples) /\ Len(Tail(sr.raw)) = Len(sr.raw) - 1
        /\ \A i \in DOMAIN Tail(sr.raw) : i + 1 \in DOMAIN sr.raw /\ Tail(sr.raw)[i] = sr.raw[i + 1]
    BY <1>2, <1>5, TailIs
  <2>. HIDE DEF m
  <2>3. /\ m \in Spans /\ m.raw = Tail(sr.raw) /\ m.hourly = sr.hourly /\ m.daily = sr.daily
        /\ m.acc = sr.acc /\ m.day = sr.day /\ Alike(m, sr)
    BY <1>1, <2>1, <2>2 DEF Spans, Alike
  <2>4. Ascends(m.raw, m.lastAt)
    <3>1. DOMAIN sr.raw = 1..Len(sr.raw) /\ DOMAIN m.raw = 1..Len(m.raw) /\ Len(m.raw) \in Nat
      BY <1>2, <2>2, <2>3, RingIs
    <3>2. \A i, j \in DOMAIN m.raw : i <= j => i + 1 <= j + 1
      BY <3>1
    <3>. QED
      BY <1>1, <2>2, <2>3, <3>2 DEF Ascends, Alike
  <2>5. Edge(m) = t /\ Over(m, t)
    BY <1>1, <2>3 DEF Edge, Over, Alike
  <2>6. Kept(m)
    BY <1>1, <1>2, <2>2, <2>3, <2>4, <2>5 DEF Kept, Alike
  <2>7. Ser!SeriesBytes(m) - Ser!SeriesBytes(sr) = 0 - 48 /\ Ser!Items(m) - Ser!Items(sr) = -1
    <3>1. RawDiff(m, sr) = -1 /\ HourlyDiff(m, sr) = 0 /\ DailyDiff(m, sr) = 0
      BY <1>2, <2>2, <2>3 DEF RawDiff, HourlyDiff, DailyDiff
    <3>2. AccDiff(m, sr) = 0 /\ DayDiff(m, sr) = 0 /\ OneDiff(m, sr) = 0
      BY <1>3, <2>3 DEF AccDiff, DayDiff, OneDiff
    <3>. QED
      BY <1>1, <2>3, <3>1, <3>2, SpansDiffer
  <2>8. Ser!SeriesBytes(sr) \in Nat
    BY <1>1, SpanBytes
  <2>. QED
    BY <2>1, <2>3, <2>6, <2>7, <2>8 DEF m
<1>6. CASE sr.raw = <<>> /\ sr.hourly # <<>>
  <2>1. m = [sr EXCEPT !.hourly = Tail(sr.hourly)] /\ out.delta = 136
    BY <1>6 DEF Ser!evictOne, Ser!digestBytes
  <2>2. /\ Tier(Tail(sr.hourly), HourlyCap, t) /\ Len(Tail(sr.hourly)) = Len(sr.hourly) - 1
        /\ Tail(sr.hourly) \in Seq(Digests)
    <3>1. Tier(sr.hourly, HourlyCap, t)
      BY <1>1 DEF Over
    <3>2. Tier(Tail(sr.hourly), HourlyCap, t) /\ Len(Tail(sr.hourly)) = Len(sr.hourly) - 1
      BY <1>1, <1>2, <1>6, <3>1, TierTail
    <3>. QED
      BY <3>2 DEF Tier
  <2>. HIDE DEF m
  <2>3. /\ m \in Spans /\ m.raw = sr.raw /\ m.hourly = Tail(sr.hourly) /\ m.daily = sr.daily
        /\ m.acc = sr.acc /\ m.day = sr.day /\ Alike(m, sr)
    BY <1>1, <2>1, <2>2 DEF Spans, Alike
  <2>4. Edge(m) = t /\ Over(m, t)
    BY <1>1, <2>2, <2>3 DEF Edge, Over, Alike
  <2>5. Kept(m)
    BY <1>1, <2>3, <2>4 DEF Kept, Alike
  <2>6. Ser!SeriesBytes(m) - Ser!SeriesBytes(sr) = 0 - 136 /\ Ser!Items(m) - Ser!Items(sr) = -1
    <3>1. RawDiff(m, sr) = 0 /\ HourlyDiff(m, sr) = -1 /\ DailyDiff(m, sr) = 0
      BY <1>2, <2>2, <2>3 DEF RawDiff, HourlyDiff, DailyDiff
    <3>2. AccDiff(m, sr) = 0 /\ DayDiff(m, sr) = 0 /\ OneDiff(m, sr) = 0
      BY <1>3, <2>3 DEF AccDiff, DayDiff, OneDiff
    <3>. QED
      BY <1>1, <2>3, <3>1, <3>2, SpansDiffer
  <2>7. Ser!SeriesBytes(sr) \in Nat
    BY <1>1, SpanBytes
  <2>. QED
    BY <2>1, <2>3, <2>5, <2>6, <2>7 DEF m
<1>7. CASE sr.raw = <<>> /\ sr.hourly = <<>> /\ sr.daily # <<>>
  <2>1. m = [sr EXCEPT !.daily = Tail(sr.daily)] /\ out.delta = 136
    BY <1>7 DEF Ser!evictOne, Ser!digestBytes
  <2>2. /\ \A u \in Nat : Tier(sr.daily, DailyCap, u) => Tier(Tail(sr.daily), DailyCap, u)
        /\ Len(Tail(sr.daily)) = Len(sr.daily) - 1 /\ Tail(sr.daily) \in Seq(Digests)
    BY <1>2, <1>7, TierTail, TailIs
  <2>3. sr.day # Ser!None => sr.day.start \in Nat
    BY <1>1, SpanIs, PartsAre
  <2>. HIDE DEF m
  <2>4. /\ m \in Spans /\ m.raw = sr.raw /\ m.hourly = sr.hourly /\ m.daily = Tail(sr.daily)
        /\ m.acc = sr.acc /\ m.day = sr.day /\ Alike(m, sr)
    BY <1>1, <2>1, <2>2 DEF Spans, Alike
  <2>5. Edge(m) = t /\ Over(m, t)
    BY <1>1, <2>2, <2>3, <2>4 DEF Edge, Over, Alike
  <2>6. Kept(m)
    BY <1>1, <2>4, <2>5 DEF Kept, Alike
  <2>7. Ser!SeriesBytes(m) - Ser!SeriesBytes(sr) = 0 - 136 /\ Ser!Items(m) - Ser!Items(sr) = -1
    <3>1. RawDiff(m, sr) = 0 /\ HourlyDiff(m, sr) = 0 /\ DailyDiff(m, sr) = -1
      BY <1>2, <2>2, <2>4 DEF RawDiff, HourlyDiff, DailyDiff
    <3>2. AccDiff(m, sr) = 0 /\ DayDiff(m, sr) = 0 /\ OneDiff(m, sr) = 0
      BY <1>3, <2>4 DEF AccDiff, DayDiff, OneDiff
    <3>. QED
      BY <1>1, <2>4, <3>1, <3>2, SpansDiffer
  <2>8. Ser!SeriesBytes(sr) \in Nat
    BY <1>1, SpanBytes
  <2>. QED
    BY <2>1, <2>4, <2>6, <2>7, <2>8 DEF m
<1>8. CASE sr.raw = <<>> /\ sr.hourly = <<>> /\ sr.daily = <<>> /\ sr.acc # Ser!None
  <2>1. m = [sr EXCEPT !.acc = Ser!None] /\ out.delta = Ser!AccBytes(sr.acc)
    BY <1>8 DEF Ser!evictOne
  <2>. HIDE DEF m
  <2>2. /\ m \in Spans /\ m.raw = sr.raw /\ m.hourly = sr.hourly /\ m.daily = sr.daily
        /\ m.acc = Ser!None /\ m.day = sr.day /\ Alike(m, sr)
    BY <1>1, <2>1 DEF Spans, Alike
  <2>3. Edge(m) = sr.lastAt /\ Over(m, sr.lastAt)
    <3>1. Over(sr, sr.lastAt)
      BY <1>1, OverLater
    <3>. QED
      BY <2>2, <3>1 DEF Edge, Over, Alike
  <2>4. Kept(m)
    BY <1>1, <2>2, <2>3 DEF Kept, Alike
  <2>5. Ser!SeriesBytes(m) - Ser!SeriesBytes(sr) = 0 - Ser!AccBytes(sr.acc) /\ Ser!Items(m) - Ser!Items(sr) = -1
    <3>1. RawDiff(m, sr) = 0 /\ HourlyDiff(m, sr) = 0 /\ DailyDiff(m, sr) = 0
      BY <1>2, <2>2 DEF RawDiff, HourlyDiff, DailyDiff
    <3>2. AccDiff(m, sr) = 0 - Ser!AccBytes(sr.acc) /\ DayDiff(m, sr) = 0 /\ OneDiff(m, sr) = -1
      BY <1>3, <1>8, <2>2, PartsAre DEF AccDiff, DayDiff, OneDiff, One
    <3>. QED
      BY <1>3, <1>1, <2>2, <3>1, <3>2, SpansDiffer
  <2>6. Ser!SeriesBytes(sr) \in Nat /\ Ser!AccBytes(sr.acc) \in Nat
    BY <1>1, SpanBytes
  <2>. QED
    BY <2>1, <2>2, <2>4, <2>5, <2>6 DEF m
<1>9. CASE sr.raw = <<>> /\ sr.hourly = <<>> /\ sr.daily = <<>> /\ sr.acc = Ser!None
  <2>1. m = [sr EXCEPT !.day = Ser!None] /\ out.delta = 136
    BY <1>9 DEF Ser!evictOne, Ser!digestBytes
  <2>2. sr.day # Ser!None
    BY <1>9 DEF Ser!Hollow
  <2>. HIDE DEF m
  <2>3. /\ m \in Spans /\ m.raw = sr.raw /\ m.hourly = sr.hourly /\ m.daily = sr.daily
        /\ m.acc = sr.acc /\ m.day = Ser!None /\ Alike(m, sr)
    BY <1>1, <2>1 DEF Spans, Alike
  <2>4. Edge(m) = t /\ Over(m, t)
    <3>1. Tier(sr.daily, DailyCap, t)
      BY <1>1, DayIsOver
    <3>. QED
      BY <1>1, <2>3, <3>1 DEF Edge, Over, Alike
  <2>5. Kept(m)
    BY <1>1, <2>3, <2>4 DEF Kept, Alike
  <2>6. Ser!SeriesBytes(m) - Ser!SeriesBytes(sr) = 0 - 136 /\ Ser!Items(m) - Ser!Items(sr) = -1
    <3>1. RawDiff(m, sr) = 0 /\ HourlyDiff(m, sr) = 0 /\ DailyDiff(m, sr) = 0
      BY <1>2, <2>3 DEF RawDiff, HourlyDiff, DailyDiff
    <3>2. AccDiff(m, sr) = 0 /\ DayDiff(m, sr) = -136 /\ OneDiff(m, sr) = -1
      BY <1>3, <2>2, <2>3 DEF AccDiff, DayDiff, OneDiff, One, DayBytes
    <3>. QED
      BY <1>1, <2>3, <3>1, <3>2, SpansDiffer
  <2>7. Ser!SeriesBytes(sr) \in Nat
    BY <1>1, SpanBytes
  <2>. QED
    BY <2>1, <2>3, <2>5, <2>6, <2>7 DEF m
<1>. QED
  BY <1>5, <1>6, <1>7, <1>8, <1>9

\* A finished hour is a digest of that hour.
LEMMA FinalizeIs ==
  ASSUME NEW a \in Hours
  PROVE  /\ Ser!finalize(a) \in Digests
         /\ Ser!finalize(a).start = a.start /\ Ser!finalize(a).end = a.start + 1
<1>1. a.start \in Nat /\ a.level \in Levels /\ a.kills \in Nat /\ a.dropped \in Nat /\ a.kept \in Nat \ {0}
  BY SeriesCaps DEF Hours
<1>2. a.start + 1 \in Nat /\ a.start < a.start + 1 /\ a.kept + a.dropped \in Nat \ {0}
  BY <1>1
<1>. QED
  BY <1>1, <1>2 DEF Ser!finalize, Digests

\* A finished day goes into its tier, and is accounted for.
LEMMA FlushIs ==
  ASSUME NEW sr \in Spans, NEW t \in Nat, Over(sr, t), sr.day # Ser!None,
         NEW r, r = Ser!flushDay(sr).sr
  PROVE  /\ r \in Spans /\ Over(r, t) /\ r.day = Ser!None /\ r.acc = sr.acc /\ Alike(r, sr)
         /\ r.raw = sr.raw /\ r.hourly = sr.hourly
         /\ Ser!flushDay(sr).delta = Ser!SeriesBytes(r) - Ser!SeriesBytes(sr)
<1>. DEFINE d == sr.day
            tier == Ser!appendDigest(sr.daily, d, DailyCap)
<1>1. d \in Digests /\ d.start \in Nat /\ d.end \in Nat /\ d.end <= t /\ Tier(sr.daily, DailyCap, d.start)
  BY SpanIs, PartsAre DEF Over
<1>2. /\ Tier(tier, DailyCap, d.end)
      /\ Ser!AppendBytes(sr.daily, d, DailyCap) = 136 * (Len(tier) - Len(sr.daily))
  BY <1>1, SeriesCaps, TierAppend
<1>3. tier \in Seq(Digests) /\ Tier(tier, DailyCap, t) /\ Len(tier) \in Nat
  <2>1. tier \in Seq(Digests)
    BY <1>2 DEF Tier
  <2>2. Tier(tier, DailyCap, t)
    BY <1>1, <1>2, TierLater
  <2>. QED
    BY <2>1, <2>2, RingIs
<1>4. r = [sr EXCEPT !.daily = tier, !.day = Ser!None]
  BY DEF Ser!flushDay
<1>5. Ser!flushDay(sr).delta = 136 * (Len(tier) - Len(sr.daily)) - 136
  BY <1>2 DEF Ser!flushDay, Ser!digestBytes
<1>. HIDE DEF tier
<1>6. /\ r \in Spans /\ r.raw = sr.raw /\ r.hourly = sr.hourly /\ r.daily = tier
      /\ r.acc = sr.acc /\ r.day = Ser!None /\ Alike(r, sr)
  BY <1>3, <1>4 DEF Spans, Alike
<1>7. Over(r, t)
  BY <1>3, <1>6 DEF Over
<1>8. Ser!SeriesBytes(r) - Ser!SeriesBytes(sr) = DailyDiff(r, sr) * 136 - 136
  <2>1. RawDiff(r, sr) = 0 /\ HourlyDiff(r, sr) = 0
    BY <1>6, SpanIs DEF RawDiff, HourlyDiff
  <2>2. AccDiff(r, sr) = 0
    <3>1. Ser!AccBytes(sr.acc) \in Nat
      BY SpanBytes
    <3>. QED
      BY <1>6, <3>1 DEF AccDiff
  <2>3. DayDiff(r, sr) = -136
    BY <1>6 DEF DayDiff, DayBytes
  <2>4. DailyDiff(r, sr) \in Int
    BY <1>3, <1>6, SpanIs DEF DailyDiff
  <2>. QED
    BY <1>6, <2>1, <2>2, <2>3, <2>4, SpansDiffer
<1>9. 136 * (Len(tier) - Len(sr.daily)) - 136 = DailyDiff(r, sr) * 136 - 136
  <2>1. Len(sr.daily) \in Nat /\ DailyDiff(r, sr) = Len(tier) - Len(sr.daily)
    BY <1>6, SpanIs DEF DailyDiff
  <2>. QED
    BY <1>3, <2>1
<1>. QED
  BY <1>5, <1>6, <1>7, <1>8, <1>9

\* The hour that accumulated goes into the day and the hourly tier, a day that is finished into its
\* own: all is over by the end of the hour, and accounted for.
LEMMA RollIs ==
  ASSUME NEW sr, Kept(sr), sr.acc # Ser!None, NEW r, r = Ser!rollHour(sr).sr
  PROVE  /\ r \in Spans /\ Over(r, sr.acc.start + 1) /\ r.acc = Ser!None /\ r.raw = sr.raw /\ Alike(r, sr)
         /\ Ser!rollHour(sr).delta = Ser!SeriesBytes(r) - Ser!SeriesBytes(sr)
<1>. DEFINE a == sr.acc
            d == Ser!finalize(a)
            later == sr.day # Ser!None /\ d.start \div DayHours > sr.day.start \div DayHours
            f == IF later THEN Ser!flushDay(sr).sr ELSE sr
            fd == IF later THEN Ser!flushDay(sr).delta ELSE 0
            day == IF f.day = Ser!None THEN d ELSE Ser!foldInto(f.day, d)
            tier == Ser!appendDigest(f.hourly, d, HourlyCap)
            sb == Ser!SeriesBytes(sr)
            fb == Ser!SeriesBytes(f)
            t == a.start + 1
<1>1. /\ sr \in Spans /\ a \in Hours /\ a.start \in Nat /\ Over(sr, a.start)
      /\ d \in Digests /\ d.start = a.start /\ d.end = t /\ t \in Nat
  <2>1. sr \in Spans /\ Over(sr, a.start)
    BY DEF Kept, Edge
  <2>2. a \in Hours /\ a.start \in Nat /\ t \in Nat
    BY <2>1, SpanIs, PartsAre
  <2>. QED
    BY <2>1, <2>2, FinalizeIs
<1>2. /\ Ser!rollHour(sr).sr = [f EXCEPT !.acc = Ser!None, !.day = day, !.hourly = tier]
      /\ Ser!rollHour(sr).delta = fd - Ser!AccBytes(a)
           + (IF f.day = Ser!None THEN 136 ELSE 0) + Ser!AppendBytes(sr.hourly, d, HourlyCap)
  <2>1. CASE later
    BY <2>1 DEF Ser!rollHour, Ser!digestBytes
  <2>2. CASE ~later
    BY <2>2 DEF Ser!rollHour, Ser!digestBytes
  <2>. QED
    BY <2>1, <2>2
<1>3. /\ f \in Spans /\ Over(f, a.start) /\ f.acc = a /\ Alike(f, sr)
      /\ f.raw = sr.raw /\ f.hourly = sr.hourly /\ fd = fb - sb
  <2>1. CASE later
    BY <1>1, <2>1, FlushIs
  <2>2. CASE ~later
    <3>1. sb \in Nat
      BY <1>1, SpanBytes
    <3>2. f = sr /\ fd = 0
      BY <2>2
    <3>. HIDE DEF f, fd
    <3>. QED
      BY <1>1, <3>1, <3>2 DEF Alike
  <2>. QED
    BY <2>1, <2>2
<1>. HIDE DEF f, fd, later, d
<1>4. /\ day \in Digests /\ day.end = t /\ day.start \in Nat
      /\ Tier(f.daily, DailyCap, day.start)
  <2>1. CASE f.day = Ser!None
    BY <1>1, <1>3, <2>1 DEF Over
  <2>2. CASE f.day # Ser!None
    <3>1. f.day \in Digests /\ f.day.start \in Nat /\ f.day.end \in Nat /\ f.day.start < f.day.end
      BY <1>3, <2>2, SpanIs, PartsAre
    <3>2. f.day.end <= a.start /\ Tier(f.daily, DailyCap, f.day.start)
      BY <1>3, <2>2 DEF Over
    <3>3. f.day.start < d.end
      BY <1>1, <3>1, <3>2
    <3>4. day \in Digests /\ day.start = f.day.start /\ day.end = d.end
      BY <1>1, <2>2, <3>1, <3>3, FoldIs
    <3>. QED
      BY <1>1, <3>1, <3>2, <3>4
  <2>. QED
    BY <2>1, <2>2
<1>5. /\ Tier(tier, HourlyCap, t) /\ tier \in Seq(Digests) /\ Len(tier) \in Nat
      /\ Ser!AppendBytes(f.hourly, d, HourlyCap) = 136 * (Len(tier) - Len(f.hourly))
  <2>1. Tier(f.hourly, HourlyCap, d.start)
    BY <1>1, <1>3 DEF Over
  <2>2. /\ Tier(tier, HourlyCap, d.end)
        /\ Ser!AppendBytes(f.hourly, d, HourlyCap) = 136 * (Len(tier) - Len(f.hourly))
    BY <1>1, <2>1, SeriesCaps, TierAppend
  <2>3. tier \in Seq(Digests)
    BY <2>2 DEF Tier
  <2>. QED
    BY <1>1, <2>2, <2>3, RingIs
<1>6. day # Ser!None
  BY <1>4, PartsAre
<1>. DEFINE grown == IF f.day = Ser!None THEN 136 ELSE 0
<1>7. grown = DayBytes(day) - DayBytes(f.day) /\ grown \in Int
  BY <1>6 DEF DayBytes
<1>. HIDE DEF day, tier, grown
<1>8. /\ r \in Spans /\ r.raw = sr.raw /\ r.hourly = tier /\ r.daily = f.daily
      /\ r.acc = Ser!None /\ r.day = day /\ Alike(r, sr)
  BY <1>2, <1>3, <1>4, <1>5 DEF Spans, Alike
<1>9. Over(r, t)
  BY <1>1, <1>4, <1>5, <1>6, <1>8 DEF Over
<1>. DEFINE hd == HourlyDiff(r, f)
            ab == Ser!AccBytes(a)
            rb == Ser!SeriesBytes(r)
<1>10. hd = Len(tier) - Len(f.hourly) /\ hd \in Int /\ ab \in Int
  <2>1. Len(f.hourly) \in Nat /\ ab \in Nat
    BY <1>1, <1>3, SpanIs, SpanBytes
  <2>. QED
    BY <1>5, <1>8, <2>1 DEF HourlyDiff
<1>11. rb - fb = hd * 136 - ab + grown
  <2>1. RawDiff(r, f) = 0 /\ DailyDiff(r, f) = 0
    BY <1>3, <1>8, SpanIs DEF RawDiff, DailyDiff
  <2>2. AccDiff(r, f) = 0 - ab
    BY <1>3, <1>8, PartsAre DEF AccDiff
  <2>3. DayDiff(r, f) = grown
    BY <1>7, <1>8 DEF DayDiff
  <2>4. rb - fb = RawDiff(r, f) * 48 + hd * 136 + DailyDiff(r, f) * 136 + AccDiff(r, f) + DayDiff(r, f)
    BY <1>3, <1>8, SpansDiffer
  <2>. HIDE DEF hd, ab
  <2>. QED
    BY <1>7, <1>10, <2>1, <2>2, <2>3, <2>4
<1>12. Ser!rollHour(sr).delta = fd - ab + grown + 136 * hd
  <2>1. Ser!AppendBytes(sr.hourly, d, HourlyCap) = 136 * hd
    BY <1>3, <1>5, <1>10
  <2>. QED
    BY <1>2, <2>1 DEF grown
<1>13. rb \in Nat /\ fb \in Nat /\ sb \in Nat
  BY <1>1, <1>3, <1>8, SpanBytes
<1>14. Ser!rollHour(sr).delta = rb - sb
  <2>1. fd = fb - sb
    BY <1>3
  <2>. HIDE DEF hd, ab, rb, fb, sb
  <2>2. fd - ab + grown + 136 * hd = (hd * 136 - ab + grown) + (fb - sb)
    BY <1>7, <1>10, <1>13, <2>1
  <2>3. (rb - fb) + (fb - sb) = rb - sb
    BY <1>13
  <2>. QED
    BY <1>11, <1>12, <2>2, <2>3
<1>. QED
  BY <1>8, <1>9, <1>14

\* The sample that arrives is counted in the hour that accumulates, up to the cap.
LEMMA AccumulateIs ==
  ASSUME NEW a \in Hours \cup {Ser!None}, NEW smp \in Samples
  PROVE  /\ Ser!accumulate(a, smp) \in Hours
         /\ Ser!accumulate(a, smp).start = IF a = Ser!None THEN smp.at ELSE a.start
<1>. DEFINE k == IF smp.killed THEN 1 ELSE 0
            out == Ser!accumulate(a, smp)
            fits == a = Ser!None \/ a.kept < MaxSamplesPerHour
            kept == IF fits THEN a.kept + 1 ELSE a.kept
            dropped == IF fits THEN a.dropped ELSE a.dropped + 1
            level == IF fits THEN Ser!Bigger(a.level, smp.level) ELSE a.level
<1>1. smp.at \in Nat /\ smp.level \in Levels /\ k \in Nat
  BY DEF Samples
<1>2. MaxSamplesPerHour \in Nat \ {0} /\ 1 \in 1..MaxSamplesPerHour
  BY SeriesCaps
<1>3. CASE a = Ser!None
  <2>1. out = [start |-> smp.at, kept |-> 1, dropped |-> 0, level |-> smp.level, kills |-> k]
    BY <1>3 DEF Ser!accumulate
  <2>. HIDE DEF out, k
  <2>. QED
    BY <1>1, <1>2, <1>3, <2>1 DEF Hours, out
<1>4. CASE a # Ser!None
  <2>1. /\ a.start \in Nat /\ a.kept \in 1..MaxSamplesPerHour /\ a.dropped \in Nat /\ a.level \in Levels
        /\ a.kills \in Nat
        /\ a = [start |-> a.start, kept |-> a.kept, dropped |-> a.dropped, level |-> a.level,
                kills |-> a.kills]
    BY <1>4 DEF Hours
  <2>2. out = [a EXCEPT !.kept = kept, !.dropped = dropped, !.level = level, !.kills = a.kills + k]
    BY <1>4 DEF Ser!accumulate
  <2>3. kept \in 1..MaxSamplesPerHour /\ dropped \in Nat /\ level \in Levels /\ a.kills + k \in Nat
    <3>1. CASE fits
      BY <1>1, <1>2, <1>4, <2>1, <3>1 DEF Ser!Bigger
    <3>2. CASE ~fits
      BY <1>1, <2>1, <3>2
    <3>. QED
      BY <3>1, <3>2
  <2>. HIDE DEF out, kept, dropped, level, k
  <2>4. out = [start |-> a.start, kept |-> kept, dropped |-> dropped, level |-> level,
               kills |-> a.kills + k]
    BY <2>1, <2>2
  <2>5. out \in Hours /\ out.start = a.start
    BY <2>1, <2>3, <2>4 DEF Hours
  <2>. QED
    BY <1>4, <2>5 DEF out
<1>. QED
  BY <1>3, <1>4

\* Samples stay in order when one that is no older is pushed.
LEMMA PushAscends ==
  ASSUME NEW raw \in Seq(Samples), Len(raw) <= RawSampleCap, NEW t \in Nat, Ascends(raw, t),
         NEW smp \in Samples, t <= smp.at
  PROVE  /\ Ser!Push(raw, smp, RawSampleCap) \in Seq(Samples)
         /\ Len(Ser!Push(raw, smp, RawSampleCap)) <= RawSampleCap
         /\ Ascends(Ser!Push(raw, smp, RawSampleCap), smp.at)
         /\ Ser!PushBytes(raw, RawSampleCap, 48)
            = 48 * (Len(Ser!Push(raw, smp, RawSampleCap)) - Len(raw))
<1>. DEFINE out == Ser!Push(raw, smp, RawSampleCap)
            cost == 48
<1>1. cost \in Nat
  OBVIOUS
<1>. HIDE DEF cost
<1>2. /\ out \in Seq(Samples) /\ Len(out) <= RawSampleCap
      /\ Ser!PushBytes(raw, RawSampleCap, cost) = cost * (Len(out) - Len(raw))
      /\ Pushed(out, raw, smp)
  BY <1>1, PushIs, SeriesCaps
<1>. HIDE DEF out
<1>3. PICK k \in {0, 1} : \A i \in DOMAIN out :
        IF i = Len(out) THEN out[i] = smp ELSE i + k \in DOMAIN raw /\ out[i] = raw[i + k]
  BY <1>2 DEF Pushed
<1>4. Len(out) \in Nat /\ DOMAIN out = 1..Len(out) /\ \A i \in DOMAIN raw : raw[i] \in Samples
  BY <1>2, RingIs
<1>5. \A i \in DOMAIN raw : raw[i].at \in Nat /\ raw[i].at <= smp.at
  <2>1. \A i \in DOMAIN raw : raw[i].at \in Nat /\ raw[i].at <= t
    BY <1>4 DEF Ascends, Samples
  <2>2. smp.at \in Nat
    BY DEF Samples
  <2>. QED
    BY <2>1, <2>2
<1>6. \A i \in DOMAIN out : out[i].at <= smp.at
  <2>1. smp.at <= smp.at
    BY DEF Samples
  <2>. QED
    BY <1>3, <1>5, <2>1
<1>7. ASSUME NEW i \in DOMAIN out, NEW j \in DOMAIN out, i <= j PROVE out[i].at <= out[j].at
  <2>1. CASE j = Len(out)
    BY <1>3, <1>6, <2>1
  <2>2. CASE j # Len(out)
    <3>1. i # Len(out)
      BY <1>4, <1>7, <2>2
    <3>2. /\ i + k \in DOMAIN raw /\ out[i] = raw[i + k] /\ j + k \in DOMAIN raw /\ out[j] = raw[j + k]
          /\ i + k <= j + k
      BY <1>3, <1>4, <1>7, <2>2, <3>1
    <3>. QED
      BY <3>2 DEF Ascends
  <2>. QED
    BY <2>1, <2>2
<1>. QED
  BY <1>2, <1>6, <1>7 DEF Ascends, out, cost

\* A sample is taken into a series that is over by its hour, and accounted for.
LEMMA IngestIntoIs ==
  ASSUME NEW st, st.sr \in Spans, st.delta \in Int, NEW smp \in Samples, NEW n \in Nat,
         Len(st.sr.raw) <= RawSampleCap, Ascends(st.sr.raw, st.sr.lastAt), st.sr.lastAt <= smp.at,
         Over(st.sr, smp.at), st.sr.acc # Ser!None => st.sr.acc.start = smp.at,
         NEW out, out = Ser!IngestInto(st, smp, n)
  PROVE  /\ Kept(out.sr) /\ out.sr.acc # Ser!None
         /\ out.delta = st.delta + (Ser!SeriesBytes(out.sr) - Ser!SeriesBytes(st.sr))
<1>. DEFINE sr == st.sr
            r == out.sr
            acc == Ser!accumulate(sr.acc, smp)
            raw == Ser!Push(sr.raw, smp, RawSampleCap)
<1>1. /\ sr \in Spans /\ smp.at \in Nat /\ sr.lastAt \in Nat /\ sr.raw \in Seq(Samples)
      /\ sr.acc \in Hours \cup {Ser!None} /\ Len(sr.raw) \in Nat
  BY SpanIs DEF Samples
<1>2. acc \in Hours /\ acc.start = smp.at /\ acc # Ser!None
  BY <1>1, AccumulateIs, PartsAre
<1>3. /\ raw \in Seq(Samples) /\ Len(raw) <= RawSampleCap /\ Ascends(raw, smp.at) /\ Len(raw) \in Nat
      /\ Ser!PushBytes(sr.raw, RawSampleCap, 48) = 48 * (Len(raw) - Len(sr.raw))
  <2>1. /\ raw \in Seq(Samples) /\ Len(raw) <= RawSampleCap /\ Ascends(raw, smp.at)
        /\ Ser!PushBytes(sr.raw, RawSampleCap, 48) = 48 * (Len(raw) - Len(sr.raw))
    BY <1>1, PushAscends
  <2>. QED
    BY <2>1, RingIs
<1>4. /\ r = [sr EXCEPT !.acc = acc, !.raw = raw, !.lastAt = smp.at, !.lastSeq = n]
      /\ out.delta = st.delta + Ser!AccBytes(acc) - Ser!AccBytes(sr.acc)
                     + Ser!PushBytes(sr.raw, RawSampleCap, 48)
  BY DEF Ser!IngestInto, Ser!sampleBytes
<1>5. Over(sr, smp.at)
  OBVIOUS
<1>. HIDE DEF sr, r, acc, raw
<1>6. /\ r \in Spans /\ r.raw = raw /\ r.hourly = sr.hourly /\ r.daily = sr.daily
      /\ r.acc = acc /\ r.day = sr.day /\ r.lastAt = smp.at
  BY <1>1, <1>2, <1>3, <1>4 DEF Spans
<1>7. Kept(r)
  <2>1. Edge(r) = smp.at /\ smp.at <= smp.at
    BY <1>1, <1>2, <1>6 DEF Edge
  <2>2. Over(r, smp.at)
    BY <1>5, <1>6 DEF Over
  <2>. QED
    BY <1>3, <1>6, <2>1, <2>2 DEF Kept
<1>. DEFINE rd == RawDiff(r, sr)
            x == Ser!AccBytes(acc)
            y == Ser!AccBytes(sr.acc)
<1>8. rd = Len(raw) - Len(sr.raw) /\ rd \in Int /\ x \in Int /\ y \in Int
  <2>1. Ser!AccBytes(r.acc) \in Nat /\ Ser!AccBytes(sr.acc) \in Nat
    BY <1>1, <1>6, SpanBytes
  <2>. QED
    BY <1>1, <1>3, <1>6, <2>1 DEF RawDiff
<1>9. Ser!SeriesBytes(r) - Ser!SeriesBytes(sr) = rd * 48 + (x - y)
  <2>1. HourlyDiff(r, sr) = 0 /\ DailyDiff(r, sr) = 0
    BY <1>1, <1>6, SpanIs DEF HourlyDiff, DailyDiff
  <2>2. DayDiff(r, sr) = 0
    BY <1>6 DEF DayDiff, DayBytes
  <2>3. AccDiff(r, sr) = x - y
    BY <1>6 DEF AccDiff
  <2>4. Ser!SeriesBytes(r) - Ser!SeriesBytes(sr)
        = rd * 48 + HourlyDiff(r, sr) * 136 + DailyDiff(r, sr) * 136 + AccDiff(r, sr) + DayDiff(r, sr)
    BY <1>1, <1>6, SpansDiffer
  <2>. HIDE DEF rd, x, y
  <2>. QED
    BY <1>8, <2>1, <2>2, <2>3, <2>4
<1>10. out.delta = st.delta + x - y + 48 * rd
  BY <1>3, <1>4, <1>8
<1>11. st.delta + x - y + 48 * rd = st.delta + (rd * 48 + (x - y))
  <2>. HIDE DEF rd, x, y
  <2>. QED
    BY <1>8
<1>. QED
  BY <1>2, <1>6, <1>7, <1>9, <1>10, <1>11 DEF r, sr

\* A sample that is no older than the last is taken in, whatever it closes, and accounted for.
LEMMA IngestIs ==
  ASSUME NEW sr, Kept(sr), NEW smp \in Samples, sr.lastAt <= smp.at, NEW n \in Nat,
         NEW out, out = Ser!ingest(sr, smp, n)
  PROVE  /\ Kept(out.sr) /\ ~Ser!Hollow(out.sr)
         /\ out.delta = Ser!SeriesBytes(out.sr) - Ser!SeriesBytes(sr)
<1>. DEFINE rolls == sr.acc # Ser!None /\ smp.at > sr.acc.start
            st == IF rolls THEN Ser!rollHour(sr) ELSE [sr |-> sr, delta |-> 0]
            m == st.sr
<1>1. /\ sr \in Spans /\ Len(sr.raw) <= RawSampleCap /\ Ascends(sr.raw, sr.lastAt)
      /\ smp.at \in Nat /\ sr.lastAt \in Nat /\ Edge(sr) \in Nat /\ Edge(sr) <= sr.lastAt /\ Over(sr, Edge(sr))
  BY SpanIs DEF Kept, Samples
<1>2. out = Ser!IngestInto(st, smp, n)
  BY DEF Ser!ingest
<1>3. /\ m \in Spans /\ m.raw = sr.raw /\ m.lastAt = sr.lastAt /\ Over(m, smp.at)
      /\ m.acc # Ser!None => m.acc.start = smp.at
      /\ st.delta = Ser!SeriesBytes(m) - Ser!SeriesBytes(sr)
  <2>1. CASE rolls
    <3>1. st = Ser!rollHour(sr) /\ sr.acc.start \in Nat /\ sr.acc.start + 1 <= smp.at
      BY <1>1, <2>1, SpanIs, PartsAre
    <3>. HIDE DEF st
    <3>2. /\ m \in Spans /\ Over(m, sr.acc.start + 1) /\ m.acc = Ser!None /\ m.raw = sr.raw
          /\ m.lastAt = sr.lastAt /\ st.delta = Ser!SeriesBytes(m) - Ser!SeriesBytes(sr)
      BY <2>1, <3>1, RollIs DEF Alike
    <3>3. Over(m, smp.at)
      BY <1>1, <3>1, <3>2, OverLater
    <3>. QED
      BY <3>2, <3>3
  <2>2. CASE ~rolls
    <3>1. m = sr /\ st.delta = 0
      BY <2>2
    <3>2. Over(sr, smp.at)
      BY <1>1, OverLater
    <3>3. sr.acc # Ser!None => sr.acc.start = smp.at
      <4>1. ASSUME sr.acc # Ser!None PROVE sr.acc.start = smp.at
        <5>1. Edge(sr) = sr.acc.start /\ ~(smp.at > sr.acc.start)
          BY <2>2, <4>1 DEF Edge
        <5>. QED
          BY <1>1, <5>1
      <4>. QED
        BY <4>1
    <3>4. Ser!SeriesBytes(sr) \in Nat
      BY <1>1, SpanBytes
    <3>. HIDE DEF st, m
    <3>. QED
      BY <1>1, <3>1, <3>2, <3>3, <3>4
  <2>. QED
    BY <2>1, <2>2
<1>4. st.delta \in Int /\ Ser!SeriesBytes(m) \in Nat /\ Ser!SeriesBytes(sr) \in Nat
  <2>1. Ser!SeriesBytes(m) \in Nat /\ Ser!SeriesBytes(sr) \in Nat
    BY <1>1, <1>3, SpanBytes
  <2>. HIDE DEF m
  <2>. QED
    BY <1>3, <2>1
<1>. HIDE DEF st
<1>5. /\ Kept(out.sr) /\ out.sr.acc # Ser!None
      /\ out.delta = st.delta + (Ser!SeriesBytes(out.sr) - Ser!SeriesBytes(m))
  BY <1>1, <1>2, <1>3, <1>4, IngestIntoIs
<1>6. out.delta = Ser!SeriesBytes(out.sr) - Ser!SeriesBytes(sr)
  <2>. DEFINE x == Ser!SeriesBytes(out.sr)
              y == Ser!SeriesBytes(m)
              z == Ser!SeriesBytes(sr)
              w == st.delta
  <2>1. x \in Nat /\ y \in Nat /\ z \in Nat
    BY <1>4, <1>5, SpanBytes DEF Kept
  <2>2. w = y - z /\ out.delta = w + (x - y)
    BY <1>3, <1>5
  <2>. HIDE DEF x, y, z, w
  <2>3. out.delta = x - z
    BY <2>1, <2>2
  <2>. QED
    BY <2>3 DEF x, z
<1>. QED
  BY <1>5, <1>6 DEF Ser!Hollow

\* A series before its first sample.
LEMMA FreshIs == Kept(Ser!Fresh) /\ Ser!SeriesBytes(Ser!Fresh) = 0 /\ Ser!Fresh.lastAt = 0
<1>. DEFINE f == Ser!Fresh
<1>1. /\ f \in Spans /\ f.raw = <<>> /\ f.hourly = <<>> /\ f.daily = <<>>
      /\ f.acc = Ser!None /\ f.day = Ser!None /\ f.lastAt = 0
  BY DEF Ser!Fresh, Spans
<1>2. \A S : <<>> \in Seq(S) /\ Len(<<>>) = 0 /\ DOMAIN <<>> = {}
  OBVIOUS
<1>. HIDE DEF f
<1>3. Ascends(f.raw, 0) /\ Tier(f.hourly, HourlyCap, 0) /\ Tier(f.daily, DailyCap, 0)
  <2>1. \A cap \in Nat : Tier(<<>>, cap, 0)
    BY <1>2 DEF Tier, Ordered, Before
  <2>2. Ascends(<<>>, 0)
    BY <1>2 DEF Ascends
  <2>. QED
    BY <1>1, <2>1, <2>2, SeriesCaps
<1>4. Kept(f)
  BY <1>1, <1>2, <1>3, SeriesCaps DEF Kept, Over, Edge
<1>5. Ser!SeriesBytes(f) = 0
  <2>1. Len(f.raw) = 0 /\ Len(f.hourly) = 0 /\ Len(f.daily) = 0 /\ DayBytes(f.day) = 0
        /\ Ser!AccBytes(f.acc) = 0
    BY <1>1, PartsAre DEF DayBytes
  <2>2. Ser!SeriesBytes(f) = Len(f.raw) * 48 + (Len(f.hourly) + Len(f.daily)) * 136
                             + Ser!AccBytes(f.acc) + DayBytes(f.day)
    BY <1>1, SpanBytes
  <2>. QED
    BY <2>1, <2>2
<1>. QED
  BY <1>1, <1>4, <1>5 DEF f

\* What age leaves of a series is one, and is charged no more.
LEMMA PruneIs ==
  ASSUME NEW sr, Kept(sr), NEW now, NEW r, r = Ser!prune(sr, now)
  PROVE  Kept(r) /\ Ser!SeriesBytes(r) <= Ser!SeriesBytes(sr)
<1>. DEFINE yr == {i \in DOMAIN sr.raw : sr.raw[i].at >= now - RawMaxAge}
            yh == {i \in DOMAIN sr.hourly : sr.hourly[i].end > now - HourlyMaxAge}
            yd == {i \in DOMAIN sr.daily : sr.daily[i].end > now - DailyMaxAge}
            raw == Ser!Cut(sr.raw, yr)
            hourly == Ser!Cut(sr.hourly, yh)
            daily == Ser!Cut(sr.daily, yd)
            acc == IF sr.acc # Ser!None /\ sr.acc.start + 1 <= now - HourlyMaxAge
                   THEN Ser!None ELSE sr.acc
            day == IF sr.day # Ser!None /\ sr.day.end <= now - DailyMaxAge
                   THEN Ser!None ELSE sr.day
            t == Edge(sr)
<1>1. /\ sr \in Spans /\ Len(sr.raw) <= RawSampleCap /\ Ascends(sr.raw, sr.lastAt)
      /\ Over(sr, t) /\ t <= sr.lastAt /\ t \in Nat /\ sr.lastAt \in Nat
      /\ sr.raw \in Seq(Samples) /\ Len(sr.raw) \in Nat
      /\ RawSampleCap \in Nat /\ HourlyCap \in Nat /\ DailyCap \in Nat
  BY SpanIs, SeriesCaps DEF Kept
<1>2. r = [sr EXCEPT !.raw = raw, !.hourly = hourly, !.daily = daily, !.acc = acc, !.day = day]
  BY DEF Ser!prune
<1>3. yr \in SUBSET (DOMAIN sr.raw) /\ yh \in SUBSET (DOMAIN sr.hourly) /\ yd \in SUBSET (DOMAIN sr.daily)
  OBVIOUS
<1>. HIDE DEF yr, yh, yd
<1>4. /\ raw \in Seq(Samples) /\ Len(raw) <= Len(sr.raw) /\ Len(raw) <= RawSampleCap
      /\ Ascends(raw, sr.lastAt)
  <2>1. /\ raw \in Seq(Samples) /\ Len(raw) <= Len(sr.raw)
        /\ \E k \in Nat : \A i \in DOMAIN raw : i + k \in DOMAIN sr.raw /\ raw[i] = sr.raw[i + k]
    BY <1>1, <1>3, CutIs
  <2>. HIDE DEF raw
  <2>2. PICK k \in Nat : \A i \in DOMAIN raw : i + k \in DOMAIN sr.raw /\ raw[i] = sr.raw[i + k]
    BY <2>1
  <2>3. Len(raw) \in Nat /\ DOMAIN raw = 1..Len(raw)
    BY <2>1, RingIs
  <2>4. Len(raw) <= RawSampleCap
    BY <1>1, <2>1, <2>3
  <2>5. \A i, j \in DOMAIN raw : i <= j => i + k <= j + k
    BY <2>3
  <2>. QED
    BY <1>1, <2>1, <2>2, <2>4, <2>5 DEF Ascends
<1>5. Tier(hourly, HourlyCap, t) /\ hourly \in Seq(Digests) /\ Len(hourly) <= Len(sr.hourly)
  <2>1. Tier(hourly, HourlyCap, t) /\ Len(hourly) <= Len(sr.hourly)
    BY <1>1, <1>3, TierCut DEF Over
  <2>. QED
    BY <2>1 DEF Tier
<1>6. /\ \A u \in Nat : Tier(sr.daily, DailyCap, u) => Tier(daily, DailyCap, u)
      /\ daily \in Seq(Digests) /\ Tier(daily, DailyCap, t) /\ Len(daily) <= Len(sr.daily)
  <2>1. \A u \in Nat : Tier(sr.daily, DailyCap, u) => Tier(daily, DailyCap, u)
    BY <1>1, <1>3, TierCut
  <2>2. Tier(daily, DailyCap, t) /\ Len(daily) <= Len(sr.daily)
    BY <1>1, <1>3, <2>1, TierCut, DayIsOver
  <2>3. daily \in Seq(Digests)
    BY <2>2 DEF Tier
  <2>. QED
    BY <2>1, <2>2, <2>3
<1>7. acc \in {sr.acc, Ser!None} /\ day \in {sr.day, Ser!None}
  OBVIOUS
<1>8. sr.day # Ser!None => sr.day.start \in Nat
  BY <1>1, SpanIs, PartsAre
<1>. HIDE DEF raw, hourly, daily, acc, day, t
<1>9. /\ r \in Spans /\ r.raw = raw /\ r.hourly = hourly /\ r.daily = daily
      /\ r.acc = acc /\ r.day = day /\ r.lastAt = sr.lastAt
  BY <1>1, <1>2, <1>4, <1>5, <1>6, <1>7 DEF Spans
<1>10. Over(r, t)
  <2>1. CASE day = Ser!None
    BY <1>5, <1>6, <1>9, <2>1 DEF Over
  <2>2. CASE day # Ser!None
    <3>1. day = sr.day
      BY <1>7, <2>2
    <3>2. sr.day.end <= t /\ Tier(sr.daily, DailyCap, sr.day.start)
      BY <1>1, <2>2, <3>1 DEF Over
    <3>. QED
      BY <1>5, <1>6, <1>8, <1>9, <2>2, <3>1, <3>2 DEF Over
  <2>. QED
    BY <2>1, <2>2
<1>11. Over(r, Edge(r)) /\ Edge(r) <= sr.lastAt
  <2>1. CASE acc = Ser!None
    <3>1. Edge(r) = sr.lastAt
      BY <1>9, <2>1 DEF Edge
    <3>2. Over(r, sr.lastAt)
      BY <1>1, <1>9, <1>10, OverLater
    <3>. QED
      BY <1>1, <3>1, <3>2
  <2>2. CASE acc # Ser!None
    <3>1. Edge(r) = t
      BY <1>7, <1>9, <2>2 DEF Edge, t
    <3>. QED
      BY <1>1, <1>10, <3>1
  <2>. QED
    BY <2>1, <2>2
<1>12. Ser!SeriesBytes(r) <= Ser!SeriesBytes(sr)
  <2>. DEFINE A == RawDiff(r, sr)
              B == HourlyDiff(r, sr)
              C == DailyDiff(r, sr)
              K == AccDiff(r, sr)
              D == DayDiff(r, sr)
  <2>1. Ser!SeriesBytes(r) - Ser!SeriesBytes(sr) = A * 48 + B * 136 + C * 136 + K + D
    BY <1>1, <1>9, SpansDiffer
  <2>2. A \in Int /\ A <= 0 /\ B \in Int /\ B <= 0 /\ C \in Int /\ C <= 0
    BY <1>1, <1>4, <1>5, <1>6, <1>9, SpanIs DEF RawDiff, HourlyDiff, DailyDiff
  <2>3. K \in Int /\ K <= 0
    <3>1. Ser!AccBytes(acc) \in {Ser!AccBytes(sr.acc), 0} /\ Ser!AccBytes(sr.acc) \in Nat
      BY <1>1, <1>7, PartsAre, SpanBytes
    <3>. QED
      BY <1>9, <3>1 DEF AccDiff
  <2>4. D \in Int /\ D <= 0
    BY <1>7, <1>9 DEF DayDiff, DayBytes
  <2>5. Ser!SeriesBytes(r) \in Nat /\ Ser!SeriesBytes(sr) \in Nat
    BY <1>1, <1>9, SpanBytes
  <2>. HIDE DEF A, B, C, K, D
  <2>. QED
    BY <2>1, <2>2, <2>3, <2>4, <2>5
<1>. QED
  BY <1>4, <1>9, <1>11, <1>12 DEF Kept

\* A checkpoint accepts the series.
LEMMA KeptLoads == ASSUME NEW sr, Kept(sr) PROVE Ser!Loads(sr)
<1>1. /\ sr \in Spans /\ Len(sr.raw) <= RawSampleCap /\ Ascends(sr.raw, sr.lastAt)
      /\ Over(sr, Edge(sr)) /\ Edge(sr) \in Nat
  BY SpanIs DEF Kept
<1>2. ASSUME NEW ring, NEW cap, NEW t, Tier(ring, cap, t) PROVE Len(ring) <= cap /\ Ser!InOrder(ring)
  <2>1. ring \in Seq(Digests) /\ Len(ring) <= cap /\ Ordered(ring)
    BY <1>2 DEF Tier
  <2>2. \A i \in DOMAIN ring : ring[i].start < ring[i].end /\ ring[i].samples >= 1 /\ ring[i].kills >= 0
    <3>1. \A i \in DOMAIN ring : ring[i] \in Digests
      BY <2>1, RingIs
    <3>2. \A d \in Digests : d.start < d.end /\ d.samples >= 1 /\ d.kills >= 0
      BY DEF Digests
    <3>. QED
      BY <3>1, <3>2
  <2>. QED
    BY <2>1, <2>2 DEF Ordered, Ser!InOrder
<1>3. Len(sr.hourly) <= HourlyCap /\ Ser!InOrder(sr.hourly)
  BY <1>1, <1>2 DEF Over
<1>4. Len(sr.daily) <= DailyCap /\ Ser!InOrder(sr.daily)
  BY <1>1, <1>2 DEF Over
<1>5. sr.acc # Ser!None => sr.acc.kept \in 1..MaxSamplesPerHour
  BY <1>1, SpanIs DEF Hours
<1>6. sr.day # Ser!None => Ser!InOrder(<<sr.day>>)
  <2>1. ASSUME sr.day # Ser!None PROVE Ser!InOrder(<<sr.day>>)
    <3>. DEFINE d == sr.day
                one == <<d>>
    <3>1. d.start < d.end /\ d.samples >= 1 /\ d.kills >= 0
      <4>1. d \in Digests
        BY <1>1, <2>1, SpanIs
      <4>. HIDE DEF d
      <4>. QED
        BY <4>1 DEF Digests
    <3>. HIDE DEF d
    <3>2. \A i \in DOMAIN one : i = 1 /\ one[i] = d
      OBVIOUS
    <3>. QED
      BY <3>1, <3>2 DEF Ser!InOrder, d
  <2>. QED
    BY <2>1
<1>. QED
  BY <1>1, <1>3, <1>4, <1>5, <1>6 DEF Ser!Loads, Ascends

(* ---- The series: all subjects' ---- *)

\* The sum in the series' instance is the one that is spelled out here.
LEMMA SeriesSums == \A q : Ser!SumFunction(q) = Summed(q)
BY DEF Ser!SumFunction, Ser!SumFunctionOnSet, Ser!FoldFunctionOnSet, Ser!MapThenFoldSet,
       Summed, Fits, Choice

\* A function on the subjects is summed up.
LEMMA SumOverSubjects ==
  ASSUME NEW f \in [Subjects -> Int]
  PROVE  \E F : IsSum(F, f, Subjects) /\ Summed(f) = F[Subjects]
<1>1. IsFiniteSet(Subjects)
  BY EvidenceAssumption
<1>2. PICK F : IsSum(F, f, Subjects)
  BY <1>1, SumExists
<1>3. DOMAIN f = Subjects
  OBVIOUS
<1>4. Summed(f) = F[Subjects]
  BY <1>2, <1>3, SumOfPart
<1>. QED
  BY <1>2, <1>4

\* A sum in which one subject's part changes.
LEMMA OneChanges ==
  ASSUME NEW f \in [Subjects -> Int], NEW g \in [Subjects -> Int], NEW s \in Subjects,
         \A o \in Subjects : o # s => g[o] = f[o]
  PROVE  Summed(f) \in Int /\ Summed(g) = Summed(f) - f[s] + g[s]
<1>1. PICK F : IsSum(F, f, Subjects) /\ Summed(f) = F[Subjects]
  BY SumOverSubjects
<1>2. PICK G : IsSum(G, g, Subjects) /\ Summed(g) = G[Subjects]
  BY SumOverSubjects
<1>. DEFINE T == Subjects \ {s}
            q == [x \in T |-> f[x]]
<1>3. T \in SUBSET Subjects /\ DOMAIN q = T /\ \A x \in T : q[x] = f[x] /\ q[x] = g[x]
  OBVIOUS
<1>. HIDE DEF T, q
<1>4. F[T] = G[T]
  <2>1. Summed(q) = F[T]
    BY <1>1, <1>3, SumOfPart
  <2>2. Summed(q) = G[T]
    BY <1>2, <1>3, SumOfPart
  <2>. QED
    BY <2>1, <2>2
<1>5. F[Subjects] = f[s] + F[T] /\ G[Subjects] = g[s] + G[T]
  BY <1>1, <1>2 DEF IsSum, T
<1>6. F[T] \in Int /\ f[s] \in Int /\ g[s] \in Int
  BY <1>1, <1>3 DEF IsSum
<1>. DEFINE w == F[T]
            x == f[s]
            y == g[s]
<1>7. Summed(f) = x + w /\ Summed(g) = y + w /\ w \in Int /\ x \in Int /\ y \in Int
  BY <1>1, <1>2, <1>4, <1>5, <1>6
<1>. HIDE DEF w, x, y
<1>8. Summed(f) \in Int /\ Summed(g) = Summed(f) - x + y
  BY <1>7
<1>. QED
  BY <1>8 DEF x, y

\* The sum of differences is the difference of the sums.
LEMMA SumsDiffer ==
  ASSUME NEW f \in [Subjects -> Int], NEW g \in [Subjects -> Int], NEW h \in [Subjects -> Int],
         \A s \in Subjects : h[s] = f[s] - g[s]
  PROVE  Summed(f) \in Int /\ Summed(g) \in Int /\ Summed(h) = Summed(f) - Summed(g)
<1>1. PICK F : IsSum(F, f, Subjects) /\ Summed(f) = F[Subjects]
  BY SumOverSubjects
<1>2. PICK G : IsSum(G, g, Subjects) /\ Summed(g) = G[Subjects]
  BY SumOverSubjects
<1>3. PICK H : IsSum(H, h, Subjects) /\ Summed(h) = H[Subjects]
  BY SumOverSubjects
<1>. DEFINE bad == {T \in SUBSET Subjects : H[T] # F[T] - G[T]}
<1>4. ASSUME NEW T \in SUBSET Subjects PROVE F[T] \in Int /\ G[T] \in Int /\ H[T] \in Int
  BY <1>1, <1>2, <1>3 DEF IsSum
<1>5. bad = {}
  <2>1. SUFFICES ASSUME bad # {} PROVE FALSE
    OBVIOUS
  <2>2. PICK T \in bad : \A W \in bad : W \subseteq T => W = T
    <3>1. bad \in SUBSET (SUBSET Subjects)
      OBVIOUS
    <3>2. IsFiniteSet(Subjects)
      BY EvidenceAssumption
    <3>. HIDE DEF bad
    <3>. QED
      BY <2>1, <3>1, <3>2, SmallestPart
  <2>3. F[{}] = 0 /\ G[{}] = 0 /\ H[{}] = 0
    BY <1>1, <1>2, <1>3 DEF IsSum, Adds
  <2>4. T # {}
    <3>1. {} \notin bad
      BY <2>3
    <3>. HIDE DEF bad
    <3>. QED
      BY <3>1
  <2>5. PICK s \in T : TRUE
    BY <2>4
  <2>. DEFINE W == T \ {s}
  <2>6. W \in SUBSET Subjects /\ W \notin bad /\ s \in Subjects /\ T \in SUBSET Subjects
    BY <2>2, <2>5
  <2>7. F[T] = f[s] + F[W] /\ G[T] = g[s] + G[W] /\ H[T] = h[s] + H[W]
    BY <1>1, <1>2, <1>3, <2>5, <2>6 DEF IsSum
  <2>8. H[W] = F[W] - G[W] /\ H[T] # F[T] - G[T]
    BY <2>6
  <2>. DEFINE a == f[s]
              b == g[s]
              c == F[W]
              d == G[W]
  <2>9. /\ a \in Int /\ b \in Int /\ c \in Int /\ d \in Int
        /\ F[T] = a + c /\ G[T] = b + d /\ H[T] = (a - b) + (c - d)
    BY <1>4, <2>6, <2>7, <2>8
  <2>. HIDE DEF a, b, c, d, bad
  <2>. QED
    BY <2>8, <2>9
<1>6. Subjects \notin bad
  BY <1>5
<1>7. H[Subjects] = F[Subjects] - G[Subjects]
  BY <1>6
<1>. HIDE DEF bad
<1>. QED
  BY <1>1, <1>2, <1>3, <1>4, <1>7

\* A sum of numbers that are not negative is at least each of them.
LEMMA SumOfNats ==
  ASSUME NEW f \in [Subjects -> Int], \A s \in Subjects : f[s] \in Nat
  PROVE  Summed(f) \in Nat /\ \A s \in Subjects : f[s] <= Summed(f)
<1>1. PICK F : IsSum(F, f, Subjects) /\ Summed(f) = F[Subjects]
  BY SumOverSubjects
<1>2. IsFiniteSet(Subjects)
  BY EvidenceAssumption
<1>3. ASSUME NEW B \in SUBSET Subjects PROVE F[B] \in Nat
  BY <1>1, <1>2, <1>3, SumIsNat
<1>4. ASSUME NEW s \in Subjects PROVE f[s] <= F[Subjects]
  <2>1. F[Subjects] = f[s] + F[Subjects \ {s}]
    BY <1>1 DEF IsSum
  <2>2. F[Subjects \ {s}] \in Nat /\ f[s] \in Nat
    BY <1>3
  <2>. QED
    BY <2>1, <2>2
<1>. QED
  BY <1>1, <1>3, <1>4

\* A sum of nothing but zeros.
LEMMA SumOfZeros ==
  ASSUME NEW f \in [Subjects -> Int], \A s \in Subjects : f[s] = 0
  PROVE  Summed(f) = 0
<1>1. Summed(f) \in Nat
  BY SumOfNats
<1>2. Summed(f) = Summed(f) - Summed(f)
  BY SumsDiffer
<1>. QED
  BY <1>1, <1>2

\* The series that are held are kept, and each holds something.
Healthy(all) ==
  /\ all \in [Subjects -> Spans \cup {Ser!Absent}]
  /\ \A s \in Subjects : all[s] # Ser!Absent => Kept(all[s]) /\ ~Ser!Hollow(all[s])

Total(all) == Summed([s \in Subjects |-> Ser!Items(all[s])])

\* What a subject is charged, and how many items it holds.
LEMMA SubjectIs ==
  ASSUME NEW all, Healthy(all), NEW s \in Subjects
  PROVE  /\ Ser!Charged(all[s]) \in Nat /\ Ser!Items(all[s]) \in Nat
         /\ all[s] = Ser!Absent => Ser!Charged(all[s]) = 0 /\ Ser!Items(all[s]) = 0
         /\ all[s] # Ser!Absent =>
              /\ all[s] \in Spans /\ Ser!SeriesBytes(all[s]) \in Nat
              /\ Ser!Charged(all[s]) = Ser!SeriesBytes(all[s]) + 256 /\ Ser!Items(all[s]) >= 1
<1>1. CASE all[s] = Ser!Absent
  BY <1>1 DEF Ser!Charged, Ser!Items
<1>2. CASE all[s] # Ser!Absent
  <2>1. all[s] \in Spans /\ ~Ser!Hollow(all[s])
    BY <1>2 DEF Healthy
  <2>2. Ser!SeriesBytes(all[s]) \in Nat /\ Ser!Items(all[s]) \in Nat /\ Ser!Items(all[s]) # 0
    BY <2>1, SpanBytes
  <2>3. Ser!Charged(all[s]) = Ser!SeriesBytes(all[s]) + 256
    BY <1>2 DEF Ser!Charged, Ser!subjectOverheadBytes
  <2>. QED
    BY <1>2, <2>1, <2>2, <2>3
<1>. QED
  BY <1>1, <1>2

\* What all are charged, and how many items they hold.
LEMMA TotalsAre ==
  ASSUME NEW all, Healthy(all)
  PROVE  /\ Ser!Accounted(all) = Summed([s \in Subjects |-> Ser!Charged(all[s])])
         /\ Ser!Accounted(all) \in Nat /\ Total(all) \in Nat
         /\ \A s \in Subjects : Ser!Items(all[s]) <= Total(all)
         /\ (\A s \in Subjects : all[s] = Ser!Absent) => Ser!Accounted(all) = 0
<1>. DEFINE f == [s \in Subjects |-> Ser!Charged(all[s])]
            g == [s \in Subjects |-> Ser!Items(all[s])]
<1>1. /\ f \in [Subjects -> Int] /\ g \in [Subjects -> Int]
      /\ \A s \in Subjects : f[s] \in Nat /\ g[s] \in Nat /\ g[s] = Ser!Items(all[s])
      /\ \A s \in Subjects : all[s] = Ser!Absent => f[s] = 0
  <2>1. \A s \in Subjects : Ser!Charged(all[s]) \in Nat /\ Ser!Items(all[s]) \in Nat
    BY SubjectIs
  <2>2. \A s \in Subjects : all[s] = Ser!Absent => Ser!Charged(all[s]) = 0
    BY SubjectIs
  <2>. QED
    BY <2>1, <2>2
<1>2. Ser!Accounted(all) = Summed(f) /\ Total(all) = Summed(g)
  BY SeriesSums DEF Ser!Accounted, Total
<1>. HIDE DEF f, g
<1>3. Summed(f) \in Nat /\ Summed(g) \in Nat /\ \A s \in Subjects : g[s] <= Summed(g)
  BY <1>1, SumOfNats
<1>4. (\A s \in Subjects : f[s] = 0) => Summed(f) = 0
  BY <1>1, SumOfZeros
<1>5. \A s \in Subjects : Ser!Items(all[s]) <= Total(all)
  BY <1>1, <1>2, <1>3
<1>. QED
  BY <1>1, <1>2, <1>3, <1>4, <1>5 DEF f

\* Totals in which one subject's series changes.
LEMMA OneSeriesChanges ==
  ASSUME NEW all, Healthy(all), NEW m, Healthy(m), NEW s \in Subjects,
         \A o \in Subjects : o # s => m[o] = all[o]
  PROVE  /\ Ser!Accounted(m) = Ser!Accounted(all) - Ser!Charged(all[s]) + Ser!Charged(m[s])
         /\ Total(m) = Total(all) - Ser!Items(all[s]) + Ser!Items(m[s])
<1>. DEFINE f(x) == [o \in Subjects |-> Ser!Charged(x[o])]
            g(x) == [o \in Subjects |-> Ser!Items(x[o])]
            fa == f(all)
            fm == f(m)
            ga == g(all)
            gm == g(m)
<1>1. /\ \A o \in Subjects : Ser!Charged(all[o]) \in Nat /\ Ser!Items(all[o]) \in Nat
      /\ \A o \in Subjects : Ser!Charged(m[o]) \in Nat /\ Ser!Items(m[o]) \in Nat
  BY SubjectIs
<1>2. /\ fa \in [Subjects -> Int] /\ fm \in [Subjects -> Int] /\ ga \in [Subjects -> Int]
      /\ gm \in [Subjects -> Int]
      /\ fa[s] = Ser!Charged(all[s]) /\ fm[s] = Ser!Charged(m[s])
      /\ ga[s] = Ser!Items(all[s]) /\ gm[s] = Ser!Items(m[s])
      /\ \A o \in Subjects : o # s => fm[o] = fa[o] /\ gm[o] = ga[o]
  BY <1>1
<1>3. /\ Ser!Accounted(all) = Summed(fa) /\ Ser!Accounted(m) = Summed(fm)
      /\ Total(all) = Summed(ga) /\ Total(m) = Summed(gm)
  BY SeriesSums DEF Ser!Accounted, Total
<1>. HIDE DEF fa, fm, ga, gm
<1>4. Summed(fm) = Summed(fa) - fa[s] + fm[s]
  BY <1>2, OneChanges
<1>5. Summed(gm) = Summed(ga) - ga[s] + gm[s]
  BY <1>2, OneChanges
<1>. QED
  BY <1>2, <1>3, <1>4, <1>5

\* Of the subjects that are held, one is the coldest.
LEMMA ColdestIs ==
  ASSUME NEW all, Healthy(all), \E s \in Subjects : all[s] # Ser!Absent
  PROVE  Ser!Coldest(all) \in Subjects /\ all[Ser!Coldest(all)] # Ser!Absent
<1>. DEFINE held == {s \in Subjects : all[s] # Ser!Absent}
            T == {all[s].lastSeq : s \in held}
<1>1. T \in SUBSET Nat /\ T # {}
  <2>1. \A s \in held : all[s] \in Spans
    BY DEF Healthy
  <2>2. \A s \in held : all[s].lastSeq \in Nat
    BY <2>1, SpanIs
  <2>. QED
    BY <2>2
<1>2. PICK least \in T : \A k \in T : least <= k
  <2>. HIDE DEF T
  <2>. QED
    BY <1>1, LeastNumber
<1>3. \E s \in held : \A o \in held : all[s].lastSeq <= all[o].lastSeq
  BY <1>2
<1>. QED
  BY <1>3 DEF Ser!Coldest

\* The books of a state that is on its way through the budget.
Books(st) == Healthy(st.all) /\ st.bytes = Ser!Accounted(st.all)

\* A round takes an item, gives back what it was charged, and the overhead with the last one.
LEMMA ShedIs ==
  ASSUME NEW st, Books(st), Ser!OverBudget(st), NEW out, out = Ser!Round(st)
  PROVE  Books(out) /\ Total(out.all) = Total(st.all) - 1
<1>. DEFINE all == st.all
            s == Ser!Coldest(all)
            sr == all[s]
            e == Ser!evictOne(sr)
            gone == Ser!Hollow(e.sr)
            m == [all EXCEPT ![s] = IF gone THEN Ser!Absent ELSE e.sr]
<1>1. Healthy(all) /\ s \in Subjects /\ sr # Ser!Absent
  BY ColdestIs DEF Books, Ser!OverBudget
<1>2. /\ out.all = m
      /\ out.bytes = st.bytes - e.delta - (IF gone THEN 256 ELSE 0)
  BY DEF Ser!Round, Ser!Shed, Ser!subjectOverheadBytes
<1>3. Kept(sr) /\ ~Ser!Hollow(sr)
  BY <1>1 DEF Healthy
<1>. HIDE DEF all, s, sr
<1>4. /\ Kept(e.sr) /\ e.delta = Ser!SeriesBytes(sr) - Ser!SeriesBytes(e.sr)
      /\ Ser!Items(e.sr) = Ser!Items(sr) - 1
  BY <1>3, EvictOneIs
<1>. HIDE DEF e
<1>5. /\ e.sr \in Spans /\ Ser!SeriesBytes(e.sr) \in Nat /\ Ser!Items(e.sr) \in Nat
      /\ gone => Ser!Items(e.sr) = 0
      /\ gone => Ser!SeriesBytes(e.sr) = 0
  <2>1. e.sr \in Spans
    BY <1>4 DEF Kept
  <2>2. gone => Ser!SeriesBytes(e.sr) = 0
    <3>1. ASSUME gone PROVE Ser!SeriesBytes(e.sr) = 0
      <4>1. /\ Len(e.sr.raw) = 0 /\ Len(e.sr.hourly) = 0 /\ Len(e.sr.daily) = 0
            /\ DayBytes(e.sr.day) = 0 /\ Ser!AccBytes(e.sr.acc) = 0
        BY <3>1, PartsAre DEF Ser!Hollow, DayBytes
      <4>2. Ser!SeriesBytes(e.sr) = Len(e.sr.raw) * 48 + (Len(e.sr.hourly) + Len(e.sr.daily)) * 136
                                    + Ser!AccBytes(e.sr.acc) + DayBytes(e.sr.day)
        BY <2>1, SpanBytes
      <4>. QED
        BY <4>1, <4>2
    <3>. QED
      BY <3>1
  <2>. QED
    BY <2>1, <2>2, SpanBytes
<1>6. m[s] = (IF gone THEN Ser!Absent ELSE e.sr) /\ \A o \in Subjects : o # s => m[o] = all[o]
  BY <1>1 DEF Healthy
<1>7. Healthy(m)
  <2>1. m \in [Subjects -> Spans \cup {Ser!Absent}]
    BY <1>1, <1>5 DEF Healthy
  <2>2. ASSUME NEW o \in Subjects, m[o] # Ser!Absent PROVE Kept(m[o]) /\ ~Ser!Hollow(m[o])
    <3>1. CASE o = s
      BY <1>4, <1>6, <2>2, <3>1
    <3>2. CASE o # s
      BY <1>1, <1>6, <2>2, <3>2 DEF Healthy
    <3>. QED
      BY <3>1, <3>2
  <2>. HIDE DEF m
  <2>. QED
    BY <2>1, <2>2 DEF Healthy
<1>. HIDE DEF m
<1>8. /\ Ser!Accounted(m) = Ser!Accounted(all) - Ser!Charged(sr) + Ser!Charged(m[s])
      /\ Total(m) = Total(all) - Ser!Items(sr) + Ser!Items(m[s])
  BY <1>1, <1>6, <1>7, OneSeriesChanges DEF sr
<1>9. /\ Ser!Accounted(all) \in Nat /\ Total(all) \in Nat
      /\ sr \in Spans /\ Ser!SeriesBytes(sr) \in Nat /\ Ser!Charged(sr) = Ser!SeriesBytes(sr) + 256
      /\ Ser!Items(sr) \in Nat
  BY <1>1, TotalsAre, SubjectIs DEF sr
<1>10. st.bytes = Ser!Accounted(all)
  BY DEF Books, all
<1>. DEFINE A == Ser!Accounted(all)
            B == Ser!SeriesBytes(sr)
            C == Ser!SeriesBytes(e.sr)
            I == Ser!Items(sr)
            J == Ser!Items(e.sr)
            N == Total(all)
<1>11. A \in Nat /\ B \in Nat /\ C \in Nat /\ I \in Nat /\ J \in Nat /\ N \in Nat /\ J = I - 1
  BY <1>4, <1>5, <1>9
<1>12. CASE gone
  <2>1. Ser!Charged(m[s]) = 0 /\ Ser!Items(m[s]) = 0 /\ C = 0 /\ J = 0
    BY <1>5, <1>6, <1>12 DEF Ser!Charged, Ser!Items
  <2>2. Ser!Accounted(m) = A - (B + 256) + 0 /\ Total(m) = N - I + 0
    BY <1>8, <1>9, <2>1
  <2>3. out.bytes = A - (B - C) - 256
    BY <1>2, <1>4, <1>10, <1>12
  <2>. HIDE DEF A, B, C, I, J, N
  <2>4. A - (B + 256) + 0 = A - (B - C) - 256 /\ N - I + 0 = N - 1
    BY <1>11, <2>1
  <2>. QED
    BY <1>2, <1>7, <2>2, <2>3, <2>4 DEF Books, N, all
<1>13. CASE ~gone
  <2>1. m[s] = e.sr /\ m[s] # Ser!Absent
    BY <1>5, <1>6, <1>13, SpanIs
  <2>2. Ser!Charged(m[s]) = C + 256 /\ Ser!Items(m[s]) = J
    BY <2>1 DEF Ser!Charged, Ser!subjectOverheadBytes
  <2>3. Ser!Accounted(m) = A - (B + 256) + (C + 256) /\ Total(m) = N - I + J
    BY <1>8, <1>9, <2>2
  <2>4. out.bytes = A - (B - C) - 0
    BY <1>2, <1>4, <1>10, <1>13
  <2>. HIDE DEF A, B, C, I, J, N
  <2>5. A - (B + 256) + (C + 256) = A - (B - C) - 0 /\ N - I + J = N - 1
    BY <1>11
  <2>. QED
    BY <1>2, <1>7, <2>3, <2>4, <2>5 DEF Books, N, all
<1>. QED
  BY <1>12, <1>13

\* The function that enforceSeriesBudget recurs on.
SeriesRounds(F, st, N) == F = [n \in 0..N |-> IF n = 0 THEN st ELSE Ser!Round(F[n - 1])]

\* enforceSeriesBudget step by step: the function it recurs on exists.
LEMMA ShedsExist ==
  ASSUME NEW st, NEW N \in Nat
  PROVE  \E F : SeriesRounds(F, st, N)
<1>. DEFINE Is(F, k) == F = [n \in 0..k |-> IF n = 0 THEN st ELSE Ser!Round(F[n - 1])]
            bad == {k \in Nat : ~ \E F : Is(F, k)}
<1>1. \E F : Is(F, 0)
  <2>1. Is([n \in 0..0 |-> st], 0)
    OBVIOUS
  <2>. QED
    BY <2>1
<1>2. ASSUME NEW k \in Nat, NEW F, Is(F, k) PROVE \E G : Is(G, k + 1)
  <2>. DEFINE G == [n \in 0..(k + 1) |-> IF n = 0 THEN st ELSE Ser!Round(F[n - 1])]
  <2>1. \A n \in 0..k : G[n] = F[n]
    BY <1>2
  <2>2. \A n \in 0..(k + 1) : n # 0 => n - 1 \in 0..k
    OBVIOUS
  <2>3. Is(G, k + 1)
    BY <2>1, <2>2
  <2>. QED
    BY <2>3
<1>3. bad = {}
  <2>1. SUFFICES ASSUME bad # {} PROVE FALSE
    OBVIOUS
  <2>2. PICK k \in bad : \A i \in bad : k <= i
    <3>1. bad \in SUBSET Nat
      OBVIOUS
    <3>. HIDE DEF bad
    <3>. QED
      BY <2>1, <3>1, LeastNumber
  <2>. HIDE DEF Is
  <2>3. k \in Nat /\ k # 0
    BY <1>1
  <2>4. k - 1 \in Nat /\ k - 1 \notin bad /\ (k - 1) + 1 = k
    <3>. HIDE DEF bad
    <3>. QED
      BY <2>2, <2>3
  <2>5. PICK F : Is(F, k - 1)
    BY <2>4
  <2>6. \E G : Is(G, k)
    BY <1>2, <2>4, <2>5
  <2>. QED
    BY <2>6
<1>4. PICK F : Is(F, N)
  <2>. HIDE DEF Is
  <2>. QED
    BY <1>3
<1>. QED
  BY <1>4 DEF SeriesRounds

\* Its rounds are as many as there are items, each from where the last one left off.
SeriesRun(st, f, all) ==
  /\ all = Total(st.all) /\ Ser!enforceSeriesBudget(st) = f[all] /\ f[0] = st
  /\ \A k \in 0..all : k # 0 => f[k] = Ser!Round(f[k - 1])
LEMMA SeriesRunExists ==
  ASSUME NEW st, Healthy(st.all)
  PROVE  \E all \in Nat : \E f : SeriesRun(st, f, all)
<1>. DEFINE all == Ser!SumFunction([s \in Subjects |-> Ser!Items(st.all[s])])
            f == CHOOSE F : SeriesRounds(F, st, all)
<1>1. Ser!enforceSeriesBudget(st) = f[all]
  BY DEF Ser!enforceSeriesBudget, SeriesRounds
<1>2. all = Total(st.all)
  BY SeriesSums DEF Total
<1>. HIDE DEF all
<1>3. all \in Nat
  BY <1>2, TotalsAre
<1>4. SeriesRounds(f, st, all)
  BY <1>3, ShedsExist
<1>. HIDE DEF f
<1>5. f[0] = st /\ \A k \in 0..all : k # 0 => f[k] = Ser!Round(f[k - 1])
  BY <1>3, <1>4 DEF SeriesRounds
<1>. QED
  BY <1>1, <1>2, <1>3, <1>5 DEF SeriesRun

\* enforceSeriesBudget leaves books that balance and, as a round takes an item, are within the budget.
LEMMA SeriesBudget ==
  ASSUME NEW st, Books(st), NEW out, out = Ser!enforceSeriesBudget(st)
  PROVE  Books(out) /\ out.bytes <= MaxSeriesBytes
<1>1. PICK all \in Nat : \E f : SeriesRun(st, f, all)
  BY SeriesRunExists DEF Books
<1>2. PICK f : /\ all = Total(st.all) /\ out = f[all] /\ f[0] = st
               /\ \A k \in 0..all : k # 0 => f[k] = Ser!Round(f[k - 1])
  BY <1>1 DEF SeriesRun
<1>. DEFINE Fine(k) == Books(f[k]) /\ (Ser!OverBudget(f[k]) => Total(f[k].all) + k = all)
            bad == {k \in 0..all : ~Fine(k)}
<1>3. ASSUME NEW x, Books(x) PROVE Total(x.all) \in Nat
  BY <1>3, TotalsAre DEF Books
<1>4. bad = {}
  <2>1. SUFFICES ASSUME bad # {} PROVE FALSE
    OBVIOUS
  <2>2. PICK k \in bad : \A i \in bad : k <= i
    <3>1. bad \in SUBSET Nat
      OBVIOUS
    <3>. HIDE DEF bad
    <3>. QED
      BY <2>1, <3>1, LeastNumber
  <2>3. Fine(0)
    <3>1. Total(f[0].all) \in Nat
      BY <1>2, <1>3
    <3>. QED
      BY <1>2, <3>1
  <2>. HIDE DEF Fine
  <2>4. k \in 0..all /\ k # 0
    BY <2>3
  <2>5. k - 1 \in 0..all /\ k - 1 \notin bad
    <3>. HIDE DEF bad
    <3>. QED
      BY <1>2, <2>2, <2>4
  <2>6. Fine(k - 1)
    BY <2>5
  <2>7. f[k] = Ser!Round(f[k - 1])
    BY <1>2, <2>4
  <2>8. CASE Ser!OverBudget(f[k - 1])
    <3>1. Books(f[k]) /\ Total(f[k].all) = Total(f[k - 1].all) - 1 /\ Total(f[k - 1].all) + (k - 1) = all
      BY <2>6, <2>7, <2>8, ShedIs DEF Fine
    <3>2. Total(f[k - 1].all) \in Nat
      BY <1>3, <2>6 DEF Fine
    <3>3. Fine(k)
      BY <2>4, <3>1, <3>2 DEF Fine
    <3>. QED
      BY <3>3
  <2>9. CASE ~Ser!OverBudget(f[k - 1])
    <3>1. f[k] = f[k - 1]
      BY <2>7, <2>9 DEF Ser!Round
    <3>2. Fine(k)
      BY <2>6, <2>9, <3>1 DEF Fine
    <3>. QED
      BY <3>2
  <2>. QED
    BY <2>8, <2>9
<1>5. Books(out) /\ (Ser!OverBudget(out) => Total(out.all) + all = all)
  <2>1. Fine(all)
    BY <1>2, <1>4
  <2>. QED
    BY <1>2, <2>1
<1>6. ~Ser!OverBudget(out)
  <2>1. SUFFICES ASSUME Ser!OverBudget(out) PROVE FALSE
    OBVIOUS
  <2>2. Total(out.all) = 0
    <3>1. Total(out.all) \in Nat
      BY <1>3, <1>5
    <3>. QED
      BY <1>5, <2>1, <3>1
  <2>3. PICK s \in Subjects : out.all[s] # Ser!Absent
    BY <2>1 DEF Ser!OverBudget
  <2>4. Healthy(out.all)
    BY <1>5 DEF Books
  <2>5. Ser!Items(out.all[s]) \in Nat /\ Ser!Items(out.all[s]) >= 1
    BY <2>3, <2>4, SubjectIs
  <2>6. Ser!Items(out.all[s]) <= 0
    BY <2>2, <2>4, TotalsAre
  <2>. QED
    BY <2>5, <2>6
<1>7. out.bytes <= MaxSeriesBytes
  <2>1. Healthy(out.all) /\ out.bytes = Ser!Accounted(out.all) /\ MaxSeriesBytes \in Nat
    BY <1>5, SeriesCaps DEF Books
  <2>2. out.bytes \in Nat
    BY <2>1, TotalsAre
  <2>3. CASE \A s \in Subjects : out.all[s] = Ser!Absent
    <3>1. out.bytes = 0
      BY <2>1, <2>3, TotalsAre
    <3>. QED
      BY <2>1, <3>1
  <2>4. CASE \E s \in Subjects : out.all[s] # Ser!Absent
    <3>1. ~(out.bytes > MaxSeriesBytes)
      BY <1>6, <2>4 DEF Ser!OverBudget
    <3>. QED
      BY <2>1, <2>2, <3>1
  <2>. QED
    BY <2>3, <2>4
<1>. QED
  BY <1>5, <1>7

(* ---- The series: every step ---- *)

SeriesInv == run \in Nat /\ Healthy(db) /\ hour = Ser!Accounted(db) /\ hour <= MaxSeriesBytes

\* Nothing is held to begin with.
LEMMA SeriesInit == Ser!Init => SeriesInv
<1>. SUFFICES ASSUME Ser!Init PROVE SeriesInv
  OBVIOUS
<1>1. db = [s \in Subjects |-> Ser!Absent] /\ hour = 0 /\ run = 0
  BY DEF Ser!Init
<1>2. Healthy(db)
  BY <1>1 DEF Healthy
<1>3. Ser!Accounted(db) = 0
  BY <1>1, <1>2, TotalsAre
<1>. QED
  BY <1>1, <1>2, <1>3, SeriesCaps DEF SeriesInv

\* A sample of one subject is taken in, and the budget enforced.
LEMMA ObserveKeeps ==
  ASSUME SeriesInv, NEW s \in Subjects, NEW smp \in Samples, Ser!ObserveSample(s, smp)
  PROVE  SeriesInv'
<1>. DEFINE sr == IF db[s] = Ser!Absent THEN Ser!Fresh ELSE db[s]
            in == Ser!ingest(sr, smp, run + 1)
            new == IF db[s] = Ser!Absent THEN Ser!subjectOverheadBytes ELSE 0
            st == [all |-> [db EXCEPT ![s] = in.sr], bytes |-> hour + new + in.delta]
            out == Ser!enforceSeriesBudget(st)
            m == st.all
<1>1. /\ db[s] # Ser!Absent => smp.at >= db[s].lastAt
      /\ db' = out.all /\ hour' = out.bytes /\ run' = run + 1
  BY DEF Ser!ObserveSample
<1>2. run \in Nat /\ Healthy(db) /\ hour = Ser!Accounted(db)
  BY DEF SeriesInv
<1>3. Kept(sr) /\ sr.lastAt <= smp.at /\ run + 1 \in Nat
  <2>1. CASE db[s] = Ser!Absent
    <3>1. sr = Ser!Fresh /\ smp.at \in Nat
      BY <2>1 DEF Samples
    <3>. HIDE DEF sr
    <3>. QED
      BY <1>2, <3>1, FreshIs
  <2>2. CASE db[s] # Ser!Absent
    <3>1. sr = db[s] /\ Kept(db[s])
      BY <1>2, <2>2 DEF Healthy
    <3>2. db[s].lastAt \in Nat /\ smp.at \in Nat
      BY <3>1, SpanIs DEF Kept, Samples
    <3>. HIDE DEF sr
    <3>. QED
      BY <1>1, <1>2, <2>2, <3>1, <3>2
  <2>. QED
    BY <2>1, <2>2
<1>. HIDE DEF sr
<1>4. /\ Kept(in.sr) /\ ~Ser!Hollow(in.sr)
      /\ in.delta = Ser!SeriesBytes(in.sr) - Ser!SeriesBytes(sr)
  BY <1>3, IngestIs
<1>. HIDE DEF in
<1>5. in.sr \in Spans /\ in.sr # Ser!Absent
  <2>1. in.sr \in Spans
    BY <1>4 DEF Kept
  <2>. QED
    BY <2>1, SpanIs
<1>6. m[s] = in.sr /\ \A o \in Subjects : o # s => m[o] = db[o]
  BY <1>2 DEF Healthy
<1>7. Healthy(m)
  <2>1. m \in [Subjects -> Spans \cup {Ser!Absent}]
    BY <1>2, <1>5 DEF Healthy
  <2>2. ASSUME NEW o \in Subjects, m[o] # Ser!Absent PROVE Kept(m[o]) /\ ~Ser!Hollow(m[o])
    <3>1. CASE o = s
      BY <1>4, <1>6, <3>1
    <3>2. CASE o # s
      BY <1>2, <1>6, <2>2, <3>2 DEF Healthy
    <3>. QED
      BY <3>1, <3>2
  <2>. HIDE DEF m
  <2>. QED
    BY <2>1, <2>2 DEF Healthy
<1>8. st.bytes = hour + new + in.delta
  OBVIOUS
<1>9. Ser!Charged(m[s]) = Ser!SeriesBytes(in.sr) + 256
  BY <1>5, <1>6 DEF Ser!Charged, Ser!subjectOverheadBytes
<1>10. Ser!Charged(db[s]) + new = Ser!SeriesBytes(sr) + 256
  <2>1. CASE db[s] = Ser!Absent
    <3>1. sr = Ser!Fresh /\ new = 256 /\ Ser!Charged(db[s]) = 0
      BY <2>1 DEF sr, Ser!subjectOverheadBytes, Ser!Charged
    <3>. HIDE DEF new
    <3>. QED
      BY <3>1, FreshIs
  <2>2. CASE db[s] # Ser!Absent
    <3>1. sr = db[s] /\ new = 0
      BY <2>2 DEF sr
    <3>2. Ser!Charged(db[s]) = Ser!SeriesBytes(db[s]) + 256 /\ Ser!SeriesBytes(db[s]) \in Nat
      BY <1>2, <2>2, SubjectIs
    <3>. HIDE DEF new
    <3>. QED
      BY <3>1, <3>2
  <2>. QED
    BY <2>1, <2>2
<1>11. new \in {0, 256}
  BY DEF Ser!subjectOverheadBytes
<1>. HIDE DEF st, m, new
<1>12. Ser!Accounted(m) = Ser!Accounted(db) - Ser!Charged(db[s]) + Ser!Charged(m[s])
  BY <1>2, <1>6, <1>7, OneSeriesChanges
<1>13. st.bytes = Ser!Accounted(m)
  <2>. DEFINE A == Ser!Accounted(db)
              B == Ser!Charged(db[s])
              C == Ser!SeriesBytes(sr)
              D == Ser!SeriesBytes(in.sr)
  <2>1. A \in Nat /\ B \in Nat
    BY <1>2, TotalsAre, SubjectIs
  <2>2. C \in Nat /\ D \in Nat
    BY <1>3, <1>5, SpanBytes DEF Kept
  <2>3. B + new = C + 256 /\ st.bytes = A + new + (D - C) /\ Ser!Accounted(m) = A - B + (D + 256)
    BY <1>2, <1>4, <1>8, <1>9, <1>10, <1>12
  <2>. HIDE DEF A, B, C, D
  <2>. QED
    BY <1>11, <2>1, <2>2, <2>3
<1>14. Books(out) /\ out.bytes <= MaxSeriesBytes
  <2>1. Books(st)
    BY <1>7, <1>13 DEF Books, m
  <2>. QED
    BY <2>1, SeriesBudget
<1>. HIDE DEF out
<1>. QED
  BY <1>1, <1>3, <1>14 DEF SeriesInv, Books

\* Age takes what is too old of every subject, and gives back what it was charged.
LEMMA AgeKeeps ==
  ASSUME SeriesInv, NEW now, Ser!Prune(now)
  PROVE  SeriesInv'
<1>. DEFINE left(s) == Ser!prune(db[s], now)
            freed(s) == IF s \notin Ser!Held THEN 0
                        ELSE Ser!SeriesBytes(db[s]) - Ser!SeriesBytes(left(s))
                             + (IF Ser!Hollow(left(s)) THEN Ser!subjectOverheadBytes ELSE 0)
            f == [s \in Subjects |-> Ser!Charged(db[s])]
            g == [s \in Subjects |-> Ser!Charged(db'[s])]
            h == [s \in Subjects |-> freed(s)]
<1>1. /\ db' = [s \in Subjects |->
                  IF s \notin Ser!Held \/ Ser!Hollow(left(s)) THEN Ser!Absent ELSE left(s)]
      /\ hour' = hour - Ser!SumFunction(h) /\ run' = run
  BY DEF Ser!Prune
<1>2. run \in Nat /\ Healthy(db) /\ hour = Ser!Accounted(db) /\ hour <= MaxSeriesBytes
  BY DEF SeriesInv
<1>3. ASSUME NEW s \in Subjects, s \in Ser!Held
      PROVE  /\ Kept(left(s)) /\ left(s) \in Spans
             /\ Ser!SeriesBytes(left(s)) <= Ser!SeriesBytes(db[s])
  <2>1. Kept(db[s])
    BY <1>2, <1>3 DEF Healthy, Ser!Held
  <2>2. Kept(left(s)) /\ Ser!SeriesBytes(left(s)) <= Ser!SeriesBytes(db[s])
    BY <2>1, PruneIs
  <2>. QED
    BY <2>2 DEF Kept
<1>. HIDE DEF left
<1>4. Healthy(db')
  <2>1. db' \in [Subjects -> Spans \cup {Ser!Absent}]
    BY <1>1, <1>3
  <2>2. \A s \in Subjects : db'[s] # Ser!Absent => Kept(db'[s]) /\ ~Ser!Hollow(db'[s])
    BY <1>1, <1>3
  <2>. QED
    BY <2>1, <2>2 DEF Healthy
<1>5. ASSUME NEW s \in Subjects
      PROVE  freed(s) \in Nat /\ freed(s) = Ser!Charged(db[s]) - Ser!Charged(db'[s])
  <2>. DEFINE B == Ser!SeriesBytes(db[s])
              C == Ser!SeriesBytes(left(s))
  <2>1. CASE s \notin Ser!Held
    <3>1. db[s] = Ser!Absent /\ db'[s] = Ser!Absent /\ freed(s) = 0
      BY <1>1, <2>1 DEF Ser!Held
    <3>. QED
      BY <3>1 DEF Ser!Charged
  <2>2. CASE s \in Ser!Held
    <3>1. db[s] # Ser!Absent /\ left(s) \in Spans
      BY <1>3, <2>2 DEF Ser!Held
    <3>2. B \in Nat /\ C \in Nat /\ C <= B /\ Ser!Charged(db[s]) = B + 256
      BY <1>2, <1>3, <2>2, <3>1, SubjectIs, SpanBytes
    <3>3. CASE Ser!Hollow(left(s))
      <4>1. C = 0
        <5>. DEFINE l == left(s)
        <5>1. /\ Len(l.raw) = 0 /\ Len(l.hourly) = 0 /\ Len(l.daily) = 0
              /\ DayBytes(l.day) = 0 /\ Ser!AccBytes(l.acc) = 0
          BY <3>3, PartsAre DEF Ser!Hollow, DayBytes
        <5>2. C = Len(l.raw) * 48 + (Len(l.hourly) + Len(l.daily)) * 136
                  + Ser!AccBytes(l.acc) + DayBytes(l.day)
          BY <3>1, SpanBytes
        <5>. QED
          BY <5>1, <5>2
      <4>2. Ser!Charged(db'[s]) = 0
        BY <1>1, <3>3 DEF Ser!Charged
      <4>3. freed(s) = B - C + 256
        BY <2>2, <3>3 DEF Ser!subjectOverheadBytes
      <4>. HIDE DEF B, C, freed
      <4>. QED
        BY <3>2, <4>1, <4>2, <4>3
    <3>4. CASE ~Ser!Hollow(left(s))
      <4>1. db'[s] = left(s) /\ left(s) # Ser!Absent
        BY <1>1, <2>2, <3>1, <3>4, SpanIs
      <4>2. Ser!Charged(db'[s]) = C + 256
        BY <4>1 DEF Ser!Charged, Ser!subjectOverheadBytes
      <4>3. freed(s) = B - C + 0
        BY <2>2, <3>4
      <4>. HIDE DEF B, C, freed
      <4>. QED
        BY <3>2, <4>2, <4>3
    <3>. QED
      BY <3>3, <3>4
  <2>. QED
    BY <2>1, <2>2
<1>. HIDE DEF freed
<1>6. /\ f \in [Subjects -> Int] /\ g \in [Subjects -> Int] /\ h \in [Subjects -> Int]
      /\ \A s \in Subjects : h[s] = f[s] - g[s] /\ h[s] \in Nat
  <2>1. \A s \in Subjects : Ser!Charged(db[s]) \in Nat /\ Ser!Charged(db'[s]) \in Nat
    BY <1>2, <1>4, SubjectIs
  <2>. QED
    BY <1>5, <2>1
<1>7. Ser!Accounted(db) = Summed(f) /\ Ser!Accounted(db') = Summed(g) /\ hour' = hour - Summed(h)
  BY <1>1, <1>2, <1>4, TotalsAre, SeriesSums
<1>8. Ser!Accounted(db) \in Nat /\ Ser!Accounted(db') \in Nat /\ MaxSeriesBytes \in Nat
  BY <1>2, <1>4, TotalsAre, SeriesCaps
<1>9. Summed(h) \in Nat
  <2>1. \A s \in Subjects : h[s] \in Nat
    BY <1>6
  <2>. QED
    BY <1>6, <2>1, SumOfNats
<1>. HIDE DEF f, g, h
<1>10. Summed(h) = Summed(f) - Summed(g)
  BY <1>6, SumsDiffer
<1>11. hour' = Ser!Accounted(db') /\ hour' <= MaxSeriesBytes
  BY <1>2, <1>7, <1>8, <1>9, <1>10
<1>. QED
  BY <1>1, <1>2, <1>4, <1>11 DEF SeriesInv

\* A restart charges what the checkpoint holds, and enforces the budget.
LEMMA RestartOfSeries == ASSUME SeriesInv, Ser!Restart PROVE SeriesInv'
<1>. DEFINE st == [all |-> db, bytes |-> Ser!Accounted(db)]
            out == Ser!enforceSeriesBudget(st)
<1>1. db' = out.all /\ hour' = out.bytes /\ run' = run
  BY DEF Ser!Restart
<1>2. Books(st)
  BY DEF SeriesInv, Books
<1>. HIDE DEF st
<1>3. Books(out) /\ out.bytes <= MaxSeriesBytes
  BY <1>2, SeriesBudget
<1>. HIDE DEF out
<1>. QED
  BY <1>1, <1>3 DEF SeriesInv, Books

\* Every step of the series keeps the invariant.
LEMMA SeriesNext == SeriesInv /\ [Ser!Next]_(Ser!vars) => SeriesInv'
<1>. SUFFICES ASSUME SeriesInv, [Ser!Next]_(Ser!vars) PROVE SeriesInv'
  OBVIOUS
<1>1. CASE UNCHANGED Ser!vars
  BY <1>1 DEF Ser!vars, SeriesInv, Healthy, Ser!Accounted, Ser!Charged
<1>2. CASE Ser!Restart
  BY <1>2, RestartOfSeries
<1>3. ASSUME NEW now \in Ser!Hours, Ser!Prune(now) PROVE SeriesInv'
  BY <1>3, AgeKeeps
<1>4. ASSUME NEW s \in Subjects, NEW h \in Ser!Hours, NEW l \in Levels, NEW k \in BOOLEAN,
             Ser!ObserveSample(s, Ser!Sample(h, l, k))
      PROVE  SeriesInv'
  <2>1. Ser!Sample(h, l, k) \in Samples
    BY DEF Ser!Sample, Samples, Ser!Hours
  <2>. QED
    BY <1>4, <2>1, ObserveKeeps
<1>. QED
  BY <1>1, <1>2, <1>3, <1>4 DEF Ser!Next

\* Books that balance within the budget are what BytesAgree says, and a checkpoint accepts them.
LEMMA SeriesHolds == SeriesInv => Ser!BytesAgree /\ Ser!Restorable
<1>. SUFFICES ASSUME SeriesInv PROVE Ser!BytesAgree /\ Ser!Restorable
  OBVIOUS
<1>1. Ser!BytesAgree
  BY DEF SeriesInv, Ser!BytesAgree
<1>2. \A s \in Ser!Held : Kept(db[s])
  BY DEF SeriesInv, Healthy, Ser!Held
<1>3. Ser!Restorable
  BY <1>2, KeptLoads DEF Ser!Restorable
<1>. QED
  BY <1>1, <1>3

(* ---- The investigation: what is published, and what the chain accounts for ---- *)

InScope(f) == ScopeFrom <= f.at /\ f.at < ScopeTo
Kinds == {"question", "turn", "tool", "outcome"}
States == {"", "turn-limit", "budget-tokens", "budget-usd", "provider-failed", "malformed",
           "discarded", "answered"}
Records == [kind : Kinds, cites : SUBSET Facts, refused : BOOLEAN, capped : BOOLEAN,
            failed : BOOLEAN, charge : Nat, state : States]

Spends == [turns : Nat, tokens : Nat, usd : Nat, toolCalls : Nat]

\* What the investigation keeps in its variables.
Typed ==
  /\ run \in {"idle", "asking", "calling", "publishing", "done"}
  /\ env \in Spends
  /\ hour \in Nat /\ was \in Nat
  /\ run = "calling" => snap \in Seq(Calls)
  /\ targets \in Seq(Facts) /\ checkpoint \in Seq(Facts) /\ db \subseteq Facts
  /\ report \in Seq(Records)

\* What the calls on record have shown.
ShownBy(r) == UNION {r[i].cites : i \in {j \in DOMAIN r : r[j].kind = "tool"}}

\* Handles are issued for facts of the scope that a recorded call showed, and only facts with a
\* handle are verified.
ShownInv ==
  /\ \A f \in Inv!Issued : f \in ShownBy(report) /\ InScope(f)
  /\ \A i \in DOMAIN checkpoint : checkpoint[i] \in Inv!Issued

\* What an answer on record cites was shown and lies in the scope.
Grounded(r) ==
  \A i \in DOMAIN r : r[i].kind = "outcome" /\ r[i].state = "answered" =>
    r[i].cites # {} /\ r[i].cites \subseteq ShownBy(r) /\ \A f \in r[i].cites : InScope(f)

\* Of the turns that were charged, and of the calls that were counted, there is a record each.
Turns(r) == {i \in DOMAIN r : r[i].kind = "turn" /\ ~r[i].failed}
ToolRuns(r) == {i \in DOMAIN r : r[i].kind = "tool" /\ ~r[i].capped}

\* The chain opens with its question and is sealed by its outcome.
Chain(r, phase, spend) ==
  /\ phase = "idle" <=> r = <<>>
  /\ \A i \in DOMAIN r : r[i].kind = "question" => i = 1
  /\ \A i \in DOMAIN r : r[i].kind = "outcome" <=> (phase = "done" /\ i = Len(r))
  /\ spend.turns = Cardinality(Turns(r))
  /\ spend.toolCalls = Cardinality(ToolRuns(r))
  /\ spend.turns <= MaxTurns /\ spend.toolCalls <= MaxToolCalls
  /\ \A i \in DOMAIN r : r[i].kind = "turn" =>
       \/ spend.tokens - r[i].charge <= MaxTokens - MinTurnTokens
       \/ \E j \in DOMAIN r : r[j].kind = "turn" /\ j > i

ReasonInv == Typed /\ ShownInv /\ Chain(report, run, env) /\ Grounded(report)

\* a is r with e at its end: the records before it stay what they were, and e is counted.
Extends(r, e, a) ==
  /\ a \in Seq(Records) /\ a # <<>> /\ Len(a) = Len(r) + 1 /\ Len(r) \in Nat
  /\ DOMAIN r = 1..Len(r) /\ DOMAIN a = 1..(Len(r) + 1)
  /\ \A i \in DOMAIN r : a[i] = r[i] /\ i # Len(a)
  /\ a[Len(a)] = e /\ Len(a) \in DOMAIN a
  /\ \A i \in DOMAIN a : i \in DOMAIN r \/ i = Len(a)
  /\ Cardinality(Turns(a)) = Cardinality(Turns(r))
       + (IF e.kind = "turn" /\ ~e.failed THEN 1 ELSE 0)
  /\ Cardinality(ToolRuns(a)) = Cardinality(ToolRuns(r))
       + (IF e.kind = "tool" /\ ~e.capped THEN 1 ELSE 0)

\* Appending a record does so.
LEMMA Appended ==
  ASSUME NEW r \in Seq(Records), NEW e \in Records, NEW a, a = Append(r, e)
  PROVE  Extends(r, e, a)
<1>1. /\ a \in Seq(Records) /\ a # <<>> /\ Len(a) = Len(r) + 1 /\ Len(r) \in Nat
      /\ DOMAIN r = 1..Len(r) /\ DOMAIN a = 1..(Len(r) + 1)
      /\ \A i \in 1..Len(r) : a[i] = r[i]
      /\ a[Len(r) + 1] = e
  BY AppendProperties, LenProperties
<1>2. /\ \A i \in DOMAIN r : a[i] = r[i] /\ i # Len(a)
      /\ a[Len(a)] = e /\ Len(a) \in DOMAIN a
      /\ \A i \in DOMAIN a : i \in DOMAIN r \/ i = Len(a)
      /\ DOMAIN r \subseteq DOMAIN a /\ Len(a) \notin DOMAIN r
  BY <1>1
<1>3. IsFiniteSet(Turns(r)) /\ IsFiniteSet(ToolRuns(r))
  <2>1. 1 \in Int /\ Len(r) \in Int
    BY <1>1
  <2>2. IsFiniteSet(1..Len(r))
    BY <2>1, FS_Interval
  <2>3. Turns(r) \in SUBSET (1..Len(r)) /\ ToolRuns(r) \in SUBSET (1..Len(r))
    BY <1>1 DEF Turns, ToolRuns
  <2>. QED
    BY <2>2, <2>3, FS_Subset
<1>4. Turns(a) = IF e.kind = "turn" /\ ~e.failed THEN Turns(r) \cup {Len(a)} ELSE Turns(r)
  BY <1>2 DEF Turns
<1>5. ToolRuns(a) = IF e.kind = "tool" /\ ~e.capped THEN ToolRuns(r) \cup {Len(a)} ELSE ToolRuns(r)
  BY <1>2 DEF ToolRuns
<1>6. Len(a) \notin Turns(r) /\ Len(a) \notin ToolRuns(r)
  BY <1>2 DEF Turns, ToolRuns
<1>7. Cardinality(Turns(r)) \in Nat /\ Cardinality(ToolRuns(r)) \in Nat
  BY <1>3, FS_CardinalityType
<1>8. Cardinality(Turns(a)) = Cardinality(Turns(r)) + (IF e.kind = "turn" /\ ~e.failed THEN 1 ELSE 0)
  <2>1. Cardinality(Turns(r) \cup {Len(a)}) = Cardinality(Turns(r)) + 1
    BY <1>3, <1>6, FS_AddElement
  <2>. QED
    BY <1>4, <1>7, <2>1
<1>9. Cardinality(ToolRuns(a)) = Cardinality(ToolRuns(r)) + (IF e.kind = "tool" /\ ~e.capped THEN 1 ELSE 0)
  <2>1. Cardinality(ToolRuns(r) \cup {Len(a)}) = Cardinality(ToolRuns(r)) + 1
    BY <1>3, <1>6, FS_AddElement
  <2>. QED
    BY <1>5, <1>7, <2>1
<1>. QED
  BY <1>1, <1>2, <1>8, <1>9 DEF Extends

\* What a call shows are facts the substrate holds, of the scope.
LEMMA ShowsInScope ==
  ASSUME db \subseteq Facts, NEW call \in Calls
  PROVE  Inv!Shows(call) \subseteq db /\ \A f \in Inv!Shows(call) : InScope(f)
<1>1. ScopeFrom \in Nat /\ ScopeTo \in Nat /\ MaxSpan \in Nat /\ call.from \in Nat /\ call.to \in Nat
  BY EvidenceAssumption
<1>2. ASSUME NEW span \in Nat, NEW w, w = Inv!ClampWindow(call, span), w # <<>>,
             NEW f \in Facts, Inv!InWindow(f, w)
      PROVE  InScope(f)
  <2>1. f.at \in Nat
    BY EvidenceAssumption
  <2>. QED
    BY <1>1, <1>2, <2>1 DEF Inv!ClampWindow, Inv!InWindow, Inv!Lower, Inv!Higher, InScope
<1>3. CASE Inv!Refused(call) \/ call.tool = "list"
  BY <1>3 DEF Inv!Shows
<1>4. CASE ~Inv!Refused(call) /\ call.tool = "query"
  <2>1. Inv!ClampWindow(call, MaxSpan) # <<>>
    BY <1>4 DEF Inv!Refused
  <2>2. \A f \in Inv!QueryEvidence(call) : f \in db /\ Inv!InWindow(f, Inv!ClampWindow(call, MaxSpan))
    BY DEF Inv!QueryEvidence, Inv!Newest
  <2>3. Inv!Shows(call) = Inv!QueryEvidence(call)
    BY <1>4 DEF Inv!Shows
  <2>. QED
    BY <1>1, <1>2, <2>1, <2>2, <2>3
<1>5. CASE ~Inv!Refused(call) /\ call.tool # "list" /\ call.tool # "query"
  <2>1. Inv!ClampWindow(call, 0) # <<>>
    BY <1>5 DEF Inv!Refused
  <2>2. \A f \in Inv!ClusterTimeline(call) : f \in db /\ Inv!InWindow(f, Inv!ClampWindow(call, 0))
    BY DEF Inv!ClusterTimeline
  <2>3. \A f \in Inv!CaseFile(call) : f \in db /\ Inv!InWindow(f, Inv!ClampWindow(call, 0))
    BY DEF Inv!CaseFile
  <2>4. Inv!Shows(call) \subseteq Inv!ClusterTimeline(call) \cup Inv!CaseFile(call)
    BY <1>5 DEF Inv!Shows
  <2>. QED
    BY <1>2, <2>1, <2>2, <2>3, <2>4
<1>. QED
  BY <1>3, <1>4, <1>5

\* What a record, and the phase and the spend that come with it, must be to be appended to r.
Accountable(r, spend, e, next, charged) ==
  /\ e \in Records /\ next # "idle" /\ charged \in Spends
  /\ e.kind = "question" => r = <<>>
  /\ e.kind = "outcome" <=> next = "done"
  /\ charged.turns = spend.turns + (IF e.kind = "turn" /\ ~e.failed THEN 1 ELSE 0)
  /\ charged.toolCalls = spend.toolCalls + (IF e.kind = "tool" /\ ~e.capped THEN 1 ELSE 0)
  /\ charged.turns <= MaxTurns /\ charged.toolCalls <= MaxToolCalls
  /\ e.kind = "turn" => charged.tokens - e.charge <= MaxTokens - MinTurnTokens
  /\ e.kind # "turn" => charged.tokens = spend.tokens
  /\ e.kind = "outcome" /\ e.state = "answered" =>
       e.cites # {} /\ e.cites \subseteq ShownBy(r) /\ \A f \in e.cites : InScope(f)

\* What is then true of the longer chain.
Accounts(r, e, a, next, charged) ==
  /\ a \in Seq(Records) /\ Chain(a, next, charged) /\ Grounded(a)
  /\ ShownBy(r) \subseteq ShownBy(a)
  /\ e.kind = "tool" => e.cites \subseteq ShownBy(a)

\* A record that is appended keeps the chain: it is counted once, an outcome seals it, and an
\* answer cites what was shown.
LEMMA RecordAdded ==
  ASSUME NEW r \in Seq(Records), NEW phase, NEW spend \in Spends,
         Chain(r, phase, spend), Grounded(r), phase # "done",
         NEW e, NEW next, NEW charged, Accountable(r, spend, e, next, charged),
         NEW a, a = Append(r, e)
  PROVE  Accounts(r, e, a, next, charged)
<1>. /\ e \in Records /\ next # "idle" /\ charged \in Spends
     /\ e.kind = "question" => r = <<>>
     /\ e.kind = "outcome" <=> next = "done"
     /\ charged.turns = spend.turns + (IF e.kind = "turn" /\ ~e.failed THEN 1 ELSE 0)
     /\ charged.toolCalls = spend.toolCalls + (IF e.kind = "tool" /\ ~e.capped THEN 1 ELSE 0)
     /\ charged.turns <= MaxTurns /\ charged.toolCalls <= MaxToolCalls
     /\ e.kind = "turn" => charged.tokens - e.charge <= MaxTokens - MinTurnTokens
     /\ e.kind # "turn" => charged.tokens = spend.tokens
     /\ e.kind = "outcome" /\ e.state = "answered" =>
          e.cites # {} /\ e.cites \subseteq ShownBy(r) /\ \A f \in e.cites : InScope(f)
  BY DEF Accountable
<1>1. /\ a \in Seq(Records) /\ a # <<>> /\ Len(a) = Len(r) + 1 /\ Len(r) \in Nat
      /\ DOMAIN r = 1..Len(r) /\ DOMAIN a = 1..(Len(r) + 1)
      /\ \A i \in DOMAIN r : a[i] = r[i] /\ i # Len(a)
      /\ a[Len(a)] = e /\ Len(a) \in DOMAIN a
      /\ \A i \in DOMAIN a : i \in DOMAIN r \/ i = Len(a)
      /\ Cardinality(Turns(a)) = Cardinality(Turns(r))
           + (IF e.kind = "turn" /\ ~e.failed THEN 1 ELSE 0)
      /\ Cardinality(ToolRuns(a)) = Cardinality(ToolRuns(r))
           + (IF e.kind = "tool" /\ ~e.capped THEN 1 ELSE 0)
  <2>1. Extends(r, e, a)
    BY Appended
  <2>. QED
    BY <2>1 DEF Extends
<1>2. DOMAIN r \subseteq DOMAIN a
  BY <1>1
<1>3. ShownBy(r) \subseteq ShownBy(a) /\ (e.kind = "tool" => e.cites \subseteq ShownBy(a))
  BY <1>1, <1>2 DEF ShownBy
<1>4. Grounded(a)
  <2>. SUFFICES ASSUME NEW i \in DOMAIN a, a[i].kind = "outcome", a[i].state = "answered"
                PROVE  /\ a[i].cites # {} /\ a[i].cites \subseteq ShownBy(a)
                       /\ \A f \in a[i].cites : InScope(f)
    BY DEF Grounded
  <2>1. CASE i \in DOMAIN r
    BY <1>1, <1>3, <2>1 DEF Grounded
  <2>2. CASE i = Len(a)
    BY <1>1, <1>3, <2>2
  <2>. QED
    BY <1>1, <2>1, <2>2
<1>5. \A i \in DOMAIN a : a[i].kind = "question" => i = 1
  <2>1. \A i \in DOMAIN r : a[i].kind = "question" => i = 1
    BY <1>1 DEF Chain
  <2>2. r = <<>> => Len(a) = 1
    BY <1>1
  <2>. QED
    BY <1>1, <2>1, <2>2
<1>6. \A i \in DOMAIN a : a[i].kind = "outcome" <=> (next = "done" /\ i = Len(a))
  BY <1>1 DEF Chain
<1>7. \A i \in DOMAIN a : a[i].kind = "turn" =>
        \/ charged.tokens - a[i].charge <= MaxTokens - MinTurnTokens
        \/ \E j \in DOMAIN a : a[j].kind = "turn" /\ j > i
  <2>. SUFFICES ASSUME NEW i \in DOMAIN a, a[i].kind = "turn"
                PROVE  \/ charged.tokens - a[i].charge <= MaxTokens - MinTurnTokens
                       \/ \E j \in DOMAIN a : a[j].kind = "turn" /\ j > i
    OBVIOUS
  <2>1. CASE i = Len(a)
    BY <1>1, <2>1
  <2>2. CASE i \in DOMAIN r /\ e.kind = "turn"
    <3>1. Len(a) > i
      BY <1>1, <2>2
    <3>. QED
      BY <1>1, <2>2, <3>1
  <2>3. CASE i \in DOMAIN r /\ e.kind # "turn"
    <3>1. \/ spend.tokens - r[i].charge <= MaxTokens - MinTurnTokens
          \/ \E j \in DOMAIN r : r[j].kind = "turn" /\ j > i
      BY <1>1, <2>3 DEF Chain
    <3>. QED
      BY <1>1, <1>2, <2>3, <3>1
  <2>. QED
    BY <1>1, <2>1, <2>2, <2>3
<1>8. charged.turns = Cardinality(Turns(a)) /\ charged.toolCalls = Cardinality(ToolRuns(a))
  BY <1>1 DEF Chain
<1>. QED
  BY <1>1, <1>3, <1>4, <1>5, <1>6, <1>7, <1>8 DEF Chain, Accounts

\* A handle is issued for every fact a call showed and for nothing else.
LEMMA RecordIssues ==
  ASSUME targets \in Seq(Facts), NEW S \in SUBSET Facts, Inv!Record(S)
  PROVE  /\ targets' \in Seq(Facts) /\ \A f \in Inv!Issued' : f \in Inv!Issued \/ f \in S
         /\ Inv!Issued \subseteq Inv!Issued'
<1>. DEFINE fresh == S \ Inv!Issued
            at == [f \in fresh |-> f.at]
            upto(f) == {g \in fresh : g.at <= f.at}
            nth(n) == CHOOSE f \in fresh : Inv!Cardinality(upto(f)) = n
            size == Cardinality(fresh)
            new == [n \in 1..size |-> nth(n)]
<1>1. IsFiniteSet(fresh) /\ size \in Nat
  <2>1. IsFiniteSet(Facts) /\ fresh \in SUBSET Facts
    BY EvidenceAssumption
  <2>. QED
    BY <2>1, FS_Subset, FS_CardinalityType
<1>2. targets' = targets \o new
  <2>1. Inv!Cardinality(fresh) = size
    BY SameSizes
  <2>2. targets' = targets \o [n \in 1..Inv!Cardinality(fresh) |-> nth(n)]
    BY DEF Inv!Record
  <2>. QED
    BY <2>1, <2>2
<1>3. \A n \in 1..size : nth(n) \in fresh
  <2>1. at \in [fresh -> Int] /\ \A f, g \in fresh : at[f] = at[g] => f = g
    <3>1. \A f \in Facts : f.at \in Nat /\ \A g \in Facts : f.at = g.at => f = g
      BY EvidenceAssumption
    <3>2. fresh \in SUBSET Facts
      OBVIOUS
    <3>. HIDE DEF fresh
    <3>3. \A f \in fresh : f.at \in Int /\ \A g \in fresh : f.at = g.at => f = g
      BY <3>1, <3>2
    <3>. QED
      BY <3>3
  <2>2. ASSUME NEW n \in 1..size PROVE \E f \in fresh : Cardinality(UpTo(fresh, at, f)) = n
    <3>. HIDE DEF at, fresh
    <3>. QED
      BY <1>1, <2>1, <2>2, Ranked
  <2>3. \A f \in fresh : UpTo(fresh, at, f) = upto(f)
    BY DEF UpTo
  <2>. HIDE DEF upto, fresh, at
  <2>4. \A n \in 1..size : \E f \in fresh : Inv!Cardinality(upto(f)) = n
    BY <2>2, <2>3, SameSizes
  <2>. QED
    BY <2>4
<1>. HIDE DEF nth
<1>4. new \in Seq(Facts) /\ Len(new) = size /\ \A n \in 1..size : new[n] \in S
  <2>1. new \in [1..size -> Facts] /\ \A n \in 1..size : new[n] \in S
    BY <1>3
  <2>. HIDE DEF new, size
  <2>2. new \in Seq(Facts)
    BY <1>1, <2>1, SeqDef
  <2>3. 1..Len(new) = 1..size /\ Len(new) \in Nat
    BY <2>1, <2>2, LenProperties
  <2>. QED
    BY <1>1, <2>1, <2>2, <2>3
<1>. HIDE DEF new, size, fresh
<1>5. /\ targets' \in Seq(Facts) /\ Len(targets') = Len(targets) + size
      /\ DOMAIN targets' = 1..Len(targets') /\ Len(targets) \in Nat /\ DOMAIN targets = 1..Len(targets)
      /\ \A i \in 1..(Len(targets) + size) :
           targets'[i] = IF i <= Len(targets) THEN targets[i] ELSE new[i - Len(targets)]
  BY <1>2, <1>4, ConcatProperties, LenProperties
<1>6. ASSUME NEW i \in DOMAIN targets' PROVE targets'[i] \in Inv!Issued \/ targets'[i] \in S
  <2>1. CASE i <= Len(targets)
    BY <1>5, <2>1 DEF Inv!Issued
  <2>2. CASE ~(i <= Len(targets))
    <3>1. i - Len(targets) \in 1..size
      BY <1>1, <1>5, <2>2
    <3>. QED
      BY <1>4, <1>5, <2>2, <3>1
  <2>. QED
    BY <2>1, <2>2
<1>7. \A i \in DOMAIN targets : i \in DOMAIN targets' /\ targets'[i] = targets[i]
  BY <1>1, <1>5
<1>. QED
  BY <1>5, <1>6, <1>7 DEF Inv!Issued

\* The records an investigation appends.
LEMMA RecordsAppended ==
  /\ \A k \in Kinds : Inv!Entry(k) \in Records /\ Inv!Entry(k).kind = k
                       /\ Inv!Entry(k).failed = FALSE /\ Inv!Entry(k).state = ""
  /\ \A s \in States, C \in SUBSET Facts :
       LET e == [Inv!Entry("outcome") EXCEPT !.state = s, !.cites = C]
       IN e \in Records /\ e.kind = "outcome" /\ e.state = s /\ e.cites = C
  /\ \A s \in States : LET e == [Inv!Entry("outcome") EXCEPT !.state = s]
                       IN e \in Records /\ e.kind = "outcome" /\ e.state = s
  /\ LET e == [Inv!Entry("turn") EXCEPT !.failed = TRUE]
     IN e \in Records /\ e.kind = "turn" /\ e.failed = TRUE /\ e.charge = 0
  /\ \A c \in Charges : LET e == Inv!TurnRecord(c)
                        IN e \in Records /\ e.kind = "turn" /\ e.failed = FALSE /\ e.charge = c.tokens
  /\ \A C \in SUBSET Facts, capped, refused \in BOOLEAN :
       LET e == [Inv!Entry("tool") EXCEPT !.cites = C, !.capped = capped, !.refused = refused]
       IN e \in Records /\ e.kind = "tool" /\ e.capped = capped /\ e.cites = C
<1>1. \A k \in Kinds : Inv!Entry(k) \in Records /\ Inv!Entry(k).kind = k
                       /\ Inv!Entry(k).failed = FALSE /\ Inv!Entry(k).state = ""
  BY DEF Records, Kinds, States, Inv!Entry
<1>2. ASSUME NEW s \in States, NEW C \in SUBSET Facts
      PROVE  LET e == [Inv!Entry("outcome") EXCEPT !.state = s, !.cites = C]
             IN e \in Records /\ e.kind = "outcome" /\ e.state = s /\ e.cites = C
  BY DEF Records, Kinds, States, Inv!Entry
<1>3. ASSUME NEW s \in States
      PROVE  LET e == [Inv!Entry("outcome") EXCEPT !.state = s]
             IN e \in Records /\ e.kind = "outcome" /\ e.state = s
  BY DEF Records, Kinds, States, Inv!Entry
<1>4. LET e == [Inv!Entry("turn") EXCEPT !.failed = TRUE]
      IN e \in Records /\ e.kind = "turn" /\ e.failed = TRUE /\ e.charge = 0
  BY DEF Records, Kinds, States, Inv!Entry
<1>5. ASSUME NEW c \in Charges
      PROVE  LET e == Inv!TurnRecord(c)
             IN e \in Records /\ e.kind = "turn" /\ e.failed = FALSE /\ e.charge = c.tokens
  <2>1. c.tokens \in Nat
    BY EvidenceAssumption
  <2>. QED
    BY <2>1 DEF Records, Kinds, States, Inv!Entry, Inv!TurnRecord
<1>6. ASSUME NEW C \in SUBSET Facts, NEW capped \in BOOLEAN, NEW refused \in BOOLEAN
      PROVE  LET e == [Inv!Entry("tool") EXCEPT !.cites = C, !.capped = capped, !.refused = refused]
             IN e \in Records /\ e.kind = "tool" /\ e.capped = capped /\ e.cites = C
  BY DEF Records, Kinds, States, Inv!Entry
<1>. QED
  BY <1>1, <1>2, <1>3, <1>4, <1>5, <1>6

\* No budget is exhausted.
RoomForTurn == Inv!Exhausted = ""

\* The budget leaves room for a turn whenever one is asked for, and the turn is charged to it.
LEMMA TurnIsCharged ==
  ASSUME Typed, RoomForTurn
  PROVE  /\ env.turns < MaxTurns /\ env.tokens <= MaxTokens - MinTurnTokens
         /\ \A c \in Charges : \A charged : charged = [env EXCEPT !.turns = @ + 1,
              !.tokens = @ + c.tokens, !.usd = @ + c.usd] =>
                /\ charged \in Spends /\ charged.turns = env.turns + 1
                /\ charged.toolCalls = env.toolCalls /\ charged.tokens = env.tokens + c.tokens
<1>1. env \in Spends /\ MaxTurns \in Nat /\ MaxTokens \in Nat /\ MinTurnTokens \in Nat \ {0}
  BY EvidenceAssumption DEF Typed
<1>2. env.turns < MaxTurns /\ env.tokens <= MaxTokens - MinTurnTokens
  BY <1>1 DEF RoomForTurn, Inv!Exhausted, Inv!RemainingTokens, Inv!Higher, Spends
<1>3. ASSUME NEW c \in Charges, NEW charged, charged = [env EXCEPT !.turns = @ + 1,
               !.tokens = @ + c.tokens, !.usd = @ + c.usd]
      PROVE  /\ charged \in Spends /\ charged.turns = env.turns + 1
             /\ charged.toolCalls = env.toolCalls /\ charged.tokens = env.tokens + c.tokens
  <2>1. c.tokens \in Nat /\ c.usd \in Nat
    BY EvidenceAssumption
  <2>2. charged = [turns |-> env.turns + 1, tokens |-> env.tokens + c.tokens,
                   usd |-> env.usd + c.usd, toolCalls |-> env.toolCalls]
    BY <1>1, <1>3 DEF Spends
  <2>3. env.turns \in Nat /\ env.tokens \in Nat /\ env.usd \in Nat /\ env.toolCalls \in Nat
    BY <1>1 DEF Spends
  <2>4. env.turns + 1 \in Nat /\ env.tokens + c.tokens \in Nat /\ env.usd + c.usd \in Nat
    BY <2>1, <2>3
  <2>5. charged \in Spends
    BY <2>2, <2>3, <2>4 DEF Spends
  <2>. QED
    BY <2>2, <2>5
<1>. QED
  BY <1>2, <1>3

\* ShownInv is kept where no handle is issued and none is verified.
LEMMA ShownStays ==
  ASSUME ShownInv, UNCHANGED <<targets, checkpoint>>, ShownBy(report) \subseteq ShownBy(report')
  PROVE  ShownInv'
BY DEF ShownInv, Inv!Issued

\* Before anything is asked nothing is on record.
LEMMA ReasonInit == Inv!Init => ReasonInv
<1>. SUFFICES ASSUME Inv!Init PROVE ReasonInv
  OBVIOUS
<1>1. /\ run = "idle" /\ snap = <<>> /\ hour = 0 /\ was = 0 /\ db = Facts
      /\ env = [turns |-> 0, tokens |-> 0, usd |-> 0, toolCalls |-> 0]
      /\ targets = <<>> /\ checkpoint = <<>> /\ report = <<>>
  BY DEF Inv!Init
<1>2. Typed
  BY <1>1 DEF Typed, Spends
<1>3. ShownInv /\ Grounded(report)
  BY <1>1 DEF ShownInv, Grounded, Inv!Issued
<1>4. Chain(report, run, env)
  <2>1. Turns(report) = {} /\ ToolRuns(report) = {}
    BY <1>1 DEF Turns, ToolRuns
  <2>2. Cardinality({}) = 0
    BY FS_EmptySet
  <2>3. MaxTurns \in Nat /\ MaxToolCalls \in Nat
    BY EvidenceAssumption
  <2>4. DOMAIN report = {} /\ env.turns = 0 /\ env.toolCalls = 0 /\ run # "done"
    BY <1>1
  <2>5. env.turns <= MaxTurns /\ env.toolCalls <= MaxToolCalls
    BY <2>3, <2>4
  <2>. QED
    BY <1>1, <2>1, <2>2, <2>4, <2>5 DEF Chain
<1>. QED
  BY <1>2, <1>3, <1>4 DEF ReasonInv

\* The question opens the chain.
LEMMA AskKeeps == ASSUME ReasonInv, Inv!Ask PROVE ReasonInv'
<1>. DEFINE e == Inv!Entry("question")
<1>1. /\ run = "idle" /\ run' = "asking" /\ report' = <<e>>
      /\ UNCHANGED <<env, snap, hour, targets, checkpoint, was, db>>
  BY DEF Inv!Ask
<1>2. /\ report = <<>> /\ report \in Seq(Records) /\ env \in Spends
      /\ Chain(report, run, env) /\ Grounded(report)
      /\ env.turns <= MaxTurns /\ env.toolCalls <= MaxToolCalls
  BY <1>1 DEF ReasonInv, Chain, Typed
<1>3. e \in Records /\ e.kind = "question"
  BY RecordsAppended DEF Kinds
<1>. HIDE DEF e
<1>4. Accountable(report, env, e, run', env')
  BY <1>1, <1>2, <1>3 DEF Accountable, Spends
<1>5. report' = Append(report, e)
  BY <1>1, <1>2
<1>6. Accounts(report, e, report', run', env')
  BY <1>1, <1>2, <1>4, <1>5, RecordAdded
<1>7. ShownInv'
  BY <1>1, <1>6, ShownStays DEF Accounts, ReasonInv
<1>. QED
  BY <1>1, <1>6, <1>7 DEF Accounts, ReasonInv, Typed

\* The parts of ReasonInv a record's proof starts from.
LEMMA OnRecord ==
  ASSUME ReasonInv
  PROVE  /\ report \in Seq(Records) /\ env \in Spends /\ Chain(report, run, env) /\ Grounded(report)
         /\ env.turns <= MaxTurns /\ env.toolCalls <= MaxToolCalls
         /\ env.turns \in Nat /\ env.tokens \in Nat /\ env.toolCalls \in Nat
BY DEF ReasonInv, Typed, Chain, Spends

\* An outcome seals the chain.
LEMMA CloseKeeps ==
  ASSUME ReasonInv, run \in {"asking", "publishing"}, NEW s \in States, NEW C \in SUBSET Facts,
         s = "answered" => C # {} /\ C \subseteq ShownBy(report) /\ \A f \in C : InScope(f),
         Inv!Close(s, C), UNCHANGED <<env, snap, hour, targets, checkpoint, was, db>>
  PROVE  ReasonInv'
<1>. DEFINE e == [Inv!Entry("outcome") EXCEPT !.state = s, !.cites = C]
<1>1. run' = "done" /\ report' = Append(report, e)
  BY DEF Inv!Close
<1>2. e \in Records /\ e.kind = "outcome" /\ e.state = s /\ e.cites = C
  BY DEF Records, Kinds, States, Inv!Entry
<1>. HIDE DEF e
<1>3. Accountable(report, env, e, run', env')
  BY <1>1, <1>2, OnRecord DEF Accountable
<1>4. Accounts(report, e, report', run', env')
  BY <1>1, <1>3, OnRecord, RecordAdded
<1>5. ShownInv'
  BY <1>4, ShownStays DEF Accounts, ReasonInv
<1>. QED
  BY <1>1, <1>4, <1>5 DEF Accounts, ReasonInv, Typed

\* A budget that is spent ends the investigation.
LEMMA StopKeeps == ASSUME ReasonInv, Inv!Stop PROVE ReasonInv'
<1>1. Inv!Exhausted \in States /\ Inv!Exhausted # "answered"
  BY Zenon DEF Inv!Exhausted, States
<1>2. Inv!Issued \cap db \in SUBSET Facts
  BY DEF ReasonInv, Typed
<1>3. /\ run = "asking" /\ Inv!Close(Inv!Exhausted, Inv!Issued \cap db)
      /\ UNCHANGED <<env, snap, hour, targets, checkpoint, was, db>>
  BY DEF Inv!Stop
<1>. QED
  BY <1>1, <1>2, <1>3, CloseKeeps

\* A turn and the outcome that follows it at once.
LEMMA TurnEnds ==
  ASSUME ReasonInv, run = "asking", NEW e, NEW s \in States, s # "answered",
         Accountable(report, env, e, "asking", env'),
         run' = "done", report' = report \o <<e, [Inv!Entry("outcome") EXCEPT !.state = s]>>,
         UNCHANGED <<snap, hour, targets, checkpoint, was, db>>
  PROVE  ReasonInv'
<1>. DEFINE o == [Inv!Entry("outcome") EXCEPT !.state = s]
            mid == Append(report, e)
<1>1. o \in Records /\ o.kind = "outcome" /\ o.state = s
  BY RecordsAppended
<1>. HIDE DEF o
<1>2. Accounts(report, e, mid, "asking", env')
  BY OnRecord, RecordAdded
<1>3. e \in Records /\ report \in Seq(Records)
  BY OnRecord DEF Accountable
<1>4. report' = Append(mid, o)
  <2>1. report' = report \o <<e, o>>
    BY DEF o
  <2>. QED
    BY <1>1, <1>3, <2>1
<1>. HIDE DEF mid
<1>5. mid \in Seq(Records) /\ Chain(mid, "asking", env') /\ Grounded(mid) /\ env' \in Spends
  BY <1>2 DEF Accounts, Accountable
<1>6. Accountable(mid, env', o, "done", env')
  BY <1>1, <1>5 DEF Accountable, Chain, Spends
<1>7. Accounts(mid, o, report', "done", env')
  BY <1>4, <1>5, <1>6, RecordAdded
<1>8. ShownInv'
  BY <1>2, <1>7, ShownStays DEF Accounts, ReasonInv
<1>. QED
  BY <1>5, <1>7, <1>8 DEF Accounts, ReasonInv, Typed

\* A turn that was charged accounts for itself.
LEMMA TurnAccounts ==
  ASSUME ReasonInv, NEW c \in Charges, Inv!Charge(c), NEW next, next \notin {"idle", "done"}
  PROVE  run = "asking" /\ Accountable(report, env, Inv!TurnRecord(c), next, env')
<1>. DEFINE e == Inv!TurnRecord(c)
<1>1. run = "asking" /\ RoomForTurn
  BY Zenon DEF Inv!Charge, RoomForTurn
<1>2. env' = [env EXCEPT !.turns = @ + 1, !.tokens = @ + c.tokens, !.usd = @ + c.usd]
  BY DEF Inv!Charge
<1>3. Typed
  BY DEF ReasonInv
<1>4. /\ env.turns < MaxTurns /\ env.tokens <= MaxTokens - MinTurnTokens
      /\ env' \in Spends /\ env'.turns = env.turns + 1
      /\ env'.toolCalls = env.toolCalls /\ env'.tokens = env.tokens + c.tokens
  BY <1>1, <1>2, <1>3, TurnIsCharged
<1>5. e \in Records /\ e.kind = "turn" /\ e.failed = FALSE /\ e.charge = c.tokens
  BY RecordsAppended
<1>6. c.tokens \in Nat /\ MaxTurns \in Nat /\ MaxTokens \in Nat /\ MinTurnTokens \in Nat
  BY EvidenceAssumption
<1>. HIDE DEF e
<1>7. Accountable(report, env, e, next, env')
  BY <1>4, <1>5, <1>6, OnRecord DEF Accountable
<1>. QED
  BY <1>1, <1>7 DEF e

\* A failed turn is on record and not charged.
LEMMA FailureKeeps == ASSUME ReasonInv, Inv!ProviderFails PROVE ReasonInv'
<1>. DEFINE e == [Inv!Entry("turn") EXCEPT !.failed = TRUE]
<1>1. /\ run = "asking" /\ RoomForTurn /\ run' = "done"
      /\ report' = report \o <<e, [Inv!Entry("outcome") EXCEPT !.state = "provider-failed"]>>
      /\ UNCHANGED <<env, snap, hour, targets, checkpoint, was, db>>
  BY Zenon DEF Inv!ProviderFails, RoomForTurn
<1>2. e \in Records /\ e.kind = "turn" /\ e.failed = TRUE /\ e.charge = 0
  BY RecordsAppended
<1>3. env.tokens <= MaxTokens - MinTurnTokens
  BY <1>1, TurnIsCharged DEF ReasonInv
<1>. HIDE DEF e
<1>4. Accountable(report, env, e, "asking", env')
  BY <1>1, <1>2, <1>3, OnRecord DEF Accountable
<1>5. "provider-failed" \in States
  BY DEF States
<1>. QED
  BY <1>1, <1>4, <1>5, TurnEnds

\* A turn without a finding and without calls ends it.
LEMMA MalformedKeeps ==
  ASSUME ReasonInv, NEW c \in Charges, Inv!TurnIsMalformed(c)
  PROVE  ReasonInv'
<1>1. /\ Inv!Charge(c) /\ run' = "done"
      /\ report' = report \o <<Inv!TurnRecord(c), [Inv!Entry("outcome") EXCEPT !.state = "malformed"]>>
      /\ UNCHANGED <<snap, hour, targets, checkpoint, was, db>>
  BY DEF Inv!TurnIsMalformed
<1>2. run = "asking" /\ Accountable(report, env, Inv!TurnRecord(c), "asking", env')
  BY <1>1, TurnAccounts
<1>3. "malformed" \in States
  BY DEF States
<1>. QED
  BY <1>1, <1>2, <1>3, TurnEnds

\* A turn that asks for calls or answers goes on record.
LEMMA TurnKeeps ==
  ASSUME ReasonInv, NEW c \in Charges,
         \/ \E asked \in Inv!Asked : Inv!TurnCalls(c, asked)
         \/ \E handles \in Inv!Handles : Inv!TurnAnswers(c, handles)
  PROVE  ReasonInv'
<1>1. /\ Inv!Charge(c) /\ run' \in {"calling", "publishing"}
      /\ report' = Append(report, Inv!TurnRecord(c))
      /\ UNCHANGED <<targets, checkpoint, was, db>>
      /\ hour' \in {0, hour}
      /\ run' = "calling" => snap' \in Inv!Asked
  BY DEF Inv!TurnCalls, Inv!TurnAnswers
<1>2. run = "asking" /\ Accountable(report, env, Inv!TurnRecord(c), run', env')
  BY <1>1, TurnAccounts
<1>3. Accounts(report, Inv!TurnRecord(c), report', run', env')
  BY <1>1, <1>2, OnRecord, RecordAdded
<1>4. ShownInv'
  BY <1>1, <1>3, ShownStays DEF Accounts, ReasonInv
<1>5. run' = "calling" => snap' \in Seq(Calls)
  <2>. SUFFICES ASSUME run' = "calling" PROVE snap' \in Seq(Calls)
    OBVIOUS
  <2>1. PICK n \in 1..MaxFan : snap' \in [1..n -> Calls]
    BY <1>1 DEF Inv!Asked
  <2>2. n \in Nat
    BY EvidenceAssumption
  <2>. QED
    BY <2>1, <2>2, SeqDef
<1>. QED
  BY <1>1, <1>2, <1>3, <1>4, <1>5 DEF Accounts, Accountable, ReasonInv, Typed

\* A call is delivered or refused, counted or capped, and what it shows is in the scope.
LEMMA CallKeeps == ASSUME ReasonInv, Inv!Call PROVE ReasonInv'
<1>. DEFINE call == Head(snap)
            shown == IF Inv!ToolCallAllowed THEN Inv!Shows(call) ELSE {}
            refused == ~Inv!ToolCallAllowed \/ Inv!Refused(call)
            e == [Inv!Entry("tool") EXCEPT !.cites = shown, !.capped = ~Inv!ToolCallAllowed,
                                           !.refused = refused]
<1>1. /\ run = "calling" /\ snap # <<>>
      /\ env' = [env EXCEPT !.toolCalls = IF Inv!ToolCallAllowed THEN @ + 1 ELSE @]
      /\ Inv!Record(shown) /\ report' = Append(report, e)
      /\ snap' = Tail(snap) /\ hour' = hour + 1
      /\ UNCHANGED <<run, checkpoint, was, db>>
  BY DEF Inv!Call
<1>2. snap \in Seq(Calls) /\ call \in Calls /\ Tail(snap) \in Seq(Calls) /\ db \subseteq Facts
  BY <1>1, HeadTailProperties DEF ReasonInv, Typed
<1>3. shown \in SUBSET Facts /\ \A f \in shown : InScope(f)
  BY <1>2, ShowsInScope
<1>4. refused \in BOOLEAN /\ (~Inv!ToolCallAllowed) \in BOOLEAN
  OBVIOUS
<1>. HIDE DEF call, shown, refused
<1>5. e \in Records /\ e.kind = "tool" /\ e.cites = shown
      /\ e.capped = ~Inv!ToolCallAllowed
  BY <1>3, <1>4 DEF Records, Kinds, States, Inv!Entry
<1>. HIDE DEF e
<1>6. /\ env' \in Spends /\ env'.turns = env.turns /\ env'.tokens = env.tokens
      /\ env'.toolCalls = IF Inv!ToolCallAllowed THEN env.toolCalls + 1 ELSE env.toolCalls
  <2>1. env \in Spends
    BY OnRecord
  <2>. QED
    BY <1>1, <2>1 DEF Spends
<1>7. Inv!ToolCallAllowed => env.toolCalls + 1 <= MaxToolCalls
  <2>1. MaxToolCalls \in Nat
    BY EvidenceAssumption
  <2>. QED
    BY <2>1, OnRecord DEF Inv!ToolCallAllowed
<1>8. Accountable(report, env, e, run', env')
  <2>1. env'.toolCalls = env.toolCalls + (IF e.kind = "tool" /\ ~e.capped THEN 1 ELSE 0)
    <3>1. CASE Inv!ToolCallAllowed
      <4>1. e.capped = FALSE
        BY <1>5, <3>1
      <4>. QED
        BY <1>5, <1>6, <3>1, <4>1
    <3>2. CASE ~Inv!ToolCallAllowed
      <4>1. e.capped = TRUE
        BY <1>5, <3>2
      <4>. QED
        BY <1>5, <1>6, <3>2, <4>1, OnRecord
    <3>. QED
      BY <3>1, <3>2
  <2>2. env'.turns = env.turns + 0 /\ env'.toolCalls <= MaxToolCalls
    BY <1>6, <1>7, OnRecord
  <2>. QED
    BY <1>1, <1>5, <1>6, <2>1, <2>2, OnRecord DEF Accountable
<1>9. Accounts(report, e, report', run', env')
  BY <1>1, <1>8, OnRecord, RecordAdded
<1>10. /\ targets' \in Seq(Facts) /\ \A f \in Inv!Issued' : f \in Inv!Issued \/ f \in shown
       /\ Inv!Issued \subseteq Inv!Issued'
  BY <1>1, <1>3, RecordIssues DEF ReasonInv, Typed
<1>11. ShownInv'
  BY <1>1, <1>3, <1>5, <1>9, <1>10 DEF ShownInv, Accounts, ReasonInv
<1>. QED
  BY <1>1, <1>2, <1>6, <1>9, <1>10, <1>11 DEF Accounts, ReasonInv, Typed

\* A citation is verified only where a handle was issued for it.
LEMMA VerifyKeeps == ASSUME ReasonInv, Inv!VerifyCitation PROVE ReasonInv'
<1>1. /\ UNCHANGED <<run, env, hour, targets, db, report>>
      /\ run = "publishing"
      /\ \/ was' = was + 1 /\ checkpoint' = checkpoint
         \/ \E f \in Inv!Issued : checkpoint' = Append(checkpoint, f) /\ was' = was
  BY DEF Inv!VerifyCitation, Inv!Issued
<1>2. targets \in Seq(Facts) /\ Inv!Issued \subseteq Facts /\ Inv!Issued' = Inv!Issued
  BY <1>1 DEF ReasonInv, Typed, Inv!Issued
<1>3. checkpoint' \in Seq(Facts) /\ \A i \in DOMAIN checkpoint' : checkpoint'[i] \in Inv!Issued
  <2>1. checkpoint \in Seq(Facts) /\ \A i \in DOMAIN checkpoint : checkpoint[i] \in Inv!Issued
    BY DEF ReasonInv, Typed, ShownInv
  <2>2. ASSUME NEW f \in Inv!Issued, checkpoint' = Append(checkpoint, f)
        PROVE  checkpoint' \in Seq(Facts) /\ \A i \in DOMAIN checkpoint' : checkpoint'[i] \in Inv!Issued
    <3>1. /\ checkpoint' \in Seq(Facts) /\ Len(checkpoint') = Len(checkpoint) + 1
          /\ DOMAIN checkpoint = 1..Len(checkpoint) /\ DOMAIN checkpoint' = 1..(Len(checkpoint) + 1)
          /\ Len(checkpoint) \in Nat
          /\ \A i \in 1..Len(checkpoint) : checkpoint'[i] = checkpoint[i]
          /\ checkpoint'[Len(checkpoint) + 1] = f
      BY <1>2, <2>1, <2>2, AppendProperties, LenProperties
    <3>. QED
      BY <2>1, <3>1
  <2>. QED
    BY <1>1, <2>1, <2>2
<1>4. ShownInv'
  BY <1>1, <1>2, <1>3 DEF ReasonInv, ShownInv
<1>5. was' \in Nat
  BY <1>1 DEF ReasonInv, Typed
<1>6. Chain(report', run', env') /\ Grounded(report')
  BY <1>1 DEF ReasonInv
<1>. QED
  BY <1>1, <1>2, <1>3, <1>4, <1>5, <1>6 DEF ReasonInv, Typed

\* What passes the gate was shown and lies in the scope.
LEMMA PublishKeeps == ASSUME ReasonInv, Inv!Publish PROVE ReasonInv'
<1>. DEFINE cited == {checkpoint[i] : i \in DOMAIN checkpoint}
<1>1. cited \subseteq ShownBy(report) /\ cited \subseteq Facts /\ \A f \in cited : InScope(f)
  BY DEF ReasonInv, ShownInv, Typed
<1>2. checkpoint # <<>> => cited # {}
  <2>1. checkpoint \in Seq(Facts)
    BY DEF ReasonInv, Typed
  <2>2. checkpoint # <<>> => 1 \in DOMAIN checkpoint
    BY <2>1
  <2>. QED
    BY <2>2
<1>3. /\ run = "publishing" /\ UNCHANGED <<env, snap, hour, targets, checkpoint, was, db>>
      /\ Inv!Close("discarded", {}) \/ (checkpoint # <<>> /\ Inv!Close("answered", cited))
  BY DEF Inv!Publish
<1>. HIDE DEF cited
<1>4. "discarded" \in States /\ "answered" \in States
  BY DEF States
<1>5. CASE Inv!Close("discarded", {})
  BY <1>3, <1>4, <1>5, CloseKeeps
<1>6. CASE checkpoint # <<>> /\ Inv!Close("answered", cited)
  BY <1>1, <1>2, <1>3, <1>4, <1>6, CloseKeeps
<1>. QED
  BY <1>3, <1>5, <1>6

\* No step of an investigation shows, publishes or charges what it should not.
LEMMA ReasonNext == ReasonInv /\ [Inv!Next]_(Inv!vars) => ReasonInv'
<1>. SUFFICES ASSUME ReasonInv, [Inv!Next]_(Inv!vars) PROVE ReasonInv'
  OBVIOUS
<1>1. CASE UNCHANGED Inv!vars
  BY <1>1 DEF Inv!vars, ReasonInv, Typed, ShownInv, Inv!Issued
<1>2. CASE Inv!Ask \/ Inv!Stop \/ Inv!ProviderFails
  BY <1>2, AskKeeps, StopKeeps, FailureKeeps
<1>3. CASE Inv!Turn
  BY <1>3, TurnKeeps, MalformedKeeps DEF Inv!Turn
<1>4. CASE Inv!Call \/ Inv!VerifyCitation \/ Inv!Publish
  BY <1>4, CallKeeps, VerifyKeeps, PublishKeeps
<1>5. CASE Inv!Again
  <2>1. /\ run = "calling" /\ run' = "asking"
        /\ UNCHANGED <<env, snap, hour, targets, checkpoint, was, db, report>>
    BY <1>5 DEF Inv!Again
  <2>2. Chain(report', run', env')
    BY <2>1, OnRecord DEF Chain
  <2>. QED
    BY <2>1, <2>2 DEF ReasonInv, Typed, ShownInv, Inv!Issued
<1>6. CASE \E f \in Facts : Inv!Evict(f)
  <2>1. /\ UNCHANGED <<run, env, snap, hour, targets, checkpoint, was, report>>
        /\ db' \subseteq db
    BY <1>6 DEF Inv!Evict
  <2>. QED
    BY <2>1 DEF ReasonInv, Typed, ShownInv, Inv!Issued
<1>. QED
  BY <1>1, <1>2, <1>3, <1>4, <1>5, <1>6 DEF Inv!Next, Inv!Step

\* What is on record is grounded and accounted for.
LEMMA ReasonAnswers == ReasonInv => Inv!AnswerIsGrounded /\ Inv!ChainAccounts
<1>. SUFFICES ASSUME ReasonInv PROVE Inv!AnswerIsGrounded /\ Inv!ChainAccounts
  OBVIOUS
<1>1. Inv!Shown = ShownBy(report)
  BY DEF Inv!Shown, Inv!Records, ShownBy
<1>2. Inv!AnswerIsGrounded
  BY <1>1 DEF ReasonInv, Grounded, InScope, Inv!AnswerIsGrounded, Inv!Records
<1>3. /\ {i \in Inv!Records("turn") : ~report[i].failed} = Turns(report)
      /\ {i \in Inv!Records("tool") : ~report[i].capped} = ToolRuns(report)
  BY DEF Inv!Records, Turns, ToolRuns
<1>4. /\ env.turns = Inv!Cardinality({i \in Inv!Records("turn") : ~report[i].failed})
      /\ env.toolCalls = Inv!Cardinality({i \in Inv!Records("tool") : ~report[i].capped})
  BY <1>3, SameSizes DEF ReasonInv, Chain
<1>5. Inv!Records("question") \subseteq {1}
  BY DEF ReasonInv, Chain, Inv!Records
<1>6. Inv!Records("outcome") = IF run = "done" THEN {Len(report)} ELSE {}
  <2>1. run = "done" => Len(report) \in DOMAIN report
    <3>1. report \in Seq(Records)
      BY OnRecord
    <3>2. run = "done" => report # <<>>
      BY DEF ReasonInv, Chain
    <3>. QED
      BY <3>1, <3>2
  <2>. QED
    BY <2>1 DEF ReasonInv, Chain, Inv!Records
<1>7. \A i \in Inv!Records("turn") : env.tokens - report[i].charge <= MaxTokens - MinTurnTokens
                                     \/ \E j \in Inv!Records("turn") : j > i
  BY DEF ReasonInv, Chain, Inv!Records
<1>. QED
  BY <1>2, <1>4, <1>5, <1>6, <1>7, OnRecord DEF Inv!ChainAccounts

(* ---- All machines ---- *)

\* What holds in every reachable state, of the machine a behaviour is about.
EvidenceInv ==
  /\ which = "log" => LogInv
  /\ which = "series" => SeriesInv
  /\ which = "reason" => ReasonInv

\* A step is one of the machine the behaviour is about.
LEMMA StepOfMachine ==
  ASSUME [EvidenceNext]_vars
  PROVE  /\ which' = which
         /\ which = "log" => [Log!Next]_(Log!vars)
         /\ which = "series" => [Ser!Next]_(Ser!vars)
         /\ which = "reason" => [Inv!Next]_(Inv!vars)
<1>1. NextLog => which = "log" /\ which' = which /\ Log!Next
  BY DEF NextLog, OnLog, On, Only, Log!Next
<1>2. NextSeries => which = "series" /\ which' = which /\ Ser!Next
  BY DEF NextSeries, OnSeries, On, Only, Ser!Next
<1>3. NextReason => which = "reason" /\ which' = which /\ Inv!Next
  BY DEF NextReason, OnReason, On, Only, Inv!Next, Inv!Step, Inv!Turn
<1>4. UNCHANGED vars => which' = which /\ UNCHANGED Log!vars /\ UNCHANGED Ser!vars /\ UNCHANGED Inv!vars
  BY DEF vars, Log!vars, Ser!vars, Inv!vars
<1>. QED
  BY <1>1, <1>2, <1>3, <1>4 DEF EvidenceNext

\* EvidenceInv holds where a behaviour starts.
LEMMA InvInit == EvidenceInit => EvidenceInv
BY LogInit, SeriesInit, ReasonInit DEF EvidenceInit, EvidenceInv

\* Every step keeps it, and an append of the log takes the oldest.
LEMMA InvNext ==
  ASSUME EvidenceInv, [EvidenceNext]_vars
  PROVE  EvidenceInv' /\ (which = "log" => Log!TakesTheOldest)
<1>1. which = "log" => LogInv' /\ Log!TakesTheOldest
  BY StepOfMachine, LogNext DEF EvidenceInv
<1>2. which = "series" => SeriesInv'
  BY StepOfMachine, SeriesNext DEF EvidenceInv
<1>3. which = "reason" => ReasonInv'
  BY StepOfMachine, ReasonNext DEF EvidenceInv
<1>. QED
  BY <1>1, <1>2, <1>3, StepOfMachine DEF EvidenceInv

\* Whatever is logged, and whatever the provider asks for, EvidenceInv holds in every reachable state.
LEMMA Invariance == EvidenceSpec => []EvidenceInv
BY InvInit, InvNext, PTL DEF EvidenceSpec

\* Whatever the model behind the provider calls and cites, an answer is published with evidence
\* only, all of it shown by a recorded call of the session and inside its scope, and the chain of
\* records accounts for every turn, call and token of a budget that no turn but the last can pass.
THEOREM AnswersAreGrounded == EvidenceSpec => []AnswerIsGrounded
<1>1. EvidenceInv => AnswerIsGrounded
  BY ReasonAnswers DEF EvidenceInv, AnswerIsGrounded
<1>. QED
  BY <1>1, Invariance, PTL

\* Whatever is folded, rolled, coalesced, evicted, aged out or loaded again, in whichever order,
\* both stores account for exactly what they hold, within their budgets, and hold at every moment
\* a checkpoint that the next start accepts.
THEOREM BooksAreBalanced == EvidenceSpec => []BooksBalance
<1>1. LogInv => Log!LogAgrees
  BY DEF LogInv, Numbered, Balanced, Log!LogAgrees
<1>2. EvidenceInv => BooksBalance
  BY <1>1, SeriesHolds DEF EvidenceInv, BooksBalance
<1>. QED
  BY <1>2, Invariance, PTL

\* However many subjects share the budget, an append evicts the oldest entries of all of them and
\* no other, except for the oldest of the subject whose ring is full.
THEOREM AppendsTakeTheOldest == EvidenceSpec => EvictsOldest
<1>1. EvidenceInv /\ [EvidenceNext]_vars => [which = "log" => Log!TakesTheOldest]_vars
  BY InvNext
<1>. QED
  BY <1>1, Invariance, PTL DEF EvidenceSpec, EvictsOldest
==============================================================================
