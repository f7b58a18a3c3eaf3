------------------------------ MODULE EventLog ------------------------------
(***************************************************************************)
(* The event log of the evidence substrate (pkg/evidence: store.go,        *)
(* log.go): a ring per subject under a cap, all of them under one byte     *)
(* budget, with repeated events folded into the one that is stored.  The   *)
(* decision journal is the same log without the folding.                   *)
(*                                                                         *)
(* An event's key stands for its kind and dedup string, "" for an event    *)
(* that is never folded.  Folding upgrades the severity, whose name is     *)
(* part of what the entry is charged: "info" has four letters, "critical"  *)
(* eight.                                                                  *)
(***************************************************************************)
EXTENDS Integers, Sequences, FiniteSets, SequencesExt, FiniteSetsExt

CONSTANTS Subjects, Keys,
          MaxHour,               \* bound on time
          DedupWindow, MaxAge,
          MaxEventsPerSubject, MaxEventBytes,
          MaxEvents              \* bound: events ever appended

VARIABLES log,     \* the ring of each subject, <<>> for one that is not there
          logged,  \* the accounted bytes
          arrived  \* the arrival counter

vars == <<log, logged, arrived>>

subjectOverheadBytes == 256
eventFixedBytes == 96
Severities == {"info", "critical"}
eventBytes(severity) == eventFixedBytes + (IF severity = "info" THEN 4 ELSE 8)

Present(l) == {s \in Subjects : l[s] # <<>>}

\* What is stored, each entry with its subject, and what a set of them is charged.
Stored(l) == UNION {{s} \X Range(l[s]) : s \in Subjects}
Charge(E) == SumFunction([x \in E |-> x[2].b])
Accounted(l) == Charge(Stored(l)) + subjectOverheadBytes * Cardinality(Present(l))

Init ==
  /\ log = [s \in Subjects |-> <<>>]
  /\ logged = 0 /\ arrived = 0

\* A mutant: the subject that holds the most gives up its oldest entry.
OfTheFullest(l) == CHOOSE s \in Present(l) : \A o \in Present(l) : Len(l[s]) >= Len(l[o])

(***************************************************************************)
(* enforceBudget: the entry that arrived first, of all subjects, goes      *)
(* first; a subject that is left empty gives its overhead back.            *)
(***************************************************************************)
Oldest(l) == CHOOSE s \in Present(l) : \A o \in Present(l) : Head(l[s]).seq <= Head(l[o]).seq

\* A mutant: the overhead of a subject that is left empty is not given back.
EvictFrontOnly(st, s) ==
  [log |-> [st.log EXCEPT ![s] = Tail(@)], bytes |-> st.bytes - Head(st.log[s]).b]

EvictFront(st, s) ==
  LET rest == Tail(st.log[s]) IN
  [log |-> [st.log EXCEPT ![s] = rest],
   bytes |-> st.bytes - Head(st.log[s]).b - (IF rest = <<>> THEN subjectOverheadBytes ELSE 0)]

OverBudget(st) == st.bytes > MaxEventBytes /\ Present(st.log) # {}
Round(st) == IF OverBudget(st) THEN EvictFront(st, Oldest(st.log)) ELSE st

\* The loop, as many rounds as there are entries: each takes one.
enforceBudget(st) ==
  LET all == Cardinality(Stored(st.log))
      after[n \in 0..all] == IF n = 0 THEN st ELSE Round(after[n - 1])
  IN after[all]

Commit(st) ==
  LET out == enforceBudget(st) IN log' = out.log /\ logged' = out.bytes

(***************************************************************************)
(* Append: folded into the newest stored match within the window, if any;  *)
(* otherwise pushed, in place of the subject's oldest when it is full.     *)
(***************************************************************************)
Gap(a, b) == IF a > b THEN a - b ELSE b - a
Matches(s, key, at) ==
  {i \in DOMAIN log[s] : key # "" /\ log[s][i].key = key /\ Gap(at, log[s][i].at) <= DedupWindow}

Fold(s, key, at, severity) ==
  LET i == Max(Matches(s, key, at))
      e == log[s][i]
      raised == IF severity = "critical" THEN severity ELSE e.severity
      new == [e EXCEPT !.at = IF at > @ THEN at ELSE @, !.severity = raised,
                       !.b = eventBytes(raised)]
  IN /\ Matches(s, key, at) # {}
     /\ Commit([log |-> [log EXCEPT ![s][i] = new], bytes |-> logged + new.b - e.b])
     /\ UNCHANGED arrived

Store(s, key, at, severity) ==
  LET e == [key |-> key, at |-> at, severity |-> severity,
            seq |-> arrived + 1, b |-> eventBytes(severity)]
      full == Len(log[s]) >= MaxEventsPerSubject
      kept == IF full THEN Tail(log[s]) ELSE log[s]
  IN /\ arrived < MaxEvents
     /\ Matches(s, key, at) = {}
     /\ Commit([log |-> [log EXCEPT ![s] = Append(kept, e)],
                bytes |-> logged + e.b
                          - (IF full THEN Head(log[s]).b ELSE 0)
                          + (IF log[s] = <<>> THEN subjectOverheadBytes ELSE 0)])
     /\ arrived' = arrived + 1

\* The entries of a ring at the places K, in their order.
Sifted(ring, K) ==
  [n \in 1..Cardinality(K) |-> ring[CHOOSE i \in K : Cardinality({j \in K : j <= i}) = n]]

\* Prune: age takes entries from anywhere in a ring, events arrive out of order.
\* Each gives back what it was charged, and a subject left empty its overhead.
Prune(now) ==
  LET young(s) == {i \in DOMAIN log[s] : log[s][i].at >= now - MaxAge}
      left == [s \in Subjects |-> Sifted(log[s], young(s))]
  IN /\ log' = left
     /\ logged' = logged - Charge(Stored(log) \ Stored(left))
                         - subjectOverheadBytes * Cardinality(Present(log) \ Present(left))
     /\ UNCHANGED arrived

\* FromCheckpoint appends what was stored, subject by subject, and enforces the
\* budget once: the arrival order survives in the sequence numbers.
Loads(ring) ==
  /\ Len(ring) <= MaxEventsPerSubject
  /\ \A i, j \in DOMAIN ring : i < j => ring[i].seq < ring[j].seq
Restart ==
  /\ \A s \in Subjects : Loads(log[s])
  /\ Commit([log |-> log, bytes |-> Accounted(log)])
  /\ UNCHANGED arrived

Next ==
  \/ \E s \in Subjects, k \in Keys, at \in 0..MaxHour, sev \in Severities :
       Fold(s, k, at, sev) \/ Store(s, k, at, sev)
  \/ \E now \in 0..MaxHour : Prune(now)
  \/ Restart

Spec == Init /\ [][Next]_vars

-----------------------------------------------------------------------------
\* The accounted bytes are those of what is stored, also after a fold that made
\* an entry dearer, and within the budget; and what is stored can be restored.
LogAgrees ==
  /\ logged = Accounted(log) /\ logged <= MaxEventBytes
  /\ \A s \in Subjects : Loads(log[s])

Seqs(l, s) == {e.seq : e \in Range(l[s])}

\* An append never costs another subject an entry that is newer than one it
\* keeps: under the budget the globally oldest entries go, whosever they are.
TakesTheOldest ==
  arrived' # arrived =>
    \A s \in Subjects : \A lost \in Seqs(log, s) \ Seqs(log', s) :
      \/ Len(log[s]) = MaxEventsPerSubject /\ lost = Head(log[s]).seq
      \/ \A o \in Subjects : \A kept \in Seqs(log', o) : kept > lost
EvictsOldest == [][TakesTheOldest]_vars
=============================================================================
