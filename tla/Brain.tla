---- MODULE Brain ----
(***************************************************************************)
(* pkg/api's Brain for one cluster: snapshot uploads are ingested by       *)
(* concurrent HTTP handlers, each of them several locked steps and bbolt   *)
(* transactions; plans are built meanwhile; the process may be stopped or  *)
(* killed and started again on its store.  A snapshot is its timestamp: an *)
(* agent that saw no answer in time sends it again, perhaps while the      *)
(* first upload is still at work.                                          *)
(***************************************************************************)
EXTENDS Integers, FiniteSetsExt, SequencesExt

CONSTANTS
    Calls,              \* handlers that may be at work at the same time
    Planners,           \* plan requests, likewise
    Times,              \* timestamps of the snapshots the agent sends
    Restarts,           \* Restarts[t]: the OOM kills the watched pod has had at t
    CheckpointEvery,    \* ingests between two checkpoints
    Cadence, MaxPerCluster,     \* one retained snapshot per Cadence, MaxPerCluster in all
    CostLimit,          \* cost measurements kept in memory
    PlanHistoryLimit,   \* plans kept on disk
    MaxSends, MaxPlans, MaxStarts   \* bounds of the model

None == 0

ASSUME BrainAssumption ==
    /\ Times \subseteq Nat \ {None} /\ IsFiniteSet(Times)
    /\ Restarts \in [Times -> Nat]
    /\ {CheckpointEvery, Cadence, MaxPerCluster, CostLimit, PlanHistoryLimit, MaxSends, MaxPlans, MaxStarts}
         \subseteq Nat \ {0}

VARIABLES
    rec,                    \* the recommender: restarts last seen (or Unseen), OOM kills counted
    lastSnap, snapCount,    \* the latest snapshot, and how many this process has ingested
    lastAt,                 \* the demand tracker's clock
    timeline,               \* the evidence substrate's cost timeline
    costHist,               \* the ledger's cost measurements, in order of arrival
    disk,                   \* the store: latest snapshot, history, checkpoints, plans
    call, planner,          \* where each handler is and what it holds
    phase,                  \* of the server: serving, stopping, flushed
    sends, plans, starts,   \* counters of the bounds
    saved, acked            \* what the history was ever given; what was answered with success, in order

memory == <<rec, lastSnap, snapCount, lastAt, timeline, costHist>>
ghosts == <<sends, plans, starts, saved, acked>>
vars == <<memory, disk, call, planner, phase, ghosts>>

Unseen == -1
NewRecommender == [base |-> Unseen, ooms |-> 0]
NoDisk == [snap |-> None, history |-> {}, ooms |-> 0, timeline |-> <<>>, plans |-> {}]
IdleCall == [pc |-> "idle", snap |-> None, due |-> FALSE, ooms |-> 0, timeline |-> <<>>]
IdlePlanner == [pc |-> "idle", snap |-> None]

Init ==
    /\ rec = NewRecommender /\ lastSnap = None /\ snapCount = 0 /\ lastAt = None
    /\ timeline = <<>> /\ costHist = <<>> /\ disk = NoDisk
    /\ call = [c \in Calls |-> IdleCall] /\ planner = [p \in Planners |-> IdlePlanner]
    /\ phase = "serving"
    /\ sends = 0 /\ plans = 0 /\ starts = 1 /\ saved = {} /\ acked = <<>>

At(c, pc) == call[c].pc = pc
Goto(c, pc) == call' = [call EXCEPT ![c].pc = pc]

(* ---- Ingest, step by step ---- *)

\* An upload arrives: a new snapshot, a late one or one that was sent before.
Send(c, t) ==
    /\ At(c, "idle") /\ phase = "serving" /\ sends < MaxSends
    /\ call' = [call EXCEPT ![c] = [IdleCall EXCEPT !.pc = "observe", !.snap = t]]
    /\ sends' = sends + 1
    /\ UNCHANGED <<memory, disk, planner, phase, plans, starts, saved, acked>>

\* The first sight of the pod only sets the restart baseline.
Observe(c) ==
    /\ At(c, "observe")
    /\ LET now == Restarts[call[c].snap] IN
       rec' = [base |-> now,
               ooms |-> rec.ooms + (IF rec.base # Unseen /\ now > rec.base THEN 1 ELSE 0)]
    /\ Goto(c, "remember")
    /\ UNCHANGED <<lastSnap, snapCount, lastAt, timeline, costHist, disk, planner, phase, ghosts>>

\* The last one to arrive is the latest; the call keeps its own count for the checkpoint.
Remember(c) ==
    /\ At(c, "remember")
    /\ lastSnap' = call[c].snap /\ snapCount' = snapCount + 1
    /\ call' = [call EXCEPT ![c].pc = "cadence", ![c].due = (snapCount + 1) % CheckpointEvery = 0]
    /\ UNCHANGED <<rec, lastAt, timeline, costHist, disk, planner, phase, ghosts>>

\* Mutant: a replayed snapshot sets the clock back.
TrackReplayed(c) ==
    /\ At(c, "cadence")
    /\ lastAt' = call[c].snap
    /\ Goto(c, "latest")
    /\ UNCHANGED <<rec, lastSnap, snapCount, timeline, costHist, disk, planner, phase, ghosts>>

Track(c) ==
    /\ At(c, "cadence")
    /\ lastAt' = Max({lastAt, call[c].snap})
    /\ Goto(c, "latest")
    /\ UNCHANGED <<rec, lastSnap, snapCount, timeline, costHist, disk, planner, phase, ghosts>>

SaveSnapshot(c) ==
    /\ At(c, "latest")
    /\ disk' = [disk EXCEPT !.snap = call[c].snap]
    /\ Goto(c, "history")
    /\ UNCHANGED <<memory, planner, phase, ghosts>>

Bucket(t) == t \div Cadence
BucketTaken(t) == \E u \in disk.history \ {t} : Bucket(u) = Bucket(t)
Newest(S, k) == {t \in S : Cardinality({u \in S : u > t}) < k}

\* Mutant: the history is cut before the snapshot is added to it.
WithSnapshotLate(t) == Newest(disk.history, MaxPerCluster) \cup {t}

\* One transaction: cadence, write, prune.
WithSnapshot(t) == Newest(disk.history \cup {t}, MaxPerCluster)

SaveSnapshotAt(c) ==
    /\ At(c, "history")
    /\ LET t == call[c].snap IN
       /\ disk' = IF BucketTaken(t) THEN disk ELSE [disk EXCEPT !.history = WithSnapshot(t)]
       /\ saved' = saved \cup {t}
    /\ Goto(c, "point")
    /\ UNCHANGED <<memory, planner, phase, sends, plans, starts, acked>>

\* Mutant: a point is taken in whatever its time.
TakesAnyPoint(t) == TRUE

TakesPoint(t) == timeline = <<>> \/ t >= Last(timeline)

\* An out-of-order point is refused, and the ingest goes on.
ObservePoint(c) ==
    /\ At(c, "point")
    /\ timeline' = IF TakesPoint(call[c].snap) THEN Append(timeline, call[c].snap) ELSE timeline
    /\ Goto(c, "cost")
    /\ UNCHANGED <<rec, lastSnap, snapCount, lastAt, costHist, disk, planner, phase, ghosts>>

\* Mutant: the measurements are never cut.
KeptAll(s) == s

Kept(s) == IF Len(s) > CostLimit THEN Tail(s) ELSE s

AddCost(c) ==
    /\ At(c, "cost")
    /\ costHist' = Kept(Append(costHist, call[c].snap))
    /\ IF call[c].due
       THEN Goto(c, "export") /\ UNCHANGED acked
       ELSE call' = [call EXCEPT ![c] = IdleCall] /\ acked' = Append(acked, call[c].snap)
    /\ UNCHANGED <<rec, lastSnap, snapCount, lastAt, timeline, disk, planner, phase, sends, plans, starts, saved>>

\* The checkpoints are exported under their locks and written by later transactions.
Export(c) ==
    /\ At(c, "export")
    /\ call' = [call EXCEPT ![c].pc = "write", ![c].ooms = rec.ooms]
    /\ UNCHANGED <<memory, disk, planner, phase, ghosts>>

Write(c) ==
    /\ At(c, "write")
    /\ disk' = [disk EXCEPT !.ooms = call[c].ooms]
    /\ Goto(c, "exportEvidence")
    /\ UNCHANGED <<memory, planner, phase, ghosts>>

ExportEvidence(c) ==
    /\ At(c, "exportEvidence")
    /\ call' = [call EXCEPT ![c].pc = "writeEvidence", ![c].timeline = timeline]
    /\ UNCHANGED <<memory, disk, planner, phase, ghosts>>

WriteEvidence(c) ==
    /\ At(c, "writeEvidence")
    /\ disk' = [disk EXCEPT !.timeline = call[c].timeline]
    /\ acked' = Append(acked, call[c].snap)
    /\ call' = [call EXCEPT ![c] = IdleCall]
    /\ UNCHANGED <<memory, planner, phase, sends, plans, starts, saved>>

\* Mutant: the last measurement to arrive is the latest.
LatestAppended == Last(costHist)

\* The measurement the ledger's report compares the first applied action with.
LatestCost == Max(ToSet(costHist))

(* ---- Plan: the snapshot is read once, and everything is computed from it ---- *)

ReadSnapshot(p) ==
    /\ planner[p].pc = "idle" /\ phase = "serving" /\ lastSnap # None /\ plans < MaxPlans
    /\ planner' = [planner EXCEPT ![p] = [pc |-> "build", snap |-> lastSnap]]
    /\ plans' = plans + 1
    /\ UNCHANGED <<memory, disk, call, phase, sends, starts, saved, acked>>

\* Mutant: the recommendations come from whatever snapshot is the latest by now.
RecommendedFromLatest(p) == lastSnap

RecommendedFrom(p) == planner[p].snap

\* A plan replaces one of the same time; the oldest are pruned.
WithPlan(new) ==
    LET all == {q \in disk.plans : q.created # new.created} \cup {new}
    IN {q \in all : Cardinality({r \in all : r.created > q.created}) < PlanHistoryLimit}

SavePlan(p) ==
    /\ planner[p].pc = "build"
    /\ disk' = [disk EXCEPT !.plans = WithPlan([created |-> planner[p].snap, recs |-> RecommendedFrom(p)])]
    /\ planner' = [planner EXCEPT ![p] = IdlePlanner]
    /\ UNCHANGED <<memory, call, phase, ghosts>>

(* ---- The process ---- *)

\* Serve is cancelled: no new request.  Handlers at work have 15 seconds, then it goes on anyway.
Stop ==
    /\ phase = "serving" /\ starts < MaxStarts
    /\ phase' = "stopping"
    /\ UNCHANGED <<memory, disk, call, planner, ghosts>>

\* The final checkpoint, and the end of Serve.  Handlers that are late may still be at work.
FinalCheckpoint ==
    /\ phase = "stopping" /\ phase' = "flushed"
    /\ disk' = [disk EXCEPT !.ooms = rec.ooms, !.timeline = timeline]
    /\ UNCHANGED <<memory, call, planner, ghosts>>

\* The process ends, in the middle of anything; NewBrain restores what the store has.
Restart ==
    /\ starts < MaxStarts /\ starts' = starts + 1
    /\ rec' = [NewRecommender EXCEPT !.ooms = IF disk.snap = None THEN 0 ELSE disk.ooms]
    /\ lastSnap' = disk.snap /\ snapCount' = 0 /\ lastAt' = None
    /\ timeline' = disk.timeline /\ costHist' = <<>>
    /\ call' = [c \in Calls |-> IdleCall] /\ planner' = [p \in Planners |-> IdlePlanner]
    /\ phase' = "serving"
    /\ UNCHANGED <<disk, sends, plans, saved, acked>>

Ingest(c) ==
    \/ Observe(c) \/ Remember(c) \/ Track(c) \/ SaveSnapshot(c) \/ SaveSnapshotAt(c)
    \/ ObservePoint(c) \/ AddCost(c) \/ Export(c) \/ Write(c) \/ ExportEvidence(c) \/ WriteEvidence(c)

Next ==
    \/ \E c \in Calls : Ingest(c) \/ \E t \in Times : Send(c, t)
    \/ \E p \in Planners : ReadSnapshot(p) \/ SavePlan(p)
    \/ Stop \/ FinalCheckpoint \/ Restart

Spec == Init /\ [][Next]_vars

(* ---- Properties ---- *)

Quiet == \A c \in Calls : At(c, "idle")

TypeOK ==
    /\ rec \in [base: Nat \cup {Unseen}, ooms: Nat]
    /\ lastSnap \in Times \cup {None} /\ snapCount \in Nat /\ lastAt \in Times \cup {None}
    /\ timeline \in Seq(Times) /\ costHist \in Seq(Times) /\ Len(costHist) <= CostLimit
    /\ disk \in [snap: Times \cup {None}, history: SUBSET Times, ooms: Nat, timeline: Seq(Times),
                 plans: SUBSET [created: Times, recs: Times]]
    /\ \A c \in Calls : call[c].snap \in Times \cup {None} /\ call[c].timeline \in Seq(Times)
    /\ \A p \in Planners : planner[p].snap \in Times \cup {None}
    /\ phase \in {"serving", "stopping", "flushed"} /\ saved \subseteq Times /\ acked \in Seq(Times)

\* The history that is replayed holds the newest periods of all that was ever saved, one snapshot
\* of each, in whatever order and however often they came in, and across restarts.
HistoryIsNewest ==
    /\ {Bucket(t) : t \in disk.history} = Newest({Bucket(t) : t \in saved}, MaxPerCluster)
    /\ \A t, u \in disk.history : Bucket(t) = Bucket(u) => t = u

\* No ingest that runs while a plan is made gets its snapshot mixed into it.
PlansAreCoherent == \A p \in disk.plans : p.recs = p.created

\* The demand tracker's clock is the newest snapshot this process has tracked.
CadenceNeverRewinds == [][lastAt' < lastAt => starts' # starts]_vars

\* A replayed or late snapshot does not move the report's point of comparison back, unless so many
\* came in since that the newest measurement is the one that is cut.
ComparisonHolds ==
    [][costHist # <<>> /\ costHist' # <<>> /\ LatestCost' < LatestCost
         => Len(costHist) = CostLimit /\ Head(costHist) = LatestCost]_vars

\* The cost timeline is in order: in memory, in a handler's hands and on disk.
TimelineInOrder ==
    \A s \in {timeline, disk.timeline} \cup {call[c].timeline : c \in Calls} :
        \A i \in 1..Len(s) - 1 : s[i] <= s[i + 1]

\* store.SaveSnapshot: the snapshot that would be restored agrees with the one in memory.
SnapshotsAgree == Quiet => disk.snap = lastSnap

\* docs/safety.md: any OOM kill raises the floor, if the pod was taken in before and after it.
AnyOOMRaisesTheFloor ==
    Quiet => \A i, j \in DOMAIN acked : i < j /\ Restarts[acked[i]] < Restarts[acked[j]] => rec.ooms > 0
====
