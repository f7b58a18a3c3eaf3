------------------------------ MODULE Backtest ------------------------------
(***************************************************************************)
(* A what-if of pkg/whatif: the policy that runs and a candidate are each  *)
(* replayed by pkg/backtest over the retained snapshots of a cluster,      *)
(* deciding at every grid instant with what was known by then and being    *)
(* scored with what came after, and the gate compares the two scorecards.  *)
(* Meanwhile the brain goes on keeping snapshots and evidence.  What a     *)
(* policy recommends is any of its Offers; the horizon is a factor of both *)
(* bills and left out.                                                     *)
(***************************************************************************)
EXTENDS Integers, Sequences, FiniteSets, SequencesExt, FiniteSetsExt

CONSTANTS Keys,               \* the containers
          Histories,          \* retained snapshots to begin with, by their time
          Resaves,            \* snapshots that may be ingested meanwhile
          Notes,              \* evidence events that may be reported meanwhile
          Cadence, MaxRows,   \* the history's bucket and cap
          From, To, Horizon, Interval, \* the window of the replay and its grid
          Starvation,         \* percent of a request that may be used
          FlipWindow,
          Offers,             \* what a policy may recommend for a container
          MinConfidence, MinSamples, MinWindow, BaseSoak,
          CPURate, MemRate, IncidentUSD, MinMargin

VARIABLES rows, events,       \* the history and the evidence
          phase,              \* where the what-if is
          enforce,            \* whether the refusal rules veto
          replay, ledgers,    \* the replay that runs, the records of those that ended
          passed,             \* the gate's verdict
          still               \* nothing was kept or reported since the what-if began

vars == <<rows, events, phase, enforce, replay, ledgers, passed, still>>

Sides == {"baseline", "candidate"}
Idle == [rows |-> <<>>, next |-> 1, learned |-> {}, class |-> [k \in Keys |-> ""], records |-> {}]
Unplayed == [records |-> {}, instants |-> 0]

Init ==
  /\ rows \in Histories /\ events = {}
  /\ phase = "idle" /\ enforce \in BOOLEAN
  /\ replay = Idle /\ ledgers = [s \in Sides |-> Unplayed]
  /\ passed = FALSE /\ still = TRUE

-----------------------------------------------------------------------------
\* SaveSnapshotAt: the first snapshot of a period stays, the same instant is
\* replaced, and the oldest go when there are too many.
Newest(h) == LET keep == {t \in DOMAIN h : Cardinality({u \in DOMAIN h : u >= t}) <= MaxRows}
             IN [t \in keep |-> h[t]]

BucketTaken(t) == \E u \in DOMAIN rows : u # t /\ u \div Cadence = t \div Cadence

SaveSnapshotAt(snap) ==
  /\ rows' = IF BucketTaken(snap.at) THEN rows
             ELSE Newest([t \in DOMAIN rows \cup {snap.at} |->
                            IF t = snap.at THEN snap ELSE rows[t]])
  /\ still' = (still /\ (phase = "idle" \/ rows' = rows))
  /\ UNCHANGED <<events, phase, enforce, replay, ledgers, passed>>

Report(note) ==
  /\ events' = events \cup {note}
  /\ still' = (still /\ (phase = "idle" \/ events' = events))
  /\ UNCHANGED <<rows, phase, enforce, replay, ledgers, passed>>

Retained == {t \in DOMAIN rows : From <= t /\ t < To}
Ascending(S) == {s \in [1..Cardinality(S) -> S] : \A i, j \in DOMAIN s : i < j => s[i] < s[j]}
OrderedSnapshots == {[i \in DOMAIN at |-> rows[at[i]]] : at \in Ascending(Retained)}

\* The grid of decision times, each moved to the first snapshot that is there,
\* as far as a whole horizon follows.
Grid == {From + k * Interval : k \in 0..((To - From) \div Interval)}
DecisionInstants(snaps) ==
  {i \in DOMAIN snaps :
     /\ snaps[i].at + Horizon <= To
     /\ \E t \in Grid : /\ t + Horizon <= To /\ snaps[i].at >= t
                        /\ \A j \in 1..(i - 1) : snaps[j].at < t}

-----------------------------------------------------------------------------
\* Samples, each with the time of its snapshot: a corrupt one counts nowhere.
Usable(snap) == {<<snap.at, u>> : u \in {v \in snap.usage : v.cpu >= 0 /\ v.mem >= 0}}

Stamps(samples) == {s[2].at : s \in samples}
Of(key, samples) == {s \in samples : s[2].key = key}

\* The scoring window is after the decision, to the end of the horizon.
Future(key, t) ==
  {s \in UNION {Usable(replay.rows[i]) : i \in DOMAIN replay.rows} :
     s[2].key = key /\ t < s[2].at /\ s[2].at <= t + Horizon}

\* The 95th percentile by nearest rank.
CPUP95(window) ==
  LET rank == (95 * Cardinality(window) + 99) \div 100
  IN Min({s[2].cpu : s \in {x \in window :
                              Cardinality({y \in window : y[2].cpu <= x[2].cpu}) >= rank}})
MemMax(window) == Max({s[2].mem : s \in window})

\* The cheapest request that would have been safe, in hindsight.
OracleRequest(window) ==
  [cpu |-> (CPUP95(window) * 100 + Starvation - 1) \div Starvation, mem |-> MemMax(window)]

Adverse(key, from, to) ==
  {e \in events : /\ e.key = key /\ from < e.at /\ e.at <= to
                  /\ e.kind \in {"oom", "throttle", "regime"}}
OOMKills(notes) ==
  MapThenSumSet(LAMBDA e : 1 + e.count, {e \in notes : e.kind = "oom"})

\* Containers that run, of workloads that can be resized; of two pods of one
\* workload the later one says what is requested.
EligibleContainers(snap) ==
  LET fit == {i \in DOMAIN snap.pods : /\ snap.pods[i].phase \in {"", "Running"}
                                       /\ snap.pods[i].kind \notin {"Pod", "Job", "CronJob"}}
  IN [k \in {snap.pods[i].key : i \in fit} |->
        snap.pods[Max({i \in fit : snap.pods[i].key = k})].req]

-----------------------------------------------------------------------------
\* What is known of a container at t, and the first ground not to decide.
SoakFor(class) ==
  CASE class = "bursty" -> 2 * BaseSoak
    [] class \in {"diurnal", "batch"} -> 4 * BaseSoak
    [] OTHER -> BaseSoak
LearningSpan == Max({MinWindow, Interval})

Grounds(known, class, shrink, key, t) ==
  LET times == Stamps(known)
      changes == {e.at : e \in {x \in events : x.key = key /\ x.kind = "deploy" /\ x.at <= t}}
      recent == Adverse(key, t - LearningSpan - 1, t)
      shifts == {e.at : e \in {x \in recent : x.kind = "regime"}}
      soaks(ats) == ats # {} /\ t - Max(ats) < SoakFor(class)
      predicates ==
        << <<"insufficient-history", \/ Cardinality(known) < MinSamples \/ times = {}
                                     \/ Max(times) - Min(times) < MinWindow>>,
           <<"post-change-soak", soaks(changes)>>,
           <<"signal-conflict", shrink /\ \E e \in recent : e.kind \in {"oom", "throttle"}>>,
           <<"regime-change-pending", soaks(shifts)>> >>
      held == SelectSeq(predicates, LAMBDA p : p[2])
  IN IF held = <<>> THEN "" ELSE held[1][1]

Shrinks(from, to) == to.cpu < from.cpu \/ to.mem < from.mem

\* Why no step was planned for a container.
RefusalCode(offer, grounds, failed) ==
  CASE offer.target = <<>> -> IF grounds # "" THEN grounds ELSE "below-change-threshold"
    [] offer.target # <<>> /\ failed -> "plan-dropped"
    [] offer.target # <<>> /\ ~failed /\ offer.mode # "apply" -> "mode-guarded"
    [] OTHER -> IF offer.confidence < MinConfidence THEN "below-confidence" ELSE "plan-dropped"

\* A plan holds steps of recommendations that may be applied only.
Planned(offer, failed) ==
  /\ offer.target # <<>> /\ offer.step /\ ~failed
  /\ offer.mode = "apply" /\ offer.confidence >= MinConfidence

Violations(window, req) ==
  [mem |-> MemMax(window) > req.mem, cpu |-> CPUP95(window) * 100 > req.cpu * Starvation]

Decision(key, current, offer, failed, learned, t) ==
  LET window == Future(key, t)
      notes == Adverse(key, t, t + Horizon)
      known == Of(key, learned)
      recommended == offer.target # <<>>
      target == IF recommended THEN offer.target[1] ELSE current
      class == IF recommended /\ offer.class # "" THEN offer.class ELSE replay.class[key]
      veto == IF enforce THEN Grounds(known, class, Shrinks(current, target), key, t) ELSE ""
      applied == veto = "" /\ Planned(offer, failed)
      chosen == IF applied THEN target ELSE current
  IN [key |-> key, at |-> t, applied |-> applied,
      code |-> IF applied THEN "" ELSE IF veto # "" THEN veto
               ELSE RefusalCode(offer, Grounds(known, class, FALSE, key, t), failed),
      current |-> current, target |-> target, chosen |-> chosen,
      oracle |-> OracleRequest(window), violated |-> Violations(window, chosen),
      ooms |-> OOMKills(notes), adverse |-> notes # {},
      known |-> known, scored |-> window]

-----------------------------------------------------------------------------
Cost(req) == req.cpu * CPURate + req.mem * MemRate
Larger(a, b) == [cpu |-> Max({a.cpu, b.cpu}), mem |-> Max({a.mem, b.mem})]

Claimed(r) == Cost(r.current) - Cost(r.target)
Realized(r) == Max({0, Cost(r.current) - Cost(Larger(r.target, r.oracle))})
Incidents(r) == (IF r.violated.mem THEN 1 ELSE 0) + (IF r.violated.cpu THEN 1 ELSE 0)
IsGood(r) == r.adverse \/ Incidents(r) > 0 \/ r.ooms > 0

\* A flip is a move of a target against the last move of that dimension, soon
\* after it; an unchanged target keeps the direction.
Churned(c, r) ==
  LET moved == {d \in {"cpu", "mem"} : r.target[d] # c.target[d]}
      dir == [d \in moved |-> IF r.target[d] > c.target[d] THEN 1 ELSE -1]
      flipped == \E d \in moved : dir[d] = -(c.dir[d]) /\ r.at - c.at[d] <= FlipWindow
  IN [target |-> r.target,
      dir |-> [d \in {"cpu", "mem"} |-> IF d \in moved THEN dir[d] ELSE c.dir[d]],
      at |-> [d \in {"cpu", "mem"} |-> IF d \in moved THEN r.at ELSE c.at[d]],
      flips |-> c.flips + (IF flipped THEN 1 ELSE 0)]
FlipsOf(applied) ==
  IF applied = {} THEN 0
  ELSE LET s == SetToSortSeq(applied, LAMBDA a, b : a.at < b.at)
           start == [target |-> s[1].target, dir |-> [cpu |-> 0, mem |-> 0],
                     at |-> [cpu |-> 0, mem |-> 0], flips |-> 0]
       IN FoldLeft(Churned, start, Tail(s)).flips

Score(ledger) ==
  LET applied == {r \in ledger : r.applied}
      idle == {r \in ledger \ applied : ~IsGood(r)}
      paying == {r \in applied : Claimed(r) > 0}
  IN [scored |-> Cardinality(ledger),
      decisions |-> Cardinality(applied),
      refusalsGood |-> Cardinality({r \in ledger \ applied : IsGood(r)}),
      refusalsIdle |-> Cardinality(idle),
      memViolations |-> Cardinality({r \in ledger : r.violated.mem}),
      cpuStarvation |-> Cardinality({r \in ledger : r.violated.cpu}),
      memOOMKills |-> MapThenSumSet(LAMBDA r : r.ooms, ledger),
      policyCost |-> MapThenSumSet(LAMBDA r : Cost(r.chosen), ledger),
      oracleCost |-> MapThenSumSet(LAMBDA r : Cost(r.oracle), ledger),
      claimed |-> MapThenSumSet(Claimed, paying),
      realized |-> MapThenSumSet(Realized, paying),
      forgone |-> MapThenSumSet(LAMBDA r : Max({0, Cost(r.chosen) - Cost(r.oracle)}), idle),
      risk |-> MapThenSumSet(LAMBDA r : Incidents(r) * IncidentUSD, ledger),
      flips |-> MapThenSumSet(LAMBDA k : FlipsOf({r \in applied : r.key = k}),
                              {r.key : r \in applied})]
Regret(card) == card.policyCost - card.oracleCost + card.risk

\* The oracle gap only counts when regret does not improve, which fails anyway.
Admissible(base, cand) ==
  /\ base.memOOMKills = cand.memOOMKills
  /\ cand.memViolations <= base.memViolations /\ cand.cpuStarvation <= base.cpuStarvation
  /\ Regret(cand) <= Regret(base)
  /\ cand.flips * Max({1, base.decisions}) <= base.flips * Max({1, cand.decisions})

RequiredImprovement(base) ==
  Max({MinMargin, (IF Regret(base) < 0 THEN -Regret(base) ELSE Regret(base)) \div 100})

Decide(base, cand) ==
  /\ Admissible(base, cand)
  /\ base.scored = cand.scored
  /\ ledgers.baseline.instants = Cardinality(DecisionInstants(replay.rows))
  /\ ~(cand.decisions = 0 /\ base.decisions > 0)
  /\ Regret(base) - Regret(cand) >= RequiredImprovement(base)

-----------------------------------------------------------------------------
\* WhatIf counts the retained snapshots; each replay then reads them again.
Ask ==
  /\ phase = "idle"
  /\ phase' = IF Cardinality(Retained) < 2 THEN "refused" ELSE "counted"
  /\ UNCHANGED <<rows, events, enforce, replay, ledgers, passed, still>>

Read ==
  /\ phase \in {"counted", "between"}
  /\ phase' = IF phase = "counted" THEN "baseline" ELSE "candidate"
  /\ \E snaps \in OrderedSnapshots : replay' = [Idle EXCEPT !.rows = snaps]
  /\ UNCHANGED <<rows, events, enforce, ledgers, passed, still>>

AtInstant == replay.next \in DecisionInstants(replay.rows)
Learned == replay.learned \cup Usable(replay.rows[replay.next])

Observe ==
  /\ phase \in Sides /\ replay.next <= Len(replay.rows) /\ ~AtInstant
  /\ replay' = [replay EXCEPT !.next = @ + 1, !.learned = Learned]
  /\ UNCHANGED <<rows, events, phase, enforce, ledgers, passed, still>>

\* The policy recommends, a plan is built or fails, and every container with a
\* future is recorded.
DecideAt(offers, failed) ==
  /\ phase \in Sides /\ replay.next <= Len(replay.rows) /\ AtInstant
  /\ LET snap == replay.rows[replay.next]
         eligible == EligibleContainers(snap)
         scored == {k \in DOMAIN eligible : Future(k, snap.at) # {}}
     IN replay' = [replay EXCEPT
          !.next = @ + 1, !.learned = Learned,
          !.class = [k \in Keys |-> IF k \in DOMAIN eligible /\ offers[k].target # <<>>
                                       /\ offers[k].class # ""
                                    THEN offers[k].class ELSE @[k]],
          !.records = @ \cup {Decision(k, eligible[k], offers[k], failed, Learned, snap.at) :
                                k \in scored}]
  /\ UNCHANGED <<rows, events, phase, enforce, ledgers, passed, still>>

Finish ==
  /\ phase \in Sides /\ replay.next > Len(replay.rows)
  /\ ledgers' = [ledgers EXCEPT ![phase] =
                   [records |-> replay.records,
                    instants |-> Cardinality(DecisionInstants(replay.rows))]]
  /\ phase' = CASE phase = "baseline" -> "between"
                [] OTHER -> IF ledgers.baseline.instants = 0 THEN "refused" ELSE "done"
  /\ passed' = (/\ phase' = "done"
                /\ Decide(Score(ledgers.baseline.records), Score(replay.records)))
  /\ replay' = Idle
  /\ UNCHANGED <<rows, events, enforce, still>>

Next ==
  \/ Ask \/ Read \/ Observe \/ Finish
  \/ \E snap \in Resaves : SaveSnapshotAt(snap)
  \/ \E note \in Notes : Report(note)
  \/ \E offers \in [Keys -> Offers], failed \in BOOLEAN : DecideAt(offers, failed)

-----------------------------------------------------------------------------
Judged == replay.records \cup ledgers.baseline.records \cup ledgers.candidate.records

\* A replay does not look ahead: it decides on snapshots up to the decision
\* and is scored with samples after it, and a sample counts for both only if
\* its own stamp is newer than that of the snapshot it came with.
ReplayIsBlind ==
  \A r \in Judged :
    /\ \A s \in r.known : s[1] <= r.at
    /\ \A s \in r.scored : r.at < s[2].at /\ s[2].at <= r.at + Horizon
    /\ \A s \in r.known \cap r.scored : s[1] < s[2].at

\* Both policies are asked the same: the same containers at the same times,
\* with the same hindsight, unless the history or the evidence changed while
\* the two replays ran.
Question(r) == [key |-> r.key, at |-> r.at, known |-> r.known, oracle |-> r.oracle, ooms |-> r.ooms,
                adverse |-> r.adverse]
SameQuestion ==
  phase = "done" /\ still =>
    {Question(r) : r \in ledgers.baseline.records} = {Question(r) : r \in ledgers.candidate.records}

\* A scorecard is honest: hindsight's request would have done, a request below
\* it is counted as an incident, and no more is realized than was claimed.
HonestScore ==
  /\ \A r \in Judged :
       LET would == Violations(r.scored, r.oracle)
       IN /\ ~would.mem /\ ~would.cpu
          /\ Incidents(r) = 0 => Cost(r.chosen) >= Cost(r.oracle)
  /\ \A s \in Sides :
       LET card == Score(ledgers[s].records)
       IN /\ card.realized <= card.claimed
          /\ card.decisions + card.refusalsGood + card.refusalsIdle = card.scored
          /\ card.policyCost < card.oracleCost => card.memViolations + card.cpuStarvation > 0

\* A candidate that passes would have cost less over what the two replays have
\* in common, and would have hurt no more.
PassedIsCheaper ==
  passed /\ still =>
    LET base == ledgers.baseline.records
        cand == ledgers.candidate.records
        spent(L) == MapThenSumSet(LAMBDA r : Cost(r.chosen) + Incidents(r) * IncidentUSD, L)
        hurt(L) == {<<r.key, r.at>> : r \in {x \in L : x.violated.mem}}
    IN /\ spent(cand) < spent(base)
       /\ Cardinality(hurt(cand)) <= Cardinality(hurt(base))
       /\ (\E r \in base : r.applied) => \E r \in cand : r.applied
=============================================================================
