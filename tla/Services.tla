------------------------------ MODULE Services ------------------------------
(***************************************************************************)
(* ECS advice (pkg/ecs collect.go, sizer.go, price.go and report.go, and   *)
(* pkg/domain/ecs): a run lists and describes the services of one cluster, *)
(* then reads their counters, and the domain keeps the snapshot; the sizer *)
(* turns percentages of the running revision's reservation back into       *)
(* demand and proposes a smaller Fargate task size.  Meanwhile the owner   *)
(* deploys, and what CloudWatch holds changes its denominator.             *)
(***************************************************************************)
EXTENDS FargateTiers, FiniteSets, TLC

CONSTANTS
    Fleet,      \* the services at the start: [cluster, mode, fargate, tasks, platform, rev, prev, since]
    Revisions,  \* [cpu, mem, floor: [cpu, mem], network, arch, os, spot]; millicores and MiB
    Load,       \* Load[v][hour]: [cpu, mem], what one task uses
    Rate,       \* per quarter of a vCPU and per half GB: [x86, arm: [cpu, mem]]
    SpotDiscount, Window, Percent, CPUHeadroom, MemHeadroom, MinWindow, MinSamples,
    MinConfidence, MaxSampleAge, StaleAfter, MinMove, MaxSteps, \* Config; percentages and hours
    Stranded,   \* the services whose saving the ledger suppresses
    Misses,     \* bound: the counters one run may get in part
    MaxHour, MaxRuns, MaxMoves \* bounds: hours, runs of the collector, deployments

VARIABLES hour, db,     \* the clock and the account
          run,          \* "idle" | "described" | "measured"
          snap,         \* the run's snapshot: [cluster, at, stale, services]
          targets,      \* Domain.snaps, by cluster
          checkpoint,   \* what Domain.Checkpoint wrote last
          report,       \* the steps of the last plan
          was           \* the runs and the deployments so far

vars == <<hour, db, run, snap, targets, checkpoint, report, was>>

Clusters == {Fleet[v].cluster : v \in DOMAIN Fleet}
NoSeries == [points |-> <<>>, complete |-> FALSE]
NoSnap == [cluster |-> "", at |-> 0, stale |-> FALSE, services |-> [v \in {} |-> 0]]
NoDomain == [c \in {} |-> NoSnap]

\* ran is which revisions served in each hour.
Init ==
    /\ hour = 0 /\ run = "idle" /\ snap = NoSnap /\ targets = NoDomain /\ checkpoint = NoDomain
    /\ db = [v \in DOMAIN Fleet |->
               [rev |-> Fleet[v].rev, since |-> Fleet[v].since, old |-> {}, rollout |-> "COMPLETED",
                ran |-> [h \in -Window..MaxHour |->
                           CASE h < Fleet[v].since -> {Fleet[v].prev}
                             [] h = Fleet[v].since -> {Fleet[v].prev, Fleet[v].rev}
                             [] OTHER -> {Fleet[v].rev}]]]
    /\ report = {} /\ was = [runs |-> 0, moves |-> 0]

------------------------------------------------------------------------------
(* The owner, and ECS. *)

Serving(s) == {s.rev} \cup s.old

NextHour ==
    /\ hour < MaxHour /\ run = "idle"   \* a run takes less than an hour
    /\ hour' = hour + 1
    /\ db' = [v \in DOMAIN db |-> [db[v] EXCEPT !.ran[hour + 1] = Serving(db[v])]]
    /\ UNCHANGED <<run, snap, targets, checkpoint, report, was>>

Deploy(v, rev) ==
    /\ was.moves < MaxMoves /\ rev # db[v].rev
    /\ was' = [was EXCEPT !.moves = @ + 1]
    /\ db' = [db EXCEPT ![v] = [@ EXCEPT !.rev = rev, !.since = hour, !.rollout = "IN_PROGRESS",
                                         !.old = db[v].old \cup {db[v].rev},
                                         !.ran[hour] = db[v].ran[hour] \cup {rev}]]
    /\ UNCHANGED <<hour, run, snap, targets, checkpoint, report>>

RollOut(v, state) ==
    /\ db[v].rollout = "IN_PROGRESS"
    /\ db' = [db EXCEPT ![v].rollout = state, ![v].old = IF state = "COMPLETED" THEN {} ELSE @]
    /\ UNCHANGED <<hour, run, snap, targets, checkpoint, report, was>>

------------------------------------------------------------------------------
(* Collector.Collect.  An error of the account is returned: no snapshot. *)

\* listServices and describeServices: a page budget reached, or a service that
\* could not be described, leaves the snapshot partial and says so.  The task
\* definition is the PRIMARY deployment's.
DescribeServices(c, described) ==
    /\ run = "idle" /\ was.runs < MaxRuns
    /\ was' = [was EXCEPT !.runs = @ + 1]
    /\ LET all == {v \in DOMAIN db : Fleet[v].cluster = c}
           fargate == {v \in described : Fleet[v].fargate}
       IN /\ described \subseteq all
          /\ snap' = [cluster |-> c, at |-> hour, stale |-> described # all,
                      services |-> [v \in fargate |-> [primary |-> db[v], cpu |-> NoSeries, mem |-> NoSeries]]]
    /\ run' = "described"
    /\ UNCHANGED <<hour, db, targets, checkpoint, report>>

\* what CloudWatch publishes: per mille of what the tasks of an hour reserve.
Published(v, dim, h) ==
    LET revs == db[v].ran[h]
    IN (1000 * Load[v][h][dim] * Cardinality(revs) + SumSet({Revisions[r][dim] : r \in revs}) - 1)
           \div SumSet({Revisions[r][dim] : r \in revs})

\* fetchMetrics: routed by query; a series that is not answered in full is not
\* Complete.
FetchMetrics(missing) ==
    /\ run = "described"
    /\ LET hours(v) == {h \in DOMAIN Load[v] : snap.at - Window <= h /\ h < snap.at}
           series(v, dim) ==
               LET got == {h \in hours(v) : <<v, dim>> \in missing => h # snap.at - 1}
               IN [complete |-> <<v, dim>> \notin missing,
                   points   |-> [h \in got |-> Published(v, dim, h)]]
       IN snap' = [snap EXCEPT !.services =
                     [v \in DOMAIN @ |-> [primary |-> snap.services[v].primary,
                                          cpu |-> series(v, "cpu"), mem |-> series(v, "mem")]]]
    /\ run' = "measured"
    /\ UNCHANGED <<hour, db, targets, checkpoint, report, was>>

Abort ==
    /\ run = "described"
    /\ run' = "idle" /\ snap' = NoSnap
    /\ UNCHANGED <<hour, db, targets, checkpoint, report, was>>

\* Domain.Observe: it replaces what that cluster last delivered.
Learn ==
    /\ run = "measured"
    /\ targets' = [c \in DOMAIN targets \cup {snap.cluster} |->
                     IF c = snap.cluster THEN snap ELSE targets[c]]
    /\ run' = "idle" /\ snap' = NoSnap
    /\ UNCHANGED <<hour, db, checkpoint, report, was>>

Checkpoint ==
    /\ checkpoint # targets
    /\ checkpoint' = targets
    /\ UNCHANGED <<hour, db, run, snap, targets, report, was>>

\* the process ends and the next one restores.
Restore ==
    /\ targets' = checkpoint
    /\ run' = "idle" /\ snap' = NoSnap /\ report' = {}
    /\ UNCHANGED <<hour, db, checkpoint, was>>

------------------------------------------------------------------------------
(* The quantizer and its prices. *)

Ceil(a, b) == (a + b - 1) \div b

\* RoundUpTier: the first in the table's order.
RoundUpTier(need) == Smallest(need)

IsTier(r) == [cpu |-> r.cpu, mem |-> r.mem] \in fargateConfigs

Cost(tier, arch, spot) ==
    LET base == (tier.cpu \div 250) * Rate[arch].cpu + (tier.mem \div 512) * Rate[arch].mem
    IN IF spot THEN base * (100 - SpotDiscount) ELSE base * 100

------------------------------------------------------------------------------
(* Sizer.Assess *)

TrimBefore(points, t) == Restrict(points, {h \in DOMAIN points : h >= t})
Percentile(points) ==
    LET rank == Ceil(Cardinality(DOMAIN points) * Percent, 100)
    IN Min({x \in Range(points) : Cardinality({h \in DOMAIN points : points[h] <= x}) >= rank})
Span(points) == Max(DOMAIN points) - Min(DOMAIN points)
AbsoluteFromPercent(x, reserved) == Ceil(x * reserved, 1000)

DeploymentInProgress(s) == s.rollout # "COMPLETED" \/ s.old # {}

\* Sizer.demand: [refusal, samples, window, seen, target].
Demand(o, start) ==
    LET p == o.primary
        r == Revisions[p.rev]
        trim(points) == IF p.since > start THEN TrimBefore(points, p.since) ELSE points
        cpu == trim(o.cpu.points)
        mem == trim(o.mem.points)
        trimmed == cpu # o.cpu.points \/ mem # o.mem.points
        refuse(code) == [refusal |-> code, samples |-> 0, window |-> 0, target |-> NoTier]
        samples == Min({Cardinality(DOMAIN cpu), Cardinality(DOMAIN mem)})
        window == Min({Span(cpu), Span(mem)})
    IN IF ~IsTier(r) THEN refuse("invalid-task-size")
       ELSE IF ~o.cpu.complete \/ ~o.mem.complete THEN refuse("partial-metrics")
       ELSE IF DOMAIN cpu = {} \/ DOMAIN mem = {} THEN refuse("no-metric-window")
       ELSE IF trimmed /\ (samples < MinSamples \/ window < MinWindow) THEN refuse("revision-drift")
       ELSE IF window < MinWindow THEN refuse("insufficient-window")
       ELSE IF samples < MinSamples THEN refuse("insufficient-samples")
       ELSE [refusal |-> "", samples |-> samples, window |-> window,
             target |-> [cpu |-> Ceil(AbsoluteFromPercent(Percentile(cpu), r.cpu) * CPUHeadroom, 100),
                         mem |-> Ceil(AbsoluteFromPercent(Max(Range(mem)), r.mem) * MemHeadroom, 100)]]

\* Sizer.confidence: depth, span and freshness, multiplied.
Term(have, want) == Min({100, (100 * have) \div want})
Freshness(age) == (100 * Max({0, MaxSampleAge - age})) \div MaxSampleAge
Confidence(o, d) ==
    LET age == hour - Max(DOMAIN o.cpu.points \cup DOMAIN o.mem.points)
    IN IF d.samples = 0 THEN 0
       ELSE (Term(d.samples, 2 * MinSamples) * Term(d.window, 2 * MinWindow)
               * Freshness(age)) \div 10000

\* The verdict on one tier: a refusal, or "" and it is proposed.
Judge(v, r, bare, tier) ==
    LET current == [cpu |-> r.cpu, mem |-> r.mem]
        gross == Fleet[v].tasks * (Cost(current, r.arch, r.spot) - Cost(tier, r.arch, r.spot))
        verdict(code) == [refusal |-> code, tier |-> tier, gross |-> gross]
    IN IF tier = NoTier THEN verdict("too-large-for-fargate")
       ELSE IF tier.cpu >= 8000 /\ Fleet[v].platform < 140 THEN verdict("platform-version")
       ELSE IF tier = current /\ bare # current /\ bare # NoTier THEN verdict("container-limits")
       ELSE IF tier = current THEN verdict("no-tier-change")
       ELSE IF gross < 0 THEN verdict("undersized")
       ELSE IF gross = 0 THEN verdict("zero-saving")
       ELSE IF gross < MinMove THEN verdict("below-move-floor")
       ELSE verdict("")
Propose(v, p, target) ==
    LET r == Revisions[p.rev]
    IN Judge(v, r, RoundUpTier(target),
             RoundUpTier([cpu |-> Max({target.cpu, r.floor.cpu}), mem |-> Max({target.mem, r.floor.mem})]))

\* Sizer.advisories: levers whose precondition no metric shows.
Advisories(v, p, base) ==
    LET r == Revisions[p.rev]
        saves(arch, spot) == Fleet[v].tasks * (Cost(base, r.arch, r.spot) - Cost(base, arch, spot)) >= MinMove
    IN {a \in {"arm", "spot"} :
          /\ base # NoTier /\ Fleet[v].tasks > 0 /\ r.os = "LINUX"
          /\ a = "arm" => r.arch = "x86" /\ Fleet[v].platform >= 140 /\ saves("arm", r.spot)
          /\ a = "spot" => ~r.spot /\ saves(r.arch, TRUE)}

riskOf(from, to) == IF to.mem < from.mem THEN "medium" ELSE "low"

\* every reason that does not come from the evidence.
Unfit(v, p) ==
    LET r == Revisions[p.rev]
    IN {c \in {"guardrail-mode-off", "invalid-task-size", "network-mode", "deployment-in-progress", "service-idle"} :
          CASE c = "guardrail-mode-off" -> Fleet[v].mode = "off"
            [] c = "invalid-task-size" -> ~IsTier(r)
            [] c = "network-mode" -> r.network \notin {"", "awsvpc"}
            [] c = "deployment-in-progress" -> DeploymentInProgress(p)
            [] OTHER -> Fleet[v].tasks <= 0}

\* Sizer.Assess and Report.Recommendations: the proposal, if any, and the
\* advisories, which are always suppressed.
Recommended(v, p, at, current, proposed, tier) ==
    LET rec(to, suppressed) ==
            [target |-> v, primary |-> p, from |-> current, tier |-> to, at |-> hour, start |-> at - Window,
             end |-> at, suppressed |-> suppressed, risk |-> riskOf(current, to)]
        base == IF proposed THEN tier ELSE current
    IN (IF proposed THEN {rec(tier, v \in Stranded \/ Fleet[v].mode = "recommend")} ELSE {})
       \cup {rec(base, TRUE) : a \in Advisories(v, p, base)}
Weigh(v, o, at, d, q) ==
    LET r == Revisions[o.primary.rev]
    IN Recommended(v, o.primary, at, IF IsTier(r) THEN [cpu |-> r.cpu, mem |-> r.mem] ELSE NoTier,
                   /\ Unfit(v, o.primary) = {} /\ d.refusal = "" /\ q.refusal = ""
                   /\ Confidence(o, d) >= MinConfidence,
                   q.tier)
Sized(v, o, at, d) == Weigh(v, o, at, d, Propose(v, o.primary, d.target))
Assess(v, o, at) == Sized(v, o, at, Demand(o, at - Window))

Recommend ==
    UNION {UNION {Assess(v, targets[c].services[v], targets[c].at) : v \in DOMAIN targets[c].services} :
             c \in DOMAIN targets}

\* Domain.Health, with an actuator wired: the newest snapshot of any cluster.
Ready == DOMAIN targets # {} /\ hour - Max({targets[c].at : c \in DOMAIN targets}) <= StaleAfter

\* PlanSteps, for a guard that allows it; the first MaxSteps are one choice.
PlanSteps(steps) ==
    /\ Ready
    /\ \E applicable \in {{s \in Recommend : ~s.suppressed}} :
          /\ steps \subseteq applicable
          /\ Cardinality(steps) = Min({MaxSteps, Cardinality(applicable)})
    /\ report # steps /\ report' = steps
    /\ UNCHANGED <<hour, db, run, snap, targets, checkpoint, was>>

Next ==
    \/ NextHour \/ Abort \/ Learn \/ Checkpoint \/ Restore
    \/ \E v \in DOMAIN db :
         \/ \E rev \in DOMAIN Revisions : Deploy(v, rev)
         \/ \E state \in {"COMPLETED", "FAILED"} : RollOut(v, state)
    \/ \E c \in Clusters : \E described \in SUBSET DOMAIN db : DescribeServices(c, described)
    \/ \E missing \in Misses : FetchMetrics(missing)
    \/ \E steps \in SUBSET Recommend : PlanSteps(steps)

Spec == Init /\ [][Next]_vars

------------------------------------------------------------------------------
(* A planned task size carries the demand: of the hours in which nothing but *)
(* the running revision served, it holds the memory of all, and the CPU of   *)
(* all but those the percentile sets aside of the hours after the deployment;*)
(* those hours span the minimum window; it holds what the containers         *)
(* declare, and costs less (sizer.go demand, propose).                       *)
TaskCarriesLoad ==
    \A s \in report :
        LET r == Revisions[s.primary.rev]
            since == {h \in DOMAIN Load[s.target] : Max({s.start, s.primary.since}) <= h /\ h < s.end}
            clean == {h \in since : s.primary.ran[h] = {s.primary.rev}}
        IN /\ \A h \in clean : Load[s.target][h].mem <= s.tier.mem
           /\ Cardinality({h \in clean : Load[s.target][h].cpu > s.tier.cpu})
                 <= Cardinality(since) - Ceil(Cardinality(since) * Percent, 100)
           /\ since # {} /\ Max(since) - Min(since) >= MinWindow
           /\ r.floor.cpu <= s.tier.cpu /\ r.floor.mem <= s.tier.mem
           /\ Cost(s.tier, r.arch, r.spot) < Cost(s.from, r.arch, r.spot)

(* A plan rests on fresh evidence about a service at rest: the newest hour   *)
(* it saw is as young as the confidence floor asks, whichever cluster spoke  *)
(* last and whatever was restored, and when its cluster was described no     *)
(* other revision served (sizer.go confidence, DeploymentInProgress).        *)
FreshAndSettled ==
    \A s \in report :
        /\ 100 * (s.at - (s.end - 1)) <= MaxSampleAge * (100 - MinConfidence)
        /\ Serving(s.primary) = {s.primary.rev}
==============================================================================
