------------------------------ MODULE Volumes ------------------------------
(***************************************************************************)
(* EBS advice (pkg/ebs collect.go, ebs.go, parity.go and report.go): a run *)
(* lists the volumes, then their modifications, then their counters, and   *)
(* the domain learns the snapshot; a plan is made of what it learned, and  *)
(* its steps convert gp2 volumes to gp3.  The domain lives in memory and   *)
(* in its checkpoint.  Meanwhile the owner and AWS modify the volumes.     *)
(***************************************************************************)
EXTENDS Integers, Sequences, SequencesExt, FiniteSetsExt, Functions

CONSTANTS
    Fleet,      \* the volumes at the start
    Load,       \* Load[v][counter]: hours to rates, what CloudWatch holds
    Rate,       \* milli-dollars a month: [gp2, gp3, iops, tput]
    Window,     \* CollectorConfig.Window, hours
    Percent, Headroom, MinWindow, MinCoverage, MinSamples,   \* Config; percentages and hours
    Cooldown, StaleAfter, MinSavings, RetainWindow, MaxPoints, MaxSteps,
    Misses,     \* bound: the counters, <<volume, counter>>, one run may not get
    MaxHour, MaxRuns \* bounds: hours, and runs of the collector

VARIABLES hour, db,     \* the clock and the account
          run,          \* "idle" | "listed" | "modified" | "measured"
          snap,         \* the run's snapshot: [at, stale, inst, samples]
          targets,      \* the domain: [volumes, applied, stale, learned, lastAt]
          checkpoint,   \* what Domain.Checkpoint wrote last
          report,       \* the steps of the last plan
          was           \* executed steps the process knows of, in memory and saved,
                        \* whether its evidence outlived the last restart, and
                        \* the number of runs

vars == <<hour, db, run, snap, targets, checkpoint, report, was>>

IOCounters == {"ReadOps", "WriteOps"}
Counters == IOCounters \cup {"ReadBytes", "WriteBytes"}
InFlight == {"modifying", "optimizing"}

(* A volume: [type, gib, state, multi, moving, mode, mod, modAt, to]; moving *)
(* is that an attachment is in transition, mod and modAt its newest          *)
(* modification and to the type that one leads to.                           *)

Empty == [x \in {} |-> 0]
NoSnap == [at |-> 0, stale |-> FALSE, inst |-> Empty, real |-> Empty, samples |-> Empty, blind |-> {}]
NoDomain == [volumes |-> Empty, applied |-> Empty, stale |-> FALSE, learned |-> FALSE, lastAt |-> 0]

Init ==
    /\ hour = 0 /\ db = Fleet /\ run = "idle" /\ snap = NoSnap
    /\ targets = NoDomain /\ checkpoint = NoDomain /\ report = {}
    /\ was = [done |-> Empty, saved |-> Empty, whole |-> TRUE, kept |-> TRUE, runs |-> 0]

------------------------------------------------------------------------------
(* The account changes by itself. *)

NextHour ==
    /\ hour < MaxHour /\ run = "idle"   \* a run takes less than an hour
    /\ hour' = hour + 1
    /\ UNCHANGED <<db, run, snap, targets, checkpoint, report, was>>

\* modifying, then optimizing, then completed.
Advance(v) ==
    /\ db[v].mod \in InFlight
    /\ db' = [db EXCEPT ![v] = IF @.mod = "modifying"
                               THEN [@ EXCEPT !.mod = "optimizing", !.type = db[v].to]
                               ELSE [@ EXCEPT !.mod = "completed", !.modAt = hour]]
    /\ UNCHANGED <<hour, run, snap, targets, checkpoint, report, was>>

\* the owner grows a volume, once.
Outside(v) ==
    /\ db[v].mod = ""
    /\ db' = [db EXCEPT ![v].mod = "modifying", ![v].modAt = hour, ![v].to = db[v].type]
    /\ UNCHANGED <<hour, run, snap, targets, checkpoint, report, was>>

------------------------------------------------------------------------------
(* One run of the collector. *)

\* describeVolumes: all, or the pages before a failure; an error on the first
\* page is returned and there is no snapshot.
DescribeVolumes(listed) ==
    /\ run = "idle" /\ was.runs < MaxRuns
    /\ was' = [was EXCEPT !.runs = @ + 1]
    /\ snap' = [NoSnap EXCEPT !.at = hour, !.stale = listed # DOMAIN db,
                              !.inst = [v \in listed |-> [db[v] EXCEPT !.mod = "", !.modAt = -1]]]
    /\ run' = "listed"
    /\ UNCHANGED <<hour, db, targets, checkpoint, report>>

\* describeModifications: a failure costs the records and marks the snapshot.
\* real is what was true, whatever was read.
DescribeModifications(answered) ==
    /\ run = "listed"
    /\ LET record(v) == [snap.inst[v] EXCEPT !.mod = db[v].mod, !.modAt = db[v].modAt]
           keep(v) == IF answered THEN record(v) ELSE snap.inst[v]
       IN snap' = [snap EXCEPT !.inst = [v \in DOMAIN @ |-> keep(v)], !.stale = @ \/ ~answered,
                               !.real = [v \in DOMAIN snap.inst |-> record(v)]]
    /\ run' = "modified"
    /\ UNCHANGED <<hour, db, targets, checkpoint, report, was>>

\* mergeCounters: an instant one counter has not published counts what the other has.
Rated(v, c, h) == IF h \in DOMAIN Load[v][c] THEN Load[v][c][h] ELSE 0

\* A mutant: the busier of the two counters stands for both.
MergedBusier(v, read, write) ==
    [h \in {h \in DOMAIN Load[v][read] \cup DOMAIN Load[v][write] : h > hour - Window /\ h <= hour} |->
       Max({Rated(v, read, h), Rated(v, write, h)})]

Merged(v, read, write) ==
    [h \in {h \in DOMAIN Load[v][read] \cup DOMAIN Load[v][write] : h > hour - Window /\ h <= hour} |->
       Rated(v, read, h) + Rated(v, write, h)]

\* collectMetrics: a series with a counter not delivered in full is blind.
CollectMetrics(missing) ==
    /\ run = "modified"
    /\ LET metered == {v \in DOMAIN snap.inst : snap.inst[v].type = "gp2"}
           got(v, read, write) ==
               IF {<<v, read>>, <<v, write>>} \cap missing # {} THEN Empty ELSE Merged(v, read, write)
           of == [v \in metered |-> [iops |-> got(v, "ReadOps", "WriteOps"),
                                     tput |-> got(v, "ReadBytes", "WriteBytes")]]
       IN snap' = [snap EXCEPT !.samples = of,
                               !.stale = @ \/ \E m \in missing : m[1] \in metered,
                               !.blind = {v \in DOMAIN snap.inst :
                                            v \in metered => DOMAIN of[v].iops = {}}]
    /\ run' = "measured"
    /\ UNCHANGED <<hour, db, targets, checkpoint, report, was>>

\* series.observe and prune: an instant delivered again is replaced.
Observe(points, new) ==
    LET all    == new @@ points
        newest == Max(DOMAIN all)
        kept   == {h \in DOMAIN all : h >= newest - RetainWindow}
    IN IF DOMAIN all = {} THEN all
       ELSE Restrict(all, {h \in kept : Cardinality({g \in kept : g > h}) < MaxPoints})

Learned(v) ==
    LET old == IF v \in DOMAIN targets.volumes THEN targets.volumes[v] ELSE [iops |-> Empty, tput |-> Empty]
        new == IF v \in DOMAIN snap.samples THEN snap.samples[v] ELSE [iops |-> Empty, tput |-> Empty]
    IN [inst |-> snap.inst[v], real |-> snap.real[v], blind |-> v \in snap.blind,
        iops |-> Observe(old.iops, new.iops), tput |-> Observe(old.tput, new.tput)]

\* Domain.Learn: a volume that is not listed is forgotten with its applied
\* mark, a partial list included; an empty snapshot only degrades the domain.
Learn ==
    /\ run = "measured"
    /\ LET seen == DOMAIN snap.inst
       IN targets' = IF seen = {} THEN [targets EXCEPT !.stale = TRUE]
                     ELSE [volumes |-> [v \in seen |-> Learned(v)],
                           applied |-> Restrict(targets.applied, seen \cap DOMAIN targets.applied),
                           stale   |-> snap.stale, learned |-> TRUE, lastAt |-> Max({snap.at, targets.lastAt})]
    /\ was' = [was EXCEPT !.whole = @ \/ snap.inst # Empty]   \* the evidence is new
    /\ run' = "idle" /\ snap' = NoSnap
    /\ UNCHANGED <<hour, db, checkpoint, report>>

Checkpoint ==
    /\ run = "idle" /\ checkpoint # targets
    /\ checkpoint' = targets
    /\ was' = [was EXCEPT !.saved = was.done, !.kept = was.whole /\ ~targets.stale]
    /\ UNCHANGED <<hour, db, run, snap, targets, report>>

\* the process ends and the next one restores: that the last collection was
\* partial is not in the checkpoint.
Restore ==
    /\ run' = "idle" /\ snap' = NoSnap /\ report' = {}
    /\ targets' = [checkpoint EXCEPT !.stale = FALSE]
    /\ was' = [was EXCEPT !.done = was.saved, !.whole = was.kept]
    /\ UNCHANGED <<hour, db, checkpoint>>

------------------------------------------------------------------------------
(* parity.go: what gp2 delivers, and the gp3 configuration that costs less.  *)

Ceil(a, b) == (a + b - 1) \div b
Larger(a, b) == IF a > b THEN a ELSE b

GP2Performance(gib) ==
    LET iops == Larger(100, Min({3 * gib, 16000}))
    IN [iops |-> iops, tput |-> Min({IF gib >= 334 THEN 250 ELSE 128, Ceil(iops, 4)})]

GP3MaxIOPS(gib) == Larger(3000, Min({500 * gib, 16000}))
GP3MaxThroughput(iops) == Min({iops \div 4, 1000})

configFor(d) ==
    LET tput == Larger(d.tput, 125)
    IN [iops |-> Max({d.iops, 3000, 4 * tput}), tput |-> tput]

Validate(c, gib) == c.iops <= GP3MaxIOPS(gib) /\ c.tput <= GP3MaxThroughput(c.iops)
Clears(c, d) == c.iops >= d.iops /\ c.tput >= d.tput

GP2MonthlyUSD(gib) == gib * Rate.gp2
GP3MonthlyUSD(gib, c) ==
    gib * Rate.gp3 + Larger(0, c.iops - 3000) * Rate.iops + Larger(0, c.tput - 125) * Rate.tput

\* PlanGP3: [refusal, config, delta].
PlanGP3(gib, measured, floor) ==
    LET gp2 == GP2Performance(gib)
        required == IF floor = "gp2-baseline"
                    THEN [iops |-> Larger(measured.iops, gp2.iops), tput |-> Larger(measured.tput, gp2.tput)]
                    ELSE measured
        c == configFor(required)
        delta == GP2MonthlyUSD(gib) - GP3MonthlyUSD(gib, c)
        verdict(code) == [refusal |-> code, config |-> c, delta |-> delta]
    IN IF gib > 16384 THEN verdict("invalid-size")
       ELSE IF ~Validate(c, gib) \/ ~Clears(c, required) THEN verdict("exceeds-gp3")
       ELSE IF delta <= 0 THEN verdict("no-cheaper-config")
       ELSE verdict("")

------------------------------------------------------------------------------
(* report.go: one volume's verdict. *)

\* series.percentile: nearest rank.
Percentile(s) ==
    LET rank == Ceil(Cardinality(DOMAIN s) * Percent, 100)
    IN Min({x \in Range(s) : Cardinality({h \in DOMAIN s : s[h] <= x}) >= rank})
Span(s) == Max(DOMAIN s) - Min(DOMAIN s)

\* observe: a series of throughput alone that is blind does not refuse.
Measured(t) ==
    IF t.blind \/ DOMAIN t.iops = {} \/ DOMAIN t.tput = {} THEN [refusal |-> "unmeasured"]
    ELSE LET samples == Min({Cardinality(DOMAIN t.iops), Cardinality(DOMAIN t.tput)})
             window  == Min({Span(t.iops), Span(t.tput)})
             demand(s) == Ceil(Percentile(s) * (100 + Headroom), 100)
             enough  == window >= MinWindow /\ samples * 100 >= window * MinCoverage
         IN [refusal |-> IF samples < MinSamples THEN "insufficient-samples" ELSE "",
             demand  |-> [iops |-> demand(t.iops), tput |-> demand(t.tput)],
             floor   |-> IF enough THEN "measured" ELSE "gp2-baseline"]

lastModification(v, t) == Max({t.inst.modAt} \cup {targets.applied[w] : w \in {v} \cap DOMAIN targets.applied})

\* the refusals that come before the evidence, the first that applies.
Unfit(v, t) ==
    LET inst == t.inst
        last == lastModification(v, t)
    IN IF inst.mode = "off" THEN "guardrail-mode-off"
       ELSE IF inst.type # "gp2" THEN "not-gp2"
       ELSE IF inst.gib <= 0 THEN "invalid-size"
       ELSE IF inst.state \notin {"available", "in-use"} THEN "volume-state"
       ELSE IF inst.multi THEN "multi-attach"
       ELSE IF inst.moving THEN "attachment-transition"
       ELSE IF inst.mod \in InFlight THEN "modification-in-progress"
       ELSE IF last >= 0 /\ hour - last < Cooldown THEN "modification-cooldown"
       ELSE ""

\* riskOf: below what gp2 delivered is a decision.
riskOf(gib, c, floor) ==
    IF floor = "gp2-baseline" \/ Clears(c, GP2Performance(gib)) THEN "low" ELSE "medium"

Verdict(v, t, obs, p) ==
    LET refuse(code) == [refusal |-> code, suppressed |-> FALSE, step |-> <<>>]
    IN IF Unfit(v, t) # "" THEN refuse(Unfit(v, t))
       ELSE IF obs.refusal # "" THEN refuse(obs.refusal)
       ELSE IF p.refusal = "no-cheaper-config" /\ obs.floor = "gp2-baseline" THEN refuse("insufficient-window")
       ELSE IF p.refusal # "" THEN refuse(p.refusal)
       ELSE IF p.delta < MinSavings THEN refuse("below-min-savings")
       ELSE [refusal |-> "", suppressed |-> t.inst.mode = "recommend",
             step |-> [target |-> v, sure |-> was.whole, config |-> p.config, at |-> hour, from |-> t.inst, real |-> t.real,
                       risk |-> riskOf(t.inst.gib, p.config, obs.floor),
                       seen |-> [iops |-> DOMAIN t.iops, tput |-> DOMAIN t.tput]]]
Observed(v, t, obs) == Verdict(v, t, obs, PlanGP3(t.inst.gib, obs.demand, obs.floor))
assess(v, t) == Observed(v, t, Measured(t))

Recommend == {a \in {assess(v, targets.volumes[v]) : v \in DOMAIN targets.volumes} : a.refusal = ""}

\* A mutant: a partial collection does not make the domain report-only.
ReadyWhenStale == targets.learned /\ hour - targets.lastAt <= StaleAfter

\* Domain.Health, with an actuator wired.
Ready == targets.learned /\ ~targets.stale /\ hour - targets.lastAt <= StaleAfter

\* PlanSteps, for a guard that allows it; the first MaxSteps are one choice.
PlanSteps(steps) ==
    /\ run = "idle" /\ Ready
    /\ \E applicable \in {{a.step : a \in {a \in Recommend : ~a.suppressed}}} :
          /\ steps \subseteq applicable
          /\ Cardinality(steps) = Min({MaxSteps, Cardinality(applicable)})
    /\ report' = steps
    /\ UNCHANGED <<hour, db, run, snap, targets, checkpoint, was>>

\* the actuator modifies the volume, and the controller records it.
Marked(f, v) == [w \in DOMAIN f \cup {v} |-> IF w = v THEN hour ELSE f[w]]
Execute(step) ==
    LET v == step.target
    IN /\ db[v].type = "gp2" /\ db[v].mod \notin InFlight
       /\ db' = [db EXCEPT ![v].mod = "modifying", ![v].modAt = hour, ![v].to = "gp3"]
       /\ targets' = [targets EXCEPT !.applied = Marked(@, v)]
       /\ was' = [was EXCEPT !.done = Marked(@, v)]
       /\ report' = report \ {step}
       /\ UNCHANGED <<hour, run, snap, checkpoint>>

Next ==
    \/ NextHour \/ Learn \/ Checkpoint \/ Restore
    \/ \E v \in DOMAIN db : Advance(v) \/ Outside(v)
    \/ \E listed \in SUBSET DOMAIN db : DescribeVolumes(listed)
    \/ \E answered \in BOOLEAN : DescribeModifications(answered)
    \/ \E missing \in Misses : CollectMetrics(missing)
    \/ \E steps \in SUBSET {a.step : a \in Recommend} : PlanSteps(steps)
    \/ \E step \in report : Execute(step)

Spec == Init /\ [][Next]_vars

------------------------------------------------------------------------------
(* A planned conversion carries the load: it delivers what gp2 delivers, or  *)
(* all the I/O that both counters really showed in the hours it was learned  *)
(* from, but for those the percentile sets aside, and those hours span the   *)
(* minimum window; what is below gp2 is not called low risk (parity.go       *)
(* PlanGP3, report.go observe).                                              *)
ConversionCarriesLoad ==
    \A s \in report :
        LET Beyond(read, write, hours, has) ==
                Cardinality({h \in hours : Rated(s.target, read, h) + Rated(s.target, write, h) > has})
            Apart(hours) == Cardinality(hours) - Ceil(Cardinality(hours) * Percent, 100)
        IN /\ s.config.iops <= GP3MaxIOPS(s.from.gib) /\ 4 * s.config.tput <= s.config.iops
           /\ s.risk = "low" => Clears(s.config, GP2Performance(s.from.gib))
           /\ \/ Clears(s.config, GP2Performance(s.from.gib))
              \/ /\ Max(s.seen.iops) - Min(s.seen.iops) >= MinWindow
                 /\ Max(s.seen.tput) - Min(s.seen.tput) >= MinWindow
                 /\ Beyond("ReadOps", "WriteOps", s.seen.iops, s.config.iops) <= Apart(s.seen.iops)
                 /\ Beyond("ReadBytes", "WriteBytes", s.seen.tput, s.config.tput) <= Apart(s.seen.tput)

(* No volume is planned for while it is being modified, or within the        *)
(* cooldown after: neither by the record that was there to be read when the  *)
(* run read it, nor by a step this process executed and nobody has observed  *)
(* yet, a restart from the checkpoint included, unless that one was written  *)
(* after a partial collection (ebs.go RecordApplied, Learn; report.go        *)
(* lastModification).                                                        *)
NeverTooSoon ==
    \A s \in report : s.sure =>
        /\ s.real.mod \notin InFlight
        /\ s.real.modAt >= 0 => s.at - s.real.modAt >= Cooldown
        /\ s.target \in DOMAIN was.done => s.at - was.done[s.target] >= Cooldown
==============================================================================
