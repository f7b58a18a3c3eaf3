----------------------------- MODULE Databases -----------------------------
(***************************************************************************)
(* RDS advice (pkg/rds collect.go, sizer.go, growth.go, parity*.go and     *)
(* domain.go): a run lists the DB instances, reads their series and their  *)
(* modification envelopes, folds the allocated storage into the history    *)
(* the domain carries, and assesses what it learned.  The domain lives in  *)
(* memory and in its checkpoint.  Meanwhile the owner and RDS's storage    *)
(* autoscaling change the instances, and one may be replaced by another of *)
(* the same name.                                                          *)
(***************************************************************************)
EXTENDS Integers, Sequences, FiniteSetsExt

CONSTANTS
    Fleet,      \* the account at the start: identifiers to DB instances
    Load,       \* Load[i][metric]: hours to values, what CloudWatch holds
    Offers,     \* Offers[i]: [max, maxTput] DescribeValidDBInstanceModifications reports
    GiBMonth, IOPSMonth, TputMonth, Claimable, \* the rate card: milli-dollars, verified or not
    Classes,    \* Classes[class]: [type, units, usd], one price band
    Reserved,   \* class types the account holds a reservation of
    Stranded,   \* classes whose next size down strands commitment, by the ledger
    Headroom, Percent, MinConfidence,          \* ParityConfig; percentages and per mille
    MinWindow, Cooldown,     \* in hours and in days
    MinObservations, MinSpan, MinSteps, MaxObservations, \* GrowthPolicy, spans in days
    IdleCPU, FreeThreshold,  \* Config, percentages
    Misses,                  \* bound: which series one run may not deliver
    MaxDay, MaxChanges, Steps, Sizes \* bounds: days, changes, GiB one autoscaling adds, replacements

VARIABLES day, db,      \* the account
          run,          \* "idle" | "listed" | "measured" | "enveloped" | "observed"
          snap,         \* the run's snapshot: [at, inst, usable] per identifier
          env,          \* the run's envelopes: [known, historyKnown, mods], and how many were recent
          targets,      \* Domain.targets: [inst, usable, prior, history: of [at, gib]]
          checkpoint,   \* what Domain.Checkpoint wrote last
          report,       \* assessments, by identifier
          was           \* was[i]: what identifier i really had: <<day, GiB>>

vars == <<day, db, run, snap, env, targets, checkpoint, report, was>>

IO == {"ReadIOPS", "WriteIOPS", "ReadThroughput", "WriteThroughput"}
Metrics == IO \cup {"FreeableMemory", "FreeStorageSpace", "DatabaseConnections", "CPUUtilization"}

(* A DB instance: [class, engine, stype, gib, max, iops, tput, status, mods, *)
(* mode, cluster, replica, multi]; mods are the days of its storage          *)
(* modifications, multi that it is Multi-AZ.                                 *)

Nothing == [codes |-> {}, advice |-> {}, plan |-> <<>>, inst |-> <<>>, spent |-> 0, grew |-> <<>>]

Init ==
    /\ day = 0 /\ db = Fleet /\ run = "idle"
    /\ snap = [i \in {} |-> 0] /\ env = [i \in {} |-> 0]
    /\ targets = [i \in {} |-> 0] /\ checkpoint = [i \in {} |-> 0]
    /\ report = [i \in {} |-> Nothing]
    /\ was = [i \in DOMAIN Fleet |-> {<<0, Fleet[i].gib>>}]

------------------------------------------------------------------------------
(* The account changes by itself. *)

NextDay ==
    /\ day < MaxDay /\ run \in {"idle", "observed"}   \* a run takes less than a day
    /\ day' = day + 1
    /\ was' = [i \in DOMAIN was |-> was[i] \cup {<<day + 1, db[i].gib>>}]
    /\ UNCHANGED <<db, run, snap, env, targets, checkpoint, report>>

\* RDS takes at most four storage modifications in its window.
Recent(mods, now) == Len(SelectSeq(mods, LAMBDA t : t > now - Cooldown /\ t <= now))

Changeable(i) == Cardinality(was[i]) - day <= MaxChanges
Grow(i, step) ==
    /\ Changeable(i) /\ db[i].gib + step <= db[i].max /\ Recent(db[i].mods, day) < 4
    /\ db' = [db EXCEPT ![i].gib = @ + step, ![i].mods = Append(@, day)]
    /\ was' = [was EXCEPT ![i] = @ \cup {<<day, db[i].gib + step>>}]
    /\ UNCHANGED <<day, run, snap, env, targets, checkpoint, report>>

\* another instance under the same identifier.
Replace(i, gib) ==
    /\ Changeable(i) /\ gib < db[i].gib
    /\ db' = [db EXCEPT ![i].gib = gib, ![i].mods = <<>>]
    /\ was' = [was EXCEPT ![i] = @ \cup {<<day, gib>>}]
    /\ UNCHANGED <<day, run, snap, env, targets, checkpoint, report>>

------------------------------------------------------------------------------
(* One run. *)

\* describeInstances, describeClusters and readTags.
List ==
    /\ run = "idle"
    /\ snap' = [i \in DOMAIN db |-> [at |-> day, inst |-> db[i], usable |-> {}]]
    /\ report' = [i \in {} |-> Nothing]
    /\ run' = "listed"
    /\ UNCHANGED <<day, db, env, targets, checkpoint, was>>

\* readMetrics: a series that is not answered, or not in full, is partial.
Measure(i, missing) ==
    [snap[i] EXCEPT !.usable = {m \in Metrics \ missing : DOMAIN Load[i][m] # {}}]
ReadMetrics(missing) ==
    /\ run = "listed"
    /\ snap' = [i \in DOMAIN snap |-> Measure(i, missing)]
    /\ run' = "measured"
    /\ UNCHANGED <<day, db, env, targets, checkpoint, report, was>>

\* EnvelopeCollector: each of its two calls may fail.
ReadEnvelopes(options, events) ==
    /\ run = "measured"
    /\ env' = [i \in DOMAIN snap |->
                 [known |-> options, historyKnown |-> events,
                  mods |-> IF events THEN db[i].mods ELSE <<>>,
                  spent |-> IF events THEN Recent(db[i].mods, day) ELSE 0]]
    /\ run' = "enveloped"
    /\ UNCHANGED <<day, db, snap, targets, checkpoint, report, was>>

\* StorageHistory.Append: one observation per instant, the newest of them kept.
Append1(h, at, gib) ==
    LET all == {o \in h : o.at # at} \cup {[at |-> at, gib |-> gib]}
    IN {o \in all : Cardinality({p \in all : p.at > o.at}) < MaxObservations}

StorageHistories == [i \in DOMAIN targets |-> targets[i].history]

\* RecordStorageHistory, and Domain.Observe after it, which replaces each target.
Recorded(i) ==
    Append1(IF i \in DOMAIN targets THEN StorageHistories[i] ELSE {}, snap[i].at, snap[i].inst.gib)
Observed(i) ==
    [inst |-> snap[i].inst, usable |-> snap[i].usable, history |-> Recorded(i),
     prior |-> IF i \in DOMAIN targets THEN targets[i].inst.gib ELSE 0]
Observe ==
    /\ run = "enveloped"
    /\ targets' = [i \in DOMAIN targets \cup DOMAIN snap |->
                     IF i \in DOMAIN snap THEN Observed(i) ELSE targets[i]]
    /\ run' = "observed"
    /\ UNCHANGED <<day, db, snap, env, checkpoint, report, was>>

\* a run that is observed again, for a retry of the same snapshot.
ObserveAgain ==
    /\ run = "observed"
    /\ targets' = [i \in DOMAIN targets |-> IF i \in DOMAIN snap THEN Observed(i) ELSE targets[i]]
    /\ UNCHANGED <<day, db, run, snap, env, checkpoint, report, was>>

\* written at the end of a run.
Checkpoint ==
    /\ run = "idle" /\ report # <<>>
    /\ checkpoint' = targets
    /\ UNCHANGED <<day, db, run, snap, env, targets, report, was>>

\* the process ends, and the next one restores what was written.
Restore ==
    /\ run' = "idle" /\ snap' = [i \in {} |-> 0] /\ env' = [i \in {} |-> 0]
    /\ report' = [i \in {} |-> Nothing]
    /\ targets' = checkpoint
    /\ UNCHANGED <<day, db, checkpoint, was>>

------------------------------------------------------------------------------
(* parity.go: what a volume delivers, and what the same costs on gp3. *)

Ceil(a, b) == (a + b - 1) \div b
Larger(a, b) == IF a > b THEN a ELSE b

Open == {"mysql", "mariadb", "postgres"}
Band(lo, hi, loIOPS, hiIOPS, tput) == [lo |-> lo, hi |-> hi, loIOPS |-> loIOPS, hiIOPS |-> hiIOPS, tput |-> tput]
gp2Bands(e) ==
    IF e \in Open
    THEN {Band(5, 399, 100, 1197, 250), Band(400, 1335, 1200, 4005, 1000),
          Band(1336, 3999, 4008, 11997, 1000), Band(4000, 65536, 12000, 64000, 1000)}
    ELSE IF e = "sqlserver" THEN {Band(334, 999, 1002, 2997, 250)} ELSE {}

\* the nameplate; an unpublished band is the empty set.
GP2Performance(e, gib) ==
    {[iops |-> Larger(b.loIOPS, Min({3 * gib, b.hiIOPS})), tput |-> b.tput] :
       b \in {b \in gp2Bands(e) : gib >= b.lo /\ gib <= b.hi}}

StripingThreshold(e) ==
    CASE e = "sqlserver" -> -1 [] e = "oracle" -> 200 [] e \in Open \cup {"db2"} -> 400 [] OTHER -> 0
GP3Regime(e, gib) ==
    LET t == StripingThreshold(e)
        striped == t > 0 /\ gib >= t
    IN [known |-> t # 0, provisionable |-> t = -1 \/ striped,
        iops |-> IF striped THEN 12000 ELSE 3000, tput |-> IF striped THEN 500 ELSE 125]

Provisions(c, r) == c.iops > r.iops \/ c.tput > r.tput
configFor(r, d) == [iops |-> Larger(d.iops, r.iops), tput |-> Larger(d.tput, r.tput)]

\* GP3Config.Validate: what is provisioned must be for sale here.
Validate(c, r, i) ==
    \/ ~Provisions(c, r)
    \/ r.provisionable /\ env[i].known /\ c.iops <= Offers[i].max /\ c.tput <= Offers[i].maxTput
Clears(c, d) == c.iops >= d.iops /\ c.tput >= d.tput

GP2Cost(gib) == gib * GiBMonth.gp2
GP3Cost(gib, r, c) == gib * GiBMonth.gp3 + (c.iops - r.iops) * IOPSMonth + (c.tput - r.tput) * TputMonth

currentGP3(r, inst) == configFor(r, [iops |-> inst.iops, tput |-> inst.tput])

\* Series.Percentile: the index is rounded down.
Values(s) == {s[h] : h \in DOMAIN s}
Percentile(s) ==
    LET index == ((Cardinality(DOMAIN s) - 1) * Percent) \div 100
    IN Min({v \in Values(s) : Cardinality({h \in DOMAIN s : s[h] <= v}) > index})
Span(s) == IF DOMAIN s = {} THEN 0 ELSE Max(DOMAIN s) - Min(DOMAIN s)

\* MeasureIO: all four series or nothing; its span is the longest of theirs.
MeasureIO(i, usable) ==
    LET of(a, b) == Percentile(Load[i][a]) + Percentile(Load[i][b])
        raw == [iops |-> of("ReadIOPS", "WriteIOPS"), tput |-> of("ReadThroughput", "WriteThroughput")]
    IN IF ~IO \subseteq usable
       THEN [known |-> FALSE, span |-> 0, raw |-> [iops |-> 0, tput |-> 0], demand |-> [iops |-> 0, tput |-> 0]]
       ELSE [known |-> TRUE, span |-> Max({Span(Load[i][m]) : m \in IO}), raw |-> raw,
             demand |-> [iops |-> Ceil(raw.iops * (100 + Headroom), 100),
                         tput |-> Ceil(raw.tput * (100 + Headroom), 100)]]

\* the required performance: measured, or at least the nameplate.
Required(inst, r, measured, m) ==
    LET plate == IF inst.stype = "gp2" THEN CHOOSE p \in GP2Performance(inst.engine, inst.gib) : TRUE
                 ELSE currentGP3(r, inst)
    IN IF measured THEN m.demand
       ELSE [iops |-> Larger(m.demand.iops, plate.iops), tput |-> Larger(m.demand.tput, plate.tput)]

\* PlanParity: [refusal, config, delta].
PlanParity(i, inst, measured, m) ==
    LET r    == GP3Regime(inst.engine, inst.gib)
        need == Required(inst, r, measured, m)
        c    == configFor(r, need)
        old  == IF inst.stype = "gp2" THEN GP2Cost(inst.gib)
                ELSE GP3Cost(inst.gib, r, currentGP3(r, inst))
        Refuse(code) == [refusal |-> code, config |-> <<>>, delta |-> 0]
    IN IF inst.stype \notin {"gp2", "gp3"} THEN Refuse("storage-type-not-modelled")
       ELSE IF ~r.known THEN Refuse("gp2-band-unpublished")
       ELSE IF inst.stype = "gp2" /\ GP2Performance(inst.engine, inst.gib) = {} THEN Refuse("gp2-band-unpublished")
       ELSE IF Provisions(c, r) /\ ~r.provisionable THEN Refuse("not-provisionable-below-threshold")
       ELSE IF Provisions(c, r) /\ ~env[i].known THEN Refuse("envelope-unknown")
       ELSE IF ~Validate(c, r, i) \/ ~Clears(c, need) THEN Refuse("storage-demand-exceeds-envelope")
       ELSE IF inst.stype = "gp3" /\ c = currentGP3(r, inst) THEN Refuse("provisioned-performance-floors-at-baseline")
       ELSE IF old <= GP3Cost(inst.gib, r, c) THEN Refuse("storage-parity-not-cheaper")
       ELSE [refusal |-> "", config |-> c, delta |-> old - GP3Cost(inst.gib, r, c)]

\* Parity.confidence, per mille.
Confidence(i, inst, m, c) ==
    LET r == GP3Regime(inst.engine, inst.gib)
        spare(used, has) == 100 - Ceil(100 * used, has)
        margin == Larger(0, Min({spare(m.raw.iops, c.iops), spare(m.raw.tput, c.tput), Headroom}))
    IN (IF m.known THEN 350 + (200 * margin) \div Headroom ELSE 0)
       + Min({250, (250 * m.span) \div MinWindow})
       + (IF env[i].known \/ ~Provisions(c, r) THEN 200 ELSE 0)

CooldownBlocks(i) == env[i].historyKnown /\ Recent(env[i].mods, snap[i].at) >= 4

\* Parity.AssessParity: what it adds to an assessment.
ParityVerdict(i, inst, m, measured, plan) ==
    LET why == IF ~m.known THEN {"no-io-measurement"} ELSE IF measured THEN {} ELSE {"io-window-too-short"}
        Refuse(codes) == [Nothing EXCEPT !.codes = codes]
    IN IF inst.status \in {"modifying", "storage-optimization"} THEN
              Refuse({"storage-optimization-blocks-modification"})
       ELSE IF CooldownBlocks(i) THEN Refuse({"storage-modification-cooldown"})
       ELSE IF plan.refusal # "" THEN Refuse(why \cup {plan.refusal})
       ELSE IF inst.stype = "gp3" /\ ~measured THEN Refuse(why)
       ELSE IF Confidence(i, inst, m, plan.config) < MinConfidence THEN
              Refuse(why \cup {"storage-parity-low-confidence"})
       ELSE IF ~Claimable THEN Refuse(why \cup {"unverified-rate"})
       ELSE [Nothing EXCEPT !.codes = why, !.plan = plan.config]
MeasuredParity(i, inst, m, measured) ==
    ParityVerdict(i, inst, m, measured, PlanParity(i, inst, measured, m))
ParityOn(i, inst, m) == MeasuredParity(i, inst, m, m.known /\ m.span >= MinWindow)
AssessParity(i, t) == ParityOn(i, t.inst, MeasureIO(i, t.usable))

------------------------------------------------------------------------------
(* growth.go and storage.go: what the floor did. *)

Attribute(prior, current) ==
    IF prior <= 0 \/ prior = current THEN "unchanged" ELSE IF current > prior THEN "grew" ELSE "shrank"

Oldest(h) == CHOOSE o \in h : \A p \in h : o.at <= p.at
Newest(h) == CHOOSE o \in h : \A p \in h : p.at <= o.at

\* each observation and the next one.
Pairs(h) == {s \in h \X h : s[1].at < s[2].at /\ \A o \in h : o.at <= s[1].at \/ s[2].at <= o.at}
Gaps(h) == {s[2].at - s[1].at : s \in Pairs(h)}
Sampling(h) == [span |-> Newest(h).at - Oldest(h).at,
                regular |-> 2 * Max(Gaps(h) \cup {0}) <= Newest(h).at - Oldest(h).at]

\* AssessStorageGrowth: [state, and whether a rate is stated].
AssessStorageGrowth(h) ==
    LET moves == {Attribute(s[1].gib, s[2].gib) : s \in Pairs(h)}
        steps == Cardinality({s \in Pairs(h) : s[1].gib < s[2].gib})
        v(state) == [state |-> state, rate |-> FALSE]
    IN IF h = {} THEN v("no-history")
       ELSE IF Cardinality(h) < MinObservations THEN v("too-few-observations")
       ELSE IF Sampling(h).span < MinSpan THEN v("span-too-short")
       ELSE IF "shrank" \in moves THEN v("inconsistent")
       ELSE IF Oldest(h).gib = Newest(h).gib THEN v("flat")
       ELSE [state |-> "grew", rate |-> steps >= MinSteps /\ Sampling(h).regular]

growthFindings(h) ==
    CASE AssessStorageGrowth(h).state \in {"too-few-observations", "span-too-short", "inconsistent"} ->
           {AssessStorageGrowth(h).state}
      [] AssessStorageGrowth(h).state = "grew" ->
           {"growth-is-not-reclaimable"}
           \cup (IF AssessStorageGrowth(h).rate THEN {} ELSE {"rate-not-projectable"})
      [] OTHER -> {}

\* AssessStorage, Overprovisioned: what was never used, by the lowest free space.
Overprovisioned(i, t) ==
    /\ "FreeStorageSpace" \in t.usable
    /\ 100 * Min({Min(Values(Load[i]["FreeStorageSpace"])), t.inst.gib}) >= FreeThreshold * t.inst.gib

\* storageFindings: allocated storage is a floor.
storageFindings(i, t) ==
       [codes |-> {"storage-cannot-shrink"}
                    \cup (IF t.inst.max > t.inst.gib THEN {"storage-autoscaling-ratchet"} ELSE {}),
        advice |-> IF Overprovisioned(i, t) THEN {"storage-floor"} ELSE {}]

------------------------------------------------------------------------------
(* sizer.go: one instance. *)

\* an exclusion fires alone.
Exclusion(inst) ==
    IF inst.mode = "off" THEN "mode-off"
    ELSE IF inst.engine = "aurora" THEN "aurora-not-supported"
    ELSE IF inst.cluster THEN "cluster-member-not-supported"
    ELSE IF StripingThreshold(inst.engine) = 0 THEN "unknown-engine"
    ELSE ""

AssessMemory(t) ==
    IF "FreeableMemory" \notin t.usable THEN "no-metric-evidence"
    ELSE IF t.inst.engine = "postgres" THEN "freeable-memory-is-page-cache"
    ELSE IF t.inst.engine \in {"mysql", "mariadb"} THEN "buffer-pool-scales-with-class"
    ELSE "memory-semantics-unencoded"

\* the evidence gates; they are reported beside whatever else is found.
Gates(t) ==
    (IF t.usable \cap (Metrics \ IO) = {} THEN {"no-metric-evidence"} ELSE {})
    \cup (IF t.inst.status \in {"modifying", "storage-optimization"} THEN {"instance-state-unstable"} ELSE {})
    \cup {AssessMemory(t)}

Permanent(inst) ==
    {"instance-class-is-a-failover"} \cup (IF inst.replica THEN {"replica-is-failover-capacity"} ELSE {})
    \cup (IF inst.multi THEN {"multi-az-is-availability-posture"} ELSE {})

\* assessIdle: a CPU series that is not usable does not stand in the way.
Idle(i, t) ==
    /\ "DatabaseConnections" \in t.usable /\ Values(Load[i]["DatabaseConnections"]) = {0}
    /\ "CPUUtilization" \in t.usable => Max(Values(Load[i]["CPUUtilization"])) <= IdleCPU

\* no price, no claim.
price(inst) == IF inst.class \in DOMAIN Classes THEN {} ELSE {"unknown-instance-class"}

\* smallerClass: the next size down among the priced classes of the same type.
smallerClass(inst) ==
    LET c == Classes[inst.class]
        below == {k \in DOMAIN Classes : Classes[k].type = c.type /\ Classes[k].units < c.units}
    IN {k \in below : \A l \in below : Classes[l].units <= Classes[k].units}

\* assessCommitment: what the move nobody proposes would do to a reservation.
assessCommitment(inst) ==
    IF price(inst) # {} \/ smallerClass(inst) = {} THEN [codes |-> {}, advice |-> {}]
    ELSE [codes |-> IF inst.engine = "sqlserver" /\ Classes[inst.class].type \in Reserved
                    THEN {"size-flexibility-excluded"}
                    ELSE IF inst.class \in Stranded THEN {"commitment-stranding"} ELSE {},
          advice |-> IF inst.class \in Stranded THEN {"reservation-stranding"} ELSE {}]

assessTarget(i, t) ==
    LET h      == t.history
        growth == AssessStorageGrowth(h)
        floor  == storageFindings(i, t)
        commit == assessCommitment(t.inst)
    IN IF Exclusion(t.inst) # "" THEN [Nothing EXCEPT !.codes = {Exclusion(t.inst)}]
       ELSE [AssessParity(i, t) EXCEPT
               !.inst = t.inst, !.spent = env[i].spent,
               !.codes = @ \cup Gates(t) \cup floor.codes \cup growthFindings(h) \cup Permanent(t.inst)
                           \cup price(t.inst) \cup commit.codes,
               !.advice = floor.advice \cup commit.advice \cup (IF Idle(i, t) THEN {"idle"} ELSE {}),
               !.grew = IF growth.state = "grew" THEN <<Oldest(h), Newest(h)>> ELSE <<>>]

\* Domain.Report: every target the domain holds that this run has an envelope for.
Assess ==
    /\ run = "observed"
    /\ report' = [i \in DOMAIN targets \cap DOMAIN env |-> assessTarget(i, targets[i])]
    /\ run' = "idle" /\ snap' = [i \in {} |-> 0] /\ env' = [i \in {} |-> 0]
    /\ UNCHANGED <<day, db, targets, checkpoint, was>>

Next ==
    \/ NextDay \/ List \/ Observe \/ ObserveAgain \/ Checkpoint \/ Restore \/ Assess
    \/ \E i \in DOMAIN db, s \in Steps : Grow(i, s)
    \/ \E i \in DOMAIN db : \E g \in Sizes[i] : Replace(i, g)
    \/ \E missing \in Misses : ReadMetrics(missing)
    \/ \E o, e \in BOOLEAN : ReadEnvelopes(o, e)

Spec == Init /\ [][Next]_vars

------------------------------------------------------------------------------
(* A storage change is advised only where it is safe: the instance takes it  *)
(* today, the live envelope sells it, and it carries the load CloudWatch     *)
(* holds in all but the hours the percentile sets aside, or, when the load   *)
(* was not delivered in full, all that the volume delivers now               *)
(* (parity_assess.go AssessParity).                                          *)
VolumeIsSupported ==
    \A i \in {i \in DOMAIN report : report[i].plan # <<>>} :
        LET p    == report[i].plan
            inst == report[i].inst
            r    == GP3Regime(inst.engine, inst.gib)
            plates == IF inst.stype = "gp2" THEN GP2Performance(inst.engine, inst.gib)
                      ELSE {currentGP3(r, inst)}
            Beyond(a, b, has) ==
                Cardinality({h \in DOMAIN Load[i][a] : Load[i][a][h] + Load[i][b][h] > has})
            Apart(m) == 2 * Ceil((Cardinality(DOMAIN Load[i][m]) - 1) * (100 - Percent), 100)
        IN /\ inst.status \notin {"modifying", "storage-optimization"} /\ report[i].spent < 4
           /\ \/ \E q \in plates : p.iops >= q.iops /\ p.tput >= q.tput
              \/ /\ \A m \in IO : Span(Load[i][m]) >= MinWindow
                 /\ Beyond("ReadIOPS", "WriteIOPS", p.iops) <= Apart("ReadIOPS")
                 /\ Beyond("ReadThroughput", "WriteThroughput", p.tput) <= Apart("ReadThroughput")
           /\ p.iops > r.iops \/ p.tput > r.tput =>
                r.provisionable /\ p.iops <= Offers[i].max /\ p.tput <= Offers[i].maxTput

(* A growth that is reported happened: each observation behind it is a size  *)
(* the identifier really had on its day, one a day whatever is retried, and  *)
(* the newest is larger than the oldest (growth.go AssessStorageGrowth,      *)
(* RecordStorageHistory).                                                    *)
GrowthHappened ==
    /\ \A i \in DOMAIN targets :
          \A o, p \in targets[i].history : <<o.at, o.gib>> \in was[i] /\ (o.at = p.at => o = p)
    /\ \A i \in DOMAIN report :
          LET g == report[i].grew
          IN g # <<>> => /\ g[1].gib < g[2].gib /\ g[2].at - g[1].at >= MinSpan
                         /\ \A k \in {1, 2} : <<g[k].at, g[k].gib>> \in was[i]
==============================================================================
