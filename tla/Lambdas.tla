------------------------------ MODULE Lambdas ------------------------------
(***************************************************************************)
(* Lambda advice (pkg/lambda and pkg/domain/lambda): a run lists the       *)
(* functions, reads the REPORT lines of their log groups and then their    *)
(* counters; the domain keeps the last snapshot of each function, the      *)
(* generic seam adds configuration to it, and the sizer compares the       *)
(* memory settings the function was measured at.  Meanwhile the functions  *)
(* run, and their owner retunes them.                                      *)
(***************************************************************************)
EXTENDS Integers, FiniteSets, FiniteSetsExt, Functions, TLC

CONSTANTS
    Fleet,      \* the functions at the start: [mem, mode, arch, provisioned]
    Lines,      \* Lines[f][mem]: what an hour may log: [used, duration, billed, init]
    Sizes,      \* the memory settings the owner uses, MB
    Rate,       \* [request, x86, arm], per MB and millisecond
    Window,     \* CollectorConfig.Window, hours
    MemHeadroom, MemoryStep, CeilingRatio, MinWindow, MinInvocations,
    MinSamplesPerPoint, MaxColdShare, MinConfidence,  \* Config; percentages and hours
    Stranded,   \* the functions whose saving the ledger suppresses
    MaxEvents,  \* CollectorConfig.MaxEventsPerFunction
    MaxHour, MaxRuns, MaxRetunes \* bounds: hours, runs and generic snapshots, changes by the owner

VARIABLES hour, db,     \* the clock and the account: [mem, log] by function
          run,          \* "idle" | "listed" | "read"
          snap,         \* the run's snapshot: [at, stale, of]
          targets,      \* the domain: [of, at, stale]
          checkpoint,   \* what Domain.Checkpoint wrote last
          report,       \* the assessments of the last report
          was           \* the runs and the changes so far

vars == <<hour, db, run, snap, targets, checkpoint, report, was>>

Nothing == [f \in {} |-> 0]
NoSnap == [at |-> -1, stale |-> FALSE, of |-> Nothing]

Init ==
    /\ hour = 0 /\ run = "idle" /\ snap = NoSnap /\ targets = NoSnap /\ checkpoint = NoSnap
    /\ db = [f \in DOMAIN Fleet |-> [mem |-> Fleet[f].mem, log |-> {}]]
    /\ report = {} /\ was = [runs |-> 0, moves |-> 0]

------------------------------------------------------------------------------
(* The account.  A log line is what the platform wrote, or a line corrupted  *)
(* on the way to the log group.                                              *)

Invoke(f, line) ==
    /\ hour < MaxHour /\ run = "idle"   \* a run takes less than an hour
    /\ hour' = hour + 1
    /\ db' = [db EXCEPT ![f].log = @ \cup {line @@ [at |-> hour, mem |-> db[f].mem]}]
    /\ UNCHANGED <<run, snap, targets, checkpoint, report, was>>

Retune(f, mem) ==
    /\ was.moves < MaxRetunes /\ mem # db[f].mem
    /\ was' = [was EXCEPT !.moves = @ + 1]
    /\ db' = [db EXCEPT ![f].mem = mem]
    /\ UNCHANGED <<hour, run, snap, targets, checkpoint, report>>

------------------------------------------------------------------------------
(* Collector.Collect *)

\* a page budget leaves a part of the inventory, and says so.
ListFunctions(listed) ==
    /\ run = "idle" /\ was.runs < MaxRuns
    /\ was' = [was EXCEPT !.runs = @ + 1]
    /\ snap' = [at |-> hour, stale |-> listed # DOMAIN db,
                of |-> [f \in listed |-> [mem |-> db[f].mem, reports |-> {}, invocations |-> 0]]]
    /\ run' = "listed"
    /\ UNCHANGED <<hour, db, targets, checkpoint, report>>

\* ParseReport: an implausible line is dropped, never clamped.
Parses(l) ==
    /\ l.mem \in 128..10240 /\ l.used <= l.mem
    /\ l.duration <= 900000 /\ l.billed <= 900000 /\ l.init <= 900000
    /\ l.billed + 1 >= l.duration

\* readReports: a log group that cannot be read, a page budget and the event
\* cap each cost a part of the lines and mark the snapshot.
ReadReports(f, lines) ==
    /\ run = "listed" /\ f \in DOMAIN snap.of
    /\ LET all == {l \in db[f].log : l.at >= snap.at - Window}
       IN /\ lines \subseteq all /\ \A k \in lines, l \in all \ lines : k.at < l.at
          /\ Cardinality(lines) <= MaxEvents
          /\ snap' = [snap EXCEPT !.of[f].reports = {l \in lines : Parses(l)},
                                  !.stale = @ \/ lines # all]
    /\ run' = IF f = Max(DOMAIN snap.of) THEN "read" ELSE run
    /\ UNCHANGED <<hour, db, targets, checkpoint, report, was>>

\* readMetrics: a counter that is not answered is not in the snapshot.
ReadMetrics(answered) ==
    /\ run = "read" \/ (run = "listed" /\ snap.of = Nothing)
    /\ snap' = [snap EXCEPT !.of = [f \in DOMAIN @ |->
                  [snap.of[f] EXCEPT !.invocations =
                     IF f \in answered THEN Cardinality({l \in db[f].log : l.at >= snap.at - Window}) ELSE 0]]]
    /\ run' = "measured"
    /\ UNCHANGED <<hour, db, targets, checkpoint, report, was>>

\* Domain.Observe: the newest snapshot of a function replaces the one before.
Observe ==
    /\ run = "measured"
    /\ targets' = [of |-> snap.of @@ targets.of, at |-> Max({snap.at, targets.at}), stale |-> snap.stale]
    /\ run' = "idle" /\ snap' = NoSnap
    /\ UNCHANGED <<hour, db, checkpoint, report, was>>

\* Domain.Learn, the generic seam: configuration, and no measurement is erased.
Learn(seen) ==
    /\ run = "idle" /\ was.runs < MaxRuns
    /\ was' = [was EXCEPT !.runs = @ + 1]
    /\ targets' = IF seen = {} THEN [targets EXCEPT !.stale = TRUE]
                  ELSE [of |-> [f \in seen |-> IF f \in DOMAIN targets.of
                                               THEN [targets.of[f] EXCEPT !.mem = db[f].mem]
                                               ELSE [mem |-> db[f].mem, reports |-> {}, invocations |-> 0]]
                               @@ targets.of,
                        at |-> hour, stale |-> FALSE]
    /\ UNCHANGED <<hour, db, run, snap, checkpoint, report>>

Checkpoint ==
    /\ checkpoint # targets
    /\ checkpoint' = targets
    /\ UNCHANGED <<hour, db, run, snap, targets, report, was>>

Restore ==
    /\ targets' = checkpoint
    /\ run' = "idle" /\ snap' = NoSnap /\ report' = {}
    /\ UNCHANGED <<hour, db, checkpoint, was>>

------------------------------------------------------------------------------
(* Sizer.assess *)

Ceil(a, b) == (a + b - 1) \div b
ClampMemory(mb) == Max({128, Min({mb, 10240})})

Cold(l) == l.init > 0
AtCeiling(l) == 100 * l.used >= CeilingRatio * l.mem

\* aggregate: one point for each memory setting that logged anything.
Aggregate(reports) ==
    [m \in {l.mem : l \in reports} |->
       LET here == {l \in reports : l.mem = m}
           warm == {l \in here : ~Cold(l)}
       IN [warm |-> Cardinality(warm), cold |-> Cardinality(here \ warm),
           billed |-> MapThenSumSet(LAMBDA l : l.billed, warm),
           used |-> Max({l.used : l \in here}), ceiling |-> \E l \in here : AtCeiling(l)]]

\* the smallest setting that clears the largest use, with headroom.
MemoryFloor(reports) ==
    IF reports = {} THEN 128
    ELSE ClampMemory(MemoryStep * Ceil(Ceil(Max({l.used : l \in reports}) * MemHeadroom, 100), MemoryStep))

\* Rates.HourlyUSD, for one warm invocation and times all the samples it is the mean of.
Cost(p, m, arch) == Rate.request * p.warm + m * p.billed * Rate[arch]
Cheaper(p, m, q, n, arch) == Cost(p, m, arch) * q.warm < Cost(q, n, arch) * p.warm

UsablePoints(points) == {m \in DOMAIN points : points[m].warm >= MinSamplesPerPoint}

\* observe: what the counter says was invoked, or else the lines.
Invocations(t) == IF t.invocations > 0 THEN t.invocations ELSE Cardinality(t.reports)

Span(reports) == Max({l.at : l \in reports}) - Min({l.at : l \in reports})
ColdShare(reports) == 100 * Cardinality({l \in reports : Cold(l)})

\* Sizer.confidence, in percent.
Confidence(t, points, usable) ==
    LET n == Cardinality(t.reports)
        spare == 100 - Ceil(100 * points[t.mem].used, t.mem)
    IN (IF Cardinality(usable) >= 3 THEN 30 ELSE 24)
       + Min({25, (25 * n) \div Invocations(t)})
       + (15 * (n - Cardinality({l \in t.reports : Cold(l)}))) \div n
       + Min({15, (15 * Span(t.reports)) \div MinWindow})
       + (IF points[t.mem].ceiling THEN 0 ELSE Min({15, (15 * spare) \div 25}))

\* compare: the cheapest measured setting that clears the floor, the dearest
\* lower one, and the largest cheaper one below the floor; 0 for none.
Best(points, usable, t, arch) ==
    LET cur == points[t.mem]
        cheaper == {m \in usable \ {t.mem} : ~points[m].ceiling /\ Cheaper(points[m], m, cur, t.mem, arch)}
        fit == {m \in cheaper : m >= MemoryFloor(t.reports)}
    IN IF fit = {} THEN 0
       ELSE Min({m \in fit : \A n \in fit : ~Cheaper(points[n], n, points[m], m, arch)})
Trap(points, usable, t, arch) ==
    {m \in usable : m < t.mem /\ Cheaper(points[t.mem], t.mem, points[m], m, arch)}
Blocked(points, usable, t, arch) ==
    {m \in usable \ {t.mem} : /\ ~points[m].ceiling /\ m < MemoryFloor(t.reports)
                              /\ Cheaper(points[m], m, points[t.mem], t.mem, arch)}

\* the reasons that come before the comparison, the first that applies.
Unfit(f, t, points) ==
    IF Fleet[f].mode = "off" THEN "guardrail-mode-off"
    ELSE IF t.mem \notin 128..10240 THEN "unknown-configuration"
    ELSE IF Fleet[f].provisioned THEN "provisioned-concurrency"
    ELSE IF t.reports = {} THEN "no-report-evidence"
    ELSE IF Span(t.reports) < MinWindow THEN "insufficient-window"
    ELSE IF Invocations(t) < MinInvocations THEN "insufficient-invocations"
    ELSE IF ColdShare(t.reports) > MaxColdShare * Cardinality(t.reports) THEN "cold-start-dominated"
    ELSE IF t.mem \in DOMAIN points /\ points[t.mem].ceiling THEN "memory-at-ceiling"
    ELSE IF Cardinality(UsablePoints(points)) < 2 THEN "single-memory-point"
    ELSE IF t.mem \notin UsablePoints(points) THEN "no-measurement-at-current"
    ELSE ""

\* what is worth a trial: [code, mem].
Advisories(f, t, points) ==
    LET floor == MemoryFloor(t.reports)
        trial == IF floor >= t.mem THEN ClampMemory(2 * t.mem) ELSE floor
    IN {a \in [code : {"under-memory", "power-tuning", "arm"}, mem : {floor, trial, t.mem}] :
          CASE a.code = "under-memory" -> floor > t.mem /\ a.mem = floor
            [] a.code = "power-tuning" -> a.mem = trial
            [] OTHER -> /\ Fleet[f].arch = "x86" /\ a.mem = t.mem
                        /\ t.mem \in DOMAIN points /\ points[t.mem].warm > 0}

assess(f) ==
    LET t == targets.of[f]
        points == Aggregate(t.reports)
        usable == UsablePoints(points)
        arch == Fleet[f].arch
        unfit == Unfit(f, t, points)
        best == Best(points, usable, t, arch)
        verdict(code, to) == [target |-> f, code |-> code, from |-> t.mem, to |-> to, seen |-> t.reports,
                              advised |-> IF t.reports = {} \/ unfit = "guardrail-mode-off" THEN {}
                                          ELSE Advisories(f, t, points),
                              risk |-> IF to > t.mem THEN "low" ELSE "medium"]
    IN IF unfit # "" THEN verdict(unfit, 0)
       ELSE IF best = 0 /\ Trap(points, usable, t, arch) # {} THEN verdict("lower-memory-costs-more", 0)
       ELSE IF best = 0 /\ Blocked(points, usable, t, arch) # {} THEN verdict("below-memory-floor", 0)
       ELSE IF best = 0 THEN verdict("no-cheaper-measurement", 0)
       ELSE IF Confidence(t, points, usable) < MinConfidence THEN verdict("low-confidence", 0)
       ELSE IF f \in Stranded THEN verdict("stranded-commitment", 0)
       ELSE verdict("", best)

\* Domain.Report; no step is ever made of it.
Report ==
    /\ run = "idle"
    /\ report' = {assess(f) : f \in DOMAIN targets.of}
    /\ report' # report
    /\ UNCHANGED <<hour, db, run, snap, targets, checkpoint, was>>

Next ==
    \/ Observe \/ Checkpoint \/ Restore \/ Report
    \/ \E f \in DOMAIN db :
         \/ \E line \in Lines[f][db[f].mem] : Invoke(f, line)
         \/ \E mem \in Sizes : Retune(f, mem)
         \/ \E n \in 0..MaxEvents : ReadReports(f, {l \in db[f].log : l.at >= snap.at - Window /\
                Cardinality({k \in db[f].log : k.at >= snap.at - Window /\ k.at <= l.at}) <= n})
    \/ \E some \in SUBSET DOMAIN db : ListFunctions(some) \/ ReadMetrics(some) \/ Learn(some)

Spec == Init /\ [][Next]_vars

------------------------------------------------------------------------------
(* A proposed memory setting is a comparison of two bills that were paid and *)
(* a size the function fits: at the setting it has and at the one proposed   *)
(* the function ran warm as often as a mean asks for, the mean bill of the   *)
(* proposed one was lower, cold starts and corrupt lines left out; every     *)
(* invocation that was read, at whatever setting, fits with its headroom,    *)
(* and none at either setting was cut off by its limit; and it all happened  *)
(* within one window (sizer.go assess, stats.go observe, domain.go Observe,  *)
(* Learn).                                                                   *)
SavingIsMeasured ==
    \A a \in report : a.code = "" =>
        LET ran(m) == {l \in a.seen : l.mem = m /\ l.init = 0}
            bill(m) == Rate.request * Cardinality(ran(m))
                       + m * Rate[Fleet[a.target].arch] * MapThenSumSet(LAMBDA l : l.billed, ran(m))
        IN /\ \A m \in {a.from, a.to} :
                /\ Cardinality(ran(m)) >= MinSamplesPerPoint
                /\ \A l \in a.seen : l.mem = m => 100 * l.used < CeilingRatio * m
           /\ bill(a.to) * Cardinality(ran(a.from)) < bill(a.from) * Cardinality(ran(a.to))
           /\ \A l \in a.seen : l.used <= l.mem /\ l.used * MemHeadroom <= 100 * a.to
           /\ Max({l.at : l \in a.seen}) - Min({l.at : l \in a.seen}) \in MinWindow..Window
==============================================================================
