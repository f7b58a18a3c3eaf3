------------------------------- MODULE Fargate -------------------------------
(***************************************************************************)
(* The k8s-fargate domain (pkg/domain/fargate): it learns from snapshots of *)
(* the cluster, proposes for each workload a tier move, a boundary shave or *)
(* the revert of a change of its own that made the workload fail, and is   *)
(* told of the steps that were executed.  Snapshots arrive late or never,  *)
(* containers are killed, and the process restarts from a checkpoint.      *)
(***************************************************************************)
EXTENDS FargateTiers, SequencesExt, TLC

CONSTANTS
    Fleet,      \* the workloads: [kind, mode, cpu, mem (by container), init, provisioned]
    Usage,      \* the memory samples a snapshot may show, MiB by workload and container
    Policy,     \* the memory requests pkg/recommend may come to; its confidence is of no effect
    Rate,       \* per quarter of a vCPU and per half GB
    MinShaveSamples, MinShaveWindow, MinShaveConfidence, MaxSampleAge, NoiseBand, NoiseSigmas,
    MinShave, MinMove, StaleAfter, RegressionWindow, QuarantineFor, Hold, Decay,
    MaxSteps,   \* Guard.MaxSteps; percentages, and hours for the times
    Stranded,   \* the workloads whose saving the ledger suppresses
    MaxHour, MaxRuns, MaxEvents, MaxGen \* bounds: hours, snapshots, what befalls the pods, their generations

VARIABLES hour, db,     \* the clock and the cluster: [mem, replicas, gen, killed, restarts, provisioned]
          run,          \* the steps of the plan that are left
          snap,         \* the snapshots that were taken and not yet learned
          targets,      \* the domain: [last, at, stale, stats, applied, reverts, watch, until, known]
          checkpoint,   \* what Domain.Checkpoint wrote last
          report,       \* the recommendations of the last report
          was           \* [runs, events, owed, about]: bounds, the sizes a revert is due to, and
                        \* the workloads the last report is about

vars == <<hour, db, run, snap, targets, checkpoint, report, was>>

Nothing == [w \in {} |-> 0]
NoSnap == [at |-> -1, pods |-> Nothing, usage |-> Nothing, stale |-> TRUE]
NoStat == [n |-> 0, sum |-> 0, squares |-> 0, first |-> 0, last |-> 0, peak |-> 0, peakAt |-> 0,
           lastMem |-> 0, oom |-> FALSE]
NoDomain == [last |-> NoSnap, at |-> -1, stale |-> FALSE, stats |-> Nothing, applied |-> Nothing,
             reverts |-> Nothing, watch |-> Nothing, until |-> Nothing, known |-> {}]

Containers(w) == DOMAIN Fleet[w].mem
Total(mem) == FoldFunction(+, 0, mem)

Init ==
    /\ hour = 0 /\ run = {} /\ snap = {} /\ targets = NoDomain /\ checkpoint = NoDomain /\ report = {}
    /\ db = [w \in DOMAIN Fleet |-> [mem |-> Fleet[w].mem, replicas |-> 1, gen |-> 0, killed |-> {}, restarts |-> 0,
                                     provisioned |-> Fleet[w].provisioned]]
    /\ was = [runs |-> 0, events |-> 0, owed |-> Nothing, about |-> {}]

------------------------------------------------------------------------------
(* The cluster. *)

NextHour ==
    /\ hour < MaxHour
    /\ hour' = hour + 1
    /\ UNCHANGED <<db, run, snap, targets, checkpoint, report, was>>

\* a container is killed for its memory, or crashes.
Kill(w, killed) ==
    /\ was.events < MaxEvents
    /\ was' = [was EXCEPT !.events = @ + 1]
    /\ db' = [db EXCEPT ![w].killed = @ \cup killed, ![w].restarts = @ + 1]
    /\ UNCHANGED <<hour, run, snap, targets, checkpoint, report>>

\* its autoscaler, or its owner who puts a size back.
Edit(w, replicas, mem) ==
    /\ was.events < MaxEvents /\ db[w].gen < MaxGen /\ <<replicas, mem>> # <<db[w].replicas, db[w].mem>>
    /\ was' = [was EXCEPT !.events = @ + 1]
    /\ db' = [db EXCEPT ![w] = IF mem = @.mem THEN [@ EXCEPT !.replicas = replicas]
                 ELSE [mem |-> mem, replicas |-> replicas, gen |-> @.gen + 1, killed |-> {}, restarts |-> 0,
                       provisioned |-> Quantize([cpu |-> Fleet[w].cpu, mem |-> Total(mem)], Fleet[w].init)]]
    /\ UNCHANGED <<hour, run, snap, targets, checkpoint, report>>

Collect(usage, stale) ==
    /\ was.runs < MaxRuns
    /\ was' = [was EXCEPT !.runs = @ + 1]
    /\ snap' = snap \cup {[at |-> hour, pods |-> db, usage |-> usage, stale |-> stale]}
    /\ UNCHANGED <<hour, db, run, targets, checkpoint, report>>

------------------------------------------------------------------------------
(* What is learned. *)

\* stat.observe; the sums stand for the accumulators of the deviation.
observe(s, mem, at) ==
    [s EXCEPT !.n = @ + 1, !.sum = @ + mem, !.squares = @ + mem * mem,
              !.peak = Max({@, mem}),
              !.peakAt = IF mem > s.peak \/ (mem = s.peak /\ at > @) THEN at ELSE @,
              !.first = IF s.n = 0 \/ at < @ THEN at ELSE @,
              !.last = IF s.n = 0 \/ at > @ THEN at ELSE @,
              !.lastMem = IF s.n = 0 \/ at > s.last THEN mem ELSE @]

Stat(d, k) == IF k \in DOMAIN d.stats THEN d.stats[k] ELSE NoStat

\* Domain.Learn; known keeps the samples and the kills for the properties.
Learn(s) ==
    /\ s \in snap
    /\ LET killed == UNION {{<<w, c>> : c \in s.pods[w].killed} : w \in DOMAIN s.pods}
           stat(k) == LET o == [Stat(targets, k) EXCEPT !.oom = @ \/ k \in killed]
                      IN IF k \in DOMAIN s.usage THEN observe(o, s.usage[k], s.at) ELSE o
       IN targets' = [targets EXCEPT
             !.last = s, !.at = Max({@, s.at}), !.stale = s.stale,
             !.stats = [k \in DOMAIN @ \cup killed \cup DOMAIN s.usage |-> stat(k)],
             !.known = @ \cup {[key |-> k, killed |-> TRUE, mem |-> 0, at |-> s.at] : k \in killed}
                         \cup {[key |-> k, killed |-> FALSE, mem |-> s.usage[k], at |-> s.at] : k \in DOMAIN s.usage}]
    /\ snap' = snap \ {s}
    /\ UNCHANGED <<hour, db, run, checkpoint, report, was>>

\* a snapshot without a cluster only marks the domain.
LearnNothing ==
    /\ ~targets.stale
    /\ targets' = [targets EXCEPT !.stale = TRUE]
    /\ UNCHANGED <<hour, db, run, snap, checkpoint, report, was>>

\* what the process keeps in memory only: the view, the watch and the quarantine.
Checkpoint ==
    /\ checkpoint' = [targets EXCEPT !.last = NoSnap, !.at = -1, !.stale = FALSE,
                                     !.watch = Nothing, !.until = Nothing]
    /\ checkpoint' # checkpoint
    /\ UNCHANGED <<hour, db, run, snap, targets, report, was>>

Restore ==
    /\ targets' = checkpoint
    /\ run' = {} /\ report' = {}
    /\ LET known == {w \in DOMAIN was.owed \cap DOMAIN checkpoint.reverts :
                       checkpoint.reverts[w].from.mem = was.owed[w]}
       IN was' = [was EXCEPT !.owed = Restrict(@, known), !.about = {}]
    /\ UNCHANGED <<hour, db, snap, checkpoint>>

------------------------------------------------------------------------------
(* Sizes. *)

Ceil(a, b) == (a + b - 1) \div b
Cost(tier) == (tier.cpu \div 250) * Rate.cpu + (tier.mem \div 512) * Rate.mem

\* EffectiveOOMFloor, for the peak of a container: whole for Hold, then the
\* excess over the newest sample decays.
effectivePeak(s) ==
    IF s.peak = 0 \/ hour - s.peakAt <= Hold THEN s.peak
    ELSE s.lastMem + Ceil((s.peak - s.lastMem) * (100 - Decay)^(hour - s.peakAt - Hold),
                          100^(hour - s.peakAt - Hold))

\* Domain.requiredMemory: a fraction of the peak or a multiple of the deviation.
requiredMemory(s) ==
    LET enough(x) == x * x * s.n * (s.n - 1) >= NoiseSigmas * NoiseSigmas * (s.n * s.squares - s.sum * s.sum)
        deviation == FoldLeft(LAMBDA b, bit : IF enough(b + bit - 1) THEN b ELSE b + bit, 0,
                              [i \in 1..10 |-> 2^(10 - i)])   \* the least that is enough
    IN effectivePeak(s) + Max({Ceil(effectivePeak(s) * NoiseBand, 100), IF s.n < 2 THEN 0 ELSE deviation})

\* Domain.observationConfidence, in percent, of the least observed container.
Term(have, want) == Min({100, (100 * have) \div want})
Samples(d, w) == Min({Stat(d, <<w, c>>).n : c \in Containers(w)})
Window(d, w) == Min({Stat(d, <<w, c>>).last - Stat(d, <<w, c>>).first : c \in Containers(w)})
Confidence(d, w) ==
    LET age == Max({hour - Stat(d, <<w, c>>).last : c \in Containers(w)})
    IN IF Samples(d, w) = 0 THEN 0
       ELSE (Term(Samples(d, w), 2 * MinShaveSamples) * Term(Window(d, w), 2 * MinShaveWindow)
               * (100 - Term(age, MaxSampleAge)) + 5000) \div 10000

\* FargatePodConfig: what AWS stamped, or the tier of the requests.
PodConfig(w, pod) ==
    IF pod.provisioned \in fargateConfigs THEN pod.provisioned
    ELSE Quantize([cpu |-> Fleet[w].cpu, mem |-> Total(pod.mem)], Fleet[w].init)

\* distribute: from the largest request first, never below a floor.
distribute(mem, floors, delta) ==
    LET room(c) == Max({0, mem[c] - floors[c]})
        before(c) == {e \in DOMAIN mem : mem[e] > mem[c] \/ (mem[e] = mem[c] /\ e < c)}
        left(c) == Max({0, delta - MapThenSumSet(room, before(c))})
    IN [c \in DOMAIN mem |-> mem[c] - Min({room(c), left(c)})]

NoCandidate == [change |-> "", tier |-> NoTier, mem |-> Nothing]

\* Domain.tierMove: the policy's sizes, raised to the peaks.
tierMove(d, w, pod, policy) ==
    LET mem == [c \in Containers(w) |->
                  Max({effectivePeak(Stat(d, <<w, c>>)),
                       IF c \in DOMAIN policy THEN policy[c] ELSE pod.mem[c]})]
        tier == Quantize([cpu |-> Fleet[w].cpu, mem |-> Total(mem)], Fleet[w].init)
    IN IF tier \in {NoTier, PodConfig(w, pod)} THEN NoCandidate
       ELSE [change |-> "tier-move", tier |-> tier, mem |-> mem]

\* Domain.boundaryShave: every condition is a veto.
boundaryShave(d, w, pod, quarantined) ==
    LET floors == [c \in Containers(w) |-> requiredMemory(Stat(d, <<w, c>>))]
        required == Total(floors)
        now == Total(pod.mem)
        tier == Quantize([cpu |-> Max({Fleet[w].cpu, Fleet[w].init.cpu}), mem |-> required], Fleet[w].init)
        to == Min({now, tier.mem - FargateOverhead})
    IN IF /\ ~quarantined
          /\ Samples(d, w) >= MinShaveSamples /\ Window(d, w) >= MinShaveWindow
          /\ Confidence(d, w) >= MinShaveConfidence
          /\ \A c \in Containers(w) : LET s == Stat(d, <<w, c>>) IN s.n > 0 /\ ~s.oom /\ s.peak > 0
          /\ tier # NoTier /\ Cost(tier) < Cost(PodConfig(w, pod))
          /\ to < now /\ required <= to /\ Fleet[w].init.mem <= to
          /\ Total(distribute(pod.mem, floors, now - to)) = to
       THEN [change |-> "boundary-shave", tier |-> tier, mem |-> distribute(pod.mem, floors, now - to)]
       ELSE NoCandidate

\* at most one of the two: the cheaper, and the move when they cost the same.
Cheaper(shave, move) ==
    IF shave # NoCandidate /\ (move = NoCandidate \/ Cost(shave.tier) < Cost(move.tier))
    THEN shave ELSE move
Chosen(d, w, pod, policy, quarantined) ==
    Cheaper(boundaryShave(d, w, pod, quarantined), tierMove(d, w, pod, policy))

------------------------------------------------------------------------------
(* The regression watch: counters of a pod, against the pod they were seen on. *)

restartTolerance == 2

NewKills(base, pod) ==
    IF base.gen = pod.gen THEN Max({0, Cardinality(pod.killed) - Cardinality(base.killed)})
    ELSE Cardinality(pod.killed)
NewRestarts(base, pod) ==
    IF base.gen = pod.gen THEN Max({0, pod.restarts - base.restarts}) ELSE pod.restarts

\* RegressionDetector.Check: [watch, until, regressed].
Check(d) ==
    LET live == {w \in DOMAIN d.watch : hour - d.watch[w].at <= RegressionWindow}
        bad == {w \in live \cap DOMAIN d.last.pods :
                  \/ NewKills(d.watch[w].pod, d.last.pods[w]) > 0
                  \/ NewRestarts(d.watch[w].pod, d.last.pods[w]) > restartTolerance}
    IN [watch |-> Restrict(d.watch, live \ bad), regressed |-> bad,
        until |-> [w \in bad |-> hour + QuarantineFor]
                    @@ Restrict(d.until, {w \in DOMAIN d.until : hour <= d.until[w]})]

Quarantined(d, w) == w \in DOMAIN d.until /\ hour <= d.until[w]

\* the verdicts are parked: a regression is reported once.
Parked(d) ==
    LET c == Check(d)
        ours == c.regressed \cap DOMAIN d.applied
    IN [d EXCEPT !.watch = c.watch, !.until = c.until,
                 !.reverts = [w \in ours \cup DOMAIN @ |-> IF w \in ours THEN d.applied[w] ELSE d.reverts[w]],
                 !.applied = Restrict(@, DOMAIN @ \ ours)]

\* buildSpec: a size is compared as a whole, with the tier and the replicas.
Shape(w, pod) == [mem |-> pod.mem, tier |-> PodConfig(w, pod), replicas |-> pod.replicas]

\* Domain.revertRec's test that the sizes are already back.
Back(d, w) == Shape(w, d.last.pods[w]) = d.reverts[w].from

\* the workloads a report is about.
Groups(d) ==
    {w \in DOMAIN d.last.pods : /\ Fleet[w].kind \notin {"Pod", "Job", "CronJob"}
                                /\ Fleet[w].mode # "off"
                                /\ PodConfig(w, d.last.pods[w]) # NoTier}

\* Domain.recommendWorkload, when nothing is to be reverted.
Proposed(d, w, pod, chosen) ==
    LET gross == pod.replicas * (Cost(PodConfig(w, pod)) - Cost(chosen.tier))
        floor == IF chosen.change = "boundary-shave" THEN MinShave ELSE MinMove
    IN IF chosen = NoCandidate \/ gross = 0 \/ (gross > 0 /\ gross < floor) THEN {}
       ELSE {[target |-> w, seen |-> d.known, at |-> hour, change |-> chosen.change, from |-> Shape(w, pod), to |-> chosen.mem,
              tier |-> chosen.tier, gross |-> gross,
              suppressed |-> IF Quarantined(d, w) THEN "quarantined"
                             ELSE IF gross > 0 /\ w \in Stranded THEN "stranded"
                             ELSE IF Fleet[w].mode = "recommend" THEN "mode"
                             ELSE "",
              risk |-> IF Total(chosen.mem) < Total(pod.mem) THEN "medium" ELSE "low"]}
recommendWorkload(d, w, policy) ==
    Proposed(d, w, d.last.pods[w], Chosen(d, w, d.last.pods[w], policy, Quarantined(d, w)))

revertRec(d, w) ==
    LET pod == d.last.pods[w]
        from == d.reverts[w].from
    IN {[target |-> w, seen |-> d.known, at |-> hour, change |-> "revert", from |-> Shape(w, pod), to |-> from.mem, tier |-> from.tier,
         gross |-> pod.replicas * (Cost(PodConfig(w, pod)) - Cost(from.tier)),
         suppressed |-> IF Fleet[w].mode = "recommend" THEN "mode" ELSE "", risk |-> "low"]}

\* the changes of this process that hurt, as the pods show it.
Hurt(d) ==
    {w \in DOMAIN d.watch \cap DOMAIN d.last.pods :
       /\ hour - d.watch[w].at <= RegressionWindow /\ d.last.pods[w].gen > d.watch[w].pod.gen
       /\ d.last.pods[w].killed # {} \/ d.last.pods[w].restarts > restartTolerance}

\* what is owed, those included, until the sizes are back.
Owed(before) ==
    LET all == [w \in Hurt(targets) \cup DOMAIN before |->
                  IF w \in Hurt(targets) THEN targets.applied[w].from.mem ELSE before[w]]
    IN Restrict(all, {w \in DOMAIN all : targets.last.pods[w].mem # all[w]})

\* Domain.Recommend.  owed is for the properties.
Recommend(policy) ==
    /\ targets.last # NoSnap
    /\ \E d \in {Parked(targets)} : \E back \in {{w \in Groups(d) \cap DOMAIN d.reverts : Back(d, w)}} :
          /\ targets' = [d EXCEPT !.reverts = Restrict(@, DOMAIN @ \ back)]
          /\ report' = UNION {IF w \in back THEN {}
                              ELSE IF w \in DOMAIN d.reverts THEN revertRec(d, w)
                              ELSE recommendWorkload(d, w, policy[w]) : w \in Groups(d)}
          /\ was' = [was EXCEPT !.about = Groups(d), !.owed = Owed(@)]
    /\ <<targets', report', was'>> # <<targets, report, was>>
    /\ UNCHANGED <<hour, db, run, snap, checkpoint>>

------------------------------------------------------------------------------
(* Domain.Health and PlanSteps, for a guard that allows them. *)

Ready == targets.last # NoSnap /\ ~targets.stale /\ hour - targets.at <= StaleAfter

PlanSteps(steps) ==
    /\ Ready /\ run = {}
    /\ LET applicable == {r \in report : r.suppressed = ""}
       IN steps \subseteq applicable /\ Cardinality(steps) = Min({MaxSteps, Cardinality(applicable)})
    /\ steps # {} /\ run' = steps
    /\ report' = {} /\ was' = [was EXCEPT !.about = {}]   \* a report is planned from once
    /\ UNCHANGED <<hour, db, snap, targets, checkpoint>>

With(f, w, x) == [v \in DOMAIN f \cup {w} |-> IF v = w THEN x ELSE f[v]]

\* Domain.RecordApplied: the watch is armed on the view, the prior sizes kept.
RecordApplied(d, step) ==
    IF d.last = NoSnap THEN d
    ELSE [d EXCEPT !.watch = With(@, step.target, [at |-> hour, pod |-> d.last.pods[step.target]]),
                   !.applied = With(@, step.target, [from |-> step.from]),
                   !.reverts = Restrict(@, DOMAIN @ \ {step.target})]

\* the controller recreates the pods of a workload and tells the domain.
Execute(step) ==
    /\ step \in run /\ db[step.target].gen < MaxGen
    /\ run' = run \ {step}
    /\ db' = [db EXCEPT ![step.target] =
                 [@ EXCEPT !.mem = step.to, !.gen = db[step.target].gen + 1, !.killed = {}, !.restarts = 0,
                           !.provisioned = Quantize([cpu |-> Fleet[step.target].cpu, mem |-> Total(step.to)],
                                                    Fleet[step.target].init)]]
    /\ targets' = RecordApplied(targets, step)
    /\ was' = [was EXCEPT !.owed = Restrict(@, DOMAIN @ \ {step.target})]
    /\ UNCHANGED <<hour, snap, checkpoint, report>>

\* what pkg/recommend may say: nothing, or a size for every container.
Policies == [DOMAIN Fleet -> {Nothing} \cup UNION {[Containers(w) -> Policy] : w \in DOMAIN Fleet}]

Next ==
    \/ NextHour \/ LearnNothing \/ Checkpoint \/ Restore
    \/ \E w \in DOMAIN db :
         \/ Kill(w, {}) \/ \E c \in Containers(w) : Kill(w, {c})
         \/ \E replicas \in {1, 2}, mem \in {db[w].mem, Fleet[w].mem} : Edit(w, replicas, mem)
    \/ \E usage \in Usage, stale \in BOOLEAN : Collect(usage, stale)
    \/ \E s \in snap : Learn(s)
    \/ \E policy \in Policies : Recommend(policy)
    \/ \E steps \in SUBSET report : PlanSteps(steps)
    \/ \E step \in run : Execute(step)

Spec == Init /\ [][Next]_vars

------------------------------------------------------------------------------
(* A size that is proposed holds what was seen: no container is given less   *)
(* than its largest sample of the last Hold hours, and a shave leaves the    *)
(* noise band above it, never touches a workload of which a container was    *)
(* ever killed, is cheaper, keeps every container's floor and the CPU, and   *)
(* rests on the samples and the span it asks for, whatever the order the     *)
(* snapshots came in and whatever was restored (recommend.go tierMove,       *)
(* boundaryShave; fargate.go stat).                                          *)
ProposalHoldsPeak ==
    \A r \in report : r.change # "revert" =>
        LET seen(c) == {e \in r.seen : e.key = <<r.target, c>> /\ ~e.killed}
            recent(c) == {e.mem : e \in {x \in seen(c) : r.at - x.at <= Hold}}
        IN /\ \A c \in Containers(r.target) : \A m \in recent(c) : m <= r.to[c]
           /\ r.change = "boundary-shave" =>
                \A c \in Containers(r.target) :
                   /\ \A e \in r.seen : e.key = <<r.target, c>> => ~e.killed
                   /\ \A m \in recent(c) : m * (100 + NoiseBand) <= 100 * r.to[c]
                   /\ Max({e.at : e \in seen(c)}) - Min({e.at : e \in seen(c)}) >= MinShaveWindow
                   /\ r.to[c] <= r.from.mem[c] /\ r.gross > 0

(* A change that hurt is undone: once the pods it made were seen killed, or  *)
(* crashing, while it was watched, every report offers exactly the sizes     *)
(* from before it, until some step is executed on the workload, the sizes    *)
(* are back or a checkpoint is restored that does not know of it             *)
(* (recommend.go Recommend, revertRec; fargate.go reverts).                  *)
RevertIsOffered ==
    \A w \in DOMAIN was.owed \cap was.about :
        \E r \in report : r.target = w /\ r.change = "revert" /\ r.to = was.owed[w]
==============================================================================
