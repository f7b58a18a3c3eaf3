------------------------------ MODULE MCAdvice ------------------------------
(***************************************************************************)
(* What Kilter remembers, advises and answers, checked in one run: which   *)
(* is the machine a behaviour is about.  The machines share no state in    *)
(* the code; here they keep theirs in the variables named after those of   *)
(* the cloud domains, each machine's INSTANCE says where, and a variable   *)
(* a machine does not use is "-".  The definitions in between are the      *)
(* small accounts, fleets and loads they are checked on.                   *)
(***************************************************************************)
EXTENDS Advice, TLC

-----------------------------------------------------------------------------
\* Four facts of one subject and its cluster, and calls to every tool.
Event(t) == [kind |-> "event", subject |-> "a", at |-> t]
Known == {Event(0), Event(2), Event(3), [kind |-> "point", subject |-> "", at |-> 1]}
Asks(tool, fits, index, key, from, to, limit) ==
  [tool |-> tool, fits |-> fits, index |-> index, key |-> key, from |-> from, to |-> to, limit |-> limit]
ToolCalls == {Asks("query", TRUE, 0, "", 0, 3, 9), Asks("timeline", TRUE, -1, "", 0, 0, 2),
              Asks("explain", TRUE, 0, "a", 0, 0, 1), Asks("list", TRUE, -1, "", 0, 0, 1),
              Asks("write", TRUE, -1, "", 0, 0, 1)}

Listing == <<"a">>
Charged == {[tokens |-> 3, usd |-> 1]}

\* Three lines of usage that change under two zonal and regional reservations,
\* a reserved database, and both kinds of savings plan.
Line(kind, family, size, copies, zone, count) ==
  [kind |-> kind, family |-> family, size |-> size, copies |-> copies, zone |-> zone, count |-> count]
VM(family, size, zone) == Line("ec2", family, size, 1, zone, 1)
Unused == [kind |-> "none", family |-> "none", size |-> 1, copies |-> 1, zone |-> "", count |-> 0]
Usages == <<{Unused, VM("m", 1, "a"), VM("m", 2, "a"), VM("m", 2, "b")},
            {VM("m", 2, "b"), VM("c", 1, "a"), VM("c", 2, "a")},
            {Line("fargate", "f", 1, 1, "", 2), Line("rds", "r", 1, 1, "", 1),
             Line("rds", "r", 1, 2, "", 1)}>>
Reservation(id, kind, family, size, zone, units, rate, expires) ==
  [id |-> id, kind |-> kind, family |-> family, size |-> size, copies |-> 1, zone |-> zone,
   units |-> units, rate |-> rate, expires |-> expires]
SavingsPlan(id, family, rate, expires) ==
  [id |-> id, family |-> family, rate |-> rate, expires |-> expires]
ListPrice == [f \in {"m", "c", "f", "r", "none"} |->
  CASE f = "m" -> 6 [] f = "c" -> 4 [] f = "f" -> 3 [] f = "r" -> 5 [] OTHER -> 0]

\* An account of EC2 instances: with and without an owner, memory metrics,
\* credits, and a peak that only the last page of a metric shows.
Type(milli, mem, usd, arch, burst, t) ==
  [milli |-> milli, mem |-> mem, usd |-> usd, arch |-> arch, burst |-> burst, t |-> t]
Types == [x \in {"m.l", "m.s", "c.l", "t.l", "t.s", "g.l"} |->
  CASE x = "m.l" -> Type(40, 16, 20, "amd64", FALSE, FALSE)
    [] x = "m.s" -> Type(20, 8, 10, "amd64", FALSE, FALSE)
    [] x = "c.l" -> Type(40, 8, 15, "amd64", FALSE, FALSE)
    [] x = "t.l" -> Type(40, 16, 18, "amd64", TRUE, TRUE)
    [] x = "t.s" -> Type(20, 8, 9, "amd64", TRUE, TRUE)
    [] x = "g.l" -> Type(40, 16, 14, "arm64", FALSE, FALSE)]
Low == <<10, 10, 10, 10>>
Late == <<10, 10, 10, 60>>
Machine(owner, type, detailed, credit, cpu, mem, balance, surplus) ==
  [owner |-> owner, type |-> type, arch |-> "amd64", state |-> "running", detailed |-> detailed,
   mode |-> credit, store |-> FALSE,
   series |-> [x \in {"cpu", "mem", "balance", "surplus"} |->
     CASE x = "cpu" -> cpu [] x = "mem" -> mem [] x = "balance" -> balance [] OTHER -> surplus]]
Accounts ==
  {<<Machine("none", "m.l", TRUE, "", c, m, <<>>, <<>>),
     Machine("asg", "m.l", FALSE, "", Low, <<>>, <<>>, <<>>)>> :
      c \in {Low, Late}, m \in {<<>>, Low, <<20, 20, 20, 90>>}}
  \cup {<<Machine("none", "t.l", TRUE, credit, c, Low, b, s)>> :
      credit \in {"standard", "unlimited"}, c \in {Low},
      b \in {<<>>, <<9, 9, 9, 0>>, <<9, 9, 9, 9>>}, s \in {<<0, 0, 0, 0>>, <<0, 0, 0, 1>>}}
Queue == [name |-> "q", managed |-> TRUE, minv |-> 2, types |-> {"m.s"}, bestFit |-> TRUE, bid |-> 0]

\* Two databases: one that autoscales towards the gp2 threshold, one on gp3.
Instance(engine, type, gib, max, iops, tput) ==
  [class |-> "m2", multi |-> FALSE, engine |-> engine, stype |-> type, gib |-> gib, max |-> max,
   iops |-> iops, tput |-> tput, status |-> "available", mods |-> <<0, 0, 0>>, mode |-> "on",
   cluster |-> FALSE, replica |-> FALSE]
Bases == [a |-> Instance("postgres", "gp2", 380, 440, 0, 0),
          b |-> Instance("mysql", "gp3", 500, 500, 16000, 700)]
Hours4(x, y, z) == <<x, y, z, z>>
BaseLoad == [m \in {"ReadIOPS", "WriteIOPS", "ReadThroughput", "WriteThroughput", "FreeableMemory",
                    "FreeStorageSpace", "DatabaseConnections", "CPUUtilization"} |->
  CASE m = "ReadIOPS" -> Hours4(1000, 2000, 500)
    [] m = "WriteIOPS" -> Hours4(2000, 500, 500)
    [] m = "ReadThroughput" -> Hours4(30, 60, 60)
    [] m = "WriteThroughput" -> Hours4(40, 50, 20)
    [] m = "DatabaseConnections" -> Hours4(0, 0, 0)
    [] m = "CPUUtilization" -> Hours4(1, 1, 50)
    [] m = "FreeStorageSpace" -> Hours4(300, 300, 200)
    [] OTHER -> Hours4(1, 1, 1)]

\* Two volumes: a busy gp2 one, and one already converted.
Volume(type, gib, mode, mod) ==
  [type |-> type, gib |-> gib, state |-> "in-use", multi |-> FALSE, moving |-> FALSE,
   mode |-> mode, mod |-> mod, modAt |-> -1, to |-> "gp2"]
Disks == [a |-> Volume("gp2", 4000, "apply", ""), b |-> Volume("gp3", 400, "recommend", "completed")]
DiskLoad == [a |-> [ReadOps |-> -1 :> 2000 @@ 0 :> 4000, WriteOps |-> [h \in -1..1 |-> 2000],
                    ReadBytes |-> [h \in -1..1 |-> 200], WriteBytes |-> [h \in -1..1 |-> 200]],
             b |-> [c \in {"ReadOps", "WriteOps", "ReadBytes", "WriteBytes"} |-> <<>>]]

\* Two ECS services of two clusters, one deployed shortly before.
ECSService(cluster, mode, rev, prev, since) ==
  [cluster |-> cluster, mode |-> mode, fargate |-> TRUE, tasks |-> 2, platform |-> 140,
   rev |-> rev, prev |-> prev, since |-> since]
Web == [web |-> ECSService("A", "apply", "big", "small", -2),
        job |-> ECSService("B", "recommend", "big", "big", -9)]
Definition(cpu, mem) ==
  [cpu |-> cpu, mem |-> mem, floor |-> [cpu |-> 0, mem |-> 512], network |-> "awsvpc",
   arch |-> "x86", os |-> "LINUX", spot |-> FALSE]
Definitions == [big |-> Definition(2000, 4096), small |-> Definition(500, 2048)]
WebLoad == [web |-> [h \in -4..3 |-> IF h = 0 THEN [cpu |-> 700, mem |-> 2500]
                                     ELSE IF h < -2 THEN [cpu |-> 100, mem |-> 900]
                                     ELSE [cpu |-> 300, mem |-> 900]],
            job |-> [h \in -4..3 |-> [cpu |-> 100, mem |-> 300]]]

\* One function that was run at two sizes, and what its invocations report.
Report(used, duration, init) ==
  [used |-> used, duration |-> duration, billed |-> duration, init |-> init]
Invocations ==
  512 :> {Report(150, 100, 0), Report(220, 100, 0), Report(150, 300, 50)}
  @@ 256 :> {Report(150, 150, 0), Report(300, 150, 0), Report(256, 150, 0), Report(150, 250, 0)}

\* One workload of two containers on Fargate.
Workload == [kind |-> "Deployment", mode |-> "apply", cpu |-> 250, mem |-> <<400, 500>>,
             init |-> [cpu |-> 0, mem |-> 0], provisioned |-> [cpu |-> 0, mem |-> 0]]

\* A cluster of three groups of nodes, a Fargate line and two namespaces.
Key(kind, class) == [kind |-> kind, class |-> class]
NodeGroups == {Key("od", "m"), Key("od", "c"), Key("spot", "m")}
Pods == {Key("fargate", "small")}
NodeFleets == {[g \in NodeGroups |-> CASE g = Key("od", "m") -> 2 [] g = Key("spot", "m") -> 1
                                       [] OTHER -> 0]}
Small == [cpu |-> 1, mem |-> 1]
Big == [cpu |-> 6, mem |-> 5]
Tenants == {<<>>, [a |-> Small], [a |-> Big], [b |-> Big], [a |-> Big, b |-> Small]}
PriceList == Key("od", "m") :> 101 @@ Key("od", "c") :> 86 @@ Key("spot", "m") :> 32
             @@ Key("fargate", "small") :> 15

\* Pods to compare: pods that differ in name only or have no identity, one
\* not fully observed, one bound to a host, one that is over, one no node or
\* no tier holds, one with a negative request, and two that stay apart.
Shape(name, cpu, arch, usd, burst) ==
  [name |-> name, cpu |-> cpu, mem |-> 8192, arch |-> arch, usd |-> usd, burstable |-> burst]
Shapes == <<Shape(1, 2000, "amd64", 10, TRUE), Shape(2, 2000, "arm64", 200, FALSE),
            Shape(3, 2000, "amd64", 240, FALSE), Shape(4, 4000, "amd64", 360, FALSE)>>
Free == [ebs |-> "absent", host |-> "absent"]
Task(uid, name, cpu, mem, arch, apart, facts) ==
  [uid |-> uid, name |-> name, cpu |-> cpu, mem |-> mem, arch |-> arch, apart |-> apart, work |-> 1,
   phase |-> "running", facts |-> facts, provisioned |-> [cpu |-> 0, mem |-> 0]]
Tiny(uid, name) == Task(uid, name, 250, 512, "amd64", "", Free)
Tasks == {Tiny(1, 1), [Tiny(1, 2) EXCEPT !.facts.ebs = "unknown"], Tiny(0, 0),
          Task(3, 3, 1700, 3500, "", "zone", Free), Task(4, 4, 1700, 3500, "", "zone", Free),
          [Tiny(5, 5) EXCEPT !.phase = "terminal", !.facts.ebs = "present"],
          [Tiny(6, 6) EXCEPT !.cpu = 20000],
          [Tiny(7, 7) EXCEPT !.cpu = -100, !.provisioned = [cpu |-> 500, mem |-> 2048]],
          Task(8, 8, 900, 7000, "", "", [Free EXCEPT !.host = "present"]),
          Task(9, 9, 5000, 9000, "", "", Free)}
DaemonPods == LET d == [Tiny(99, 99) EXCEPT !.work = 2] IN <<d, [d EXCEPT !.uid = 98]>>
Listings == {s \in [1..3 -> Tasks] : \A i, j \in 1..3 :
               i < j => s[i].uid + 100 * s[i].name < s[j].uid + 100 * s[j].name}
Questions == {[pods |-> s, daemons |-> d] : s \in Listings \cup {<<Tiny(1, 1)>>, <<>>},
                                            d \in {<<>>, DaemonPods}}

\* Four snapshots retained, three of them decided at, or two, or one; policies
\* that shrink a container, shrink it less or leave it alone.
Sampled(at, cpu, mem) == [key |-> "a", at |-> at, cpu |-> cpu, mem |-> mem]
Amount(cpu, mem) == [cpu |-> cpu, mem |-> mem]
Requests(kind, amount) == [key |-> "a", kind |-> kind, phase |-> "Running", req |-> amount]
Taken(at, cpu, mem) ==
  [at |-> at, pods |-> <<Requests("Deployment", Amount(8, 8)), Requests("Job", Amount(1, 1))>>,
   usage |-> {Sampled(at, cpu, mem), Sampled(at, -1, 9)}]
\* The last one holds a sample newer than itself.
Ends(at) ==
  [Taken(at, 6, 5) EXCEPT !.usage = @ \cup {Sampled(at + 1, 6, 9)}]
Retentions == {<<Taken(1, 2, 3)>>, 0 :> Taken(0, 2, 2) @@ 1 :> Ends(1),
               0 :> Taken(0, 2, 2) @@ 1 :> Taken(1, 2, 2) @@ 2 :> Ends(2)
                 @@ 3 :> Taken(3, 2, 2)}
Retaken == Taken(1, 2, 4)
Reports == {[key |-> "a", kind |-> kind, at |-> 1, count |-> 1] : kind \in {"oom", "regime"}}
         \cup {[key |-> "a", kind |-> "deploy", at |-> 0, count |-> 0]}
Offered(target, class, confidence, step) ==
  [target |-> target, class |-> class, mode |-> "apply", confidence |-> confidence, step |-> step]
Offering == {Offered(<<>>, "", 0, FALSE), Offered(<<Amount(2, 3)>>, "bursty", 9, TRUE),
             Offered(<<Amount(6, 5)>>, "", 9, TRUE)}

-----------------------------------------------------------------------------
\* The parameters of the machines of Advice.
BasesCase ==
  [Fleet |-> Bases, Load |-> [i \in {"a", "b"} |-> BaseLoad],
   Offers |-> [i \in {"a", "b"} |-> [max |-> 14000, maxTput |-> 600]],
   GiBMonth |-> [gp2 |-> 115, gp3 |-> 80], IOPSMonth |-> 20, TputMonth |-> 80, Claimable |-> TRUE,
   Classes |-> [m1 |-> [type |-> "m", units |-> 1, usd |-> 10], m2 |-> [type |-> "m", units |-> 2, usd |-> 20]],
   Reserved |-> {"m"}, Stranded |-> {"m2"}, Headroom |-> 20, Percent |-> 99, MinConfidence |-> 600,
   MinWindow |-> 3, Cooldown |-> 1, MinObservations |-> 3, MinSpan |-> 2, MinSteps |-> 2,
   MaxObservations |-> 3, IdleCPU |-> 5, FreeThreshold |-> 50, Misses |-> {{}, {"WriteIOPS"}},
   MaxDay |-> 2, MaxChanges |-> 1, Steps |-> {20}, Sizes |-> [a |-> {360}, b |-> {}]]
DisksCase ==
  [Fleet |-> Disks, Load |-> DiskLoad, Rate |-> [gp2 |-> 100, gp3 |-> 80, iops |-> 5, tput |-> 40],
   Window |-> 3, Percent |-> 75, Headroom |-> 30, MinWindow |-> 2, MinCoverage |-> 80,
   MinSamples |-> 2, Cooldown |-> 1, StaleAfter |-> 1, MinSavings |-> 1000, RetainWindow |-> 2,
   MaxPoints |-> 3, MaxSteps |-> 1, Misses |-> {{}, {<<"a", "WriteOps">>}}, MaxHour |-> 1,
   MaxRuns |-> 2]
WebCase ==
  [Fleet |-> Web, Revisions |-> Definitions, Load |-> WebLoad,
   Rate |-> [x86 |-> [cpu |-> 100, mem |-> 22], arm |-> [cpu |-> 80, mem |-> 18]],
   SpotDiscount |-> 50, Window |-> 4, Percent |-> 75, CPUHeadroom |-> 130, MemHeadroom |-> 125,
   MinWindow |-> 1, MinSamples |-> 1, MinConfidence |-> 30, MaxSampleAge |-> 4, StaleAfter |-> 1,
   MinMove |-> 10, MaxSteps |-> 1, Stranded |-> {"job"}, Misses |-> {{}, {<<"web", "mem">>}},
   MaxHour |-> 3, MaxRuns |-> 2, MaxMoves |-> 1]
PodsCase ==
  [Fleet |-> <<Workload>>, Usage |-> {<<1, 1>> :> 300 @@ <<1, 2>> :> 100}, Policy |-> {200},
   Rate |-> [cpu |-> 10, mem |-> 2], MinShaveSamples |-> 2, MinShaveWindow |-> 1,
   MinShaveConfidence |-> 25, MaxSampleAge |-> 4, NoiseBand |-> 10, NoiseSigmas |-> 1, MinShave |-> 1,
   MinMove |-> 1, StaleAfter |-> 1, RegressionWindow |-> 2, QuarantineFor |-> 1, Hold |-> 1,
   Decay |-> 10, MaxSteps |-> 1, Stranded |-> {}, MaxHour |-> 1, MaxRuns |-> 2, MaxEvents |-> 1,
   MaxGen |-> 1]
PolicyCase ==
  [Keys |-> {"a"}, Histories |-> Retentions, Resaves |-> {Retaken}, Notes |-> Reports, Cadence |-> 1,
   MaxRows |-> 6, From |-> 0, To |-> 4, Horizon |-> 2, Interval |-> 1, Starvation |-> 100,
   FlipWindow |-> 3, Offers |-> Offering, MinConfidence |-> 5, MinSamples |-> 2, MinWindow |-> 0,
   BaseSoak |-> 1, CPURate |-> 1, MemRate |-> 1, IncidentUSD |-> 20, MinMargin |-> 1]

Com == INSTANCE Commitments WITH usage <- db, known <- env, offer <- report,
  Lines <- 1..3, Shapes <- Usages,
  RIs <- {Reservation(1, "ec2", "m", 2, "a", 2, 3, 1), Reservation(2, "ec2", "m", 1, "", 1, 3, 2)},
  ReservedDBs <- {Reservation(1, "rds", "r", 1, "", 2, 2, 2)},
  EC2Plans <- {SavingsPlan(1, "m", 1, 2)},
  ComputePlans <- {SavingsPlan(1, "", 2, 1), SavingsPlan(2, "", 2, 3)}, Rigid <- {},
  Od <- ListPrice, EC2Rate <- [f \in {"m"} |-> 1], ComputeRate <- [f \in {"m", "c", "f"} |-> 2],
  Unknown <- {<<"c", 1>>, <<"m", 1>>}, MaxHour <- 1
Mac == INSTANCE Machines WITH fleet <- db, phase <- run, listed <- snap, pages <- hour,
  answer <- targets, bad <- was, stale <- checkpoint, batch <- env,
  Fleets <- Accounts, Catalog <- Types, Hours <- 4, Chunk <- 3, MinWindow <- 2,
  CPUHeadroom <- 130, MemHeadroom <- 125, CoarseHeadroom <- 125, MinCoverage <- 500,
  MinConfidence <- 650, Stranded <- {}, MaxPages <- 3, Environments <- {Queue}, MaxBad <- 1
Lam == INSTANCE Lambdas WITH
  Fleet <- <<[mem |-> 256, mode |-> "apply", arch |-> "x86", provisioned |-> FALSE]>>,
  Lines <- <<Invocations>>, Sizes <- {256, 512}, Rate <- [request |-> 10, x86 |-> 1, arm |-> 1],
  Window <- 4, MemHeadroom <- 125, MemoryStep <- 64, CeilingRatio <- 98, MinWindow <- 1,
  MinInvocations <- 2, MinSamplesPerPoint <- 1, MaxColdShare <- 40, MinConfidence <- 40,
  Stranded <- {}, MaxEvents <- 3, MaxHour <- 3, MaxRuns <- 1, MaxRetunes <- 1
Why == INSTANCE WhyCost WITH fleet <- db, annotated <- targets, catalog <- env, billed <- snap,
  demand <- run, timeline <- report, history <- checkpoint, ledger <- was,
  Groups <- NodeGroups, Lines <- Pods, Namespaces <- {"a", "b"}, Fleets <- NodeFleets,
  Catalog <- PriceList, NewPrice <- 50, Demands <- {Small, Big},
  CancelGuard <- 4, MaxChargeQuantization <- 2, MaxNodes <- 3, MaxUnits <- 1,
  MaxEvents <- 2, MaxHour <- 2
Cro == INSTANCE Crossover WITH pods <- db, daemons <- env, phase <- run, left <- snap,
  planned <- targets, streak <- checkpoint, earlier <- was,
  Inputs <- Questions, Gates <- {"ebs", "host"}, FargateRate <- [cpu |-> 25, mem |-> 5],
  Catalog <- Shapes, Reserved <- 8, MaxPodsPerNode <- 3, MaxNodes <- 2, NodeKeys <- {"zone"},
  CPUValue <- 4, MemValue <- 1

Init ==
  /\ which \in Systems
  /\ \/ EvidenceInit \/ AdviceInit
     \/ /\ which = "commit" /\ Com!Init /\ Unset(run) /\ Unset(snap) /\ Unset(targets)
        /\ Unset(checkpoint) /\ Unset(was) /\ Unset(events)
     \/ which = "ec2" /\ Mac!Init /\ Unset(events)
     \/ which = "lambda" /\ Lam!Init /\ Unset(env) /\ Unset(events)
     \/ which = "explain" /\ Why!Init
     \/ which = "crossover" /\ Cro!Init /\ Unset(hour) /\ Unset(events)

OnCommit(A) == On("commit", <<run, snap, targets, checkpoint, was, events>>, A)
NextCommit ==
  \/ \E i \in Only("commit", 1..3) : \E to \in Usages[i] : OnCommit(Com!Assess(i, to))
  \/ OnCommit(Com!Take) \/ OnCommit(Com!Pass)
  \/ \E k \in Only("commit", {<<"c", 1>>, <<"m", 1>>}) : OnCommit(Com!Sync(k))

OnEC2(A) == On("ec2", events, A)
NextEC2 ==
  \/ \E ids \in Only("ec2", SUBSET (1..2)) : OnEC2(ids \subseteq DOMAIN db /\ Mac!ListPage(ids))
  \/ OnEC2(Mac!Listed)
  \/ \E Q \in Only("ec2", SUBSET DOMAIN targets) : \E B \in SUBSET Q : OnEC2(Mac!MetricPage(Q, B))
  \/ OnEC2(Mac!MetricsEnd)
  \/ \E E \in Only("ec2", SUBSET {Queue}), p \in BOOLEAN : OnEC2(Mac!EnrichBatch(E, p))
  \/ OnEC2(Mac!CallFails) \/ OnEC2(Mac!Assess)

NextRDS ==
  \/ OnRDS(Rds!NextDay) \/ OnRDS(Rds!List) \/ OnRDS(Rds!Observe) \/ OnRDS(Rds!ObserveAgain)
  \/ OnRDS(Rds!Checkpoint) \/ OnRDS(Rds!Restore) \/ OnRDS(Rds!Assess)
  \/ \E i \in Only("rds", {"a", "b"}) : OnRDS(Rds!Grow(i, 20))
  \/ OnRDS(Rds!Replace("a", 360))
  \/ \E missing \in Only("rds", {{}, {"WriteIOPS"}}) : OnRDS(Rds!ReadMetrics(missing))
  \/ \E o, e \in Only("rds", BOOLEAN) : OnRDS(Rds!ReadEnvelopes(o, e))

NextEBS ==
  \/ OnEBS(Ebs!NextHour) \/ OnEBS(Ebs!Learn) \/ OnEBS(Ebs!Checkpoint) \/ OnEBS(Ebs!Restore)
  \/ \E v \in Only("ebs", {"a"}) : OnEBS(Ebs!Advance(v)) \/ OnEBS(Ebs!Outside(v))
  \/ \E listed \in Only("ebs", {{"b"}, {"a", "b"}}) : OnEBS(Ebs!DescribeVolumes(listed))
  \/ \E answered \in Only("ebs", BOOLEAN) : OnEBS(Ebs!DescribeModifications(answered))
  \/ \E missing \in Only("ebs", {{}, {<<"a", "WriteOps">>}}) : OnEBS(Ebs!CollectMetrics(missing))
  \/ \E steps \in Only("ebs", SUBSET {a.step : a \in Ebs!Recommend}) : OnEBS(Ebs!PlanSteps(steps))
  \/ \E step \in Only("ebs", report) : OnEBS(Ebs!Execute(step))

NextECS ==
  \/ OnECS(Ecs!NextHour) \/ OnECS(Ecs!Abort) \/ OnECS(Ecs!Learn)
  \/ OnECS(Ecs!Checkpoint) \/ OnECS(Ecs!Restore)
  \/ \E v \in Only("ecs", {"web"}) :
       \/ \E rev \in {"big", "small"} : OnECS(Ecs!Deploy(v, rev))
       \/ \E end \in {"COMPLETED", "FAILED"} : OnECS(Ecs!RollOut(v, end))
  \/ \E c \in Only("ecs", {"A", "B"}) : \E found \in SUBSET {"web", "job"} : OnECS(Ecs!DescribeServices(c, found))
  \/ \E missing \in Only("ecs", {{}, {<<"web", "mem">>}}) : OnECS(Ecs!FetchMetrics(missing))
  \/ \E steps \in Only("ecs", SUBSET Ecs!Recommend) : OnECS(Ecs!PlanSteps(steps))

OnLambda(A) == On("lambda", <<env, events>>, A)
NextLambda ==
  \/ OnLambda(Lam!Observe) \/ OnLambda(Lam!Checkpoint) \/ OnLambda(Lam!Restore) \/ OnLambda(Lam!Report)
  \/ \E line \in Only("lambda", Invocations[db[1].mem]) : OnLambda(Lam!Invoke(1, line))
  \/ \E mem \in Only("lambda", {256, 512}) : OnLambda(Lam!Retune(1, mem))
  \/ \E n \in Only("lambda", 0..3) : OnLambda(Lam!ReadReports(1, {l \in db[1].log : l.at >= snap.at - 4 /\
       Cardinality({k \in db[1].log : k.at >= snap.at - 4 /\ k.at <= l.at}) <= n}))
  \/ \E some \in Only("lambda", SUBSET {1}) :
       OnLambda(Lam!ListFunctions(some)) \/ OnLambda(Lam!ReadMetrics(some)) \/ OnLambda(Lam!Learn(some))

NextFargate ==
  \/ OnFargate(Far!NextHour) \/ OnFargate(Far!LearnNothing)
  \/ OnFargate(Far!Checkpoint) \/ OnFargate(Far!Restore)
  \/ OnFargate(Far!Kill(1, {1}))
  \/ OnFargate(Far!Edit(1, 2, Workload.mem))
  \/ OnFargate(Far!Collect(<<1, 1>> :> 300 @@ <<1, 2>> :> 100, FALSE))
  \/ \E s \in Only("fargate", snap) : OnFargate(Far!Learn(s))
  \/ \E policy \in Only("fargate", Far!Policies) : OnFargate(Far!Recommend(policy))
  \/ \E steps \in Only("fargate", SUBSET report) : OnFargate(Far!PlanSteps(steps))
  \/ \E step \in Only("fargate", run) : OnFargate(Far!Execute(step))

OnExplain(A) == On("explain", <<>>, A)
NextExplain ==
  \/ \E g \in Only("explain", NodeGroups) : OnExplain(Why!Joins(g)) \/ OnExplain(Why!Leaves(g)) \/ OnExplain(Why!Annotate(g))
  \/ \E g \in Only("explain", NodeGroups), done \in {"all", "some", "dry-run"} : OnExplain(Why!Kilter(g, done))
  \/ \E k \in Only("explain", NodeGroups \cup Pods) : OnExplain(Why!LoadCatalog(k))
  \/ \E l \in Only("explain", Pods), u \in 0..1 : OnExplain(Why!Bill(l, u))
  \/ \E spaces \in Only("explain", Tenants) : OnExplain(Why!Workloads(spaces))
  \/ \E kept, stated \in Only("explain", BOOLEAN) : OnExplain(Why!Observe(kept, stated))

OnCrossover(A) == On("crossover", <<hour, events>>, A)
NextCrossover ==
  \/ OnCrossover(Cro!Analyze) \/ OnCrossover(Cro!Pack) \/ OnCrossover(Cro!Decide)
  \/ \E order \in Only("crossover", Permutations(1..3)) : OnCrossover(Cro!Shuffle(order))

\* Where three decisions are taken, every plan holds and nothing is ingested.
ThreeDecisions == which = "backtest" /\ 2 \in DOMAIN db
NextBacktest ==
  \/ OnBacktest(Bac!Ask) \/ OnBacktest(Bac!Read) \/ OnBacktest(Bac!Observe) \/ OnBacktest(Bac!Finish)
  \/ OnBacktest(~ThreeDecisions /\ Bac!SaveSnapshotAt(Retaken))
  \/ \E note \in Only("backtest", Reports) :
       OnBacktest(~ThreeDecisions /\ events = {} /\ Bac!Report(note))
  \/ \E offer \in Only("backtest", Offering), failed \in BOOLEAN :
       OnBacktest((ThreeDecisions => ~failed /\ offer.target # <<>>)
                  /\ Bac!DecideAt([a |-> offer], failed))

Next ==
  \/ NextLog \/ NextSeries \/ NextReason \/ NextCommit \/ NextEC2
  \/ NextRDS \/ NextEBS \/ NextECS \/ NextLambda \/ NextFargate \/ NextExplain
  \/ NextCrossover \/ NextBacktest

Spec == Init /\ [][Next]_vars /\ Fairness

-----------------------------------------------------------------------------
\* Each property below is that of its machines' modules; BooksBalance,
\* AnswerIsGrounded, EvictsOldest and InvestigationEnds are those of Evidence,
\* AdviceIsCurrent that of Advice.

\* Money adds up: the invoice, the saving that is claimed of it, the terms a
\* change of cost is explained by, and the score of a policy.
MoneyAddsUp ==
  /\ which = "commit" => Com!BillBalances /\ Com!HonestSavings
  /\ which = "explain" => Why!ResidualIsRounding /\ Why!CauseIsNamed
  /\ which = "crossover" => Cro!ComparisonIsFair /\ Cro!ShuffleInvariant
  /\ which = "backtest" => Bac!HonestScore /\ Bac!PassedIsCheaper

\* What is proposed carries the load that was really there.
AdviceIsSupported ==
  /\ which = "ec2" => Mac!MachineIsSupported
  /\ which = "rds" => Rds!VolumeIsSupported
  /\ which = "ebs" => Ebs!ConversionCarriesLoad
  /\ which = "ecs" => Ecs!TaskCarriesLoad
  /\ which = "lambda" => Lam!SavingIsMeasured
  /\ which = "fargate" => Far!ProposalHoldsPeak
  /\ which = "crossover" => Cro!NodesHoldPods
=============================================================================
