-------------------------------- MODULE Advice --------------------------------
(***************************************************************************)
(* The machines whose advice may be out of date when it is acted on, next  *)
(* to those of Evidence: the domains that collect, learn, checkpoint and   *)
(* plan, and the replays that decide on a policy.  Each keeps its state in *)
(* the variables named after those of the cloud domains and its parameters *)
(* in one record; a variable it does not use is "-".                       *)
(***************************************************************************)
EXTENDS Evidence

CONSTANTS DatabaseCase,     \* the parameters of Databases
          VolumeCase,       \* of Volumes
          ServiceCase,      \* of Services
          FargateCase,      \* of Fargate
          WhatIfCase        \* of Backtest

Rds == INSTANCE Databases WITH day <- hour,
  Fleet <- DatabaseCase.Fleet, Load <- DatabaseCase.Load, Offers <- DatabaseCase.Offers,
  GiBMonth <- DatabaseCase.GiBMonth, IOPSMonth <- DatabaseCase.IOPSMonth,
  TputMonth <- DatabaseCase.TputMonth, Claimable <- DatabaseCase.Claimable,
  Classes <- DatabaseCase.Classes, Reserved <- DatabaseCase.Reserved,
  Stranded <- DatabaseCase.Stranded, Headroom <- DatabaseCase.Headroom,
  Percent <- DatabaseCase.Percent, MinConfidence <- DatabaseCase.MinConfidence,
  MinWindow <- DatabaseCase.MinWindow, Cooldown <- DatabaseCase.Cooldown,
  MinObservations <- DatabaseCase.MinObservations, MinSpan <- DatabaseCase.MinSpan,
  MinSteps <- DatabaseCase.MinSteps, MaxObservations <- DatabaseCase.MaxObservations,
  IdleCPU <- DatabaseCase.IdleCPU, FreeThreshold <- DatabaseCase.FreeThreshold,
  Misses <- DatabaseCase.Misses, MaxDay <- DatabaseCase.MaxDay,
  MaxChanges <- DatabaseCase.MaxChanges, Steps <- DatabaseCase.Steps, Sizes <- DatabaseCase.Sizes
Ebs == INSTANCE Volumes WITH
  Fleet <- VolumeCase.Fleet, Load <- VolumeCase.Load, Rate <- VolumeCase.Rate,
  Window <- VolumeCase.Window, Percent <- VolumeCase.Percent, Headroom <- VolumeCase.Headroom,
  MinWindow <- VolumeCase.MinWindow, MinCoverage <- VolumeCase.MinCoverage,
  MinSamples <- VolumeCase.MinSamples, Cooldown <- VolumeCase.Cooldown,
  StaleAfter <- VolumeCase.StaleAfter, MinSavings <- VolumeCase.MinSavings,
  RetainWindow <- VolumeCase.RetainWindow, MaxPoints <- VolumeCase.MaxPoints,
  MaxSteps <- VolumeCase.MaxSteps, Misses <- VolumeCase.Misses, MaxHour <- VolumeCase.MaxHour,
  MaxRuns <- VolumeCase.MaxRuns
Ecs == INSTANCE Services WITH
  Fleet <- ServiceCase.Fleet, Revisions <- ServiceCase.Revisions, Load <- ServiceCase.Load,
  Rate <- ServiceCase.Rate, SpotDiscount <- ServiceCase.SpotDiscount,
  Window <- ServiceCase.Window, Percent <- ServiceCase.Percent,
  CPUHeadroom <- ServiceCase.CPUHeadroom, MemHeadroom <- ServiceCase.MemHeadroom,
  MinWindow <- ServiceCase.MinWindow, MinSamples <- ServiceCase.MinSamples,
  MinConfidence <- ServiceCase.MinConfidence, MaxSampleAge <- ServiceCase.MaxSampleAge,
  StaleAfter <- ServiceCase.StaleAfter, MinMove <- ServiceCase.MinMove,
  MaxSteps <- ServiceCase.MaxSteps, Stranded <- ServiceCase.Stranded, Misses <- ServiceCase.Misses,
  MaxHour <- ServiceCase.MaxHour, MaxRuns <- ServiceCase.MaxRuns, MaxMoves <- ServiceCase.MaxMoves
Far == INSTANCE Fargate WITH
  Fleet <- FargateCase.Fleet, Usage <- FargateCase.Usage, Policy <- FargateCase.Policy,
  Rate <- FargateCase.Rate, MinShaveSamples <- FargateCase.MinShaveSamples,
  MinShaveWindow <- FargateCase.MinShaveWindow, MinShaveConfidence <- FargateCase.MinShaveConfidence,
  MaxSampleAge <- FargateCase.MaxSampleAge, NoiseBand <- FargateCase.NoiseBand,
  NoiseSigmas <- FargateCase.NoiseSigmas, MinShave <- FargateCase.MinShave,
  MinMove <- FargateCase.MinMove, StaleAfter <- FargateCase.StaleAfter,
  RegressionWindow <- FargateCase.RegressionWindow, QuarantineFor <- FargateCase.QuarantineFor,
  Hold <- FargateCase.Hold, Decay <- FargateCase.Decay, MaxSteps <- FargateCase.MaxSteps,
  Stranded <- FargateCase.Stranded, MaxHour <- FargateCase.MaxHour, MaxRuns <- FargateCase.MaxRuns,
  MaxEvents <- FargateCase.MaxEvents, MaxGen <- FargateCase.MaxGen
Bac == INSTANCE Backtest WITH rows <- db, phase <- run, enforce <- env, replay <- snap,
  ledgers <- checkpoint, passed <- report, still <- was,
  Keys <- WhatIfCase.Keys, Histories <- WhatIfCase.Histories, Resaves <- WhatIfCase.Resaves,
  Notes <- WhatIfCase.Notes, Cadence <- WhatIfCase.Cadence, MaxRows <- WhatIfCase.MaxRows,
  From <- WhatIfCase.From, To <- WhatIfCase.To, Horizon <- WhatIfCase.Horizon,
  Interval <- WhatIfCase.Interval, Starvation <- WhatIfCase.Starvation,
  FlipWindow <- WhatIfCase.FlipWindow, Offers <- WhatIfCase.Offers,
  MinConfidence <- WhatIfCase.MinConfidence, MinSamples <- WhatIfCase.MinSamples,
  MinWindow <- WhatIfCase.MinWindow, BaseSoak <- WhatIfCase.BaseSoak,
  CPURate <- WhatIfCase.CPURate, MemRate <- WhatIfCase.MemRate,
  IncidentUSD <- WhatIfCase.IncidentUSD, MinMargin <- WhatIfCase.MinMargin

\* Storage is allocated, and growth adds to it.
ASSUME DatabaseAssumption ==
  /\ \A i \in DOMAIN DatabaseCase.Fleet :
       {"gib", "mods"} \subseteq DOMAIN DatabaseCase.Fleet[i] /\ DatabaseCase.Fleet[i].gib \in Nat \ {0}
  /\ DatabaseCase.Steps \subseteq Nat /\ DatabaseCase.MinSpan \in Nat
  /\ \A i \in DOMAIN DatabaseCase.Fleet : DatabaseCase.Sizes[i] \subseteq Nat \ {0}

\* A volume has a newest modification, or a time before all others.
ASSUME VolumeAssumption ==
  /\ \A v \in DOMAIN VolumeCase.Fleet :
       /\ {"mod", "modAt", "to", "type"} \subseteq DOMAIN VolumeCase.Fleet[v]
       /\ VolumeCase.Fleet[v].modAt \in Int
  /\ VolumeCase.Cooldown \in Int

\* Config.withDefaults: what confidence divides by is positive.  A floor of 0, which it
\* lets pass, switches the gate on confidence off, and with it what is claimed here.
ASSUME ServiceAssumption ==
  /\ \A v \in DOMAIN ServiceCase.Fleet : DOMAIN ServiceCase.Load[v] \subseteq Int
  /\ ServiceCase.Window \in Nat
  /\ {ServiceCase.MinSamples, ServiceCase.MinWindow, ServiceCase.MaxSampleAge} \subseteq Nat \ {0}
  /\ ServiceCase.MinConfidence \in 1..100

\* A retained snapshot is kept by its time, and its samples have times of their own.
ASSUME WhatIfAssumption ==
  /\ \A h \in WhatIfCase.Histories :
       /\ IsFiniteSet(DOMAIN h) /\ DOMAIN h \subseteq Int
       /\ \A t \in DOMAIN h : h[t].at = t /\ \A u \in h[t].usage : u.at \in Int
  /\ \A s \in WhatIfCase.Resaves : s.at \in Int /\ \A u \in s.usage : u.at \in Int

AdviceInit ==
  /\ which \in Systems
  /\ \/ which = "rds" /\ Rds!Init /\ Unset(events)
     \/ /\ \/ which = "ebs" /\ Ebs!Init
           \/ which = "ecs" /\ Ecs!Init
           \/ which = "fargate" /\ Far!Init
        /\ Unset(env) /\ Unset(events)
     \/ which = "backtest" /\ Bac!Init /\ Unset(hour) /\ Unset(targets)

OnRDS(A) == On("rds", events, A)
OnEBS(A) == On("ebs", <<env, events>>, A)
OnECS(A) == On("ecs", <<env, events>>, A)
OnFargate(A) == On("fargate", <<env, events>>, A)
OnBacktest(A) == On("backtest", <<hour, targets>>, A)

AdviceNext ==
  \/ OnRDS(Rds!Next) \/ OnEBS(Ebs!Next) \/ OnECS(Ecs!Next) \/ OnFargate(Far!Next)
  \/ OnBacktest(Bac!Next)

AdviceSpec == AdviceInit /\ [][AdviceNext]_vars

-----------------------------------------------------------------------------
\* What is acted on is not out of date: the growth happened, the volume is not
\* being modified, the service has settled, the size that hurt is taken back,
\* and a replay decides on nothing that was not known yet.
AdviceIsCurrent ==
  /\ which = "rds" => Rds!GrowthHappened
  /\ which = "ebs" => Ebs!NeverTooSoon
  /\ which = "ecs" => Ecs!FreshAndSettled
  /\ which = "fargate" => Far!RevertIsOffered
  /\ which = "backtest" => Bac!ReplayIsBlind /\ Bac!SameQuestion
===============================================================================
