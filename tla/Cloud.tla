-------------------------------- MODULE Cloud --------------------------------
(***************************************************************************)
(* The actuators of the cloud domains and the approvals that gate what     *)
(* Kilter changes, in one specification: which is the machine a behaviour  *)
(* is about.  The machines share no state in the code either, so the       *)
(* variables they name alike are one variable here, and those a machine    *)
(* does not use are "-".  Two of them are instantiated with the lemmas     *)
(* that were proved of them.                                               *)
(***************************************************************************)
EXTENDS Naturals, Sequences, FiniteSets

CONSTANTS Systems,     \* the machines that behaviours are about
          FaultsOf,    \* bound, per machine: failed calls and crashes
          MaxOutside,  \* bound: changes by somebody else
          ModesOf,     \* per machine, the modes its actuator may be started in
          Instances, MaxStageVisits,   \* of StopStart
          MaxVersions, MaxRefreshes,   \* of AutoScaling
          Quota,                       \* of StorageModify
          MaxRevisions,                \* of ServiceRoll
          Parts, MaxSteps, MaxDrift,   \* of Approval
          Processes, Actors, Humans, Specs, MaxRecords, TTL, MaxHour  \* of Proposals

Machines == {"ec2", "asg", "ebs", "rds", "ecs", "sig", "whatif"}

ASSUME CloudAssumption ==
  /\ Systems \subseteq Machines
  /\ FaultsOf \in [Machines -> Nat] /\ MaxOutside \in Nat
  /\ MaxVersions \in Nat \ {0} /\ MaxRefreshes \in Nat \ {0}
  /\ {MaxStageVisits, Quota, MaxSteps, MaxDrift, TTL, MaxHour} \subseteq Nat
  /\ MaxRevisions \in Nat \ {0}
  /\ Len(Parts) \in Nat /\ DOMAIN Parts = 1..Len(Parts)

VARIABLES which,
          cloud, ledger, disk, call, mode, lapsed, faults, touched,
          down, turned, started, sent, running, rolled,
          live, withheld, blind, frozen, offer, token, approval, acted,
          book, hands, hour, landed

actuator == <<cloud, ledger, disk, call, mode, lapsed, faults, touched>>
ghosts == <<down, turned, started, sent, running, rolled>>
signing == <<live, withheld, blind, frozen, offer, token, approval, acted>>
filing == <<book, hands, hour, landed>>
vars == <<which, actuator, ghosts, signing, filing>>

EC2 == INSTANCE StopStartProofs WITH MaxFaults <- FaultsOf["ec2"], Modes <- ModesOf["ec2"]
ASG == INSTANCE AutoScalingProofs WITH MaxFaults <- FaultsOf["asg"], Modes <- ModesOf["asg"]
EBS == INSTANCE VolumeModify WITH MaxFaults <- FaultsOf["ebs"], Modes <- ModesOf["ebs"]
RDS == INSTANCE StorageModify WITH MaxFaults <- FaultsOf["rds"], Modes <- ModesOf["rds"]
ECS == INSTANCE ServiceRoll WITH MaxFaults <- FaultsOf["ecs"]
Sig == INSTANCE Approval
WhatIf == INSTANCE Proposals

NotFiling == book = "-" /\ hands = "-" /\ hour = "-" /\ landed = "-"
NotSigning ==
  /\ live = "-" /\ withheld = "-" /\ blind = "-" /\ frozen = "-" /\ offer = "-"
  /\ token = "-" /\ approval = "-" /\ acted = "-"

Init ==
  /\ which \in Systems
  /\ \/ /\ which = "ec2" /\ EC2!Init /\ NotSigning /\ NotFiling
        /\ touched = "-" /\ started = "-" /\ sent = "-" /\ running = "-" /\ rolled = "-"
     \/ /\ which = "asg" /\ ASG!Init /\ NotSigning /\ NotFiling
        /\ down = "-" /\ turned = "-" /\ sent = "-" /\ running = "-" /\ rolled = "-"
     \/ /\ which = "ebs" /\ EBS!Init /\ NotSigning /\ NotFiling
        /\ lapsed = "-" /\ down = "-" /\ turned = "-" /\ started = "-" /\ sent = "-"
        /\ running = "-" /\ rolled = "-"
     \/ /\ which = "rds" /\ RDS!Init /\ NotSigning /\ NotFiling
        /\ down = "-" /\ turned = "-" /\ started = "-" /\ rolled = "-"
     \/ /\ which = "ecs" /\ ECS!Init /\ NotSigning /\ NotFiling
        /\ ledger = "-" /\ disk = "-" /\ mode = "-" /\ lapsed = "-" /\ down = "-"
        /\ turned = "-" /\ started = "-" /\ sent = "-" /\ running = "-"
     \/ /\ \/ which = "sig" /\ Sig!Init /\ NotFiling
           \/ which = "whatif" /\ WhatIf!Init /\ NotSigning
        /\ cloud = "-" /\ ledger = "-" /\ disk = "-" /\ call = "-" /\ mode = "-"
        /\ lapsed = "-" /\ faults = "-" /\ touched = "-" /\ down = "-" /\ turned = "-"
        /\ started = "-" /\ sent = "-" /\ running = "-" /\ rolled = "-"

On(system, idle, A) == which = system /\ A /\ UNCHANGED <<which, idle>>

OnEC2(A) == On("ec2", <<touched, started, sent, running, rolled, signing, filing>>, A)
NextEC2 ==
  \/ \E k \in EC2!Keys : OnEC2(EC2!TurnedAway(k))
  \/ \E k \in EC2!Keys : OnEC2(EC2!Begin(k))
  \/ OnEC2(EC2!ReadFails) \/ OnEC2(EC2!ReadRefuses) \/ OnEC2(EC2!ReadNoop)
  \/ OnEC2(EC2!ReadGated) \/ OnEC2(EC2!ReadResumes)
  \/ OnEC2(EC2!DriveEnds) \/ OnEC2(EC2!DriveWaits) \/ OnEC2(EC2!DriveMutates)
  \/ OnEC2(EC2!ActSucceeds) \/ OnEC2(EC2!ActErrs)
  \/ OnEC2(EC2!PollTimeout) \/ OnEC2(EC2!PollSettles)
  \/ OnEC2(EC2!Rollback) \/ OnEC2(EC2!RollbackStarts) \/ OnEC2(EC2!RollbackEnds)
  \/ \E i \in Instances : OnEC2(EC2!Settles(i))
  \/ \E i \in Instances : OnEC2(EC2!Outside(i))
  \/ OnEC2(EC2!Lapse) \/ OnEC2(EC2!Crash)

OnASG(A) == On("asg", <<down, turned, sent, running, rolled, signing, filing>>, A)
NextASG ==
  \/ \E k \in ASG!Keys : OnASG(ASG!TurnedAway(k))
  \/ \E k \in ASG!Keys : OnASG(ASG!Begin(k))
  \/ OnASG(ASG!ReadFails) \/ OnASG(ASG!ReportRefresh) \/ OnASG(ASG!ReadStops)
  \/ OnASG(ASG!ReadProceeds) \/ OnASG(ASG!Mutate) \/ OnASG(ASG!Create) \/ OnASG(ASG!Modify)
  \/ OnASG(ASG!StartRefresh) \/ OnASG(ASG!StartFails) \/ OnASG(ASG!AwaitRefresh)
  \/ which = "asg" /\ \E r \in DOMAIN cloud.refreshes : OnASG(ASG!RefreshEnds(r))
  \/ OnASG(ASG!Outside) \/ OnASG(ASG!Lapse) \/ OnASG(ASG!Crash)

OnEBS(A) == On("ebs", <<lapsed, ghosts, signing, filing>>, A)
NextEBS ==
  \/ \E k \in EBS!Keys : OnEBS(EBS!Begin(k))
  \/ OnEBS(EBS!ReadFails) \/ OnEBS(EBS!Describe) \/ OnEBS(EBS!Modifications)
  \/ OnEBS(EBS!ModifyVolume) \/ OnEBS(EBS!ModifyFails) \/ OnEBS(EBS!Poll)
  \/ OnEBS(EBS!Advances) \/ OnEBS(EBS!CoolsDown) \/ OnEBS(EBS!Outside)
  \/ OnEBS(EBS!Save) \/ OnEBS(EBS!Restart)

OnRDS(A) == On("rds", <<down, turned, started, rolled, signing, filing>>, A)
NextRDS ==
  \/ \E k \in RDS!Keys : OnRDS(RDS!TurnedAway(k))
  \/ \E k \in RDS!Keys : OnRDS(RDS!Begin(k))
  \/ OnRDS(RDS!ReadFails) \/ OnRDS(RDS!Describe) \/ OnRDS(RDS!Preflight) \/ OnRDS(RDS!Mutate)
  \/ OnRDS(RDS!ModifyStorage) \/ OnRDS(RDS!ModifyFails) \/ OnRDS(RDS!Poll)
  \/ OnRDS(RDS!Advances) \/ OnRDS(RDS!Ages) \/ OnRDS(RDS!Outside)
  \/ OnRDS(RDS!Lapse) \/ OnRDS(RDS!Restart)

OnECS(A) ==
  On("ecs", <<ledger, disk, mode, lapsed, down, turned, started, sent, running, signing, filing>>, A)
NextECS ==
  \/ \E k \in {"do", "undo"} : OnECS(ECS!Begin(k))
  \/ OnECS(ECS!ReadFails) \/ OnECS(ECS!ReadService) \/ OnECS(ECS!ReadRunning)
  \/ OnECS(ECS!ReadDefinition) \/ OnECS(ECS!Register) \/ OnECS(ECS!UpdateService)
  \/ OnECS(ECS!WriteFails) \/ OnECS(ECS!Converges) \/ OnECS(ECS!Outside) \/ OnECS(ECS!Crash)

OnSig(A) == On("sig", <<actuator, ghosts, filing>>, A)
NextSig ==
  \/ OnSig(Sig!BuildPlan) \/ OnSig(Sig!Sign) \/ OnSig(Sig!NewApproval)
  \/ OnSig(Sig!Guardrail) \/ OnSig(Sig!Lapse) \/ OnSig(Sig!Restart)
  \/ \E p \in Sig!Names : OnSig(Sig!Drift(p))
  \/ \E p \in Sig!Names : OnSig(Sig!Reassess(p))
  \/ \E p \in Sig!Names : OnSig(Sig!Collect(p))
  \/ \E s \in Sig!Steps : OnSig(Sig!Execute(s))
  \/ \E s \in Sig!Steps : OnSig(Sig!Revert(s))

OnWhatIf(A) == On("whatif", <<actuator, ghosts, signing>>, A)
NextWhatIf ==
  \/ OnWhatIf(WhatIf!Tick)
  \/ \E p \in Processes : OnWhatIf(WhatIf!Load(p))
  \/ \E p \in Processes : OnWhatIf(WhatIf!Save(p))
  \/ \E p \in Processes : OnWhatIf(WhatIf!Exit(p))
  \/ \E p \in Processes : OnWhatIf(WhatIf!Sweep(p))
  \/ \E p \in Processes, id \in WhatIf!Ids : OnWhatIf(WhatIf!Create(p, id))
  \/ \E p \in Processes, id \in WhatIf!Ids : OnWhatIf(WhatIf!Reject(p, id))
  \/ \E p \in Processes, id \in WhatIf!Ids : OnWhatIf(WhatIf!MarkApplied(p, id))
  \/ \E p \in Processes, id \in WhatIf!Ids, a \in Actors : OnWhatIf(WhatIf!Approve(p, a, id))

Next == NextEC2 \/ NextASG \/ NextEBS \/ NextRDS \/ NextECS \/ NextSig \/ NextWhatIf

\* The fairness of StopStart; the other machines are checked for safety alone.
Fairness ==
  /\ WF_vars(OnEC2(EC2!CallStep))
  /\ \A i \in Instances : WF_vars(OnEC2(EC2!Settles(i)))
  /\ \A k \in Instances \X {"do", "undo"} : SF_vars(OnEC2(EC2!Resume(k)))

Spec == Init /\ [][Next]_vars /\ Fairness

-----------------------------------------------------------------------------
\* Every machine is in a state of its type.
TypeOK ==
  /\ which \in Systems
  /\ which = "ec2" => EC2!TypeOK
  /\ which = "asg" => ASG!TypeOK
  /\ which = "ebs" => EBS!TypeOK
  /\ which = "rds" => RDS!TypeOK
  /\ which = "ecs" => ECS!TypeOK
  /\ which = "sig" => Sig!TypeOK

\* Each property below is that of its machines' modules.
NeverForgotten == which = "ec2" => EC2!NeverForgotten
IssuedIsUnsettled == which = "rds" => RDS!IssuedIsUnsettled

\* No machine repeats what it did: a fleet is refreshed once, a storage
\* modification is issued once while it is wanted, a service is re-pointed once,
\* whatever responses are lost and wherever the process dies.
ActsOnce ==
  /\ which = "asg" => ASG!ChurnedOnce
  /\ which = "rds" => RDS!IssuedOnce
  /\ which = "ecs" => ECS!RolledOnce

\* An instance the actuator stopped comes back, or the step was released.
StoppedIsRestarted ==
  \A i \in Instances :
    (which = "ec2" /\ i \in down) ~> (which = "ec2" /\ EC2!Released(i))

\* A step reports done only when the fleet, or the volume, is what it wanted.
ReportsTheTruth ==
  /\ which = "asg" => ASG!ReportsMigrated
  /\ which = "ebs" => EBS!ReportsApplied
DoneIsTrue == [][ReportsTheTruth]_vars

\* Nothing is executed that no person signed.
ApprovedOnly == [][which = "sig" => Sig!ActsAsApproved]_vars

\* Every change to a policy that was let through had passed the gate and was
\* approved in time by a person who did not write it.
AppliedIsJustified == which = "whatif" => WhatIf!AppliedIsJustified

\* A process can always read the file the last one wrote.
BookLoads == which = "whatif" => WhatIf!BookLoads

\* A proposal that waits for a person is not dropped to make room.
PendingIsKept == [][which = "whatif" => WhatIf!KeepsPending]_vars

\* A step that reports nothing to do has a fleet on its target type.
NoopIsMigrated == [][which = "asg" => ASG!ReportsNoop]_vars
=============================================================================
