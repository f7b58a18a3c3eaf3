----------------------------- MODULE CloudProofs -----------------------------
(* Proofs about Cloud: every machine, for every set of instances, processes and people, every *)
(* bound and any failures. *)
EXTENDS Cloud, TLAPS, FiniteSetTheorems, NaturalsInduction, WellFoundedInduction,
        SequenceTheorems

(* ---- The inductive invariant, machine by machine ---- *)

\* EBS.  A modification that is in force, or was, is what the volume is configured as; a call
\* that polls polls the modification toward its own target; and no call is for a step that ended.
VolumeInv ==
  /\ EBS!TypeOK
  /\ cloud.mod.target = "none" => cloud.mod.state = "none"
  /\ cloud.mod.state \in {"optimizing", "completed"} => cloud.config = cloud.mod.target
  /\ call.pc = "poll" /\ ~touched => cloud.mod.target = EBS!To(call.key) /\ cloud.mod.state # "none"
  /\ \A k \in EBS!Keys : EBS!Terminal(disk[k]) => ledger[k] = disk[k]
  /\ call # EBS!Idle => ~EBS!Terminal(ledger[call.key])

\* ECS.  What a call is about to deploy exists and, for Execute, is a revision of its own.  Once
\* Execute deployed, the service runs something else than the planned revision, and no call of
\* Execute is past the check of that.
ServiceCalls ==
  {ECS!Idle} \cup [pc : {"service", "running"}, key : {"do", "undo"}]
  \cup [pc : {"definition", "register"}, key : {"do"}, rev : {1}]
  \cup [pc : {"update"}, key : {"do", "undo"}, rev : Nat]

ServiceInv ==
  /\ ECS!TypeOK
  /\ cloud \in [revs : Seq([size : {"from", "to"}, image : {1, 2}]), running : Nat,
                deploying : BOOLEAN, allowed : BOOLEAN, fits : BOOLEAN]
  /\ Len(cloud.revs) > 0 /\ call \in ServiceCalls
  /\ call.pc = "update" => /\ call.rev \in DOMAIN cloud.revs
                           /\ call.key = "do" => call.rev # 1
  /\ ~touched /\ rolled # 0 =>
       /\ rolled = 1 /\ cloud.running # 1
       /\ call.pc \notin {"definition", "register"}
       /\ call.pc = "update" => call.key = "undo"

\* Approval.  What the person saw is what the fingerprint hashes, what an approval covers is
\* what the person saw, and neither is more than a plan may have.
Plans == UNION {[I -> Sig!Contents] : I \in SUBSET DOMAIN Parts}
SeenInv ==
  /\ token \in [fingerprint : Plans, seen : SUBSET Sig!Contents, expired : BOOLEAN]
  /\ token.seen = {token.fingerprint[i] : i \in DOMAIN token.fingerprint}
CoverInv ==
  /\ approval \in [keys : SUBSET Sig!Contents, seen : SUBSET Sig!Contents, expired : BOOLEAN]
  /\ approval.keys = approval.seen
  /\ Cardinality(approval.keys) <= MaxSteps
OfferInv == offer \in Plans /\ Cardinality(DOMAIN offer) <= MaxSteps
SigInv == Sig!TypeOK /\ OfferInv /\ SeenInv /\ CoverInv

\* Proposals.  Every record, in the file and in a loaded store, is one that loads again.
Records ==
  {WhatIf!Absent} \cup [state : {"gated", "rejected"}, created : Nat]
  \cup [state : {"approved", "applied", "expired"}, created : Nat, by : Actors, expires : Nat]
Books == [WhatIf!Ids -> Records]
AllSound(b) == \A id \in WhatIf!Ids : WhatIf!Sound(id, b[id])
WhatIfInv ==
  /\ book \in Books /\ hands \in [Processes -> {WhatIf!Closed} \cup Books] /\ hour \in Nat
  /\ AllSound(book)
  /\ \A p \in Processes : hands[p] # WhatIf!Closed => AllSound(hands[p])
  /\ WhatIf!AppliedIsJustified

\* RDS.
StorageLives == [perf : RDS!Levels, pending : RDS!Levels, status : {"available", "modifying", "optimizing"},
          used : 0..Quota, bar : {"none", "mode-off", "identity", "envelope"}, found : BOOLEAN]

StorageCalls == [pc : {"describe", "envelope", "mutate", "modify", "poll"}, key : RDS!Keys, live : StorageLives]

\* What the bounds of an instance of the module have to be.
StorageBounds == Quota \in Nat /\ FaultsOf["rds"] \in Nat /\ MaxOutside \in Nat

StorageCallsInv == call = RDS!Idle \/ call \in StorageCalls

\* An account where a step that raises the performance may still be issued.
StorageOpen(storage) == storage.perf = 1 /\ storage.pending = 0 /\ storage.status = "available"

\* An account where nothing is being applied.
StorageQuiet(storage) == storage.status = "available" /\ storage.pending = 0

\* The undo never gets to its mutation; and while nobody else modifies the storage, once a
\* modification was accepted the account no longer looks like one that needs it, nor does what
\* the call has read.
StorageOnceInv ==
  /\ call.pc \in {"mutate", "modify"} => call.key = "do"
  /\ sent["undo"] = 0
  /\ ~touched => /\ sent["do"] <= 1
                 /\ cloud.perf \in {1, 2} /\ cloud.pending \in {0, 2}
                 /\ cloud.status = "optimizing" => cloud.perf = 2 /\ cloud.pending = 0
                 /\ cloud.status = "modifying" => cloud.pending = 2
                 /\ sent["do"] = 1 => /\ ~StorageOpen(cloud)
                                      /\ call.pc \notin {"mutate", "modify"}
                                      /\ call.pc = "envelope" => ~StorageOpen(call.live)

\* What is written to disk is an attempt of the step; and while one is being applied, the books
\* count it and what the call has read shows it.
StorageBooksInv ==
  /\ \/ disk["do"].status = "none"
     \/ disk["do"].status = "in-flight" /\ disk["do"].attempts > 0
  /\ call.pc = "modify" => disk["do"].status = "in-flight" /\ ledger["do"].attempts > 0
  /\ running => /\ ~StorageQuiet(cloud)
                /\ call.pc \notin {"mutate", "modify"}
                /\ disk["do"].status = "in-flight" /\ ledger["do"].attempts > 0
                /\ call.pc = "envelope" => ~StorageQuiet(call.live)
                /\ call = RDS!Idle => ledger["do"].status \notin {"done", "no-op"}
                /\ call # RDS!Idle /\ call.key = "undo" => ledger["do"].status \notin {"done", "no-op"}

StorageInv == RDS!TypeOK /\ StorageCallsInv /\ StorageOnceInv /\ StorageBooksInv

CloudInv ==
  /\ which \in Systems
  /\ which = "ec2" => EC2!IInv /\ EC2!TypeOK
  /\ which = "asg" => ASG!IInv
  /\ which = "ebs" => VolumeInv
  /\ which = "rds" => StorageInv
  /\ which = "ecs" => ServiceInv
  /\ which = "sig" => SigInv
  /\ which = "whatif" => WhatIfInv

(* ---- The composition ---- *)

\* A step of the composition is a step of the machine the behaviour is about.
LEMMA StepOfMachine ==
  ASSUME [Next]_vars
  PROVE  /\ which' = which
         /\ which = "ec2" => [EC2!Next]_(EC2!vars)
         /\ which = "asg" => [ASG!Next]_(ASG!vars)
         /\ which = "ebs" => [EBS!Next]_(EBS!vars)
         /\ which = "rds" => [RDS!Next]_(RDS!vars)
         /\ which = "ecs" => [ECS!Next]_(ECS!vars)
         /\ which = "sig" => [Sig!Next]_(Sig!vars)
         /\ which = "whatif" => [WhatIf!Next]_(WhatIf!vars)
<1>1. NextEC2 => which = "ec2" /\ which' = which /\ EC2!Next
  <2>1. NextEC2 => which = "ec2" /\ which' = which
    BY DEF NextEC2, OnEC2, On
  <2>2. NextEC2 => EC2!Next
    BY DEF NextEC2, OnEC2, On, EC2!Next, EC2!CallStep
  <2>. QED
    BY <2>1, <2>2
<1>2. NextASG => which = "asg" /\ which' = which /\ ASG!Next
  BY DEF NextASG, OnASG, On, ASG!Next
<1>3. NextEBS => which = "ebs" /\ which' = which /\ EBS!Next
  BY DEF NextEBS, OnEBS, On, EBS!Next
<1>4. NextRDS => which = "rds" /\ which' = which /\ RDS!Next
  BY DEF NextRDS, OnRDS, On, RDS!Next
<1>5. NextECS => which = "ecs" /\ which' = which /\ ECS!Next
  BY DEF NextECS, OnECS, On, ECS!Next
<1>6. NextSig => which = "sig" /\ which' = which /\ Sig!Next
  BY DEF NextSig, OnSig, On, Sig!Next
<1>7. NextWhatIf => which = "whatif" /\ which' = which /\ WhatIf!Next
  BY DEF NextWhatIf, OnWhatIf, On, WhatIf!Next
<1>8. CASE UNCHANGED vars
  BY <1>8 DEF vars, actuator, ghosts, signing, filing, EC2!vars, ASG!vars, EBS!vars, RDS!vars,
     ECS!vars, Sig!vars, WhatIf!vars
<1>9. CASE Next
  BY <1>1, <1>2, <1>3, <1>4, <1>5, <1>6, <1>7, <1>9 DEF Next
<1>. QED
  BY <1>8, <1>9

\* The bounds are numbers.
LEMMA Bounded ==
  /\ \A m \in Machines : FaultsOf[m] \in Nat
  /\ MaxOutside \in Nat /\ MaxVersions \in Nat \ {0} /\ MaxRefreshes \in Nat \ {0}
  /\ MaxStageVisits \in Nat /\ Quota \in Nat /\ MaxSteps \in Nat /\ MaxDrift \in Nat
  /\ TTL \in Nat /\ MaxHour \in Nat /\ MaxRevisions \in Nat \ {0}
  /\ Len(Parts) \in Nat /\ DOMAIN Parts = 1..Len(Parts)
BY CloudAssumption

\* And what the machines proved elsewhere assume of theirs.
LEMMA MachineBounds ==
  /\ FaultsOf["ec2"] \in Nat /\ MaxStageVisits \in Nat
  /\ ASG!Bounds /\ StorageBounds
BY Bounded DEF Machines, ASG!Bounds, StorageBounds

(* ---- EBS: done is applied ---- *)

VolumeMod == [state : {"none", "modifying", "optimizing", "completed", "failed"},
              target : {"none", "from", "to", "other"}]
Volume == [config : {"from", "to", "other"}, ok : BOOLEAN, cooling : BOOLEAN, raises : BOOLEAN,
           mod : VolumeMod]
VolumeCalls == [pc : {"describe", "modifications", "modify", "poll"}, key : EBS!Keys]

\* A fault, or a change by somebody else, is counted.
LEMMA VolumeFaults ==
  ASSUME VolumeInv, UNCHANGED faults \/ EBS!Fault
                    \/ (faults.outside < MaxOutside /\ faults' = [faults EXCEPT !.outside = @ + 1])
  PROVE  faults' \in [own : 0..FaultsOf["ebs"], outside : 0..MaxOutside]
<1>. DEFINE M == FaultsOf["ebs"]
<1>1. M \in Nat /\ MaxOutside \in Nat
  BY Bounded DEF Machines
<1>2. faults \in [own : 0..M, outside : 0..MaxOutside]
  BY DEF VolumeInv, EBS!TypeOK
<1>3. \/ UNCHANGED faults
      \/ faults.own < M /\ faults' = [faults EXCEPT !.own = @ + 1]
      \/ faults.outside < MaxOutside /\ faults' = [faults EXCEPT !.outside = @ + 1]
  BY DEF EBS!Fault
<1>. HIDE DEF M
<1>4. faults' \in [own : 0..M, outside : 0..MaxOutside]
  BY <1>1, <1>2, <1>3
<1>. QED
  BY <1>4 DEF M

\* A volume nobody has modified yet.
LEMMA VolumeInit == EBS!Init => VolumeInv
<1>. SUFFICES ASSUME EBS!Init PROVE VolumeInv
  OBVIOUS
<1>1. FaultsOf["ebs"] \in Nat /\ MaxOutside \in Nat
  BY Bounded DEF Machines
<1>. DEFINE M == FaultsOf["ebs"]
<1>2. /\ cloud \in Volume /\ ledger \in [EBS!Keys -> EBS!Statuses] /\ disk = ledger /\ call = EBS!Idle
      /\ mode \in ModesOf["ebs"] /\ touched \in BOOLEAN /\ faults = [own |-> 0, outside |-> 0]
  <2>1. [state |-> "none", target |-> "none"] \in VolumeMod
    BY DEF VolumeMod
  <2>2. cloud \in Volume
    BY <2>1 DEF EBS!Init, EBS!NoMod, Volume
  <2>. QED
    BY <2>2 DEF EBS!Init, EBS!Statuses
<1>3. faults \in [own : 0..M, outside : 0..MaxOutside]
  <2>. HIDE DEF M
  <2>. QED
    BY <1>1, <1>2 DEF M
<1>4. EBS!TypeOK
  BY <1>2, <1>3 DEF EBS!TypeOK, Volume, VolumeMod
<1>. QED
  BY <1>4 DEF EBS!Init, VolumeInv, EBS!NoMod, EBS!Idle, EBS!Terminal

\* A call that records a status and returns, or goes on as it is.
LEMMA VolumeReturns ==
  ASSUME VolumeInv, call # EBS!Idle, NEW s \in EBS!Statuses, EBS!record(s),
         UNCHANGED <<cloud, disk, mode, touched>>, UNCHANGED faults \/ EBS!Fault
  PROVE  VolumeInv'
<1>1. call.key \in EBS!Keys /\ ledger' = [ledger EXCEPT ![call.key] = s] /\ call' = EBS!Idle
  BY DEF VolumeInv, EBS!TypeOK, EBS!record
<1>2. faults' \in [own : 0..FaultsOf["ebs"], outside : 0..MaxOutside]
  BY VolumeFaults
<1>3. EBS!TypeOK'
  BY <1>1, <1>2 DEF VolumeInv, EBS!TypeOK
<1>4. \A k \in EBS!Keys : EBS!Terminal(disk[k]) => ledger'[k] = disk[k]
  BY <1>1 DEF VolumeInv, EBS!TypeOK, EBS!Terminal
<1>. QED
  BY <1>1, <1>3, <1>4 DEF VolumeInv, EBS!Idle

\* A call that goes on with the account and the disk as they are.
LEMMA VolumeGoesOn ==
  ASSUME VolumeInv, NEW pc \in {"modifications", "modify"}, call # EBS!Idle, EBS!Goto(pc),
         UNCHANGED <<cloud, disk, mode, touched, faults>>
  PROVE  VolumeInv'
<1>1. call \in VolumeCalls /\ call' = [call EXCEPT !.pc = pc]
  BY DEF VolumeInv, EBS!TypeOK, EBS!Goto, VolumeCalls
<1>2. call' \in VolumeCalls /\ call'.pc = pc /\ call'.key = call.key
  BY <1>1 DEF VolumeCalls
<1>. QED
  BY <1>2 DEF VolumeInv, EBS!TypeOK, EBS!Goto, VolumeCalls

\* A call that starts to poll the modification toward its target.
LEMMA VolumePolls ==
  ASSUME VolumeInv, call # EBS!Idle, UNCHANGED <<disk, mode, touched, faults>>,
         ledger' = [ledger EXCEPT ![call.key] = "in-flight"],
         call' = [call EXCEPT !.pc = "poll"],
         cloud' \in Volume, cloud'.mod.target = EBS!To(call.key), EBS!InFlight(cloud'.mod),
         cloud'.mod.state = "optimizing" => cloud'.config = cloud'.mod.target
  PROVE  VolumeInv'
<1>1. call \in VolumeCalls
  BY DEF VolumeInv, EBS!TypeOK, VolumeCalls
<1>2. call' \in VolumeCalls /\ call'.pc = "poll" /\ call'.key = call.key
  BY <1>1 DEF VolumeCalls
<1>3. ledger' \in [EBS!Keys -> EBS!Statuses] /\ ~EBS!Terminal(ledger'[call'.key])
  BY <1>1, <1>2 DEF VolumeInv, EBS!TypeOK, EBS!Statuses, EBS!Terminal, VolumeCalls
<1>4. \A k \in EBS!Keys : EBS!Terminal(disk[k]) => ledger'[k] = disk[k]
  BY <1>1 DEF VolumeInv, EBS!TypeOK, EBS!Terminal, VolumeCalls
<1>5. EBS!TypeOK'
  BY <1>2, <1>3 DEF VolumeInv, EBS!TypeOK, VolumeCalls, Volume, VolumeMod
<1>. QED
  BY <1>2, <1>3, <1>4, <1>5 DEF VolumeInv, EBS!InFlight, EBS!To

\* The account changes under whatever call there is, and nobody touched the volume.
LEMMA VolumeMoves ==
  ASSUME VolumeInv, UNCHANGED <<ledger, disk, call, mode, touched>>, UNCHANGED faults \/
         faults' \in [own : 0..FaultsOf["ebs"], outside : 0..MaxOutside],
         cloud' \in Volume, cloud'.mod.target = cloud.mod.target,
         cloud'.mod.state = "none" <=> cloud.mod.state = "none",
         cloud'.mod.state \in {"optimizing", "completed"} => cloud'.config = cloud'.mod.target
  PROVE  VolumeInv'
<1>1. EBS!TypeOK'
  BY DEF VolumeInv, EBS!TypeOK, Volume, VolumeMod
<1>. QED
  BY <1>1 DEF VolumeInv

\* Every step of EBS keeps VolumeInv.
LEMMA VolumeNext == VolumeInv /\ [EBS!Next]_(EBS!vars) => VolumeInv'
<1>. SUFFICES ASSUME VolumeInv, [EBS!Next]_(EBS!vars) PROVE VolumeInv'
  OBVIOUS
<1>. USE DEF EBS!At, EBS!quiet
<1>0. /\ FaultsOf["ebs"] \in Nat /\ MaxOutside \in Nat
      /\ cloud \in Volume /\ (call = EBS!Idle \/ call \in VolumeCalls)
      /\ {"failed", "no-op", "dry-run", "in-flight", "done"} \subseteq EBS!Statuses
  BY Bounded DEF VolumeInv, EBS!TypeOK, Volume, VolumeMod, VolumeCalls, Machines, EBS!Statuses
<1>1. ASSUME NEW k \in EBS!Keys, EBS!Begin(k) PROVE VolumeInv'
  <2>1. call' \in VolumeCalls /\ call'.pc = "describe" /\ call'.key = k /\ ~EBS!Terminal(ledger[k])
    BY <1>1 DEF EBS!Begin, VolumeCalls
  <2>. QED
    BY <1>1, <2>1 DEF EBS!Begin, VolumeInv, EBS!TypeOK, VolumeCalls
<1>2. CASE EBS!ReadFails
  BY <1>0, <1>2, VolumeReturns DEF EBS!ReadFails, EBS!Idle
<1>3. CASE EBS!Describe
  <2>1. call # EBS!Idle
    BY <1>3 DEF EBS!Describe, EBS!Idle
  <2>2. CASE EBS!record("no-op") \/ EBS!record("failed")
    BY <1>0, <1>3, <2>1, <2>2, VolumeReturns DEF EBS!Describe
  <2>3. CASE EBS!Goto("modifications")
    BY <1>3, <2>1, <2>3, VolumeGoesOn DEF EBS!Describe
  <2>. QED
    BY <1>3, <2>2, <2>3 DEF EBS!Describe
<1>4. CASE EBS!Modifications
  <2>1. call # EBS!Idle /\ call \in VolumeCalls
    BY <1>0, <1>4 DEF EBS!Modifications, EBS!Idle
  <2>2. CASE EBS!record("failed") \/ EBS!record("dry-run")
    BY <1>0, <1>4, <2>1, <2>2, VolumeReturns DEF EBS!Modifications
  <2>3. CASE EBS!Goto("modify")
    BY <1>4, <2>1, <2>3, VolumeGoesOn DEF EBS!Modifications
  <2>4. CASE /\ EBS!Proceed = "resume"
             /\ ledger' = [ledger EXCEPT ![call.key] = "in-flight"]
             /\ call' = [call EXCEPT !.pc = "poll"]
    <3>1. EBS!InFlight(cloud.mod) /\ cloud.mod.target = EBS!To(call.key)
      BY <2>4 DEF EBS!Proceed
    <3>. QED
      BY <1>0, <1>4, <2>1, <2>4, <3>1, VolumePolls DEF EBS!Modifications, VolumeInv
  <2>. QED
    BY <1>4, <2>2, <2>3, <2>4 DEF EBS!Modifications
<1>5. CASE EBS!ModifyVolume
  <2>1. call # EBS!Idle /\ call \in VolumeCalls /\ call.key \in EBS!Keys
    BY <1>0, <1>5 DEF EBS!ModifyVolume, EBS!Idle, VolumeCalls
  <2>2. EBS!To(call.key) \in {"from", "to"}
    BY DEF EBS!To
  <2>3. cloud' = [cloud EXCEPT !.mod = [state |-> "modifying", target |-> EBS!To(call.key)]]
    BY <1>5 DEF EBS!ModifyVolume, EBS!Started
  <2>4. cloud' \in Volume /\ cloud'.mod.state = "modifying" /\ cloud'.mod.target = EBS!To(call.key)
    BY <1>0, <2>2, <2>3 DEF Volume, VolumeMod
  <2>5. CASE /\ ledger' = [ledger EXCEPT ![call.key] = "in-flight"]
             /\ call' = [call EXCEPT !.pc = "poll"]
             /\ UNCHANGED faults
    BY <1>5, <2>1, <2>4, <2>5, VolumePolls DEF EBS!ModifyVolume, EBS!InFlight
  <2>6. CASE EBS!Fault /\ EBS!record("failed")
    <3>1. ledger' = [ledger EXCEPT ![call.key] = "failed"] /\ call' = EBS!Idle
      BY <2>6 DEF EBS!record
    <3>2. faults' \in [own : 0..FaultsOf["ebs"], outside : 0..MaxOutside]
      BY <2>6, VolumeFaults
    <3>3. ledger' \in [EBS!Keys -> EBS!Statuses]
      BY <1>0, <2>1, <3>1 DEF VolumeInv, EBS!TypeOK
    <3>4. EBS!TypeOK'
      BY <1>5, <2>4, <3>1, <3>2, <3>3 DEF VolumeInv, EBS!TypeOK, Volume, VolumeMod, EBS!ModifyVolume
    <3>5. \A k \in EBS!Keys : EBS!Terminal(disk[k]) => ledger'[k] = disk[k]
      BY <2>1, <3>1 DEF VolumeInv, EBS!TypeOK, EBS!Terminal
    <3>. QED
      BY <1>5, <2>2, <2>4, <3>1, <3>4, <3>5 DEF VolumeInv, EBS!Idle, EBS!ModifyVolume
  <2>. QED
    BY <1>5, <2>5, <2>6 DEF EBS!ModifyVolume
<1>6. CASE EBS!ModifyFails
  BY <1>0, <1>6, VolumeReturns DEF EBS!ModifyFails, EBS!Idle
<1>7. CASE EBS!Poll
  <2>1. EBS!Verdict \in EBS!Statuses
    BY DEF EBS!Verdict, EBS!Statuses
  <2>. QED
    BY <1>7, <2>1, VolumeReturns DEF EBS!Poll, EBS!Idle
<1>8. CASE EBS!Advances
  <2>1. /\ cloud' \in Volume /\ cloud'.mod.target = cloud.mod.target
        /\ cloud'.mod.state # "none" /\ cloud.mod.state # "none"
        /\ cloud'.mod.state \in {"optimizing", "completed"} => cloud'.config = cloud'.mod.target
    <3>1. CASE cloud' = [cloud EXCEPT !.mod.state = "optimizing", !.config = cloud.mod.target]
               /\ cloud.mod.state = "modifying"
      <4>1. cloud.mod.target # "none"
        BY <3>1 DEF VolumeInv
      <4>. QED
        BY <1>0, <3>1, <4>1 DEF Volume, VolumeMod
    <3>2. CASE cloud' = [cloud EXCEPT !.mod.state = "failed", !.cooling = TRUE]
      BY <1>0, <1>8, <3>2 DEF Volume, VolumeMod, EBS!Advances, EBS!InFlight
    <3>3. CASE cloud' = [cloud EXCEPT !.mod.state = "completed", !.cooling = TRUE]
               /\ cloud.mod.state = "optimizing"
      BY <1>0, <3>3 DEF Volume, VolumeMod, VolumeInv
    <3>. QED
      BY <1>8, <3>1, <3>2, <3>3 DEF EBS!Advances
  <2>. QED
    BY <1>8, <2>1, VolumeMoves DEF EBS!Advances
<1>9. CASE EBS!CoolsDown
  <2>1. cloud' \in Volume /\ cloud'.mod = cloud.mod /\ cloud'.config = cloud.config
    BY <1>0, <1>9 DEF EBS!CoolsDown, Volume
  <2>. QED
    BY <1>9, <2>1, VolumeMoves DEF EBS!CoolsDown, VolumeInv
<1>10. CASE EBS!Outside
  <2>1. faults' \in [own : 0..FaultsOf["ebs"], outside : 0..MaxOutside]
    BY <1>10, VolumeFaults DEF EBS!Outside
  <2>2. CASE touched' = TRUE /\ \E c \in {"from", "to", "other"} :
               cloud' = [cloud EXCEPT !.mod = [state |-> "modifying", target |-> c], !.cooling = FALSE]
    <3>1. cloud' \in Volume /\ cloud'.mod.state = "modifying" /\ cloud'.mod.target # "none"
      <4>1. PICK c \in {"from", "to", "other"} :
               cloud' = [cloud EXCEPT !.mod = [state |-> "modifying", target |-> c], !.cooling = FALSE]
        BY <2>2
      <4>2. [state |-> "modifying", target |-> c] \in VolumeMod
        BY DEF VolumeMod
      <4>. QED
        BY <1>0, <4>1, <4>2 DEF Volume
    <3>2. EBS!TypeOK'
      BY <1>10, <2>1, <2>2, <3>1 DEF VolumeInv, EBS!TypeOK, Volume, VolumeMod, EBS!Outside
    <3>. QED
      BY <1>10, <2>2, <3>1, <3>2 DEF VolumeInv, EBS!Outside
  <2>3. CASE cloud' = [cloud EXCEPT !.ok = ~@] /\ UNCHANGED touched
    <3>1. cloud' \in Volume /\ cloud'.mod = cloud.mod /\ cloud'.config = cloud.config
      BY <1>0, <2>3 DEF Volume
    <3>. QED
      BY <1>10, <2>1, <2>3, <3>1, VolumeMoves DEF EBS!Outside, VolumeInv
  <2>. QED
    BY <1>10, <2>2, <2>3 DEF EBS!Outside
<1>11. CASE EBS!Save
  BY <1>11 DEF EBS!Save, VolumeInv, EBS!TypeOK, EBS!Idle
<1>12. CASE EBS!Restart
  <2>1. faults' \in [own : 0..FaultsOf["ebs"], outside : 0..MaxOutside]
    BY <1>12, VolumeFaults DEF EBS!Restart
  <2>. QED
    BY <1>12, <2>1 DEF EBS!Restart, VolumeInv, EBS!TypeOK, EBS!Idle
<1>13. CASE UNCHANGED EBS!vars
  BY <1>13 DEF EBS!vars, VolumeInv, EBS!TypeOK
<1>. QED
  BY <1>1, <1>2, <1>3, <1>4, <1>5, <1>6, <1>7, <1>8, <1>9, <1>10, <1>11, <1>12, <1>13 DEF EBS!Next

\* Only a poll reports done, and it polls the modification the call is about.
LEMMA VolumeReports == VolumeInv /\ [EBS!Next]_(EBS!vars) => EBS!ReportsApplied
<1>. SUFFICES ASSUME VolumeInv, [EBS!Next]_(EBS!vars), NEW k \in EBS!Keys, EBS!Reports(k, "done"), ~touched
              PROVE  cloud.config = EBS!To(k)
  BY DEF EBS!ReportsApplied
<1>1. ledger'[k] = "done" /\ ledger[k] # "done" /\ call # EBS!Idle /\ ledger \in [EBS!Keys -> EBS!Statuses]
      /\ call.key \in EBS!Keys
  BY DEF EBS!Reports, VolumeInv, EBS!TypeOK
<1>2. CASE EBS!Poll
  <2>1. k = call.key /\ EBS!Verdict = "done" /\ call.pc = "poll"
    BY <1>1, <1>2 DEF EBS!Poll, EBS!record, EBS!At
  <2>2. cloud.mod.state \in {"completed", "optimizing"}
        \/ (cloud.mod.state = "none" /\ cloud.config = EBS!To(call.key))
    BY <2>1 DEF EBS!Verdict
  <2>. QED
    BY <2>1, <2>2 DEF VolumeInv
<1>3. CASE EBS!Restart
  BY <1>1, <1>3 DEF EBS!Restart, VolumeInv, EBS!Terminal
<1>4. CASE ~EBS!Poll /\ ~EBS!Restart
  BY <1>1, <1>4 DEF EBS!Next, EBS!Begin, EBS!ReadFails, EBS!Describe, EBS!Modifications, EBS!ModifyVolume,
     EBS!ModifyFails, EBS!Advances, EBS!CoolsDown, EBS!Outside, EBS!Save, EBS!record, EBS!Goto, EBS!vars
<1>. QED
  BY <1>2, <1>3, <1>4

(* ---- ECS: a service is re-pointed once ---- *)

Revisions == Seq([size : {"from", "to"}, image : {1, 2}])
Service == [revs : Revisions, running : Nat, deploying : BOOLEAN, allowed : BOOLEAN, fits : BOOLEAN]

\* A fault, or a change by somebody else, is counted.
LEMMA ServiceFaults ==
  ASSUME ServiceInv, UNCHANGED faults \/ ECS!Fault
                     \/ (faults.outside < MaxOutside /\ faults' = [faults EXCEPT !.outside = @ + 1])
  PROVE  faults' \in [own : 0..FaultsOf["ecs"], outside : 0..MaxOutside]
<1>. DEFINE M == FaultsOf["ecs"]
<1>1. M \in Nat /\ MaxOutside \in Nat
  BY Bounded DEF Machines
<1>2. faults \in [own : 0..M, outside : 0..MaxOutside]
  BY DEF ServiceInv, ECS!TypeOK
<1>3. \/ UNCHANGED faults
      \/ faults.own < M /\ faults' = [faults EXCEPT !.own = @ + 1]
      \/ faults.outside < MaxOutside /\ faults' = [faults EXCEPT !.outside = @ + 1]
  BY DEF ECS!Fault
<1>. HIDE DEF M
<1>4. faults' \in [own : 0..M, outside : 0..MaxOutside]
  BY <1>1, <1>2, <1>3
<1>. QED
  BY <1>4 DEF M

\* A service that runs the planned revision, and no call.
LEMMA ServiceInit == ECS!Init => ServiceInv
<1>. SUFFICES ASSUME ECS!Init PROVE ServiceInv
  OBVIOUS
<1>. DEFINE M == FaultsOf["ecs"]
<1>1. M \in Nat /\ MaxOutside \in Nat /\ MaxRevisions \in Nat \ {0}
  BY Bounded DEF Machines
<1>2. faults \in [own : 0..M, outside : 0..MaxOutside]
  <2>. HIDE DEF M
  <2>. QED
    BY <1>1 DEF ECS!Init, M
<1>3. <<[size |-> "from", image |-> 1]>> \in Revisions
  BY DEF Revisions
<1>4. cloud \in Service /\ cloud.revs = <<[size |-> "from", image |-> 1]>> /\ cloud.running = 1
  <2>. DEFINE planned == <<[size |-> "from", image |-> 1]>>
  <2>1. cloud \in [revs : {planned}, running : {1}, deploying : {FALSE}, allowed : {TRUE}, fits : BOOLEAN]
    BY DEF ECS!Init
  <2>2. planned \in Revisions
    BY <1>3
  <2>. HIDE DEF planned
  <2>3. PICK f \in BOOLEAN : cloud = [revs |-> planned, running |-> 1, deploying |-> FALSE,
                                   allowed |-> TRUE, fits |-> f]
    BY <2>1
  <2>4. cloud.revs = planned /\ cloud.running = 1
    BY <2>3
  <2>5. cloud \in Service
    BY <2>2, <2>3 DEF Service
  <2>. QED
    BY <2>4, <2>5 DEF planned
<1>5. Len(cloud.revs) = 1 /\ DOMAIN cloud.revs = 1..1
  BY <1>4
<1>6. call = ECS!Idle /\ rolled = 0 /\ touched = FALSE
  BY DEF ECS!Init
<1>7. ECS!TypeOK
  <2>1. cloud.revs \in Revisions /\ cloud.running \in DOMAIN cloud.revs /\ Len(cloud.revs) <= MaxRevisions
    BY <1>1, <1>4, <1>5 DEF Service
  <2>. QED
    BY <1>2, <1>6, <2>1 DEF ECS!TypeOK, Revisions
<1>8. call.pc = "idle" /\ call \in ServiceCalls
  BY <1>6 DEF ECS!Idle, ServiceCalls
<1>. QED
  BY <1>4, <1>5, <1>6, <1>7, <1>8 DEF ServiceInv, Service, Revisions

\* A registered revision leaves those there are.
LEMMA Registered ==
  ASSUME ServiceInv, NEW r \in [size : {"from", "to"}, image : {1, 2}], Len(cloud.revs) < MaxRevisions
  PROVE  LET revs == Append(cloud.revs, r)
         IN  /\ revs \in Revisions /\ Len(revs) = Len(cloud.revs) + 1
             /\ Len(revs) \in DOMAIN revs /\ Len(revs) # 1 /\ Len(revs) <= MaxRevisions
             /\ DOMAIN cloud.revs \subseteq DOMAIN revs
BY Bounded DEF ServiceInv, Revisions

\* A call that returns, or goes on, while nothing is deployed by it.
LEMMA ServiceGoesOn ==
  ASSUME ServiceInv, UNCHANGED <<rolled, touched>>, call' \in ServiceCalls, call'.pc # "update",
         cloud' \in Service, Len(cloud'.revs) <= MaxRevisions, Len(cloud'.revs) >= Len(cloud.revs),
         cloud'.running = cloud.running,
         UNCHANGED faults \/ ECS!Fault
           \/ (faults.outside < MaxOutside /\ faults' = [faults EXCEPT !.outside = @ + 1]),
         ~touched /\ rolled # 0 => call'.pc \notin {"definition", "register"}
  PROVE  ServiceInv'
<1>1. faults' \in [own : 0..FaultsOf["ecs"], outside : 0..MaxOutside]
  BY ServiceFaults
<1>2. DOMAIN cloud.revs = 1..Len(cloud.revs) /\ DOMAIN cloud'.revs = 1..Len(cloud'.revs)
      /\ Len(cloud.revs) \in Nat /\ Len(cloud'.revs) \in Nat
  BY DEF ServiceInv, Service, Revisions
<1>3. cloud'.running \in DOMAIN cloud'.revs /\ Len(cloud'.revs) > 0
  BY <1>2 DEF ServiceInv, ECS!TypeOK
<1>. QED
  BY <1>1, <1>3 DEF ServiceInv, ECS!TypeOK, Service, Revisions

\* The same when the call stands where it stood.
LEMMA ServiceMoves ==
  ASSUME ServiceInv, UNCHANGED <<call, rolled, touched>>,
         cloud' \in Service, cloud'.revs = cloud.revs, cloud'.running = cloud.running,
         UNCHANGED faults \/ ECS!Fault
           \/ (faults.outside < MaxOutside /\ faults' = [faults EXCEPT !.outside = @ + 1])
  PROVE  ServiceInv'
<1>1. faults' \in [own : 0..FaultsOf["ecs"], outside : 0..MaxOutside]
  BY ServiceFaults
<1>. QED
  BY <1>1 DEF ServiceInv, ECS!TypeOK, Service, Revisions

\* Every step of ECS keeps ServiceInv.
LEMMA ServiceNext == ServiceInv /\ [ECS!Next]_(ECS!vars) => ServiceInv'
<1>. SUFFICES ASSUME ServiceInv, [ECS!Next]_(ECS!vars) PROVE ServiceInv'
  OBVIOUS
<1>. USE DEF ECS!At, ECS!Return, ECS!history
<1>0. /\ cloud \in Service /\ cloud.revs \in Revisions /\ Len(cloud.revs) \in Nat
      /\ Len(cloud.revs) <= MaxRevisions /\ MaxRevisions \in Nat
      /\ call \in ServiceCalls /\ rolled \in Nat
  BY Bounded DEF ServiceInv, ECS!TypeOK, Service, Revisions
<1>1. ECS!Idle \in ServiceCalls /\ ECS!Idle.pc = "idle"
  BY DEF ServiceCalls, ECS!Idle
<1>2. ASSUME NEW k \in {"do", "undo"}, ECS!Begin(k) PROVE ServiceInv'
  <2>1. call' \in ServiceCalls /\ call'.pc = "service"
    BY <1>2 DEF ECS!Begin, ServiceCalls
  <2>. QED
    BY <1>0, <1>2, <2>1, ServiceGoesOn DEF ECS!Begin
<1>3. CASE ECS!ReadFails \/ ECS!ReadRunning \/ ECS!WriteFails \/ ECS!Crash
  BY <1>0, <1>1, <1>3, ServiceGoesOn DEF ECS!ReadFails, ECS!ReadRunning, ECS!WriteFails, ECS!Crash
<1>4. CASE ECS!ReadService
  <2>1. UNCHANGED <<cloud, faults, rolled, touched>> /\ call.key \in {"do", "undo"}
    BY <1>0, <1>4 DEF ECS!ReadService, ServiceCalls, ECS!Idle
  <2>2. \/ call' = ECS!Idle
        \/ cloud.running # 1 /\ call.key = "do" /\ call' = [call EXCEPT !.pc = "running"]
        \/ cloud.running = 1 /\ call.key = "do" /\ call' = [pc |-> "definition", key |-> "do", rev |-> 1]
        \/ call.key = "undo" /\ call' = [pc |-> "update", key |-> "undo", rev |-> 1]
    BY <1>4, <2>1 DEF ECS!ReadService
  <2>3. CASE call' = ECS!Idle
    BY <1>0, <1>1, <2>1, <2>3, ServiceGoesOn
  <2>4. CASE call' = [call EXCEPT !.pc = "running"]
    <3>1. call' \in ServiceCalls /\ call'.pc = "running"
      BY <1>0, <1>4, <2>4 DEF ECS!ReadService, ServiceCalls, ECS!Idle
    <3>. QED
      BY <1>0, <2>1, <3>1, ServiceGoesOn
  <2>5. CASE cloud.running = 1 /\ call' = [pc |-> "definition", key |-> "do", rev |-> 1]
    <3>1. call' \in ServiceCalls /\ call'.pc = "definition"
      BY <2>5 DEF ServiceCalls
    <3>. QED
      BY <1>0, <2>1, <2>5, <3>1, ServiceGoesOn DEF ServiceInv
  <2>6. CASE call' = [pc |-> "update", key |-> "undo", rev |-> 1]
    <3>1. call' \in ServiceCalls /\ call'.rev \in DOMAIN cloud.revs
      BY <1>0, <2>6 DEF ServiceCalls, ServiceInv, Revisions
    <3>. QED
      BY <2>1, <2>6, <3>1 DEF ServiceInv, ECS!TypeOK
  <2>. QED
    BY <2>2, <2>3, <2>4, <2>5, <2>6
<1>5. CASE ECS!ReadDefinition
  <2>1. CASE call' = ECS!Idle
    BY <1>0, <1>1, <1>5, <2>1, ServiceGoesOn DEF ECS!ReadDefinition
  <2>2. CASE call' = [call EXCEPT !.pc = "register"]
    <3>1. call' \in ServiceCalls /\ call'.pc = "register"
      BY <1>0, <1>5, <2>2 DEF ECS!ReadDefinition, ServiceCalls, ECS!Idle
    <3>2. ~(~touched /\ rolled # 0)
      BY <1>5 DEF ECS!ReadDefinition, ServiceInv
    <3>. QED
      BY <1>0, <1>5, <3>1, <3>2, ServiceGoesOn DEF ECS!ReadDefinition
  <2>. QED
    BY <1>5, <2>1, <2>2 DEF ECS!ReadDefinition
<1>6. CASE ECS!Register
  <2>. DEFINE r == [cloud.revs[1] EXCEPT !.size = "to"]
              revs == Append(cloud.revs, r)
  <2>1. r \in [size : {"from", "to"}, image : {1, 2}]
    <3>. DEFINE R == [size : {"from", "to"}, image : {1, 2}]
                q == cloud.revs
    <3>1. q \in Seq(R) /\ 1 \in 1..Len(q)
      BY <1>0 DEF ServiceInv, Revisions
    <3>2. q[1] \in R
      <4>. HIDE DEF q, R
      <4>. QED
        BY <3>1, ElementOfSeq
    <3>. QED
      BY <3>2
  <2>2. /\ revs \in Revisions /\ Len(revs) = Len(cloud.revs) + 1
        /\ Len(revs) \in DOMAIN revs /\ Len(revs) # 1 /\ Len(revs) <= MaxRevisions
        /\ DOMAIN cloud.revs \subseteq DOMAIN revs
    BY <1>6, <2>1, Registered DEF ECS!Register
  <2>3. cloud' = [cloud EXCEPT !.revs = revs] /\ UNCHANGED <<rolled, touched>>
        /\ \/ call' = [pc |-> "update", key |-> "do", rev |-> Len(revs)] /\ UNCHANGED faults
           \/ ECS!Fault /\ call' = ECS!Idle
    BY <1>6 DEF ECS!Register
  <2>. HIDE DEF revs
  <2>4. cloud' \in Service /\ cloud'.revs = revs /\ cloud'.running = cloud.running
    BY <1>0, <2>2, <2>3 DEF Service
  <2>5. CASE call' = ECS!Idle
    BY <1>0, <1>1, <2>2, <2>3, <2>4, <2>5, ServiceGoesOn
  <2>6. CASE call' = [pc |-> "update", key |-> "do", rev |-> Len(revs)] /\ UNCHANGED faults
    <3>1. call' \in ServiceCalls /\ call'.rev \in DOMAIN revs /\ call'.rev # 1
      BY <2>2, <2>6 DEF ServiceCalls, Revisions
    <3>2. ~(~touched /\ rolled # 0)
      BY <1>6 DEF ECS!Register, ServiceInv
    <3>. QED
      BY <1>0, <2>2, <2>3, <2>4, <2>6, <3>1, <3>2 DEF ServiceInv, ECS!TypeOK, Service, Revisions
  <2>. QED
    BY <2>3, <2>5, <2>6
<1>7. CASE ECS!UpdateService
  <2>1. /\ call.rev \in DOMAIN cloud.revs /\ call.key \in {"do", "undo"}
        /\ call.key = "do" => call.rev # 1 /\ ~(~touched /\ rolled # 0)
    BY <1>0, <1>7 DEF ECS!UpdateService, ServiceInv, ServiceCalls, ECS!Idle
  <2>2. /\ cloud' \in Service /\ cloud'.revs = cloud.revs /\ cloud'.running = call.rev
        /\ call.rev \in Nat
    <3>1. call.rev \in Nat
      BY <1>0, <2>1 DEF Revisions
    <3>2. cloud' = [cloud EXCEPT !.running = call.rev, !.deploying = TRUE]
      BY <1>7 DEF ECS!UpdateService
    <3>. QED
      BY <1>0, <3>1, <3>2 DEF Service
  <2>3. faults' \in [own : 0..FaultsOf["ecs"], outside : 0..MaxOutside]
    BY <1>7, ServiceFaults DEF ECS!UpdateService
  <2>4. /\ rolled' = IF call.key = "do" THEN rolled + 1 ELSE 0
        /\ touched' = (call.key = "do" /\ touched) /\ call' = ECS!Idle
    BY <1>7 DEF ECS!UpdateService
  <2>5. touched' \in BOOLEAN /\ rolled' \in Nat
    BY <1>0, <2>4
  <2>6. ~touched' /\ rolled' # 0 => rolled' = 1 /\ cloud'.running # 1
    <3>1. CASE call.key = "do"
      <4>1. touched' = touched
        BY <2>4, <3>1 DEF ServiceInv, ECS!TypeOK
      <4>. QED
        BY <1>0, <2>1, <2>2, <2>4, <3>1, <4>1
    <3>2. CASE call.key # "do"
      BY <2>4, <3>2
    <3>. QED
      BY <3>1, <3>2
  <2>. QED
    BY <1>0, <1>1, <2>1, <2>2, <2>3, <2>4, <2>5, <2>6 DEF ServiceInv, ECS!TypeOK, Service, Revisions
<1>8. CASE ECS!Converges
  <2>1. cloud' \in Service /\ cloud'.revs = cloud.revs /\ cloud'.running = cloud.running
    BY <1>0, <1>8 DEF ECS!Converges, Service
  <2>. QED
    BY <1>8, <2>1, ServiceMoves DEF ECS!Converges
<1>9. CASE ECS!Outside
  <2>1. CASE cloud' = [cloud EXCEPT !.allowed = ~@] /\ UNCHANGED touched
    <3>1. cloud' \in Service /\ cloud'.revs = cloud.revs /\ cloud'.running = cloud.running
      BY <1>0, <2>1 DEF Service
    <3>. QED
      BY <1>9, <2>1, <3>1, ServiceMoves DEF ECS!Outside
  <2>2. ASSUME NEW s \in {"from", "to"}, Len(cloud.revs) < MaxRevisions, touched' = TRUE,
               cloud' = [cloud EXCEPT !.revs = Append(@, [size |-> s, image |-> 2]),
                           !.running = Len(cloud.revs) + 1, !.deploying = TRUE]
        PROVE  ServiceInv'
    <3>. DEFINE r == [size |-> s, image |-> 2]
                revs == Append(cloud.revs, r)
    <3>1. r \in [size : {"from", "to"}, image : {1, 2}]
      OBVIOUS
    <3>2. /\ revs \in Revisions /\ Len(revs) = Len(cloud.revs) + 1
          /\ Len(revs) \in DOMAIN revs /\ Len(revs) # 1 /\ Len(revs) <= MaxRevisions
          /\ DOMAIN cloud.revs \subseteq DOMAIN revs
      BY <2>2, <3>1, Registered
    <3>3. cloud' = [cloud EXCEPT !.revs = revs, !.running = Len(cloud.revs) + 1, !.deploying = TRUE]
      BY <1>0, <2>2 DEF Service
    <3>. HIDE DEF revs
    <3>4. cloud' \in Service /\ cloud'.revs = revs /\ cloud'.running = Len(revs)
      <4>1. Len(cloud.revs) + 1 \in Nat
        BY <1>0
      <4>. QED
        BY <1>0, <3>2, <3>3, <4>1 DEF Service
    <3>5. faults' \in [own : 0..FaultsOf["ecs"], outside : 0..MaxOutside]
      BY <1>9, ServiceFaults DEF ECS!Outside
    <3>6. UNCHANGED <<call, rolled>>
      BY <1>9 DEF ECS!Outside
    <3>. QED
      BY <1>0, <2>2, <3>2, <3>4, <3>5, <3>6 DEF ServiceInv, ECS!TypeOK, Service, Revisions
  <2>. QED
    BY <1>9, <2>1, <2>2 DEF ECS!Outside
<1>10. CASE UNCHANGED ECS!vars
  BY <1>10 DEF ECS!vars, ServiceInv, ECS!TypeOK
<1>. QED
  BY <1>2, <1>3, <1>4, <1>5, <1>6, <1>7, <1>8, <1>9, <1>10 DEF ECS!Next

(* ---- RDS: a modification is issued once ---- *)

\* What may become of an instance.
LEMMA LivesUpdate ==
    ASSUME NEW storage \in StorageLives
    PROVE  /\ \A p \in RDS!Levels, u \in 0..Quota :
                /\ [storage EXCEPT !.pending = p, !.used = u] \in StorageLives
                /\ [storage EXCEPT !.pending = p, !.used = u].pending = p
           /\ LET new == [storage EXCEPT !.status = "optimizing", !.perf = storage.pending, !.pending = 0]
              IN new \in StorageLives /\ new.perf = storage.pending /\ new.pending = 0 /\ new.status = "optimizing"
<1>1. 0 \in RDS!Levels
  BY DEF RDS!Levels
<1>2. ASSUME NEW p \in RDS!Levels, NEW u \in 0..Quota
      PROVE  /\ [storage EXCEPT !.pending = p, !.used = u] \in StorageLives
             /\ [storage EXCEPT !.pending = p, !.used = u].pending = p
  BY DEF StorageLives
<1>. DEFINE new == [storage EXCEPT !.status = "optimizing", !.perf = storage.pending, !.pending = 0]
<1>3. new \in StorageLives /\ new.perf = storage.pending /\ new.pending = 0 /\ new.status = "optimizing"
  BY <1>1 DEF StorageLives
<1>. QED
  BY <1>2, <1>3

\* Nothing is issued at the start.
LEMMA StorageInit == StorageBounds /\ RDS!Init => StorageInv
<1>. SUFFICES ASSUME StorageBounds, RDS!Init PROVE StorageInv
  OBVIOUS
<1>. USE DEF StorageBounds, RDS!Init, RDS!Keys, RDS!Levels, RDS!Idle
<1>1. cloud \in StorageLives
  BY DEF StorageLives
<1>2. ledger \in [RDS!Keys -> RDS!Entry] /\ disk \in [RDS!Keys -> RDS!Entry] /\ sent \in [RDS!Keys -> Nat]
  BY DEF RDS!Entry, RDS!NoEntry
<1>3. RDS!TypeOK
  <2>1. faults \in [own : 0..FaultsOf["rds"], outside : 0..MaxOutside] /\ mode \in ModesOf["rds"]
    OBVIOUS
  <2>2. lapsed \in BOOLEAN /\ running \in BOOLEAN /\ touched \in BOOLEAN
    OBVIOUS
  <2>. QED
    BY <1>1, <1>2, <2>1, <2>2 DEF RDS!TypeOK, StorageLives
<1>4. StorageCallsInv /\ StorageOnceInv /\ StorageBooksInv
  BY DEF StorageCallsInv, StorageOnceInv, StorageBooksInv, RDS!NoEntry
<1>. QED
  BY <1>3, <1>4 DEF StorageInv

\* A read that fails ends the call.
LEMMA StorageReadFailsKeeps == StorageBounds /\ StorageInv /\ RDS!ReadFails => StorageInv'
<1>. SUFFICES ASSUME StorageBounds, StorageInv, RDS!ReadFails PROVE StorageInv'
  OBVIOUS
<1>. USE DEF StorageBounds, StorageInv, RDS!Keys, RDS!Idle, RDS!At, RDS!Fault, RDS!record, RDS!finish,
             RDS!world, RDS!stable, RDS!TypeOK, RDS!Entry, StorageCallsInv
<1>1. RDS!TypeOK' /\ StorageCallsInv'
  BY DEF StorageCalls, StorageLives, RDS!Levels, RDS!ReadFails
<1>2. StorageOnceInv'
  BY DEF StorageCalls, StorageLives, StorageOnceInv, StorageOpen, RDS!ReadFails
<1>3. StorageBooksInv'
  BY DEF StorageCalls, StorageLives, StorageBooksInv, StorageQuiet, RDS!ReadFails
<1>. QED
  BY <1>1, <1>2, <1>3

\* What the call reads is the account as it is.
LEMMA StorageDescribeKeeps == StorageBounds /\ StorageInv /\ RDS!Describe => StorageInv'
<1>. SUFFICES ASSUME StorageBounds, StorageInv, RDS!Describe PROVE StorageInv'
  OBVIOUS
<1>. USE DEF StorageBounds, StorageInv, RDS!Keys, RDS!Idle, RDS!At, RDS!Fault, RDS!record, RDS!finish,
             RDS!world, RDS!stable, RDS!TypeOK, RDS!Entry, StorageCallsInv
<1>1. call \in StorageCalls /\ cloud \in StorageLives /\ call.pc = "describe"
  BY DEF RDS!Describe, StorageLives
<1>2. CASE ~cloud.found /\ RDS!record("refused")
  <2>1. RDS!TypeOK' /\ StorageCallsInv'
    BY <1>1, <1>2 DEF StorageCalls, RDS!Describe
  <2>2. StorageOnceInv' /\ StorageBooksInv'
    BY <1>1, <1>2 DEF StorageCalls, RDS!Describe, StorageOnceInv, StorageBooksInv
  <2>. QED
    BY <2>1, <2>2
<1>3. CASE call' = [call EXCEPT !.pc = "envelope", !.live = cloud] /\ UNCHANGED ledger
  <2>1. call' \in StorageCalls /\ call'.pc = "envelope" /\ call'.live = cloud /\ call'.key = call.key
    BY <1>1, <1>3 DEF StorageCalls
  <2>2. UNCHANGED <<ledger, RDS!world, RDS!stable, faults>>
    BY <1>3 DEF RDS!Describe
  <2>3. call # RDS!Idle /\ call' # RDS!Idle
    BY <1>1, <2>1 DEF StorageCalls
  <2>4. StorageOnceInv' /\ StorageBooksInv'
    BY <1>1, <2>1, <2>2, <2>3 DEF StorageOnceInv, StorageBooksInv, StorageOpen, StorageQuiet
  <2>. QED
    BY <2>1, <2>2, <2>4
<1>. QED
  BY <1>2, <1>3 DEF RDS!Describe

\* A step that would issue meets an account where it may.
LEMMA MayIssue ==
    ASSUME NEW k \in RDS!Keys, NEW storage \in StorageLives, ~RDS!checkStorage(k, storage, cloud.used),
           RDS!stageOf(k, storage) = "ready", ~RDS!inFlightTowardTarget(k, storage)
    PROVE  k = "do" /\ StorageOpen(storage)
BY DEF RDS!checkStorage, RDS!MayNotIssue, RDS!stageOf, RDS!inFlightTowardTarget, StorageOpen, RDS!Keys,
   StorageLives, RDS!Levels, RDS!From, RDS!Want

\* A step that is done by what the call read has nothing being applied.
LEMMA DoneIsQuiet ==
    ASSUME NEW k \in RDS!Keys, NEW storage \in StorageLives, RDS!stageOf(k, storage) = "done"
    PROVE  StorageQuiet(storage)
BY DEF RDS!stageOf, StorageQuiet, StorageLives, RDS!Levels, RDS!Keys, RDS!From, RDS!Want

\* The preflight issues nothing but what the account stands ready for.
LEMMA StoragePreflightKeeps == StorageBounds /\ StorageInv /\ RDS!Preflight => StorageInv'
<1>. SUFFICES ASSUME StorageBounds, StorageInv, RDS!Preflight PROVE StorageInv'
  OBVIOUS
<1>. USE DEF StorageBounds, StorageInv, RDS!Keys, RDS!Idle, RDS!At, RDS!Fault, RDS!record, RDS!finish,
             RDS!world, RDS!stable, RDS!TypeOK, RDS!Entry, StorageCallsInv
<1>1. call \in StorageCalls /\ call.pc = "envelope" /\ call.live \in StorageLives /\ call.key \in RDS!Keys
  BY DEF RDS!Preflight, StorageCalls
<1>2. UNCHANGED <<cloud, sent, running, touched, disk, mode, lapsed>>
  BY DEF RDS!Preflight
<1>3. ASSUME NEW s \in {"refused", "no-op", "dry-run"}, RDS!record(s), UNCHANGED faults \/ RDS!Fault,
             s = "no-op" => StorageQuiet(call.live)
      PROVE  StorageInv'
  <2>1. RDS!TypeOK' /\ StorageCallsInv'
    BY <1>1, <1>2, <1>3
  <2>2. StorageOnceInv'
    BY <1>1, <1>2, <1>3 DEF StorageOnceInv, StorageOpen
  <2>3. StorageBooksInv'
    BY <1>1, <1>2, <1>3 DEF StorageBooksInv, StorageQuiet
  <2>. QED
    BY <2>1, <2>2, <2>3
<1>4. ASSUME NEW pc \in {"mutate", "poll"}, call' = [call EXCEPT !.pc = pc], UNCHANGED <<ledger, faults>>,
             pc = "mutate" => call.key = "do" /\ StorageOpen(call.live)
      PROVE  StorageInv'
  <2>1. call' \in StorageCalls /\ call'.pc = pc /\ call'.key = call.key /\ call # RDS!Idle /\ call' # RDS!Idle
    BY <1>1, <1>4 DEF StorageCalls
  <2>2. RDS!TypeOK' /\ StorageCallsInv'
    BY <1>2, <1>4, <2>1
  <2>3. StorageOnceInv'
    BY <1>1, <1>2, <1>4, <2>1 DEF StorageOnceInv, StorageOpen
  <2>4. StorageBooksInv'
    BY <1>1, <1>2, <1>4, <2>1 DEF StorageBooksInv, StorageQuiet, StorageOpen
  <2>. QED
    BY <2>2, <2>3, <2>4
<1>. DEFINE k == call.key
            refused == RDS!checkStorage(k, call.live, cloud.used)
            stage == RDS!stageOf(k, call.live)
            next == IF stage = "ready" /\ ~RDS!inFlightTowardTarget(k, call.live) THEN "mutate" ELSE "poll"
<1>5. ~refused /\ next = "mutate" => k = "do" /\ StorageOpen(call.live)
  BY <1>1, MayIssue
<1>6. stage = "done" => StorageQuiet(call.live)
  BY <1>1, DoneIsQuiet
<1>7. \/ RDS!record("refused") /\ (UNCHANGED faults \/ RDS!Fault)
      \/ ~refused /\ stage = "done" /\ RDS!record("no-op") /\ UNCHANGED faults
      \/ RDS!record("dry-run") /\ UNCHANGED faults
      \/ ~refused /\ call' = [call EXCEPT !.pc = next] /\ UNCHANGED <<ledger, faults>>
  BY DEF RDS!Preflight
<1>8. next \in {"mutate", "poll"}
  OBVIOUS
<1>. HIDE DEF RDS!record, refused, stage, next
<1>. QED
  BY <1>3, <1>4, <1>5, <1>6, <1>7, <1>8

\* A call starts, or the approval has lapsed.
LEMMA StorageBeginKeeps == StorageBounds /\ StorageInv /\ (\E k \in RDS!Keys : RDS!TurnedAway(k) \/ RDS!Begin(k)) => StorageInv'
<1>. SUFFICES ASSUME StorageBounds, StorageInv, NEW k \in RDS!Keys, RDS!TurnedAway(k) \/ RDS!Begin(k) PROVE StorageInv'
  OBVIOUS
<1>. USE DEF StorageBounds, StorageInv, RDS!Keys, RDS!Idle, RDS!At, RDS!Fault, RDS!record, RDS!finish,
             RDS!world, RDS!stable, RDS!TypeOK, RDS!Entry, StorageCallsInv
<1>1. cloud \in StorageLives
  BY DEF StorageLives
<1>2. CASE RDS!TurnedAway(k)
  <2>1. RDS!TypeOK' /\ StorageCallsInv'
    BY <1>2 DEF RDS!TurnedAway
  <2>2. StorageOnceInv' /\ StorageBooksInv'
    BY <1>2 DEF RDS!TurnedAway, StorageOnceInv, StorageBooksInv
  <2>. QED
    BY <2>1, <2>2
<1>3. CASE RDS!Begin(k)
  <2>1. call' \in StorageCalls /\ call'.pc = "describe" /\ call'.key = k /\ call = RDS!Idle /\ call' # RDS!Idle
    BY <1>1, <1>3 DEF RDS!Begin, StorageCalls
  <2>2. RDS!TypeOK' /\ StorageCallsInv' /\ StorageOnceInv'
    BY <1>3, <2>1 DEF RDS!Begin, StorageOnceInv
  <2>3. StorageBooksInv'
    BY <1>3, <2>1 DEF RDS!Begin, StorageBooksInv, RDS!Terminal
  <2>. QED
    BY <2>2, <2>3
<1>. QED
  BY <1>2, <1>3

\* The attempt is on disk before the modification is issued.
LEMMA StorageMutateKeeps == StorageBounds /\ StorageInv /\ RDS!Mutate => StorageInv'
<1>. SUFFICES ASSUME StorageBounds, StorageInv, RDS!Mutate PROVE StorageInv'
  OBVIOUS
<1>. USE DEF StorageBounds, StorageInv, RDS!Keys, RDS!Idle, RDS!At, RDS!Fault, RDS!record, RDS!finish,
             RDS!world, RDS!stable, RDS!TypeOK, RDS!Entry, StorageCallsInv
<1>. DEFINE k == call.key
            noted == [ledger EXCEPT ![k] = [status |-> "in-flight", attempts |-> @.attempts + 1]]
<1>1. call \in StorageCalls /\ call.pc = "mutate" /\ k = "do" /\ UNCHANGED <<RDS!world, mode, lapsed>>
  BY DEF RDS!Mutate, StorageOnceInv, StorageCalls
<1>2. noted \in [RDS!Keys -> RDS!Entry] /\ noted["do"].status = "in-flight" /\ noted["do"].attempts > 0
  BY <1>1
<1>3. CASE ledger' = noted /\ disk' = noted /\ call' = [call EXCEPT !.pc = "modify"] /\ UNCHANGED faults
  <2>1. call' \in StorageCalls /\ call'.pc = "modify" /\ call'.key = "do" /\ call' # RDS!Idle
    BY <1>1, <1>3 DEF StorageCalls
  <2>2. RDS!TypeOK' /\ StorageCallsInv' /\ StorageOnceInv'
    BY <1>1, <1>2, <1>3, <2>1 DEF StorageOnceInv
  <2>3. StorageBooksInv'
    BY <1>1, <1>2, <1>3, <2>1 DEF StorageBooksInv
  <2>. QED
    BY <2>2, <2>3
<1>4. CASE /\ RDS!Fault
           /\ ledger' = [noted EXCEPT ![k].status = "failed"]
           /\ call' = RDS!Idle
           /\ UNCHANGED disk
  <2>1. ledger' \in [RDS!Keys -> RDS!Entry]
    BY <1>1, <1>2, <1>4
  <2>2. RDS!TypeOK' /\ StorageCallsInv' /\ StorageOnceInv' /\ StorageBooksInv'
    BY <1>1, <1>4, <2>1 DEF StorageOnceInv, StorageBooksInv
  <2>. QED
    BY <2>2
<1>. QED
  BY <1>1, <1>3, <1>4 DEF RDS!Mutate

\* The account accepts the one modification.
LEMMA StorageModifyStorageKeeps == StorageBounds /\ StorageInv /\ RDS!ModifyStorage => StorageInv'
<1>. SUFFICES ASSUME StorageBounds, StorageInv, RDS!ModifyStorage PROVE StorageInv'
  OBVIOUS
<1>. USE DEF StorageBounds, StorageInv, RDS!Keys, RDS!Idle, RDS!At, RDS!Fault, RDS!record, RDS!finish,
             RDS!world, RDS!stable, RDS!TypeOK, RDS!Entry, StorageCallsInv
<1>1. call \in StorageCalls /\ call.pc = "modify" /\ call.key = "do" /\ UNCHANGED <<RDS!stable, touched>>
  BY DEF RDS!ModifyStorage, StorageOnceInv, StorageCalls
<1>2. cloud' = [cloud EXCEPT !.pending = 2, !.used = @ + 1] /\ sent' = [sent EXCEPT !["do"] = @ + 1]
      /\ running' = TRUE /\ cloud.status = "available" /\ cloud.used < Quota
  BY <1>1 DEF RDS!ModifyStorage, RDS!Accepts, RDS!Want
<1>3. cloud \in StorageLives /\ cloud' \in StorageLives /\ cloud'.pending = 2 /\ cloud'.status = "available"
      /\ cloud'.perf = cloud.perf
  <2>1. cloud \in StorageLives /\ cloud.used + 1 \in 0..Quota /\ 2 \in RDS!Levels
    BY <1>2 DEF StorageLives, RDS!Levels
  <2>. QED
    BY <1>2, <2>1, LivesUpdate
<1>4. sent'["do"] = sent["do"] + 1 /\ sent'["undo"] = sent["undo"] /\ sent' \in [RDS!Keys -> Nat]
  BY <1>2
<1>5. \/ call' = [call EXCEPT !.pc = "poll"] /\ UNCHANGED <<ledger, faults>>
      \/ RDS!Fault /\ RDS!finish("failed")
  BY DEF RDS!ModifyStorage
<1>6. /\ (call' \in StorageCalls /\ call'.pc = "poll" /\ call'.key = "do" /\ call' # RDS!Idle) \/ call' = RDS!Idle
      /\ faults' \in [own : 0..FaultsOf["rds"], outside : 0..MaxOutside]
      /\ ledger' \in [RDS!Keys -> RDS!Entry] /\ ledger'["do"].attempts = ledger["do"].attempts
      /\ call' = RDS!Idle => ledger'["do"].status \notin {"done", "no-op"}
  BY <1>1, <1>5 DEF StorageCalls
<1>7. RDS!TypeOK' /\ StorageCallsInv'
  BY <1>1, <1>2, <1>3, <1>4, <1>6 DEF StorageLives
<1>8. StorageOnceInv'
  BY <1>1, <1>2, <1>3, <1>4, <1>6 DEF StorageOnceInv, StorageOpen
<1>9. StorageBooksInv'
  BY <1>1, <1>2, <1>3, <1>6 DEF StorageBooksInv, StorageQuiet
<1>. QED
  BY <1>7, <1>8, <1>9

\* A modification that is not accepted leaves the account alone.
LEMMA StorageModifyFailsKeeps == StorageBounds /\ StorageInv /\ RDS!ModifyFails => StorageInv'
<1>. SUFFICES ASSUME StorageBounds, StorageInv, RDS!ModifyFails PROVE StorageInv'
  OBVIOUS
<1>. USE DEF StorageBounds, StorageInv, RDS!Keys, RDS!Idle, RDS!At, RDS!Fault, RDS!record, RDS!finish,
             RDS!world, RDS!stable, RDS!TypeOK, RDS!Entry, StorageCallsInv
<1>1. RDS!TypeOK' /\ StorageCallsInv'
  BY DEF StorageCalls, StorageLives, RDS!Levels, RDS!ModifyFails
<1>2. StorageOnceInv'
  BY DEF StorageCalls, StorageLives, StorageOnceInv, StorageOpen, RDS!ModifyFails
<1>3. StorageBooksInv'
  BY DEF StorageCalls, StorageLives, StorageBooksInv, StorageQuiet, RDS!ModifyFails
<1>. QED
  BY <1>1, <1>2, <1>3

\* A poll reports done only what is applied.
LEMMA StoragePollKeeps == StorageBounds /\ StorageInv /\ RDS!Poll => StorageInv'
<1>. SUFFICES ASSUME StorageBounds, StorageInv, RDS!Poll PROVE StorageInv'
  OBVIOUS
<1>. USE DEF StorageBounds, StorageInv, RDS!Keys, RDS!Idle, RDS!At, RDS!Fault, RDS!record, RDS!finish,
             RDS!world, RDS!stable, RDS!TypeOK, RDS!Entry, StorageCallsInv
<1>1. call \in StorageCalls /\ call.pc = "poll" /\ call.key \in RDS!Keys /\ UNCHANGED <<RDS!world, RDS!stable>> /\ cloud \in StorageLives
  BY DEF RDS!Poll, StorageCalls, StorageLives
<1>2. RDS!stageOf(call.key, cloud) = "done" => StorageQuiet(cloud)
  BY <1>1, DoneIsQuiet
<1>3. PICK s \in {"failed", "done", "in-flight"} :
         RDS!finish(s) /\ (s = "done" => StorageQuiet(cloud)) /\ (UNCHANGED faults \/ RDS!Fault)
  BY <1>2 DEF RDS!Poll
<1>4. RDS!TypeOK' /\ StorageCallsInv'
  BY <1>1, <1>3
<1>5. StorageOnceInv'
  BY <1>1, <1>3 DEF StorageOnceInv
<1>6. StorageBooksInv'
  BY <1>1, <1>3 DEF StorageBooksInv, StorageQuiet
<1>. QED
  BY <1>4, <1>5, <1>6

\* RDS applies what it accepted.
LEMMA StorageAdvancesKeeps == StorageBounds /\ StorageInv /\ RDS!Advances => StorageInv'
<1>. SUFFICES ASSUME StorageBounds, StorageInv, RDS!Advances PROVE StorageInv'
  OBVIOUS
<1>. USE DEF StorageBounds, StorageInv, RDS!Keys, RDS!Idle, RDS!At, RDS!Fault, RDS!record, RDS!finish,
             RDS!world, RDS!stable, RDS!TypeOK, RDS!Entry, StorageCallsInv
<1>1. UNCHANGED <<ledger, RDS!stable, call, faults, sent, touched>> /\ cloud \in StorageLives
  BY DEF RDS!Advances, StorageLives
<1>2. CASE /\ cloud.status = "available" /\ cloud.pending # 0
           /\ cloud' = [cloud EXCEPT !.status = "modifying"] /\ UNCHANGED running
  <2>1. cloud' \in StorageLives /\ cloud'.status = "modifying" /\ cloud'.pending = cloud.pending
        /\ cloud'.perf = cloud.perf
    BY <1>1, <1>2 DEF StorageLives
  <2>. QED
    BY <1>1, <1>2, <2>1 DEF StorageOnceInv, StorageBooksInv, StorageOpen, StorageQuiet, StorageLives
<1>3. CASE /\ cloud.status = "modifying"
           /\ cloud' = [cloud EXCEPT !.status = "optimizing", !.perf = cloud.pending, !.pending = 0]
           /\ UNCHANGED running
  <2>1. cloud' \in StorageLives /\ cloud'.status = "optimizing" /\ cloud'.pending = 0
        /\ cloud'.perf = cloud.pending
    BY <1>1, <1>3, LivesUpdate
  <2>. QED
    BY <1>1, <1>3, <2>1 DEF StorageOnceInv, StorageBooksInv, StorageOpen, StorageQuiet, StorageLives
<1>4. CASE /\ cloud.status = "optimizing"
           /\ cloud' = [cloud EXCEPT !.status = "available"] /\ running' = FALSE
  <2>1. cloud' \in StorageLives /\ cloud'.status = "available" /\ cloud'.pending = cloud.pending
        /\ cloud'.perf = cloud.perf
    BY <1>1, <1>4 DEF StorageLives
  <2>2. RDS!TypeOK' /\ StorageCallsInv'
    BY <1>1, <1>4, <2>1 DEF StorageLives
  <2>3. StorageOnceInv'
    BY <1>1, <1>4, <2>1 DEF StorageOnceInv, StorageOpen
  <2>4. StorageBooksInv'
    BY <1>1, <1>4, <2>1 DEF StorageBooksInv
  <2>. QED
    BY <2>2, <2>3, <2>4
<1>. QED
  BY <1>2, <1>3, <1>4 DEF RDS!Advances

\* A modification of long ago says nothing about this one.
LEMMA StorageAgesKeeps == StorageBounds /\ StorageInv /\ RDS!Ages => StorageInv'
<1>. SUFFICES ASSUME StorageBounds, StorageInv, RDS!Ages PROVE StorageInv'
  OBVIOUS
<1>. USE DEF StorageBounds, StorageInv, RDS!Keys, RDS!Idle, RDS!At, RDS!Fault, RDS!record, RDS!finish,
             RDS!world, RDS!stable, RDS!TypeOK, RDS!Entry, StorageCallsInv
<1>1. RDS!TypeOK' /\ StorageCallsInv'
  BY DEF StorageCalls, StorageLives, RDS!Levels, RDS!Ages
<1>2. StorageOnceInv'
  BY DEF StorageCalls, StorageLives, StorageOnceInv, StorageOpen, RDS!Ages
<1>3. StorageBooksInv'
  BY DEF StorageCalls, StorageLives, StorageBooksInv, StorageQuiet, RDS!Ages
<1>. QED
  BY <1>1, <1>2, <1>3

\* What somebody else modifies is on record; another change leaves the storage alone.
LEMMA StorageOutsideKeeps == StorageBounds /\ StorageInv /\ RDS!Outside => StorageInv'
<1>. SUFFICES ASSUME StorageBounds, StorageInv, RDS!Outside PROVE StorageInv'
  OBVIOUS
<1>. USE DEF StorageBounds, StorageInv, RDS!Keys, RDS!Idle, RDS!At, RDS!Fault, RDS!record, RDS!finish,
             RDS!world, RDS!stable, RDS!TypeOK, RDS!Entry, StorageCallsInv
<1>1. UNCHANGED <<ledger, RDS!stable, call, sent>> /\ cloud \in StorageLives
      /\ faults' \in [own : 0..FaultsOf["rds"], outside : 0..MaxOutside]
  <2>1. /\ UNCHANGED <<ledger, RDS!stable, call, sent>>
        /\ faults.outside < MaxOutside /\ faults' = [faults EXCEPT !.outside = @ + 1]
    BY DEF RDS!Outside
  <2>2. faults.outside + 1 \in 0..MaxOutside
    BY <2>1
  <2>. QED
    BY <2>1, <2>2 DEF StorageLives
<1>2. CASE /\ RDS!Accepts /\ touched' = TRUE /\ UNCHANGED running
           /\ \E p \in RDS!Levels \ {0, cloud.perf} :
                cloud' = [cloud EXCEPT !.pending = p, !.used = @ + 1]
  <2>1. PICK p \in RDS!Levels \ {0} : cloud' = [cloud EXCEPT !.pending = p, !.used = @ + 1]
    BY <1>2
  <2>2. cloud' \in StorageLives /\ cloud'.pending # 0
    <3>1. cloud.used + 1 \in 0..Quota /\ p \in RDS!Levels /\ p # 0
      BY <1>1, <1>2, <2>1 DEF StorageLives, RDS!Accepts
    <3>. QED
      BY <1>1, <2>1, <3>1, LivesUpdate
  <2>. QED
    BY <1>1, <1>2, <2>2 DEF StorageOnceInv, StorageBooksInv, StorageQuiet, StorageLives
<1>3. CASE /\ \E b \in {"none", "mode-off", "identity", "envelope"} \ {cloud.bar} :
                cloud' = [cloud EXCEPT !.bar = b]
           /\ UNCHANGED <<running, touched>>
  <2>1. cloud' \in StorageLives /\ cloud'.status = cloud.status /\ cloud'.pending = cloud.pending
        /\ cloud'.perf = cloud.perf
    BY <1>1, <1>3 DEF StorageLives
  <2>. QED
    BY <1>1, <1>3, <2>1 DEF StorageOnceInv, StorageBooksInv, StorageOpen, StorageQuiet, StorageLives
<1>4. CASE cloud' = [cloud EXCEPT !.found = FALSE] /\ running' = FALSE /\ UNCHANGED touched
  <2>1. cloud' \in StorageLives /\ cloud'.status = cloud.status /\ cloud'.pending = cloud.pending
        /\ cloud'.perf = cloud.perf
    BY <1>1, <1>4 DEF StorageLives
  <2>. QED
    BY <1>1, <1>4, <2>1 DEF StorageOnceInv, StorageBooksInv, StorageOpen, StorageQuiet, StorageLives
<1>. QED
  BY <1>2, <1>3, <1>4 DEF RDS!Outside

\* An approval lapses.
LEMMA StorageLapseKeeps == StorageBounds /\ StorageInv /\ RDS!Lapse => StorageInv'
<1>. SUFFICES ASSUME StorageBounds, StorageInv, RDS!Lapse PROVE StorageInv'
  OBVIOUS
<1>. USE DEF StorageBounds, StorageInv, RDS!Keys, RDS!Idle, RDS!At, RDS!Fault, RDS!record, RDS!finish,
             RDS!world, RDS!stable, RDS!TypeOK, RDS!Entry, StorageCallsInv
<1>1. RDS!TypeOK' /\ StorageCallsInv'
  BY DEF StorageCalls, StorageLives, RDS!Levels, RDS!Lapse
<1>2. StorageOnceInv'
  BY DEF StorageCalls, StorageLives, StorageOnceInv, StorageOpen, RDS!Lapse
<1>3. StorageBooksInv'
  BY DEF StorageCalls, StorageLives, StorageBooksInv, StorageQuiet, RDS!Lapse
<1>. QED
  BY <1>1, <1>2, <1>3

\* A process that starts again has what was written.
LEMMA StorageRestartKeeps == StorageBounds /\ StorageInv /\ RDS!Restart => StorageInv'
<1>. SUFFICES ASSUME StorageBounds, StorageInv, RDS!Restart PROVE StorageInv'
  OBVIOUS
<1>. USE DEF StorageBounds, StorageInv, RDS!Keys, RDS!Idle, RDS!At, RDS!Fault, RDS!record, RDS!finish,
             RDS!world, RDS!stable, RDS!TypeOK, RDS!Entry, StorageCallsInv
<1>1. RDS!TypeOK' /\ StorageCallsInv'
  BY DEF StorageCalls, StorageLives, RDS!Levels, RDS!Restart
<1>2. StorageOnceInv'
  BY DEF StorageCalls, StorageLives, StorageOnceInv, StorageOpen, RDS!Restart
<1>3. StorageBooksInv'
  BY DEF StorageCalls, StorageLives, StorageBooksInv, StorageQuiet, RDS!Restart
<1>. QED
  BY <1>1, <1>2, <1>3

\* Every step keeps it.
LEMMA StorageNext == StorageBounds /\ StorageInv /\ [RDS!Next]_RDS!vars => StorageInv'
<1>1. ASSUME StorageInv, UNCHANGED RDS!vars PROVE StorageInv'
  BY <1>1 DEF StorageInv, RDS!TypeOK, StorageCallsInv, StorageOnceInv, StorageBooksInv, StorageOpen,
     StorageQuiet, RDS!vars
<1>. QED
  BY <1>1, StorageBeginKeeps, StorageReadFailsKeeps, StorageDescribeKeeps, StoragePreflightKeeps,
     StorageMutateKeeps, StorageModifyStorageKeeps,
     StorageModifyFailsKeeps, StoragePollKeeps, StorageAdvancesKeeps, StorageAgesKeeps, StorageOutsideKeeps, StorageLapseKeeps, StorageRestartKeeps
  DEF RDS!Next

\* IssuedOnce is a part of it.
LEMMA StorageIssuedOnce == StorageInv => RDS!IssuedOnce
BY DEF StorageInv, StorageOnceInv, RDS!IssuedOnce

\* What the books count is what the controller is told to come back to.
LEMMA StorageIsUnsettled == StorageInv => RDS!IssuedIsUnsettled
<1>. SUFFICES ASSUME StorageInv, running
              PROVE  /\ ~RDS!Settled(disk["do"])
                     /\ call = RDS!Idle => ~RDS!Settled(ledger["do"]) \/ ledger["do"].status = "dry-run"
  BY DEF RDS!IssuedIsUnsettled
<1>. QED
  BY DEF StorageInv, StorageBooksInv, RDS!TypeOK, RDS!Settled, RDS!Entry, RDS!Keys

(* ---- Approval: only what a person signed is executed ---- *)

\* The size of a set is the same in the instance as here.
LEMMA SameCardinality == \A S : Sig!Cardinality(S) = Cardinality(S)
BY DEF Sig!Cardinality, Cardinality


\* The first M numbers of a set are at most M: all but the greatest of them are below it.
LEMMA FirstAreFew ==
  ASSUME NEW n \in Nat, NEW P \in SUBSET (1..n), NEW M \in Nat,
         NEW C, C = {i \in P : Cardinality({j \in P : j < i}) < M}
  PROVE  IsFiniteSet(C) /\ Cardinality(C) <= M
<1>1. C \subseteq 1..n /\ IsFiniteSet(C)
  <2>1. IsFiniteSet(1..n)
    BY FS_Interval
  <2>2. C \in SUBSET (1..n)
    OBVIOUS
  <2>. QED
    BY <2>1, <2>2, FS_Subset
<1>2. CASE C = {}
  <2>1. Cardinality(C) = 0
    BY <1>2, FS_EmptySet
  <2>. QED
    BY <1>1, <2>1
<1>3. CASE C # {}
  <2>. DEFINE Mirror == {k \in Nat : \E i \in C : i + k = n}
  <2>1. \A i \in C : i \in Nat /\ n - i \in Mirror /\ i \in 1..n
    BY <1>1
  <2>2. Mirror \in SUBSET Nat /\ Mirror # {}
    BY <1>3, <2>1
  <2>3. PICK v \in Mirror : \A w \in Mirror : v <= w
    <3>. HIDE DEF Mirror
    <3>. QED
      BY <2>2, ASG!Least
  <2>4. PICK m \in C : m + v = n
    BY <2>3
  <2>5. \A i \in C : i <= m
    <3>. SUFFICES ASSUME NEW i \in C PROVE i <= m
      OBVIOUS
    <3>1. v <= n - i /\ v \in Nat
      BY <2>1, <2>3
    <3>. QED
      BY <2>1, <2>4, <3>1
  <2>. DEFINE B == {j \in P : j < m}
  <2>6. IsFiniteSet(B) /\ Cardinality(B) < M
    <3>1. B \subseteq 1..n
      OBVIOUS
    <3>2. IsFiniteSet(B)
      BY <3>1, FS_Interval, FS_Subset
    <3>. QED
      BY <3>2
  <2>7. C \ {m} \subseteq B
    <3>. SUFFICES ASSUME NEW i \in C, i # m PROVE i \in P /\ i < m
      OBVIOUS
    <3>1. i <= m /\ i \in Nat /\ m \in Nat
      BY <2>1, <2>5
    <3>. QED
      BY <3>1
  <2>8. Cardinality(C \ {m}) <= Cardinality(B)
    <3>. HIDE DEF B
    <3>. QED
      BY <2>6, <2>7, FS_Subset
  <2>9. Cardinality(C \ {m}) = Cardinality(C) - 1 /\ Cardinality(C) \in Nat /\ Cardinality(B) \in Nat
    BY <1>1, <2>6, FS_RemoveElement, FS_CardinalityType
  <2>. QED
    BY <1>1, <2>6, <2>8, <2>9
<1>. QED
  BY <1>2, <1>3

\* A plan covers at most as many contents as it has steps.
LEMMA CoversFew ==
  ASSUME NEW plan \in Plans
  PROVE  LET K == {plan[i] : i \in DOMAIN plan}
         IN  K \subseteq Sig!Contents /\ Cardinality(K) <= Cardinality(DOMAIN plan)
             /\ IsFiniteSet(DOMAIN plan) /\ IsFiniteSet(K)
<1>. DEFINE K == {plan[i] : i \in DOMAIN plan}
<1>1. PICK I \in SUBSET DOMAIN Parts : plan \in [I -> Sig!Contents]
  BY DEF Plans
<1>2. IsFiniteSet(I) /\ DOMAIN plan = I
  <2>1. I \subseteq 1..Len(Parts) /\ Len(Parts) \in Int
    BY Bounded
  <2>2. IsFiniteSet(1..Len(Parts)) /\ I \in SUBSET (1..Len(Parts))
    BY <2>1, FS_Interval
  <2>. QED
    BY <1>1, <2>2, FS_Subset
<1>3. K \subseteq Sig!Contents /\ plan \in Surjection(I, K)
  BY <1>1 DEF Surjection
<1>. HIDE DEF K
<1>4. Cardinality(K) <= Cardinality(I) /\ IsFiniteSet(K)
  BY <1>2, <1>3, FS_Surjection
<1>. QED
  BY <1>2, <1>3, <1>4 DEF K

\* No plan is offered and nothing is signed.
LEMMA SigInit == Sig!Init => SigInv
<1>. SUFFICES ASSUME Sig!Init PROVE SigInv
  OBVIOUS
<1>1. <<>> \in Plans /\ DOMAIN <<>> = {}
  <2>1. <<>> \in [{} -> Sig!Contents] /\ {} \in SUBSET DOMAIN Parts
    OBVIOUS
  <2>. QED
    BY <2>1 DEF Plans
<1>2. Cardinality({}) = 0 /\ MaxSteps \in Nat /\ MaxDrift \in Nat
  BY FS_EmptySet, Bounded
<1>3. offer = <<>> /\ token = [fingerprint |-> <<>>, seen |-> {}, expired |-> FALSE]
      /\ approval = [keys |-> {}, seen |-> {}, expired |-> FALSE] /\ acted = {}
  BY DEF Sig!Init, Sig!Unsigned, Sig!Unbound
<1>4. OfferInv /\ SeenInv /\ CoverInv
  BY <1>1, <1>2, <1>3 DEF OfferInv, SeenInv, CoverInv
<1>5. live \in [Sig!Names -> 0..MaxDrift] /\ withheld = {} /\ blind = {} /\ frozen = FALSE
  BY <1>2 DEF Sig!Init
<1>6. Sig!TypeOK
  BY <1>1, <1>3, <1>5 DEF Sig!TypeOK, Plans
<1>. QED
  BY <1>4, <1>6 DEF SigInv

\* Every step of the approval path keeps SigInv.
LEMMA SigNext == SigInv /\ [Sig!Next]_(Sig!vars) => SigInv'
<1>. SUFFICES ASSUME SigInv, [Sig!Next]_(Sig!vars) PROVE SigInv'
  OBVIOUS
<1>. USE DEF Sig!outside
<1>0. /\ Sig!TypeOK /\ OfferInv /\ SeenInv /\ CoverInv
      /\ MaxSteps \in Nat /\ MaxDrift \in Nat
      /\ live \in [Sig!Names -> 0..MaxDrift]
  BY Bounded DEF SigInv, Sig!TypeOK
<1>1. CASE Sig!BuildPlan
  <2>. DEFINE I == IF Sig!ReportOnly \/ frozen THEN {} ELSE Sig!Capped
  <2>1. offer' = [i \in I |-> <<Parts[i], live[Parts[i]]>>]
        /\ UNCHANGED <<live, withheld, blind, frozen, token, approval, acted>>
    BY <1>1 DEF Sig!BuildPlan
  <2>2. Sig!Capped \subseteq DOMAIN Parts /\ Cardinality(Sig!Capped) <= MaxSteps
    <3>1. Sig!Proposed \subseteq 1..Len(Parts) /\ Len(Parts) \in Nat
      BY Bounded DEF Sig!Proposed
    <3>2. Sig!Capped = {i \in Sig!Proposed : Cardinality({j \in Sig!Proposed : j < i}) < MaxSteps}
      BY SameCardinality DEF Sig!Capped
    <3>. QED
      BY <1>0, <3>1, <3>2, FirstAreFew, Bounded
  <2>3. I \subseteq DOMAIN Parts /\ Cardinality(I) <= MaxSteps
    BY <1>0, <2>2, FS_EmptySet
  <2>4. \A i \in I : <<Parts[i], live[Parts[i]]>> \in Sig!Contents
    BY <1>0, <2>3 DEF Sig!Contents, Sig!Names
  <2>. HIDE DEF I
  <2>5. offer' \in Plans /\ DOMAIN offer' = I
    BY <2>1, <2>3, <2>4 DEF Plans
  <2>. QED
    BY <1>0, <2>1, <2>3, <2>5 DEF SigInv, Sig!TypeOK, OfferInv, SeenInv, CoverInv, Plans
<1>2. CASE Sig!Sign
  <2>1. Sig!Fingerprint(offer) = offer
    BY <1>0 DEF Sig!Fingerprint, Sig!Key, OfferInv, Plans
  <2>2. /\ token' = [fingerprint |-> offer, expired |-> FALSE, seen |-> {offer[i] : i \in DOMAIN offer}]
        /\ UNCHANGED <<live, withheld, blind, frozen, offer, approval, acted>>
    BY <1>2, <2>1 DEF Sig!Sign
  <2>3. {offer[i] : i \in DOMAIN offer} \subseteq Sig!Contents /\ offer \in Plans
    BY <1>0, CoversFew DEF OfferInv
  <2>4. SeenInv'
    BY <2>2, <2>3 DEF SeenInv
  <2>. QED
    BY <1>0, <2>2, <2>3, <2>4 DEF SigInv, Sig!TypeOK, OfferInv, CoverInv, Plans
<1>3. CASE Sig!NewApproval
  <2>1. Sig!Fingerprint(offer) = offer /\ offer \in Plans
    BY <1>0 DEF Sig!Fingerprint, Sig!Key, OfferInv, Plans
  <2>. DEFINE K == {offer[i] : i \in DOMAIN offer}
  <2>2. token.seen = K
    BY <1>0, <1>3, <2>1 DEF Sig!NewApproval, SeenInv
  <2>3. /\ approval' = [keys |-> K, seen |-> token.seen, expired |-> FALSE]
        /\ UNCHANGED <<live, withheld, blind, frozen, offer, token, acted>>
    BY <1>3 DEF Sig!NewApproval, Sig!Key
  <2>4. K \subseteq Sig!Contents /\ Cardinality(K) <= MaxSteps
    <3>1. K \subseteq Sig!Contents /\ Cardinality(K) <= Cardinality(DOMAIN offer) 
          /\ IsFiniteSet(DOMAIN offer) /\ IsFiniteSet(K)
      BY <2>1, CoversFew
    <3>. HIDE DEF K
    <3>. QED
      BY <1>0, <3>1, FS_CardinalityType DEF OfferInv
  <2>. HIDE DEF K
  <2>5. CoverInv'
    BY <2>2, <2>3, <2>4 DEF CoverInv
  <2>. QED
    BY <1>0, <2>3, <2>4, <2>5 DEF SigInv, Sig!TypeOK, OfferInv, SeenInv
<1>4. ASSUME NEW p \in Sig!Names, Sig!Drift(p) \/ Sig!Reassess(p) \/ Sig!Collect(p) PROVE SigInv'
  <2>1. UNCHANGED <<frozen, offer, token, approval, acted>>
    BY <1>4 DEF Sig!Drift, Sig!Reassess, Sig!Collect
  <2>2. withheld' \subseteq Sig!Names /\ blind' \subseteq Sig!Names
    BY <1>0, <1>4 DEF Sig!Drift, Sig!Reassess, Sig!Collect, Sig!TypeOK
  <2>3. live' \in [Sig!Names -> 0..MaxDrift]
    BY <1>0, <1>4 DEF Sig!Drift, Sig!Reassess, Sig!Collect
  <2>. QED
    BY <1>0, <2>1, <2>2, <2>3 DEF SigInv, Sig!TypeOK, OfferInv, SeenInv, CoverInv
<1>5. ASSUME NEW step \in Sig!Steps, Sig!Execute(step) \/ Sig!Revert(step) PROVE SigInv'
  <2>1. UNCHANGED <<live, withheld, blind, frozen, offer, token, approval>>
    BY <1>5 DEF Sig!Execute, Sig!Revert
  <2>2. acted' \subseteq Sig!Contents
    BY <1>0, <1>5 DEF Sig!Execute, Sig!Revert, Sig!Steps, Sig!TypeOK
  <2>. QED
    BY <1>0, <2>1, <2>2 DEF SigInv, Sig!TypeOK, OfferInv, SeenInv, CoverInv
<1>6. CASE Sig!Guardrail
  BY <1>0, <1>6 DEF Sig!Guardrail, SigInv, Sig!TypeOK, OfferInv, SeenInv, CoverInv
<1>7. CASE Sig!Lapse
  <2>1. token' = [token EXCEPT !.expired = TRUE] /\ \E b \in BOOLEAN : approval' = [approval EXCEPT !.expired = b]
        /\ UNCHANGED <<live, withheld, blind, frozen, offer, acted>>
    BY <1>7 DEF Sig!Lapse
  <2>2. SeenInv' /\ token'.fingerprint = token.fingerprint
    BY <1>0, <2>1 DEF SeenInv
  <2>3. CoverInv' /\ approval'.keys = approval.keys
    BY <1>0, <2>1 DEF CoverInv
  <2>. QED
    BY <1>0, <2>1, <2>2, <2>3 DEF SigInv, Sig!TypeOK, OfferInv
<1>8. CASE Sig!Restart
  <2>1. approval' = [keys |-> {}, seen |-> {}, expired |-> FALSE]
        /\ UNCHANGED <<live, withheld, blind, frozen, offer, token, acted>>
    BY <1>8 DEF Sig!Restart, Sig!Unbound
  <2>2. CoverInv'
    BY <1>0, <2>1, FS_EmptySet DEF CoverInv
  <2>. QED
    BY <1>0, <2>1, <2>2 DEF SigInv, Sig!TypeOK, OfferInv, SeenInv
<1>9. CASE UNCHANGED Sig!vars
  BY <1>0, <1>9 DEF Sig!vars, SigInv, Sig!TypeOK, OfferInv, SeenInv, CoverInv
<1>. QED
  BY <1>1, <1>2, <1>3, <1>4, <1>5, <1>6, <1>7, <1>8, <1>9 DEF Sig!Next

\* What is executed is covered by an approval of what a person saw.
LEMMA SigActs == SigInv /\ [Sig!Next]_(Sig!vars) => Sig!ActsAsApproved
<1>. SUFFICES ASSUME SigInv, [Sig!Next]_(Sig!vars), NEW c \in acted' \ acted
              PROVE  /\ c \in approval.seen /\ Cardinality(approval.keys) <= MaxSteps
                     /\ ~approval.expired /\ ~frozen
  BY SameCardinality DEF Sig!ActsAsApproved
<1>1. PICK step \in Sig!Steps : Sig!Execute(step)
  BY DEF Sig!Next, Sig!BuildPlan, Sig!Sign, Sig!NewApproval, Sig!Guardrail, Sig!Lapse, Sig!Restart,
     Sig!Drift, Sig!Reassess, Sig!Collect, Sig!Revert, Sig!vars
<1>2. c = step.is /\ step.is \in approval.keys /\ ~approval.expired /\ ~frozen
  BY <1>1 DEF Sig!Execute, Sig!Authorize, Sig!Honest, Sig!Key
<1>. QED
  BY <1>2 DEF SigInv, CoverInv

(* ---- Proposals: what is applied was judged ---- *)

\* A record changes to one that loads again.
LEMMA PutKeeps ==
  ASSUME WhatIfInv, NEW p \in Processes, NEW id \in WhatIf!Ids, hands[p] # WhatIf!Closed,
         NEW r \in Records, WhatIf!Sound(id, r), WhatIf!Put(p, id, r),
         \A l \in landed' \ landed :
           WhatIf!Passed(l.id.spec) /\ l.by \in Humans /\ l.by # l.id.author /\ ~l.late
  PROVE  WhatIfInv'
<1>1. hands[p] \in Books /\ AllSound(hands[p])
  BY DEF WhatIfInv
<1>2. /\ hands' = [hands EXCEPT ![p] = [hands[p] EXCEPT ![id] = r]] /\ UNCHANGED <<book, hour>>
  BY DEF WhatIf!Put, WhatIfInv
<1>. DEFINE b == [hands[p] EXCEPT ![id] = r]
<1>3. b \in Books /\ \A o \in WhatIf!Ids : b[o] = IF o = id THEN r ELSE hands[p][o]
  BY <1>1 DEF Books
<1>4. AllSound(b)
  BY <1>1, <1>3 DEF AllSound
<1>. HIDE DEF b
<1>5. hands' \in [Processes -> {WhatIf!Closed} \cup Books]
      /\ \A q \in Processes : hands'[q] = IF q = p THEN b ELSE hands[q]
  BY <1>2, <1>3 DEF WhatIfInv, b
<1>6. \A q \in Processes : hands'[q] # WhatIf!Closed => AllSound(hands'[q])
  BY <1>4, <1>5 DEF WhatIfInv
<1>7. WhatIf!AppliedIsJustified'
  BY DEF WhatIfInv, WhatIf!AppliedIsJustified
<1>. QED
  BY <1>2, <1>5, <1>6, <1>7 DEF WhatIfInv, AllSound

\* An empty file, loaded by nobody.
LEMMA WhatIfInit == WhatIf!Init => WhatIfInv
<1>. SUFFICES ASSUME WhatIf!Init PROVE WhatIfInv
  OBVIOUS
<1>1. book \in Books /\ AllSound(book)
  BY DEF WhatIf!Init, Books, Records, AllSound, WhatIf!Sound, WhatIf!Absent
<1>. QED
  BY <1>1 DEF WhatIf!Init, WhatIfInv, WhatIf!AppliedIsJustified

\* An expired record loads again when the approved one did.
LEMMA ExpiryIsSound ==
  ASSUME NEW id \in WhatIf!Ids, NEW r \in Records, r.state = "approved", WhatIf!Sound(id, r)
  PROVE  /\ WhatIf!Expired(r) \in Records /\ WhatIf!Sound(id, WhatIf!Expired(r))
         /\ [r EXCEPT !.state = "applied"] \in Records
         /\ WhatIf!Sound(id, [r EXCEPT !.state = "applied"])
         /\ r.by \in Humans /\ r.by # id.author /\ WhatIf!Passed(id.spec) /\ r.expires \in Nat
         /\ WhatIf!Expired(r).state = "expired" /\ WhatIf!Expired(r) # WhatIf!Absent
<1>1. r \in [state : {"approved", "applied", "expired"}, created : Nat, by : Actors, expires : Nat]
  BY DEF Records, WhatIf!Absent
<1>2. r.by \in Humans /\ r.by # id.author /\ WhatIf!Passed(id.spec)
  BY DEF WhatIf!Sound
<1>3. ASSUME NEW s \in {"applied", "expired"}
      PROVE  /\ [r EXCEPT !.state = s] \in Records /\ [r EXCEPT !.state = s].state = s
             /\ [r EXCEPT !.state = s].by = r.by
  BY <1>1 DEF Records
<1>4. ASSUME NEW q, q.state \in {"applied", "expired"}, q.by = r.by PROVE WhatIf!Sound(id, q)
  BY <1>2, <1>4 DEF WhatIf!Sound
<1>. QED
  BY <1>1, <1>2, <1>3, <1>4 DEF WhatIf!Expired, WhatIf!Absent

\* Every operation on the file or on a loaded store keeps WhatIfInv.
LEMMA WhatIfNext == WhatIfInv /\ [WhatIf!Next]_(WhatIf!vars) => WhatIfInv'
<1>. SUFFICES ASSUME WhatIfInv, [WhatIf!Next]_(WhatIf!vars) PROVE WhatIfInv'
  OBVIOUS
<1>1. CASE WhatIf!Tick
  BY <1>1 DEF WhatIf!Tick, WhatIfInv, WhatIf!AppliedIsJustified, AllSound
<1>2. ASSUME NEW p \in Processes, WhatIf!Load(p) PROVE WhatIfInv'
  <2>1. hands' = [hands EXCEPT ![p] = book] /\ UNCHANGED <<book, hour, landed>>
    BY <1>2 DEF WhatIf!Load
  <2>2. hands' \in [Processes -> {WhatIf!Closed} \cup Books]
        /\ \A q \in Processes : hands'[q] = IF q = p THEN book ELSE hands[q]
    BY <2>1 DEF WhatIfInv
  <2>. QED
    BY <2>1, <2>2 DEF WhatIfInv, WhatIf!AppliedIsJustified, AllSound
<1>3. ASSUME NEW p \in Processes, WhatIf!Save(p) PROVE WhatIfInv'
  BY <1>3 DEF WhatIf!Save, WhatIfInv, WhatIf!AppliedIsJustified, AllSound
<1>4. ASSUME NEW p \in Processes, WhatIf!Exit(p) PROVE WhatIfInv'
  <2>1. hands' = [hands EXCEPT ![p] = WhatIf!Closed] /\ UNCHANGED <<book, hour, landed>>
    BY <1>4 DEF WhatIf!Exit
  <2>2. hands' \in [Processes -> {WhatIf!Closed} \cup Books]
        /\ \A q \in Processes : hands'[q] = IF q = p THEN WhatIf!Closed ELSE hands[q]
    BY <2>1 DEF WhatIfInv
  <2>. QED
    BY <2>1, <2>2 DEF WhatIfInv, WhatIf!AppliedIsJustified, AllSound
<1>5. ASSUME NEW p \in Processes, WhatIf!Sweep(p) PROVE WhatIfInv'
  <2>. DEFINE b == [id \in WhatIf!Ids |->
                      IF hands[p][id].state = "approved" /\ ~WhatIf!Live(hands[p][id])
                      THEN WhatIf!Expired(hands[p][id]) ELSE hands[p][id]]
  <2>1. hands[p] \in Books /\ AllSound(hands[p])
    BY <1>5 DEF WhatIf!Sweep, WhatIfInv
  <2>2. hands' = [hands EXCEPT ![p] = b] /\ UNCHANGED <<book, hour, landed>>
    BY <1>5 DEF WhatIf!Sweep, WhatIfInv
  <2>3. \A id \in WhatIf!Ids : b[id] \in Records /\ WhatIf!Sound(id, b[id])
    <3>. TAKE id \in WhatIf!Ids
    <3>1. hands[p][id] \in Records /\ WhatIf!Sound(id, hands[p][id])
      BY <2>1 DEF Books, AllSound
    <3>2. CASE hands[p][id].state = "approved" /\ ~WhatIf!Live(hands[p][id])
      <4>1. b[id] = WhatIf!Expired(hands[p][id])
        BY <3>2
      <4>. QED
        BY <3>1, <3>2, <4>1, ExpiryIsSound
    <3>3. CASE ~(hands[p][id].state = "approved" /\ ~WhatIf!Live(hands[p][id]))
      BY <3>1, <3>3
    <3>. QED
      BY <3>2, <3>3
  <2>4. b \in Books /\ AllSound(b)
    BY <2>3 DEF Books, AllSound
  <2>. HIDE DEF b
  <2>5. hands' \in [Processes -> {WhatIf!Closed} \cup Books]
        /\ \A q \in Processes : hands'[q] = IF q = p THEN b ELSE hands[q]
    BY <2>2, <2>4 DEF WhatIfInv
  <2>. QED
    BY <2>2, <2>4, <2>5 DEF WhatIfInv, WhatIf!AppliedIsJustified, AllSound
<1>6. ASSUME NEW p \in Processes, NEW id \in WhatIf!Ids, WhatIf!Create(p, id) PROVE WhatIfInv'
  <2>. DEFINE r == WhatIf!Filed(id)
  <2>1. r \in Records /\ WhatIf!Sound(id, r)
    <3>1. hour \in Nat
      BY DEF WhatIfInv
    <3>2. r \in [state : {"gated", "rejected"}, created : Nat]
          /\ (r.state = "gated" => WhatIf!Passed(id.spec))
      BY <3>1 DEF WhatIf!Filed
    <3>. HIDE DEF r
    <3>. QED
      BY <3>2 DEF Records, WhatIf!Sound
  <2>. HIDE DEF r
  <2>2. hands[p] \in Books /\ AllSound(hands[p]) /\ hands[p] # WhatIf!Closed /\ UNCHANGED landed
    BY <1>6 DEF WhatIf!Create, WhatIfInv
  <2>3. CASE WhatIf!Put(p, id, r)
    BY <2>1, <2>2, <2>3, PutKeeps
  <2>4. ASSUME NEW old \in WhatIf!Ids, UNCHANGED <<book, hour>>,
               hands' = [hands EXCEPT ![p] = [@ EXCEPT ![old] = WhatIf!Absent, ![id] = r]]
        PROVE  WhatIfInv'
    <3>. DEFINE b == [hands[p] EXCEPT ![old] = WhatIf!Absent, ![id] = r]
    <3>1. WhatIf!Absent \in Records /\ WhatIf!Sound(old, WhatIf!Absent)
      BY DEF Records, WhatIf!Sound, WhatIf!Absent
    <3>2. b \in Books /\ \A o \in WhatIf!Ids :
             b[o] = IF o = id THEN r ELSE IF o = old THEN WhatIf!Absent ELSE hands[p][o]
      BY <2>1, <2>2, <3>1 DEF Books
    <3>3. hands' = [hands EXCEPT ![p] = b]
      BY <2>4 DEF WhatIfInv
    <3>. HIDE DEF b
    <3>4. AllSound(b)
      BY <2>1, <2>2, <3>1, <3>2 DEF AllSound
    <3>5. hands' \in [Processes -> {WhatIf!Closed} \cup Books]
          /\ \A q \in Processes : hands'[q] = IF q = p THEN b ELSE hands[q]
      BY <3>2, <3>3 DEF WhatIfInv
    <3>. QED
      BY <2>2, <2>4, <3>4, <3>5 DEF WhatIfInv, WhatIf!AppliedIsJustified, AllSound
  <2>5. WhatIf!Evictable(p) \subseteq WhatIf!Ids
    BY DEF WhatIf!Evictable, WhatIf!Oldest, WhatIf!Held
  <2>. QED
    BY <1>6, <2>3, <2>4, <2>5 DEF WhatIf!Create, r
<1>7. ASSUME NEW p \in Processes, NEW id \in WhatIf!Ids, WhatIf!Reject(p, id) PROVE WhatIfInv'
  <2>1. hands[p] \in Books /\ hands[p] # WhatIf!Closed /\ UNCHANGED landed
    BY <1>7 DEF WhatIf!Reject, WhatIfInv
  <2>2. hands[p][id] \in Records /\ hands[p][id].state # "absent"
    BY <1>7, <2>1 DEF WhatIf!Reject, Books, WhatIf!Edges
  <2>3. hands[p][id].created \in Nat
    BY <2>2 DEF Records, WhatIf!Absent
  <2>. DEFINE r == [state |-> "rejected", created |-> hands[p][id].created]
  <2>4. r \in Records /\ WhatIf!Sound(id, r)
    BY <2>3 DEF Records, WhatIf!Sound
  <2>5. WhatIf!Put(p, id, r)
    BY <1>7 DEF WhatIf!Reject
  <2>. HIDE DEF r
  <2>. QED
    BY <2>1, <2>4, <2>5, PutKeeps
<1>8. ASSUME NEW p \in Processes, NEW id \in WhatIf!Ids, NEW a \in Actors, WhatIf!Approve(p, a, id)
      PROVE  WhatIfInv'
  <2>1. hands[p] \in Books /\ hands[p] # WhatIf!Closed /\ UNCHANGED landed /\ hour \in Nat /\ TTL \in Nat
    BY <1>8, Bounded DEF WhatIf!Approve, WhatIfInv
  <2>2. hands[p][id] \in Records /\ hands[p][id].state = "gated"
    BY <1>8, <2>1 DEF WhatIf!Approve, Books
  <2>3. hands[p][id].created \in Nat
    BY <2>2 DEF Records, WhatIf!Absent
  <2>. DEFINE r == [state |-> "approved", created |-> hands[p][id].created,
                    by |-> a, expires |-> hour + TTL]
  <2>4. r \in Records /\ WhatIf!Sound(id, r)
    BY <1>8, <2>1, <2>3 DEF Records, WhatIf!Sound, WhatIf!Approve
  <2>5. WhatIf!Put(p, id, r)
    BY <1>8 DEF WhatIf!Approve
  <2>. HIDE DEF r
  <2>. QED
    BY <2>1, <2>4, <2>5, PutKeeps
<1>9. ASSUME NEW p \in Processes, NEW id \in WhatIf!Ids, WhatIf!MarkApplied(p, id) PROVE WhatIfInv'
  <2>. DEFINE r == hands[p][id]
  <2>1. hands[p] \in Books /\ hands[p] # WhatIf!Closed /\ hour \in Nat
    BY <1>9 DEF WhatIf!MarkApplied, WhatIfInv
  <2>2. r \in Records /\ r.state = "approved" /\ WhatIf!Sound(id, r)
    BY <1>9, <2>1 DEF WhatIf!MarkApplied, Books
  <2>3. CASE ~WhatIf!Live(r)
    <3>1. WhatIf!Put(p, id, WhatIf!Expired(r)) /\ UNCHANGED landed
      BY <1>9, <2>3 DEF WhatIf!MarkApplied
    <3>. HIDE DEF r
    <3>. QED
      BY <2>1, <2>2, <3>1, PutKeeps, ExpiryIsSound
  <2>4. CASE WhatIf!Live(r)
    <3>. DEFINE l == [id |-> id, by |-> r.by, late |-> hour > r.expires]
    <3>1. WhatIf!Put(p, id, [r EXCEPT !.state = "applied"]) /\ landed' = landed \cup {l}
      BY <1>9, <2>4 DEF WhatIf!MarkApplied
    <3>. HIDE DEF r
    <3>2. /\ r.by \in Humans /\ r.by # id.author /\ WhatIf!Passed(id.spec) /\ r.expires \in Nat
          /\ [r EXCEPT !.state = "applied"] \in Records
          /\ WhatIf!Sound(id, [r EXCEPT !.state = "applied"])
      BY <2>2, ExpiryIsSound
    <3>3. ~(hour > r.expires)
      BY <2>1, <2>4, <3>2 DEF WhatIf!Live
    <3>4. l.id = id /\ l.by = r.by /\ ~l.late
      BY <3>3
    <3>. HIDE DEF l
    <3>5. \A x \in landed' \ landed :
            WhatIf!Passed(x.id.spec) /\ x.by \in Humans /\ x.by # x.id.author /\ ~x.late
      BY <3>1, <3>2, <3>4
    <3>. QED
      BY <2>1, <3>1, <3>2, <3>5, PutKeeps
  <2>. QED
    BY <2>3, <2>4
<1>10. CASE UNCHANGED WhatIf!vars
  BY <1>10 DEF WhatIf!vars, WhatIfInv, WhatIf!AppliedIsJustified, AllSound
<1>. QED
  BY <1>1, <1>2, <1>3, <1>4, <1>5, <1>6, <1>7, <1>8, <1>9, <1>10 DEF WhatIf!Next

\* Filing one record over another keeps what is pending when the edge is a legal one.
LEMMA PutKeepsPending ==
  ASSUME WhatIfInv, NEW p \in Processes, NEW id \in WhatIf!Ids, hands[p] # WhatIf!Closed,
         NEW r \in Records, r.state # "absent", WhatIf!Put(p, id, r),
         id \in WhatIf!Held(p) => <<hands[p][id].state, r.state>> \in WhatIf!Edges
  PROVE  WhatIf!KeepsPending
<1>. SUFFICES ASSUME NEW q \in Processes, NEW o \in WhatIf!Ids, hands[q] # WhatIf!Closed,
                     hands'[q] # WhatIf!Closed, o \in WhatIf!Held(q)
              PROVE  /\ hands'[q][o] # WhatIf!Absent
                     /\ \/ hands'[q][o].state = hands[q][o].state
                        \/ <<hands[q][o].state, hands'[q][o].state>> \in WhatIf!Edges
  BY DEF WhatIf!KeepsPending
<1>1. hands' = [hands EXCEPT ![p] = [hands[p] EXCEPT ![id] = r]] /\ hands[q] \in Books
  BY DEF WhatIf!Put, WhatIfInv
<1>2. hands[q][o] # WhatIf!Absent
  BY DEF WhatIf!Held
<1>3. r # WhatIf!Absent
  BY DEF WhatIf!Absent
<1>4. CASE q = p /\ o = id
  <2>1. hands'[q][o] = r
    BY <1>1, <1>4 DEF WhatIfInv, Books
  <2>. QED
    BY <1>3, <1>4, <2>1
<1>5. CASE ~(q = p /\ o = id)
  <2>1. hands'[q][o] = hands[q][o]
    BY <1>1, <1>5 DEF WhatIfInv, Books
  <2>. QED
    BY <1>2, <2>1
<1>. QED
  BY <1>4, <1>5

\* What a step replaces, in a store that is open before and after it, is the same record, a
\* terminal one that makes room, or goes along an edge.
LEMMA WhatIfKeeps ==
  WhatIfInv /\ [WhatIf!Next]_(WhatIf!vars) => WhatIf!KeepsPending
<1>. SUFFICES ASSUME WhatIfInv, [WhatIf!Next]_(WhatIf!vars) PROVE WhatIf!KeepsPending
  OBVIOUS
<1>1. ASSUME hands' = hands PROVE WhatIf!KeepsPending
  BY <1>1 DEF WhatIf!KeepsPending, WhatIf!Held
<1>2. ASSUME NEW p \in Processes, WhatIf!Load(p) \/ WhatIf!Exit(p) PROVE WhatIf!KeepsPending
  <2>1. \A q \in Processes : q # p => hands'[q] = hands[q]
    BY <1>2 DEF WhatIf!Load, WhatIf!Exit, WhatIfInv
  <2>2. hands[p] = WhatIf!Closed \/ hands'[p] = WhatIf!Closed
    BY <1>2 DEF WhatIf!Load, WhatIf!Exit, WhatIfInv
  <2>. QED
    BY <2>1, <2>2 DEF WhatIf!KeepsPending, WhatIf!Held
<1>3. ASSUME NEW p \in Processes, WhatIf!Sweep(p) PROVE WhatIf!KeepsPending
  <2>. SUFFICES ASSUME NEW q \in Processes, NEW o \in WhatIf!Ids, hands[q] # WhatIf!Closed,
                       o \in WhatIf!Held(q)
                PROVE  /\ hands'[q][o] # WhatIf!Absent
                       /\ \/ hands'[q][o].state = hands[q][o].state
                          \/ <<hands[q][o].state, hands'[q][o].state>> \in WhatIf!Edges
    BY DEF WhatIf!KeepsPending
  <2>1. hands[q] \in Books /\ AllSound(hands[q]) /\ hands[q][o] # WhatIf!Absent
    BY DEF WhatIfInv, WhatIf!Held
  <2>2. hands[q][o] \in Records /\ WhatIf!Sound(o, hands[q][o])
    BY <2>1 DEF Books, AllSound
  <2>3. \/ hands'[q][o] = hands[q][o]
        \/ hands[q][o].state = "approved" /\ hands'[q][o] = WhatIf!Expired(hands[q][o])
    BY <1>3 DEF WhatIf!Sweep, WhatIfInv
  <2>4. CASE hands'[q][o] = hands[q][o]
    BY <2>1, <2>4
  <2>5. CASE hands[q][o].state = "approved" /\ hands'[q][o] = WhatIf!Expired(hands[q][o])
    <3>1. WhatIf!Expired(hands[q][o]).state = "expired"
          /\ WhatIf!Expired(hands[q][o]) # WhatIf!Absent
      BY <2>2, <2>5, ExpiryIsSound
    <3>. QED
      BY <2>5, <3>1 DEF WhatIf!Edges
  <2>. QED
    BY <2>3, <2>4, <2>5
<1>4. ASSUME NEW p \in Processes, NEW id \in WhatIf!Ids, WhatIf!Create(p, id)
      PROVE  WhatIf!KeepsPending
  <2>. DEFINE r == WhatIf!Filed(id)
  <2>1. r \in Records /\ r.state # "absent"
    <3>1. hour \in Nat
      BY DEF WhatIfInv
    <3>2. r \in [state : {"gated", "rejected"}, created : Nat]
      BY <3>1 DEF WhatIf!Filed
    <3>. HIDE DEF r
    <3>. QED
      BY <3>2 DEF Records
  <2>2. hands[p] # WhatIf!Closed /\ id \notin WhatIf!Held(p)
    BY <1>4 DEF WhatIf!Create
  <2>3. CASE WhatIf!Put(p, id, r)
    <3>. HIDE DEF r
    <3>. QED
      BY <2>1, <2>2, <2>3, PutKeepsPending
  <2>4. ASSUME NEW old \in WhatIf!Evictable(p),
               hands' = [hands EXCEPT ![p] = [@ EXCEPT ![old] = WhatIf!Absent, ![id] = r]]
        PROVE  WhatIf!KeepsPending
    <3>. HIDE DEF r
    <3>. SUFFICES ASSUME NEW q \in Processes, NEW o \in WhatIf!Ids, hands[q] # WhatIf!Closed,
                         o \in WhatIf!Held(q)
                  PROVE  \/ hands'[q][o] = WhatIf!Absent /\ WhatIf!Terminal(hands[q][o])
                         \/ hands'[q][o] # WhatIf!Absent /\ hands'[q][o] = hands[q][o]
      BY DEF WhatIf!KeepsPending
    <3>1. hands[q] \in Books /\ hands[q][o] # WhatIf!Absent
      BY DEF WhatIfInv, WhatIf!Held
    <3>2. old \in WhatIf!Ids /\ WhatIf!Terminal(hands[p][old])
      BY DEF WhatIf!Evictable, WhatIf!Oldest, WhatIf!Held
    <3>3. CASE q = p /\ o = old
      <4>1. o # id
        BY <2>2, <3>3
      <4>2. hands'[q][o] = WhatIf!Absent
        BY <2>4, <3>1, <3>3, <4>1 DEF WhatIfInv, Books
      <4>. QED
        BY <3>2, <3>3, <4>2
    <3>4. CASE ~(q = p /\ o = old)
      <4>1. ~(q = p /\ o = id)
        BY <2>2
      <4>2. hands'[q][o] = hands[q][o]
        BY <2>4, <3>1, <3>4, <4>1 DEF WhatIfInv, Books
      <4>. QED
        BY <3>1, <4>2
    <3>. QED
      BY <3>3, <3>4
  <2>. QED
    BY <1>4, <2>3, <2>4 DEF WhatIf!Create
<1>5. ASSUME NEW p \in Processes, NEW id \in WhatIf!Ids, WhatIf!Reject(p, id)
      PROVE  WhatIf!KeepsPending
  <2>. DEFINE r == [state |-> "rejected", created |-> hands[p][id].created]
  <2>1. /\ WhatIf!Put(p, id, r) /\ hands[p] \in Books /\ hands[p] # WhatIf!Closed
        /\ <<hands[p][id].state, "rejected">> \in WhatIf!Edges
    BY <1>5 DEF WhatIf!Reject, WhatIfInv
  <2>2. hands[p][id] \in Records /\ hands[p][id].state # "absent"
    BY <2>1 DEF Books, WhatIf!Edges
  <2>3. hands[p][id].created \in Nat
    BY <2>2 DEF Records, WhatIf!Absent
  <2>4. r \in Records /\ r.state = "rejected"
    BY <2>3 DEF Records
  <2>. HIDE DEF r
  <2>. QED
    BY <2>1, <2>4, PutKeepsPending
<1>6. ASSUME NEW p \in Processes, NEW id \in WhatIf!Ids, NEW a \in Actors, WhatIf!Approve(p, a, id)
      PROVE  WhatIf!KeepsPending
  <2>. DEFINE r == [state |-> "approved", created |-> hands[p][id].created,
                    by |-> a, expires |-> hour + TTL]
  <2>1. /\ WhatIf!Put(p, id, r) /\ hands[p] \in Books /\ hands[p] # WhatIf!Closed
        /\ hands[p][id].state = "gated" /\ hour \in Nat /\ TTL \in Nat
    BY <1>6, Bounded DEF WhatIf!Approve, WhatIfInv
  <2>2. hands[p][id].created \in Nat
    BY <2>1 DEF Books, Records, WhatIf!Absent
  <2>3. r \in Records /\ r.state = "approved"
    BY <2>1, <2>2 DEF Records
  <2>. HIDE DEF r
  <2>4. <<hands[p][id].state, r.state>> \in WhatIf!Edges
    BY <2>1, <2>3 DEF WhatIf!Edges
  <2>. QED
    BY <2>1, <2>3, <2>4, PutKeepsPending
<1>7. ASSUME NEW p \in Processes, NEW id \in WhatIf!Ids, WhatIf!MarkApplied(p, id)
      PROVE  WhatIf!KeepsPending
  <2>. DEFINE r == hands[p][id]
  <2>1. /\ hands[p] # WhatIf!Closed /\ r \in Records /\ r.state = "approved"
        /\ WhatIf!Sound(id, r)
    BY <1>7 DEF WhatIf!MarkApplied, WhatIfInv, Books
  <2>2. \/ WhatIf!Put(p, id, WhatIf!Expired(r))
        \/ WhatIf!Put(p, id, [r EXCEPT !.state = "applied"])
    BY <1>7 DEF WhatIf!MarkApplied
  <2>. HIDE DEF r
  <2>3. /\ WhatIf!Expired(r) \in Records /\ WhatIf!Expired(r).state = "expired"
        /\ [r EXCEPT !.state = "applied"] \in Records
        /\ [r EXCEPT !.state = "applied"].state = "applied"
    <3>1. WhatIf!Expired(r) \in Records /\ WhatIf!Expired(r).state = "expired"
          /\ [r EXCEPT !.state = "applied"] \in Records
      BY <2>1, ExpiryIsSound
    <3>2. [r EXCEPT !.state = "applied"].state = "applied"
      BY <2>1 DEF Records, WhatIf!Absent
    <3>. QED
      BY <3>1, <3>2
  <2>4. <<r.state, "expired">> \in WhatIf!Edges /\ <<r.state, "applied">> \in WhatIf!Edges
    BY <2>1 DEF WhatIf!Edges
  <2>5. CASE WhatIf!Put(p, id, WhatIf!Expired(r))
    BY <2>1, <2>3, <2>4, <2>5, PutKeepsPending DEF r
  <2>6. CASE WhatIf!Put(p, id, [r EXCEPT !.state = "applied"])
    BY <2>1, <2>3, <2>4, <2>6, PutKeepsPending DEF r
  <2>. QED
    BY <2>2, <2>5, <2>6
<1>. QED
  BY <1>1, <1>2, <1>3, <1>4, <1>5, <1>6, <1>7
     DEF WhatIf!Next, WhatIf!vars, WhatIf!Tick, WhatIf!Save

(* ---- The properties ---- *)

\* Every machine starts in its invariant.
LEMMA CloudInit == Init => CloudInv
<1>. SUFFICES ASSUME Init PROVE CloudInv
  OBVIOUS
<1>1. which \in Systems
  BY DEF Init
<1>2. which = "ec2" => EC2!IInv /\ EC2!TypeOK
  BY EC2!InitInv, EC2!InitType, MachineBounds DEF Init
<1>3. which = "asg" => ASG!IInv
  BY ASG!InitInv, MachineBounds DEF Init
<1>4. which = "ebs" => VolumeInv
  BY VolumeInit DEF Init
<1>5. which = "rds" => StorageInv
  BY StorageInit, MachineBounds DEF Init
<1>6. which = "ecs" => ServiceInv
  BY ServiceInit DEF Init
<1>7. which = "sig" => SigInv
  BY SigInit DEF Init
<1>8. which = "whatif" => WhatIfInv
  BY WhatIfInit DEF Init
<1>. QED
  BY <1>1, <1>2, <1>3, <1>4, <1>5, <1>6, <1>7, <1>8 DEF CloudInv

\* And every step of a machine keeps it.
LEMMA CloudNext == CloudInv /\ [Next]_vars => CloudInv'
<1>. SUFFICES ASSUME CloudInv, [Next]_vars PROVE CloudInv'
  OBVIOUS
<1>1. which' = which /\ which \in Systems
  BY StepOfMachine DEF CloudInv
<1>2. which = "ec2" => (EC2!IInv /\ EC2!TypeOK)'
  BY StepOfMachine, EC2!NextInv, EC2!NextType, MachineBounds DEF CloudInv
<1>3. which = "asg" => ASG!IInv'
  BY StepOfMachine, ASG!NextInv, MachineBounds DEF CloudInv
<1>4. which = "ebs" => VolumeInv'
  BY StepOfMachine, VolumeNext DEF CloudInv
<1>5. which = "rds" => StorageInv'
  BY StepOfMachine, StorageNext, MachineBounds DEF CloudInv
<1>6. which = "ecs" => ServiceInv'
  BY StepOfMachine, ServiceNext DEF CloudInv
<1>7. which = "sig" => SigInv'
  BY StepOfMachine, SigNext DEF CloudInv
<1>8. which = "whatif" => WhatIfInv'
  BY StepOfMachine, WhatIfNext DEF CloudInv
<1>. QED
  BY <1>1, <1>2, <1>3, <1>4, <1>5, <1>6, <1>7, <1>8 DEF CloudInv

\* Whatever fails, CloudInv holds in every reachable state.
LEMMA Invariance == Spec => []CloudInv
BY CloudInit, CloudNext, PTL DEF Spec

\* Every machine is always in a state of its type.
THEOREM TypeCorrect == Spec => []TypeOK
<1>1. CloudInv => TypeOK
  BY DEF CloudInv, TypeOK, ASG!IInv, StorageInv, VolumeInv, ServiceInv, SigInv
<1>. QED
  BY <1>1, Invariance, PTL

\* Whatever call fails and wherever the process dies, an instance the EC2 actuator stopped is
\* held by an unsettled step, so that a resumed run starts it again.
THEOREM StoppedIsHeld == Spec => []NeverForgotten
<1>1. CloudInv => NeverForgotten
  BY DEF CloudInv, NeverForgotten, EC2!IInv
<1>. QED
  BY <1>1, Invariance, PTL

\* A storage modification RDS accepted is on record as unsettled until it is seen through.
THEOREM IssuedIsOnRecord == Spec => []IssuedIsUnsettled
<1>1. CloudInv => IssuedIsUnsettled
  BY StorageIsUnsettled DEF CloudInv, IssuedIsUnsettled
<1>. QED
  BY <1>1, Invariance, PTL

\* No fleet is refreshed twice, no modification issued twice and no service re-pointed twice,
\* whatever responses are lost and wherever the process dies.
THEOREM ActsAtMostOnce == Spec => []ActsOnce
<1>1. CloudInv => ActsOnce
  <2>1. CloudInv /\ which = "asg" => ASG!ChurnedOnce
    BY ASG!InvChurnedOnce, MachineBounds DEF CloudInv
  <2>2. CloudInv /\ which = "rds" => RDS!IssuedOnce
    BY StorageIssuedOnce DEF CloudInv
  <2>3. CloudInv /\ which = "ecs" => ECS!RolledOnce
    BY DEF CloudInv, ServiceInv, ECS!RolledOnce, ECS!TypeOK
  <2>. QED
    BY <2>1, <2>2, <2>3 DEF ActsOnce
<1>. QED
  BY <1>1, Invariance, PTL

\* A policy change that was let through as applied had passed the gate and was approved, in
\* time, by a person who did not write it, however many processes share the file.
THEOREM AppliedWasJustified == Spec => []AppliedIsJustified
<1>1. CloudInv => AppliedIsJustified
  BY DEF CloudInv, WhatIfInv, AppliedIsJustified
<1>. QED
  BY <1>1, Invariance, PTL

\* No sequence of filings, decisions, expiries and evictions leaves a file that the next
\* process refuses to load.
THEOREM BookAlwaysLoads == Spec => []BookLoads
<1>1. CloudInv => BookLoads
  BY DEF CloudInv, WhatIfInv, AllSound, BookLoads, WhatIf!BookLoads
<1>. QED
  BY <1>1, Invariance, PTL

\* A step is reported as done only when the fleet has migrated, or the volume is configured, as
\* it wanted, or somebody else has interfered.
THEOREM DoneWasTrue == Spec => DoneIsTrue
<1>1. CloudInv /\ [Next]_vars => [ReportsTheTruth]_vars
  <2>. SUFFICES ASSUME CloudInv, [Next]_vars PROVE ReportsTheTruth
    OBVIOUS
  <2>1. which = "asg" => ASG!ReportsMigrated
    BY StepOfMachine, ASG!StepReportsMigrated, MachineBounds DEF CloudInv
  <2>2. which = "ebs" => EBS!ReportsApplied
    BY StepOfMachine, VolumeReports DEF CloudInv
  <2>. QED
    BY <2>1, <2>2 DEF ReportsTheTruth
<1>. QED
  BY <1>1, Invariance, PTL DEF Spec, DoneIsTrue

\* What is executed is what a person signed: the approval is in force and covers exactly what
\* that person was shown.
THEOREM OnlyApproved == Spec => ApprovedOnly
<1>1. CloudInv /\ [Next]_vars => [which = "sig" => Sig!ActsAsApproved]_vars
  BY StepOfMachine, SigActs DEF CloudInv
<1>. QED
  BY <1>1, Invariance, PTL DEF Spec, ApprovedOnly

\* Room is made only by dropping what is decided, and no decided proposal is reopened.
THEOREM PendingWasKept == Spec => PendingIsKept
<1>1. CloudInv /\ [Next]_vars => [which = "whatif" => WhatIf!KeepsPending]_vars
  BY StepOfMachine, WhatIfKeeps DEF CloudInv
<1>. QED
  BY <1>1, Invariance, PTL DEF Spec, PendingIsKept

==============================================================================
