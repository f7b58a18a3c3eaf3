------------------------------ MODULE StopStart ------------------------------
(***************************************************************************)
(* The stop / modify / start machine that resizes one standalone EC2       *)
(* instance (pkg/ec2/actuate.go, actuate_instance.go), against an account  *)
(* with EC2's own state rules (actuate_fixture.go).                        *)
(*                                                                         *)
(* Every instance has one approved step, <<i, "do">>, from type "from" to  *)
(* type "to", and its inverse <<i, "undo">>, which Revert builds.  What    *)
(* the ledger remembers of a step is its status: the stage is read from    *)
(* the account on every entry.                                             *)
(***************************************************************************)
EXTENDS Naturals, FiniteSets

CONSTANTS Instances,       \* the instances of the approved plan
          MaxStageVisits,  \* how often one call accepts to see a stage
          MaxFaults,       \* bound: failed calls, crashes and outside changes
          Modes            \* the modes an actuator may be started in

VARIABLES cloud,    \* what the account holds: each instance's state and type
          ledger,   \* the actuator's ledger, in memory: the status of each key
          disk,     \* the ledger Persist wrote last
          call,     \* the call in progress, with its program counter
          mode,     \* the mode this process was started in
          lapsed,   \* the approval token has expired
          faults,   \* faults so far
          down,     \* history: instances this actuator stopped, not yet up again
          turned    \* history: of those, the ones a later call refused or previewed

vars == <<cloud, ledger, disk, call, mode, lapsed, faults, down, turned>>
world == <<cloud, down, turned>>
stable == <<disk, mode, lapsed>>

Keys == Instances \X {"do", "undo"}
Statuses == {"none", "open", "dry-run", "no-op", "done", "in-flight",
             "rolled-back", "refused", "failed"}
Stages == {"ready", "stopping", "stopped", "modified", "starting", "running",
           "gone", "unknown"}

Terminal(status) == status \in {"done", "no-op", "rolled-back"}

\* A mutant: a failed step counts as settled.
FailedIsSettled(status) == Terminal(status) \/ status \in {"dry-run", "refused", "failed"}

Settled(status) == Terminal(status) \/ status \in {"dry-run", "refused"}

\* Unsettled: the keys a restarted controller is told to resume.
Unsettled(l) == {k \in Keys : l[k] # "none" /\ ~Settled(l[k])}

FromType(k) == IF k[2] = "do" THEN "from" ELSE "to"
ToType(k) == IF k[2] = "do" THEN "to" ELSE "from"

(***************************************************************************)
(* stageOf: where a resize has got to, from the account alone.             *)
(***************************************************************************)
stageOf(k) ==
  LET live == cloud[k[1]] IN
  CASE live.state = "running" /\ live.type = ToType(k)   -> "running"
    [] live.state = "running" /\ live.type = FromType(k) -> "ready"
    [] live.state = "stopped" /\ live.type = ToType(k)   -> "modified"
    [] live.state = "stopped" /\ live.type = FromType(k) -> "stopped"
    [] live.state = "stopping"                           -> "stopping"
    [] live.state = "pending"                            -> "starting"
    [] live.state = "terminated"                         -> "gone"
    [] OTHER                                             -> "unknown"

Idle == [pc |-> "idle"]
Busy(k) == [pc |-> "read", key |-> k, stage |-> "unknown",
            visits |-> [s \in Stages |-> 0]]

Init ==
  /\ cloud = [i \in Instances |-> [state |-> "running", type |-> "from"]]
  /\ ledger = [k \in Keys |-> "none"]
  /\ disk = ledger
  /\ call = Idle
  /\ mode \in Modes
  /\ lapsed = FALSE
  /\ faults = 0
  /\ down = {} /\ turned = {}

Fault == faults < MaxFaults /\ faults' = faults + 1

At(pc) == call.pc = pc
Goto(pc, s) == call' = [call EXCEPT !.pc = pc, !.stage = s]

\* finish: the call returns and the entry keeps its status, in memory only.
finish(status) ==
  /\ ledger' = [ledger EXCEPT ![call.key] = status]
  /\ call' = Idle

\* A call that refuses or previews a step whose instance it had stopped.
Turn(i) == turned' = IF i \in down THEN turned \cup {i} ELSE turned

-----------------------------------------------------------------------------
(* Execute and Revert, up to the first read of the account. *)

\* The approval is re-checked against the clock; an undo is exempt.
TurnedAway(k) ==
  /\ At("idle") /\ ~Terminal(ledger[k])
  /\ lapsed /\ k[2] = "do"
  /\ ledger' = [ledger EXCEPT ![k] = "refused"]
  /\ Turn(k[1])
  /\ UNCHANGED <<cloud, stable, call, faults, down>>

Begin(k) ==
  /\ At("idle") /\ ~Terminal(ledger[k])
  /\ lapsed => k[2] = "undo"
  /\ ledger' = [ledger EXCEPT ![k] = IF @ = "none" THEN "open" ELSE @]
  /\ call' = Busy(k)
  /\ UNCHANGED <<world, stable, faults>>

ReadFails ==
  /\ call.pc \in {"read", "await", "rb-await"}
  /\ Fault
  /\ finish("failed")
  /\ UNCHANGED <<world, stable>>

(***************************************************************************)
(* executeInstance after the first read.  The gates run only for an        *)
(* instance that is still up: they pass, refuse or cannot be read.         *)
(***************************************************************************)
ReadRefuses ==
  /\ At("read")
  /\ stageOf(call.key) \in {"gone", "unknown"}
  /\ finish("refused") /\ Turn(call.key[1])
  /\ UNCHANGED <<cloud, stable, faults, down>>

ReadNoop ==
  /\ At("read")
  /\ stageOf(call.key) = "running"
  /\ finish("no-op")
  /\ UNCHANGED <<world, stable, faults>>

ReadGated ==
  /\ At("read")
  /\ stageOf(call.key) = "ready"
  /\ \/ finish("refused")
     \/ mode = "dry-run" /\ finish("dry-run")
     \/ mode = "apply" /\ Goto("drive", "ready") /\ UNCHANGED ledger
  /\ UNCHANGED <<world, stable, faults>>

ReadResumes ==
  /\ At("read")
  /\ stageOf(call.key) \in {"stopping", "stopped", "modified", "starting"}
  /\ \/ mode = "dry-run" /\ finish("dry-run") /\ Turn(call.key[1])
     \/ mode = "apply" /\ Goto("drive", stageOf(call.key)) /\ UNCHANGED <<ledger, turned>>
  /\ UNCHANGED <<cloud, stable, faults, down>>

-----------------------------------------------------------------------------
(* driveStopStart: one visit of the loop. *)

Seen == call.visits[call.stage] + 1

\* A mutant: the visit limit is off by one.
StuckLate == Seen > MaxStageVisits + 1

Stuck == Seen > MaxStageVisits

\* The loop gives up, is finished, or meets an instance that is not its own.
DriveEnds ==
  /\ At("drive")
  /\ \/ (Stuck \/ call.stage \in {"gone", "unknown"}) /\ finish("failed")
     \/ ~Stuck /\ call.stage = "running" /\ finish("done")
  /\ UNCHANGED <<world, stable, faults>>

DriveWaits ==
  /\ At("drive") /\ ~Stuck
  /\ call.stage \in {"stopping", "starting"}
  /\ call' = [call EXCEPT !.pc = "await", !.visits[call.stage] = Seen]
  /\ UNCHANGED <<world, ledger, stable, faults>>

\* A mutant: the entry is not persisted before the call.
MutateUnnoted(next) ==
  /\ ledger' = [ledger EXCEPT ![call.key] = "in-flight"]
  /\ call' = next
  /\ UNCHANGED <<disk, faults>>

(***************************************************************************)
(* mutate: the entry becomes in-flight and the whole ledger is persisted   *)
(* before the cloud call; a Persist that fails aborts the call.            *)
(***************************************************************************)
mutate(next) ==
  LET noted == [ledger EXCEPT ![call.key] = "in-flight"] IN
  \/ /\ ledger' = noted /\ disk' = noted
     /\ call' = next
     /\ UNCHANGED faults
  \/ /\ Fault
     /\ finish("failed")
     /\ UNCHANGED disk

DriveMutates ==
  /\ At("drive") /\ ~Stuck
  /\ call.stage \in {"ready", "stopped", "modified"}
  /\ mutate([call EXCEPT !.pc = "act", !.visits[call.stage] = Seen])
  /\ UNCHANGED <<world, mode, lapsed>>

-----------------------------------------------------------------------------
(* The account: what StopInstances, ModifyInstanceAttribute and            *)
(* StartInstances do, and the states they are refused in.                  *)

Accepts(op, live) ==
  CASE op = "stop"   -> live.state \in {"running", "stopping", "stopped"}
    [] op = "modify" -> live.state = "stopped"
    [] op = "start"  -> live.state \in {"stopped", "pending", "running"}

After(op, live, to) ==
  CASE op = "stop" /\ live.state = "running"  -> [live EXCEPT !.state = "stopping"]
    [] op = "start" /\ live.state = "stopped" -> [live EXCEPT !.state = "pending"]
    [] op = "modify"                          -> [live EXCEPT !.type = to]
    [] OTHER                                  -> live

\* The call's effect on the account.
Effect(op) ==
  LET i == call.key[1] IN
  /\ Accepts(op, cloud[i])
  /\ cloud' = [cloud EXCEPT ![i] = After(op, @, ToType(call.key))]
  /\ down' = IF op = "stop" /\ cloud[i].state = "running" THEN down \cup {i} ELSE down
  /\ UNCHANGED turned

\* The call succeeds; fails, before or after its effect; or is not accepted.
Succeeds(op) == Effect(op) /\ UNCHANGED faults
Errs(op) ==
  \/ Fault /\ (Effect(op) \/ UNCHANGED world)
  \/ ~Accepts(op, cloud[call.key[1]]) /\ UNCHANGED <<world, faults>>

Verb(s) == CASE s = "ready" -> "stop" [] s = "stopped" -> "modify" [] s = "modified" -> "start"
NextStage(s) ==
  CASE s = "ready" -> "stopping" [] s = "stopped" -> "modified" [] s = "modified" -> "starting"

ActSucceeds ==
  /\ At("act")
  /\ Succeeds(Verb(call.stage))
  /\ Goto("drive", NextStage(call.stage))
  /\ UNCHANGED <<ledger, stable>>

\* A failed modify rolls forward into a start; any other failure ends the call.
ActErrs ==
  /\ At("act")
  /\ Errs(Verb(call.stage))
  /\ IF call.stage = "stopped"
     THEN Goto("rollback", "stopped") /\ UNCHANGED ledger
     ELSE finish("failed")
  /\ UNCHANGED stable

-----------------------------------------------------------------------------
(* awaitSettled, from the loop and from rollback, and rollback itself. *)

\* The poll budget runs out with the instance still in transition.
PollTimeout ==
  /\ call.pc \in {"await", "rb-await"}
  /\ stageOf(call.key) \in {"stopping", "starting"}
  /\ finish("in-flight")
  /\ UNCHANGED <<world, stable, faults>>

PollSettles ==
  /\ At("await")
  /\ stageOf(call.key) \notin {"stopping", "starting"}
  /\ Goto("drive", stageOf(call.key))
  /\ UNCHANGED <<world, ledger, stable, faults>>

Rollback ==
  /\ At("rollback")
  /\ mutate([call EXCEPT !.pc = "rb-start"])
  /\ UNCHANGED <<world, mode, lapsed>>

RollbackStarts ==
  /\ At("rb-start")
  /\ \/ Succeeds("start") /\ Goto("rb-await", "stopped") /\ UNCHANGED ledger
     \/ Errs("start") /\ finish("failed")
  /\ UNCHANGED stable

\* Back as the original type; up as the target, the modify having landed after
\* all; or anything else.
RollbackEnds ==
  /\ At("rb-await")
  /\ stageOf(call.key) \notin {"stopping", "starting"}
  /\ finish(CASE stageOf(call.key) = "ready"   -> "rolled-back"
              [] stageOf(call.key) = "running" -> "done"
              [] OTHER                         -> "failed")
  /\ UNCHANGED <<world, stable, faults>>

-----------------------------------------------------------------------------
(* Everybody else. *)

\* The account finishes a transition.
Settles(i) ==
  /\ cloud[i].state \in {"stopping", "pending"}
  /\ LET s == IF cloud[i].state = "stopping" THEN "stopped" ELSE "running" IN
     /\ cloud' = [cloud EXCEPT ![i].state = s]
     /\ down' = IF s = "running" THEN down \ {i} ELSE down
     /\ turned' = IF s = "running" THEN turned \ {i} ELSE turned
  /\ UNCHANGED <<ledger, stable, call, faults>>

\* Somebody else stops, starts, retypes or terminates the instance.
Outside(i) ==
  /\ Fault
  /\ \/ cloud[i].state = "running" /\ cloud' = [cloud EXCEPT ![i].state = "stopping"]
     \/ cloud[i].state = "stopped" /\ cloud' = [cloud EXCEPT ![i].state = "pending"]
     \/ cloud[i].state = "stopped" /\ cloud' = [cloud EXCEPT ![i].type = "other"]
     \/ cloud[i].state # "terminated" /\ cloud' = [cloud EXCEPT ![i].state = "terminated"]
  /\ UNCHANGED <<ledger, stable, call, down, turned>>

Lapse ==
  /\ ~lapsed /\ lapsed' = TRUE
  /\ UNCHANGED <<world, ledger, disk, call, mode, faults>>

\* The process dies and another starts, in either mode, with the ledger on disk.
Crash ==
  /\ Fault
  /\ ledger' = disk
  /\ call' = Idle
  /\ mode' \in Modes
  /\ UNCHANGED <<world, disk, lapsed>>

CallStep ==
  \/ ReadFails \/ ReadRefuses \/ ReadNoop \/ ReadGated \/ ReadResumes
  \/ DriveEnds \/ DriveWaits \/ DriveMutates
  \/ ActSucceeds \/ ActErrs
  \/ PollTimeout \/ PollSettles
  \/ Rollback \/ RollbackStarts \/ RollbackEnds

Next ==
  \/ \E k \in Keys : TurnedAway(k) \/ Begin(k)
  \/ CallStep
  \/ \E i \in Instances : Settles(i) \/ Outside(i)
  \/ Lapse \/ Crash

(***************************************************************************)
(* Fairness.  A call runs on, the account finishes its transitions, and    *)
(* the caller does what Unsettled asks of it: "re-executing its step is    *)
(* what brings it back" (actuate.go).                                      *)
(***************************************************************************)
Resume(k) == k \in Unsettled(ledger) /\ Begin(k)
Fairness ==
  /\ WF_vars(CallStep)
  /\ \A i \in Instances : WF_vars(Settles(i)) /\ SF_vars(Resume(<<i, "do">>))
                          /\ SF_vars(Resume(<<i, "undo">>))

Spec == Init /\ [][Next]_vars
FairSpec == Spec /\ Fairness

-----------------------------------------------------------------------------
TypeOK ==
  /\ cloud \in [Instances -> [state : {"running", "stopping", "stopped", "pending", "terminated"},
                              type : {"from", "to", "other"}]]
  /\ ledger \in [Keys -> Statuses] /\ disk \in [Keys -> Statuses]
  /\ call = Idle \/ call \in [pc : {"read", "drive", "act", "await", "rollback", "rb-start", "rb-await"},
                              key : Keys, stage : Stages, visits : [Stages -> 0..MaxStageVisits]]
  /\ mode \in Modes /\ lapsed \in BOOLEAN /\ faults \in 0..MaxFaults
  /\ down \subseteq Instances /\ turned \subseteq down

Owed(l, i) == \E k \in Unsettled(l) : k[1] = i

\* An instance the actuator stopped and nobody has brought back is never
\* forgotten: the ledger on disk names it as unfinished at every moment, so that
\* a crash at any point can be resumed, and so does the ledger in memory once no
\* call is at work on it, unless a later call refused it or only previewed it.
NeverForgotten ==
  \A i \in down \ turned :
    /\ Owed(disk, i)
    /\ (call = Idle \/ call.key[1] # i) => Owed(ledger, i)

\* An instance the actuator stopped comes back, whatever single calls fail or
\* crash on the way: it runs again, or the approval has lapsed, the process was
\* restarted to preview, or somebody else took the instance away.
Released(i) ==
  \/ i \notin down \/ i \in turned
  \/ lapsed \/ mode = "dry-run"
  \/ cloud[i].type = "other" \/ cloud[i].state = "terminated"
StoppedIsRestarted == \A i \in Instances : i \in down ~> Released(i)

=============================================================================
