----------------------------- MODULE AutoScaling -----------------------------
(***************************************************************************)
(* Moving an Auto Scaling group onto another instance type: a launch       *)
(* template version, the template's default, and an instance refresh       *)
(* (pkg/ec2/actuate_asg.go), against a group with AWS's own rules          *)
(* (actuate_fixture.go).  One group, one approved step "do" from type      *)
(* "from" to type "to", and its inverse "undo".                            *)
(*                                                                         *)
(* cloud.versions[v] is the type template version v launches; a refresh    *)
(* moves the fleet to the version it is pinned to when it succeeds, leaves *)
(* it when it is rolled back, and halfway when it fails.                   *)
(***************************************************************************)
EXTENDS Naturals, Sequences, FiniteSets

CONSTANTS MaxFaults,     \* bound: failed calls and crashes
          MaxOutside,    \* bound: changes by somebody else
          MaxVersions,   \* bound: template versions
          MaxRefreshes,  \* bound: refreshes of the group
          Modes          \* the modes an actuator may be started in

VARIABLES cloud,   \* the group: version reference, versions, default, refreshes, fleet
          ledger, disk, call, mode, lapsed, faults,
          started, \* history: the refreshes each step started
          touched  \* history: steps whose template another step or person changed

vars == <<cloud, ledger, disk, call, mode, lapsed, faults, started, touched>>
stable == <<disk, mode, lapsed>>
world == <<cloud, started, touched>>

Keys == {"do", "undo"}
ToType(k) == IF k = "do" THEN "to" ELSE "from"
Entry == [status : {"none", "open", "dry-run", "no-op", "done", "in-flight",
                    "rolled-back", "refused", "failed"},
          refresh : 0..MaxRefreshes,   \* RefreshID, 0 when none is recorded
          prior : 0..MaxVersions]      \* PriorDefaultVersion
NoEntry == [status |-> "none", refresh |-> 0, prior |-> 0]
Terminal(e) == e.status \in {"done", "no-op", "rolled-back"}

(***************************************************************************)
(* What asgFacts reads.                                                    *)
(***************************************************************************)
Source == IF cloud.ref = "$Latest" THEN Len(cloud.versions) ELSE cloud.default

\* The oldest version newer than the source that carries the wanted type, or 0.
findVersionWithType(type) ==
  LET newer == {v \in DOMAIN cloud.versions : v > Source /\ cloud.versions[v] = type}
  IN IF newer = {} THEN 0 ELSE CHOOSE v \in newer : \A w \in newer : v <= w

Active(r) == cloud.refreshes[r].status = "active"

\* An active refresh outranks a newer one that has ended; 0 when there is none.
latestRefresh ==
  LET active == {r \in DOMAIN cloud.refreshes : Active(r)}
  IN IF active # {} THEN CHOOSE r \in active : \A q \in active : q <= r
     ELSE Len(cloud.refreshes)

asgStage(k) ==
  IF latestRefresh # 0 /\ Active(latestRefresh) THEN "refreshing"
  ELSE IF cloud.versions[Source] # ToType(k) THEN "template-ready"
  ELSE IF latestRefresh = 0 THEN "template-versioned"
  ELSE "refreshed"

Idle == [pc |-> "idle"]
Init ==
  /\ cloud \in [ref : {"$Default", "$Latest"}, versions : {<<"from">>}, default : {1},
                refreshes : {<<>>, <<[status |-> "Successful", version |-> 1]>>},
                fleet : {"from"}, token : {[k \in Keys |-> 0]}]
  /\ ledger = [k \in Keys |-> NoEntry]
  /\ disk = ledger
  /\ call = Idle
  /\ mode \in Modes
  /\ lapsed = FALSE
  /\ faults = [own |-> 0, outside |-> 0]
  /\ started = [k \in Keys |-> {}]
  /\ touched = {}

Fault == faults.own < MaxFaults /\ faults' = [faults EXCEPT !.own = @ + 1]
At(pc) == call.pc = pc
finish(status) ==
  /\ ledger' = [ledger EXCEPT ![call.key].status = status]
  /\ call' = Idle

-----------------------------------------------------------------------------
(* execute, executeASG. *)

TurnedAway(k) ==
  /\ At("idle") /\ ~Terminal(ledger[k])
  /\ lapsed /\ k = "do"
  /\ ledger' = [ledger EXCEPT ![k].status = "refused"]
  /\ UNCHANGED <<world, stable, call, faults>>

Begin(k) ==
  /\ At("idle") /\ ~Terminal(ledger[k])
  /\ lapsed => k = "undo"
  /\ ledger' = [ledger EXCEPT ![k].status = IF @ = "none" THEN "open" ELSE @]
  /\ call' = [pc |-> "read", key |-> k]
  /\ UNCHANGED <<world, stable, faults>>

\* A read fails, or the group or its template is one no step acts on.
ReadFails ==
  /\ At("read")
  /\ \/ Fault /\ finish("failed")
     \/ cloud.versions[Source] \notin {"from", "to"} /\ finish("refused") /\ UNCHANGED faults
     \/ Fault /\ finish("refused")
  /\ UNCHANGED <<world, stable>>

\* recordTemplate: the default the template had when the step first saw it.
Recorded(k) == [ledger EXCEPT ![k].prior = IF @ = 0 THEN cloud.default ELSE @]

Readable == At("read") /\ cloud.versions[Source] \in {"from", "to"}

\* reportRefresh: the template is at the target and the last refresh has ended.
ReportRefresh ==
  /\ Readable /\ asgStage(call.key) = "refreshed"
  /\ ledger' = [Recorded(call.key) EXCEPT ![call.key].status =
                  CASE cloud.refreshes[latestRefresh].status = "Successful" -> "no-op"
                    [] cloud.refreshes[latestRefresh].status = "RolledBack" -> "rolled-back"
                    [] OTHER -> "failed"]
  /\ call' = Idle
  /\ UNCHANGED <<world, stable, faults>>

\* refreshTargetsUs: the recorded refresh, or a template that already carries
\* the target.
Ours(k) ==
  \/ ledger[k].refresh = latestRefresh
  \/ findVersionWithType(ToType(k)) # 0 \/ cloud.versions[Source] = ToType(k)

\* A dry-run, an economic refusal, or a refresh toward something else.
ReadStops ==
  /\ Readable /\ asgStage(call.key) # "refreshed"
  /\ \E s \in {"dry-run", "refused"} :
       /\ CASE s = "dry-run" -> /\ mode = "dry-run"
                                /\ asgStage(call.key) = "refreshing" => Ours(call.key)
            [] s = "refused" -> \/ asgStage(call.key) = "template-ready" /\ call.key = "do"
                                \/ asgStage(call.key) = "refreshing" /\ ~Ours(call.key)
       /\ ledger' = [Recorded(call.key) EXCEPT ![call.key].status = s]
  /\ call' = Idle
  /\ UNCHANGED <<world, stable, faults>>

\* revertToPriorVersion: the undo repoints the default the step recorded, when
\* that version still carries the original type.
Prior(k) == IF k = "undo" /\ cloud.ref = "$Default" /\ ledger["do"].prior # 0
                 /\ cloud.versions[ledger["do"].prior] = ToType(k)
            THEN ledger["do"].prior ELSE 0

ReadProceeds ==
  /\ Readable /\ mode = "apply"
  /\ asgStage(call.key) \notin {"refreshed"}
  /\ asgStage(call.key) = "refreshing" => Ours(call.key)
  /\ ledger' = Recorded(call.key)
  /\ LET found == findVersionWithType(ToType(call.key))
         facts(pc, target) == [pc |-> pc, key |-> call.key, target |-> target]
     IN call' = IF asgStage(call.key) = "refreshing" THEN facts("await", found)
                ELSE IF asgStage(call.key) = "template-versioned" THEN
                       facts("start", IF found # 0 THEN found ELSE Source)
                ELSE IF Prior(call.key) # 0 THEN facts("modify", Prior(call.key))
                ELSE IF found # 0 THEN facts(IF cloud.ref = "$Latest" THEN "start" ELSE "modify", found)
                ELSE facts("create", 0)
  /\ UNCHANGED <<world, stable, faults>>

-----------------------------------------------------------------------------
(* driveASG: each call is recorded and persisted, then made. *)

Calling(pc) ==
  CASE pc = "create" -> "call-create" [] pc = "modify" -> "call-modify" [] pc = "start" -> "call-start"

Mutate ==
  /\ call.pc \in {"create", "modify", "start"}
  /\ LET noted == [ledger EXCEPT ![call.key].status = "in-flight"] IN
     \/ /\ ledger' = noted /\ disk' = noted
        /\ call' = [call EXCEPT !.pc = Calling(@)]
        /\ UNCHANGED faults
     \/ Fault /\ finish("failed") /\ UNCHANGED disk
  /\ UNCHANGED <<world, mode, lapsed>>

\* CreateLaunchTemplateVersion: the client token returns the version it created
\* the first time.
Created(k) ==
  IF cloud.token[k] # 0 THEN cloud
  ELSE [cloud EXCEPT !.versions = Append(@, ToType(k)), !.token[k] = Len(cloud.versions) + 1]
Repointed(v) == [cloud EXCEPT !.default = v]
Refreshing(v) == [cloud EXCEPT !.refreshes = Append(@, [status |-> "active", version |-> v])]
Occupied == \E r \in DOMAIN cloud.refreshes : Active(r)

Create ==
  /\ At("call-create")
  /\ Len(cloud.versions) < MaxVersions \/ cloud.token[call.key] # 0
  /\ \/ /\ cloud' = Created(call.key)
        /\ call' = [call EXCEPT !.pc = IF cloud.ref = "$Latest" THEN "start" ELSE "modify",
                                !.target = cloud'.token[call.key]]
        /\ UNCHANGED <<ledger, faults>>
     \/ Fault /\ cloud' \in {cloud, Created(call.key)} /\ finish("failed")
  /\ touched' = touched \cup (Keys \ {call.key})
  /\ UNCHANGED <<stable, started>>

Modify ==
  /\ At("call-modify")
  /\ \/ /\ cloud' = Repointed(call.target)
        /\ call' = [call EXCEPT !.pc = "start"]
        /\ UNCHANGED <<ledger, faults>>
     \/ Fault /\ cloud' \in {cloud, Repointed(call.target)} /\ finish("failed")
  /\ touched' = touched \cup (Keys \ {call.key})
  /\ UNCHANGED <<stable, started>>

\* StartInstanceRefresh is rejected while another refresh is active.
StartRefresh ==
  /\ At("call-start") /\ ~Occupied /\ Len(cloud.refreshes) < MaxRefreshes
  /\ cloud' = Refreshing(call.target)
  /\ started' = [started EXCEPT ![call.key] = @ \cup {Len(cloud'.refreshes)}]
  /\ \/ /\ ledger' = [ledger EXCEPT ![call.key].refresh = Len(cloud'.refreshes)]
        /\ call' = [call EXCEPT !.pc = "await"]
        /\ UNCHANGED faults
     \/ Fault /\ finish("failed")
  /\ UNCHANGED <<stable, touched>>

StartFails ==
  /\ At("call-start")
  /\ Fault \/ (Occupied /\ UNCHANGED faults)
  /\ finish("failed")
  /\ UNCHANGED <<world, stable>>

\* awaitRefresh: the newest refresh of the group has ended, or the poll budget has.
AwaitRefresh ==
  /\ At("await")
  /\ LET r == latestRefresh
         outcome == CASE cloud.refreshes[r].status = "active"     -> "in-flight"
                      [] cloud.refreshes[r].status = "Successful" -> "done"
                      [] cloud.refreshes[r].status = "RolledBack" -> "rolled-back"
                      [] OTHER                                    -> "failed"
     IN ledger' = [ledger EXCEPT ![call.key].status = outcome,
                     ![call.key].refresh = IF outcome = "in-flight" THEN @ ELSE r]
  /\ call' = Idle
  /\ UNCHANGED <<world, stable, faults>>

-----------------------------------------------------------------------------
(* Everybody else. *)

\* The refresh ends: AWS rolls a failed one back, or fails to.
RefreshEnds(r) ==
  /\ Active(r)
  /\ \E s \in {"Successful", "RolledBack", "Failed"} :
       cloud' = [cloud EXCEPT !.refreshes[r].status = s,
                   !.fleet = CASE s = "Successful" -> cloud.versions[cloud.refreshes[r].version]
                               [] s = "RolledBack" -> @
                               [] OTHER            -> "mixed"]
  /\ UNCHANGED <<ledger, stable, call, faults, started, touched>>

\* Somebody else refreshes the group onto what it launches, or adds a version.
Outside ==
  /\ faults.outside < MaxOutside
  /\ faults' = [faults EXCEPT !.outside = @ + 1]
  /\ touched' = Keys
  /\ \/ ~Occupied /\ Len(cloud.refreshes) < MaxRefreshes /\ cloud' = Refreshing(Source)
     \/ Len(cloud.versions) < MaxVersions
        /\ \E t \in {"from", "to", "other"} : cloud' = [cloud EXCEPT !.versions = Append(@, t)]
  /\ UNCHANGED <<ledger, stable, call, started>>

Lapse ==
  /\ ~lapsed /\ lapsed' = TRUE
  /\ UNCHANGED <<world, ledger, disk, call, mode, faults>>

Crash ==
  /\ Fault
  /\ ledger' = disk
  /\ call' = Idle
  /\ mode' \in Modes
  /\ UNCHANGED <<world, disk, lapsed>>

Next ==
  \/ \E k \in Keys : TurnedAway(k) \/ Begin(k)
  \/ ReadFails \/ ReportRefresh \/ ReadStops \/ ReadProceeds
  \/ Mutate \/ Create \/ Modify \/ StartRefresh \/ StartFails \/ AwaitRefresh
  \/ \E r \in DOMAIN cloud.refreshes : RefreshEnds(r)
  \/ Outside \/ Lapse \/ Crash

Spec == Init /\ [][Next]_vars

-----------------------------------------------------------------------------
TypeOK ==
  /\ cloud \in [ref : {"$Default", "$Latest"}, versions : Seq({"from", "to", "other"}),
                default : 1..MaxVersions,
                refreshes : Seq([status : {"active", "Successful", "RolledBack", "Failed"},
                                 version : 1..MaxVersions]),
                fleet : {"from", "to", "other", "mixed"}, token : [Keys -> 0..MaxVersions]]
  /\ ledger \in [Keys -> Entry] /\ disk \in [Keys -> Entry]
  /\ mode \in Modes /\ lapsed \in BOOLEAN
  /\ faults \in [own : 0..MaxFaults, outside : 0..MaxOutside]
  /\ started \in [Keys -> SUBSET (1..MaxRefreshes)] /\ touched \subseteq Keys

\* A fleet is churned once.  Whatever responses are lost and wherever the process
\* dies, a step starts a second refresh only after its inverse or somebody else
\* changed the template: a refresh that failed or was rolled back is never
\* retried on its own.
ChurnedOnce == \A k \in Keys \ touched : Cardinality(started[k]) <= 1

Reports(k, s) == ledger'[k].status = s /\ ledger[k].status # s /\ call # Idle

\* A step that reports done on a refresh it started has its whole fleet on the
\* target type: the refresh is pinned to the version that carries it.
ReportsMigrated ==
  \A k \in Keys : Reports(k, "done") /\ ledger'[k].refresh \in started[k]
                   => cloud.fleet = ToType(k)
DoneIsMigrated == [][ReportsMigrated]_vars

\* asgStage (actuate_asg.go:433): a template at the target is not a migrated
\* fleet, so a step is not reported as having nothing to do before one refresh
\* has moved the running instances.
ReportsNoop == \A k \in Keys : Reports(k, "no-op") => cloud.fleet = ToType(k)
NoopIsMigrated == [][ReportsNoop]_vars

=============================================================================
