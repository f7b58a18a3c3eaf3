---------------------------- MODULE VolumeModify ----------------------------
(***************************************************************************)
(* The ModifyVolume actuator (pkg/ebs/actuate.go) on one volume, whose     *)
(* approved step "do" converts configuration "from" (gp2) to "to" (gp3);   *)
(* "undo" is the inverse Revert builds.  A modification is asynchronous:   *)
(* modifying, then optimizing (the new configuration is in force), then    *)
(* completed; or failed (fixture.go).  The ledger is in memory; what a     *)
(* restarted process gets back is the copy its caller saved last.          *)
(***************************************************************************)
EXTENDS Naturals

CONSTANTS MaxFaults,   \* bound: failed calls and crashes
          MaxOutside,  \* bound: changes by somebody else
          Modes        \* the modes an actuator may be started in

VARIABLES cloud,   \* the volume: configuration, state, newest modification, whether
                   \* the cooldown after it runs, whether gp2 delivers more than gp3
          ledger, disk, call, mode, faults,
          touched  \* history: somebody else modified the volume since the call began

vars == <<cloud, ledger, disk, call, mode, faults, touched>>

Keys == {"do", "undo"}
Statuses == {"none", "dry-run", "no-op", "done", "in-flight", "failed"}
From(k) == IF k = "do" THEN "from" ELSE "to"
To(k) == IF k = "do" THEN "to" ELSE "from"
Terminal(status) == status \in {"done", "no-op"}

NoMod == [state |-> "none", target |-> "none"]
InFlight(mod) == mod.state \in {"modifying", "optimizing"}
Idle == [pc |-> "idle"]

Init ==
  /\ cloud \in [config : {"from"}, ok : {TRUE}, mod : {NoMod}, cooling : {FALSE}, raises : BOOLEAN]
  /\ ledger = [k \in Keys |-> "none"] /\ disk = ledger
  /\ call = Idle
  /\ mode \in Modes
  /\ faults = [own |-> 0, outside |-> 0]
  /\ touched = FALSE

Fault == faults.own < MaxFaults /\ faults' = [faults EXCEPT !.own = @ + 1]
At(pc) == call.pc = pc
record(status) == ledger' = [ledger EXCEPT ![call.key] = status] /\ call' = Idle
Goto(pc) == call' = [call EXCEPT !.pc = pc] /\ UNCHANGED ledger
quiet == <<cloud, disk, mode, touched>>

-----------------------------------------------------------------------------
(* execute and check: the volume is read, then its modifications. *)

Begin(k) ==
  /\ At("idle") /\ ~Terminal(ledger[k])
  /\ call' = [pc |-> "describe", key |-> k]
  /\ touched' = FALSE
  /\ UNCHANGED <<cloud, ledger, disk, mode, faults>>

ReadFails ==
  /\ call.pc \in {"describe", "modifications", "poll"}
  /\ Fault
  /\ record("failed")
  /\ UNCHANGED quiet

\* ErrRevertWouldDegrade: the undo would deliver less than the volume does now.
Degrades(k) == k = "undo" /\ cloud.config = "to" /\ ~cloud.raises

Describe ==
  /\ At("describe")
  /\ \/ ~Degrades(call.key) /\ cloud.config = To(call.key) /\ record("no-op")
     \/ /\ Degrades(call.key) \/ cloud.config = "other" \/ (cloud.config = From(call.key) /\ ~cloud.ok)
        /\ record("failed")
     \/ ~Degrades(call.key) /\ cloud.config = From(call.key) /\ cloud.ok /\ Goto("modifications")
  /\ UNCHANGED <<quiet, faults>>

\* A running modification toward the target is resumed; any other one, and the
\* cooldown after a finished one, refuse the step.
Proceed ==
  IF InFlight(cloud.mod) /\ cloud.mod.target = To(call.key) THEN "resume"
  ELSE IF InFlight(cloud.mod) \/ cloud.cooling THEN "refuse"
  ELSE "issue"

Modifications ==
  /\ At("modifications")
  /\ \/ Proceed = "refuse" /\ record("failed")
     \/ Proceed # "refuse" /\ mode = "dry-run" /\ record("dry-run")
     \/ Proceed = "issue" /\ mode = "apply" /\ Goto("modify")
     \/ /\ Proceed = "resume" /\ mode = "apply"
        /\ ledger' = [ledger EXCEPT ![call.key] = "in-flight"]
        /\ call' = [call EXCEPT !.pc = "poll"]
  /\ UNCHANGED <<quiet, faults>>

\* The account takes one modification at a time; a response may be lost.
Started == [cloud EXCEPT !.mod = [state |-> "modifying", target |-> To(call.key)]]

ModifyVolume ==
  /\ At("modify") /\ ~InFlight(cloud.mod)
  /\ cloud' = Started
  /\ \/ /\ ledger' = [ledger EXCEPT ![call.key] = "in-flight"]
        /\ call' = [call EXCEPT !.pc = "poll"]
        /\ UNCHANGED faults
     \/ Fault /\ record("failed")
  /\ UNCHANGED <<disk, mode, touched>>

ModifyFails ==
  /\ At("modify")
  /\ Fault \/ (InFlight(cloud.mod) /\ UNCHANGED faults)
  /\ record("failed")
  /\ UNCHANGED quiet

\* A mutant: an accepted modification counts as an applied one.
VerdictOnAcceptance ==
  CASE cloud.mod.state \in {"modifying", "optimizing", "completed"} -> "done"
    [] cloud.mod.state = "failed" -> "failed"
    [] OTHER -> "in-flight"

\* poll: the newest modification decides; without one, the volume itself.
Verdict ==
  CASE cloud.mod.state \in {"completed", "optimizing"} -> "done"
    [] cloud.mod.state = "failed"                      -> "failed"
    [] cloud.mod.state = "none" /\ cloud.config = To(call.key) -> "done"
    [] OTHER                                           -> "in-flight"

Poll ==
  /\ At("poll")
  /\ record(Verdict)
  /\ UNCHANGED <<quiet, faults>>

-----------------------------------------------------------------------------
(* Everybody else. *)

\* The account moves the modification on; the cooldown counts from its end.
Advances ==
  /\ InFlight(cloud.mod)
  /\ \/ /\ cloud.mod.state = "modifying"
        /\ \/ cloud' = [cloud EXCEPT !.mod.state = "optimizing", !.config = cloud.mod.target]
           \/ cloud' = [cloud EXCEPT !.mod.state = "failed", !.cooling = TRUE]
     \/ /\ cloud.mod.state = "optimizing"
        /\ cloud' = [cloud EXCEPT !.mod.state = "completed", !.cooling = TRUE]
  /\ UNCHANGED <<ledger, disk, call, mode, faults, touched>>

CoolsDown ==
  /\ cloud.cooling /\ cloud' = [cloud EXCEPT !.cooling = FALSE]
  /\ UNCHANGED <<ledger, disk, call, mode, faults, touched>>

\* Somebody else modifies the volume, or attaches or detaches it.
Outside ==
  /\ faults.outside < MaxOutside
  /\ faults' = [faults EXCEPT !.outside = @ + 1]
  /\ \/ /\ ~InFlight(cloud.mod)
        /\ \E c \in {"from", "to", "other"} \ {cloud.config} :
             cloud' = [cloud EXCEPT !.mod = [state |-> "modifying", target |-> c], !.cooling = FALSE]
        /\ touched' = TRUE
     \/ cloud' = [cloud EXCEPT !.ok = ~@] /\ UNCHANGED touched
  /\ UNCHANGED <<ledger, disk, call, mode>>

\* LedgerJSON between calls, and RestoreLedger in the next process.
Save ==
  /\ At("idle") /\ disk # ledger
  /\ disk' = ledger
  /\ UNCHANGED <<cloud, ledger, call, mode, faults, touched>>

Restart ==
  /\ Fault
  /\ ledger' = disk /\ call' = Idle
  /\ mode' \in Modes
  /\ UNCHANGED <<cloud, disk, touched>>

Next ==
  \/ \E k \in Keys : Begin(k)
  \/ ReadFails \/ Describe \/ Modifications
  \/ ModifyVolume \/ ModifyFails \/ Poll
  \/ Advances \/ CoolsDown \/ Outside \/ Save \/ Restart

Spec == Init /\ [][Next]_vars

-----------------------------------------------------------------------------
TypeOK ==
  /\ cloud \in [config : {"from", "to", "other"}, ok : BOOLEAN, cooling : BOOLEAN, raises : BOOLEAN,
                mod : [state : {"none", "modifying", "optimizing", "completed", "failed"},
                       target : {"none", "from", "to", "other"}]]
  /\ ledger \in [Keys -> Statuses] /\ disk \in [Keys -> Statuses]
  /\ call = Idle \/ call \in [pc : {"describe", "modifications", "modify", "poll"}, key : Keys]
  /\ mode \in Modes /\ touched \in BOOLEAN
  /\ faults \in [own : 0..MaxFaults, outside : 0..MaxOutside]

Reports(k, s) == ledger'[k] = s /\ ledger[k] # s /\ call # Idle

\* Execute reports done only of a volume that delivers the target (actuate.go,
\* "Why polling": success on the API call alone would report a change that has
\* not happened), whatever was lost before, resumed, or left over from an
\* earlier modification; unless somebody else modified the volume meanwhile.
ReportsApplied ==
  \A k \in Keys : Reports(k, "done") /\ ~touched => cloud.config = To(k)
DoneIsApplied == [][ReportsApplied]_vars

=============================================================================
