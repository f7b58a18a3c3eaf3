---------------------------- MODULE StorageModify ----------------------------
(***************************************************************************)
(* The RDS storage actuator (pkg/rds/actuate.go, actuate_preflight.go,     *)
(* actuate_ledger.go) on one instance, whose approved step "do" raises the *)
(* delivered performance from 1 to 2; "undo" is the inverse Revert builds. *)
(* RDS accepts a change (pending), applies it (modifying), and has it in   *)
(* force while it optimizes; it takes no client token, and at most Quota   *)
(* modifications in 24 hours (actuate_fixture.go).                         *)
(***************************************************************************)
EXTENDS Naturals

CONSTANTS Quota,       \* MaxStorageModificationsPer24h
          MaxFaults,   \* bound: failed calls and crashes
          MaxOutside,  \* bound: changes by somebody else
          Modes        \* the modes an actuator may be started in

VARIABLES cloud,    \* the instance, and how many modifications the last day has seen
          ledger, disk, call, mode, lapsed, faults,
          sent,     \* history: how often the account accepted each step
          running,  \* history: an accepted step is still being applied
          touched   \* history: somebody else modified the storage

vars == <<cloud, ledger, disk, call, mode, lapsed, faults, sent, running, touched>>
world == <<cloud, sent, running, touched>>
stable == <<disk, mode, lapsed>>

Keys == {"do", "undo"}
From(k) == IF k = "do" THEN 1 ELSE 2
Want(k) == IF k = "do" THEN 2 ELSE 1
Levels == 0..3

NoEntry == [status |-> "none", attempts |-> 0]
Entry == [status : {"none", "dry-run", "no-op", "done", "in-flight", "refused", "failed"},
          attempts : Nat]
Terminal(e) == e.status \in {"done", "no-op"}

\* A mutant: a refusal settles a step, issued or not.
RefusedIsSettled(e) == e.status \in {"done", "no-op", "dry-run", "refused"}

\* A refusal settles a step only when nothing was issued for it.
Settled(e) ==
  \/ e.status \in {"done", "no-op", "dry-run"}
  \/ e.status = "refused" /\ e.attempts = 0

Idle == [pc |-> "idle"]
Init ==
  /\ cloud = [perf |-> 1, pending |-> 0, status |-> "available", used |-> 0,
              bar |-> "none", found |-> TRUE]
  /\ ledger = [k \in Keys |-> NoEntry] /\ disk = ledger
  /\ call = Idle
  /\ mode \in Modes
  /\ lapsed = FALSE
  /\ faults = [own |-> 0, outside |-> 0]
  /\ sent = [k \in Keys |-> 0] /\ running = FALSE /\ touched = FALSE

Fault == faults.own < MaxFaults /\ faults' = [faults EXCEPT !.own = @ + 1]
At(pc) == call.pc = pc

\* record creates the entry it needs; finish only updates one that is there, and
\* is not persisted.
record(status) ==
  ledger' = [ledger EXCEPT ![call.key].status = status] /\ call' = Idle
finish(status) ==
  /\ ledger' = [ledger EXCEPT ![call.key].status = IF @ = "none" THEN @ ELSE status]
  /\ call' = Idle

-----------------------------------------------------------------------------
(* What a read shows: stageOf and inFlightTowardTarget. *)

stageOf(k, live) ==
  IF live.status \in {"modifying", "optimizing"} THEN live.status
  ELSE IF live.pending # 0 THEN "accepted"
  ELSE IF live.perf = Want(k) THEN "done"
  ELSE IF live.perf = From(k) THEN "ready"
  ELSE "drift"

inFlightTowardTarget(k, live) ==
  IF live.perf = Want(k) THEN live.pending = 0 ELSE live.pending = Want(k)

(***************************************************************************)
(* checkStorage: why a step is refused.  A step that only resumes is held  *)
(* to the guardrail and to the identity of the instance; a step that would *)
(* issue a modification to all of it, the one-way ratchet included.        *)
(***************************************************************************)
MayNotIssue(k, live, used) ==
  \/ live.status # "available" \/ live.pending # 0
  \/ used >= Quota
  \/ live.perf \notin {From(k), Want(k)}
  \/ Want(k) < live.perf
  \/ live.bar = "envelope"

checkStorage(k, live, used) ==
  \/ live.bar \in {"mode-off", "identity"}
  \/ ~inFlightTowardTarget(k, live) /\ MayNotIssue(k, live, used)

-----------------------------------------------------------------------------
(* execute. *)

TurnedAway(k) ==
  /\ At("idle") /\ ~Terminal(ledger[k])
  /\ lapsed /\ k = "do"
  /\ ledger' = [ledger EXCEPT ![k].status = "refused"]
  /\ UNCHANGED <<world, stable, call, faults>>

Begin(k) ==
  /\ At("idle") /\ ~Terminal(ledger[k])
  /\ lapsed => k = "undo"
  /\ call' = [pc |-> "describe", key |-> k, live |-> cloud]
  /\ UNCHANGED <<world, ledger, stable, faults>>

ReadFails ==
  /\ call.pc \in {"describe", "envelope"}
  /\ Fault
  /\ record("failed")
  /\ UNCHANGED <<world, stable>>

Describe ==
  /\ At("describe")
  /\ \/ ~cloud.found /\ record("refused")
     \/ /\ cloud.found
        /\ call' = [call EXCEPT !.pc = "envelope", !.live = cloud]
        /\ UNCHANGED ledger
  /\ UNCHANGED <<world, stable, faults>>

\* The history is read after the instance; one that cannot be read refuses.
Preflight ==
  /\ At("envelope")
  /\ LET k == call.key
         refused == checkStorage(k, call.live, cloud.used)
         stage == stageOf(k, call.live)
     IN \/ refused /\ record("refused") /\ UNCHANGED faults
        \/ ~inFlightTowardTarget(k, call.live) /\ Fault /\ record("refused")
        \/ ~refused /\ stage = "done" /\ record("no-op") /\ UNCHANGED faults
        \/ /\ ~refused /\ stage # "done" /\ UNCHANGED faults
           /\ \/ mode = "dry-run" /\ record("dry-run")
              \/ /\ mode = "apply"
                 /\ call' = [call EXCEPT !.pc = IF stage = "ready" /\ ~inFlightTowardTarget(k, call.live)
                                                THEN "mutate" ELSE "poll"]
                 /\ UNCHANGED ledger
  /\ UNCHANGED <<world, stable>>

\* mutate: the attempt is noted and persisted before the call.
Mutate ==
  /\ At("mutate")
  /\ LET noted == [ledger EXCEPT ![call.key] = [status |-> "in-flight", attempts |-> @.attempts + 1]] IN
     \/ /\ ledger' = noted /\ disk' = noted
        /\ call' = [call EXCEPT !.pc = "modify"]
        /\ UNCHANGED faults
     \/ /\ Fault
        /\ ledger' = [noted EXCEPT ![call.key].status = "failed"]
        /\ call' = Idle
        /\ UNCHANGED disk
  /\ UNCHANGED <<world, mode, lapsed>>

\* The account accepts a change of an available instance within the quota; the
\* response may be lost.
Accepts == cloud.found /\ cloud.status = "available" /\ cloud.pending = 0 /\ cloud.used < Quota

ModifyStorage ==
  /\ At("modify") /\ Accepts
  /\ cloud' = [cloud EXCEPT !.pending = Want(call.key), !.used = @ + 1]
  /\ sent' = [sent EXCEPT ![call.key] = @ + 1]
  /\ running' = TRUE
  /\ \/ call' = [call EXCEPT !.pc = "poll"] /\ UNCHANGED <<ledger, faults>>
     \/ Fault /\ finish("failed")
  /\ UNCHANGED <<stable, touched>>

ModifyFails ==
  /\ At("modify")
  /\ Fault \/ (~Accepts /\ UNCHANGED faults)
  /\ finish("failed")
  /\ UNCHANGED <<world, stable>>

\* poll: every stage is derived from a fresh read.
Poll ==
  /\ At("poll")
  /\ \/ /\ finish(IF ~cloud.found \/ stageOf(call.key, cloud) = "drift" THEN "failed"
                ELSE IF stageOf(call.key, cloud) = "done" THEN "done"
                ELSE "in-flight")
        /\ UNCHANGED faults
     \/ Fault /\ finish("failed")
  /\ UNCHANGED <<world, stable>>

-----------------------------------------------------------------------------
(* Everybody else. *)

\* RDS applies a pending change, phase by phase.
Advances ==
  /\ cloud.found
  /\ \/ /\ cloud.status = "available" /\ cloud.pending # 0
        /\ cloud' = [cloud EXCEPT !.status = "modifying"] /\ UNCHANGED running
     \/ /\ cloud.status = "modifying"
        /\ cloud' = [cloud EXCEPT !.status = "optimizing", !.perf = cloud.pending, !.pending = 0]
        /\ UNCHANGED running
     \/ /\ cloud.status = "optimizing"
        /\ cloud' = [cloud EXCEPT !.status = "available"] /\ running' = FALSE
  /\ UNCHANGED <<ledger, stable, call, faults, sent, touched>>

\* The oldest modification leaves the trailing day.
Ages ==
  /\ cloud.used > 0
  /\ cloud' = [cloud EXCEPT !.used = @ - 1]
  /\ UNCHANGED <<ledger, stable, call, faults, sent, running, touched>>

\* Somebody else modifies the storage, changes what the plan was computed
\* against, or deletes the instance.
Outside ==
  /\ faults.outside < MaxOutside
  /\ faults' = [faults EXCEPT !.outside = @ + 1]
  /\ \/ /\ Accepts /\ touched' = TRUE
        /\ \E p \in Levels \ {0, cloud.perf} :
             cloud' = [cloud EXCEPT !.pending = p, !.used = @ + 1]
        /\ UNCHANGED running
     \/ /\ \E b \in {"none", "mode-off", "identity", "envelope"} \ {cloud.bar} :
             cloud' = [cloud EXCEPT !.bar = b]
        /\ UNCHANGED <<running, touched>>
     \/ cloud' = [cloud EXCEPT !.found = FALSE] /\ running' = FALSE /\ UNCHANGED touched
  /\ UNCHANGED <<ledger, stable, call, sent>>

Lapse ==
  /\ ~lapsed /\ lapsed' = TRUE
  /\ UNCHANGED <<world, ledger, disk, call, mode, faults>>

Restart ==
  /\ Fault
  /\ ledger' = disk /\ call' = Idle
  /\ mode' \in Modes
  /\ UNCHANGED <<world, disk, lapsed>>

Next ==
  \/ \E k \in Keys : TurnedAway(k) \/ Begin(k)
  \/ ReadFails \/ Describe \/ Preflight \/ Mutate
  \/ ModifyStorage \/ ModifyFails \/ Poll
  \/ Advances \/ Ages \/ Outside \/ Lapse \/ Restart

Spec == Init /\ [][Next]_vars

-----------------------------------------------------------------------------
TypeOK ==
  /\ cloud \in [perf : Levels, pending : Levels, status : {"available", "modifying", "optimizing"},
                used : 0..Quota, bar : {"none", "mode-off", "identity", "envelope"}, found : BOOLEAN]
  /\ ledger \in [Keys -> Entry] /\ disk \in [Keys -> Entry]
  /\ mode \in Modes /\ lapsed \in BOOLEAN
  /\ faults \in [own : 0..MaxFaults, outside : 0..MaxOutside]
  /\ sent \in [Keys -> Nat] /\ running \in BOOLEAN /\ touched \in BOOLEAN

\* Idempotency against a lost response is structural (actuate_api.go:147): RDS
\* has no client token, and still a step is accepted by the account at most once,
\* whatever responses are lost, however often it is retried and wherever the
\* process dies, as long as nobody else modifies the storage; and its undo, which
\* would lower the performance, never.
IssuedOnce == ~touched => sent["do"] <= 1 /\ sent["undo"] = 0

\* A modification that is still being applied is one the controller is told to
\* come back to: the ledger on disk has it as unsettled, and so has the ledger
\* in memory once no call watches it, unless a later call only previewed the step.
IssuedIsUnsettled ==
  running => /\ ~Settled(disk["do"])
             /\ call = Idle => ~Settled(ledger["do"]) \/ ledger["do"].status = "dry-run"

=============================================================================
