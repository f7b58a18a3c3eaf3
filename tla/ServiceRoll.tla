----------------------------- MODULE ServiceRoll -----------------------------
(***************************************************************************)
(* The ECS task-size actuator (pkg/ecs/actuate.go) on one service.  It has *)
(* no ledger: Execute registers a revision with the new size, a copy of    *)
(* the one the step recorded, and points the service at it; Revert points  *)
(* it back; and both decide from the live service alone whether there is   *)
(* something left to do.  Revision 1 is the one the step was planned on.   *)
(***************************************************************************)
EXTENDS Naturals, Sequences

CONSTANTS MaxFaults,     \* bound: failed calls and crashes
          MaxOutside,    \* bound: changes by somebody else
          MaxRevisions   \* bound: revisions ever registered

VARIABLES cloud,   \* the service, its revisions, and the plan's guard
          call, faults,
          rolled,  \* history: how often Execute deployed since the last Revert
          touched  \* history: somebody else deployed, since the last Revert

vars == <<cloud, call, faults, rolled, touched>>

Idle == [pc |-> "idle"]
Init ==
  /\ cloud \in [revs : {<<[size |-> "from", image |-> 1]>>}, running : {1}, deploying : {FALSE},
                allowed : {TRUE}, fits : BOOLEAN]
  /\ call = Idle
  /\ faults = [own |-> 0, outside |-> 0]
  /\ rolled = 0 /\ touched = FALSE

Fault == faults.own < MaxFaults /\ faults' = [faults EXCEPT !.own = @ + 1]
At(pc) == call.pc = pc
Return == call' = Idle
history == <<rolled, touched>>

\* Guard.Allow, then the read of the service: a service that is tagged off or
\* not on Fargate is refused, and one that is converging.
Begin(k) ==
  /\ At("idle")
  /\ cloud.allowed
  /\ call' = [pc |-> "service", key |-> k]
  /\ UNCHANGED <<cloud, faults, history>>

ReadFails ==
  /\ call.pc \in {"service", "definition", "running"}
  /\ Fault /\ Return
  /\ UNCHANGED <<cloud, history>>

ReadService ==
  /\ At("service")
  /\ LET there == IF call.key = "do" THEN "definition" ELSE "update" IN
     \/ (cloud.deploying \/ ~cloud.allowed) /\ Return
     \/ /\ ~cloud.deploying /\ cloud.allowed
        /\ CASE cloud.running = 1 /\ call.key = "undo" -> Return
             [] cloud.running # 1 /\ call.key = "do"   -> call' = [call EXCEPT !.pc = "running"]
             [] OTHER -> call' = [pc |-> there, key |-> call.key, rev |-> 1]
  /\ UNCHANGED <<cloud, faults, history>>

\* A mutant: a service that moved on is deployed to again.
DeploysAgain ==
  /\ At("running")
  /\ call' = [pc |-> "definition", key |-> call.key, rev |-> 1]
  /\ UNCHANGED <<cloud, faults, history>>

\* Not the planned revision: the step is already applied, or the plan is stale.
\* Either way nothing is deployed.
ReadRunning ==
  /\ At("running") /\ Return
  /\ UNCHANGED <<cloud, faults, history>>

\* gateShape: the new size must clear the floors of the containers.
ReadDefinition ==
  /\ At("definition")
  /\ IF cloud.fits THEN call' = [call EXCEPT !.pc = "register"] ELSE Return
  /\ UNCHANGED <<cloud, faults, history>>

Register ==
  /\ At("register") /\ Len(cloud.revs) < MaxRevisions
  /\ LET revs == Append(cloud.revs, [cloud.revs[1] EXCEPT !.size = "to"]) IN
     /\ cloud' = [cloud EXCEPT !.revs = revs]
     /\ \/ call' = [pc |-> "update", key |-> "do", rev |-> Len(revs)] /\ UNCHANGED faults
        \/ Fault /\ Return
  /\ UNCHANGED history

\* UpdateService takes any registered revision; its response may be lost.
UpdateService ==
  /\ At("update")
  /\ cloud' = [cloud EXCEPT !.running = call.rev, !.deploying = TRUE]
  /\ rolled' = IF call.key = "do" THEN rolled + 1 ELSE 0
  /\ touched' = (call.key = "do" /\ touched)
  /\ Return
  /\ UNCHANGED faults \/ Fault

WriteFails ==
  /\ call.pc \in {"register", "update"}
  /\ Fault /\ Return
  /\ UNCHANGED <<cloud, history>>

\* The deployment converges; the owner deploys an image of his own, with either
\* size; the change window closes or opens.
Converges ==
  /\ cloud.deploying /\ cloud' = [cloud EXCEPT !.deploying = FALSE]
  /\ UNCHANGED <<call, faults, history>>

Outside ==
  /\ faults.outside < MaxOutside
  /\ faults' = [faults EXCEPT !.outside = @ + 1]
  /\ \/ /\ Len(cloud.revs) < MaxRevisions /\ touched' = TRUE
        /\ \E s \in {"from", "to"} :
             cloud' = [cloud EXCEPT !.revs = Append(@, [size |-> s, image |-> 2]),
                         !.running = Len(cloud.revs) + 1, !.deploying = TRUE]
     \/ cloud' = [cloud EXCEPT !.allowed = ~@] /\ UNCHANGED touched
  /\ UNCHANGED <<call, rolled>>

Crash ==
  /\ call # Idle
  /\ Fault /\ Return
  /\ UNCHANGED <<cloud, history>>

Next ==
  \/ \E k \in {"do", "undo"} : Begin(k)
  \/ ReadFails \/ ReadService \/ ReadRunning \/ ReadDefinition
  \/ Register \/ UpdateService \/ WriteFails
  \/ Converges \/ Outside \/ Crash

Spec == Init /\ [][Next]_vars

-----------------------------------------------------------------------------
TypeOK ==
  /\ cloud.revs \in Seq([size : {"from", "to"}, image : {1, 2}])
  /\ cloud.running \in DOMAIN cloud.revs /\ Len(cloud.revs) <= MaxRevisions
  /\ faults \in [own : 0..MaxFaults, outside : 0..MaxOutside]
  /\ rolled \in Nat /\ touched \in BOOLEAN

\* Execute replaces every task of the service once.  Idempotency is derived from
\* the live service and not from a cache (actuate.go:187): however often a step is
\* retried after a lost response, an unused revision or a crash, the service is
\* re-pointed once per Revert, as long as nobody else deploys.
RolledOnce == ~touched => rolled <= 1

=============================================================================
