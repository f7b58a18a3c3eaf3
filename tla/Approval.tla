------------------------------ MODULE Approval ------------------------------
(***************************************************************************)
(* From a recommendation to an executed step: the registry and a composite *)
(* domain build a capped plan (pkg/domain), a person signs its             *)
(* fingerprint, the controller rebuilds the steps, turns the token into an *)
(* approval (actuate_approve.go) and executes steps through the bound      *)
(* actuator.  Between any two of these the account drifts, a half of the   *)
(* domain loses its collector, the token lapses or the freeze goes on.     *)
(*                                                                         *)
(* A step's key is the hash of its target, From and To.  To is what the    *)
(* domain proposes for the target as it is, so <<part, from>> stands for   *)
(* the hashed contents; a half of the domain has one target.               *)
(***************************************************************************)
EXTENDS Naturals, Sequences, FiniteSets

CONSTANTS Parts,      \* the halves of the domain, as a sequence in target order
          MaxSteps,   \* Guard.MaxSteps
          MaxDrift    \* bound: how often the owner changes a target

VARIABLES live,      \* the account: the revision of each half's target
          withheld,  \* halves whose recommendation is suppressed
          blind,     \* halves that are report-only
          frozen,    \* Guard.Freeze, the breaker or a closed window
          offer,     \* the plan built last: a step for each of the targets it has
          token,     \* the signed fingerprint, <<>> for none, and its expiry
          approval,  \* what the actuator is bound to: keys, {} for none
          acted      \* history: the contents the actuator executed

vars == <<live, withheld, blind, frozen, offer, token, approval, acted>>
outside == <<live, withheld, blind, frozen>>

Names == {Parts[i] : i \in DOMAIN Parts}
Contents == Names \X (0..MaxDrift)

\* What a caller may hand over: contents, and the key the step claims.
Steps == [is : Contents, key : Contents]

\* "seen" is history: the contents of the plan the person looked at.
Unsigned == [fingerprint |-> <<>>, seen |-> {}, expired |-> FALSE]
Unbound == [keys |-> {}, seen |-> {}, expired |-> FALSE]

Key(contents) == contents
Honest(step) == step.key = Key(step.is)

Init ==
  /\ live = [p \in Names |-> 0]
  /\ withheld = {} /\ blind = {} /\ frozen = FALSE
  /\ offer = <<>> /\ token = Unsigned
  /\ approval = Unbound /\ acted = {}

(***************************************************************************)
(* Building a plan.                                                        *)
(***************************************************************************)
\* Composite.Health: report-only when every half is.
ReportOnly == blind = Names

\* Composite.PlanSteps routes a recommendation to the half that owns it, skips
\* halves that may not act, and caps after the merge: the first MaxSteps of the
\* proposed, in target order.
Proposed == {i \in DOMAIN Parts : Parts[i] \notin withheld /\ Parts[i] \notin blind}
Capped == {i \in Proposed : Cardinality({j \in Proposed : j < i}) < MaxSteps}

\* BuildPlan: a plan has the step of each target it changes; a refusal has none.
BuildPlan ==
  /\ offer' = [i \in IF ReportOnly \/ frozen THEN {} ELSE Capped |-> <<Parts[i], live[Parts[i]]>>]
  /\ UNCHANGED <<outside, token, approval, acted>>

\* The fingerprint hashes the keys in target order.
Fingerprint(plan) == [i \in DOMAIN plan |-> Key(plan[i])]

\* A person signs the plan; the token carries its fingerprint and an expiry.
Sign ==
  /\ offer # <<>>
  /\ token' = [fingerprint |-> Fingerprint(offer), expired |-> FALSE,
               seen |-> {offer[i] : i \in DOMAIN offer}]
  /\ UNCHANGED <<outside, offer, approval, acted>>

(***************************************************************************)
(* Turning the token into authority, and a step into an approved one.      *)
(***************************************************************************)
NewApproval ==
  /\ token # Unsigned /\ ~token.expired
  /\ offer # <<>>
  /\ Fingerprint(offer) = token.fingerprint
  /\ approval' = [keys |-> {Key(offer[i]) : i \in DOMAIN offer},
                  seen |-> token.seen, expired |-> FALSE]
  /\ UNCHANGED <<outside, offer, token, acted>>

\* A mutant: the key the step claims is taken on trust.
AuthorizeClaimed(step) ==
  /\ approval.keys # {}
  /\ step.key \in approval.keys

Authorize(step) ==
  /\ approval.keys # {}
  /\ Honest(step)
  /\ step.key \in approval.keys

\* Registry.Execute through the BoundActuator: the registry's gates, Authorize,
\* and the expiry, read again for every step.
Execute(step) ==
  /\ ~ReportOnly
  /\ ~frozen
  /\ Authorize(step)
  /\ ~approval.expired
  /\ acted' = acted \union {step.is}
  /\ UNCHANGED <<outside, offer, token, approval>>

\* Registry.Revert: no window, freeze or expiry for an undo, which needs the
\* approval that covered the step it undoes.
Revert(step) ==
  /\ ~ReportOnly
  /\ Authorize(step)
  /\ acted' = acted \ {step.is}
  /\ UNCHANGED <<outside, offer, token, approval>>

(***************************************************************************)
(* What changes meanwhile.                                                 *)
(***************************************************************************)
Drift(p) ==
  /\ live[p] < MaxDrift
  /\ live' = [live EXCEPT ![p] = @ + 1]
  /\ UNCHANGED <<withheld, blind, frozen, offer, token, approval, acted>>

Reassess(p) ==
  /\ withheld' = IF p \in withheld THEN withheld \ {p} ELSE withheld \union {p}
  /\ UNCHANGED <<live, blind, frozen, offer, token, approval, acted>>

Collect(p) ==
  /\ blind' = IF p \in blind THEN blind \ {p} ELSE blind \union {p}
  /\ UNCHANGED <<live, withheld, frozen, offer, token, approval, acted>>

Guardrail ==
  /\ frozen' = ~frozen
  /\ UNCHANGED <<live, withheld, blind, offer, token, approval, acted>>

\* Time passes every ExpiresAt given out so far.
Lapse ==
  /\ token # Unsigned /\ ~token.expired
  /\ token' = [token EXCEPT !.expired = TRUE]
  /\ approval' = [approval EXCEPT !.expired = approval # Unbound]
  /\ UNCHANGED <<outside, offer, acted>>

\* The process restarts without an approval; what was executed stays executed.
Restart ==
  /\ approval' = Unbound
  /\ UNCHANGED <<outside, offer, token, acted>>

Next ==
  \/ BuildPlan \/ Sign \/ NewApproval \/ Guardrail \/ Lapse \/ Restart
  \/ \E p \in Names : Drift(p) \/ Reassess(p) \/ Collect(p)
  \/ \E step \in Steps : Execute(step) \/ Revert(step)

Spec == Init /\ [][Next]_vars

-----------------------------------------------------------------------------
TypeOK ==
  /\ live \in [Names -> 0..MaxDrift]
  /\ withheld \subseteq Names /\ blind \subseteq Names
  /\ frozen \in BOOLEAN
  /\ {offer, token.fingerprint} \subseteq UNION {[I -> Contents] : I \in SUBSET DOMAIN Parts}
  /\ approval.keys \subseteq Contents /\ acted \subseteq Contents

\* Only what a person signed is done: every step newly executed has contents
\* of the plan the person looked at, at most MaxSteps of them under one
\* approval, and runs before the expiry and outside a freeze (NewApproval,
\* Authorize, check and the registry's gates together).
ActsAsApproved ==
  \A c \in acted' \ acted :
     /\ c \in approval.seen
     /\ Cardinality(approval.keys) <= MaxSteps
     /\ ~approval.expired
     /\ ~frozen
ApprovedOnly == [][ActsAsApproved]_vars
=============================================================================
