---------------------------- MODULE Investigation ----------------------------
(***************************************************************************)
(* One investigation of the reasoning plane (pkg/reason): the loop of      *)
(* provider turns and tool calls, the budget it is charged to, the ledger  *)
(* of citations the model was shown, the publish gate and the audit chain. *)
(* The model behind the provider is the environment: it may call anything, *)
(* cite anything and fail at any turn.  The substrate is shared with the   *)
(* feed, so a fact the model was shown can be evicted while the            *)
(* investigation runs.  A fact stands for its evidence id.                 *)
(***************************************************************************)
EXTENDS Integers, Sequences, FiniteSets

CONSTANTS
    Subjects,     \* the cluster's subjects, in the order list_subjects gives
    Facts,        \* [kind : {"event", "point"}, subject, at]; at is unique
    ScopeFrom, ScopeTo,  \* the window the registry was opened with
    MaxSpan,      \* maxEvidenceSpan
    MaxRows,      \* maxRowLimit
    MaxTurns, MaxTokens, MaxUSD, MinTurnTokens, MaxToolCalls, MaxCallsPerTurn,
    Calls,        \* the tool calls the model may ask for
    MaxFan,       \* bound: how many calls one turn asks for
    Charges       \* [tokens, usd] one turn may cost

VARIABLES
    phase,     \* "idle" | "asking" | "calling" | "publishing" | "done"
    spend,     \* [turns, tokens, usd, toolCalls]
    pending,   \* the calls, or the cited handles, still to be handled
    inTurn,    \* how many of this turn's calls were handled
    issued,    \* the facts behind handles 1, 2, ... (handleFor, idFor)
    verified,  \* facts the publish gate resolved so far
    rejected,  \* how many citations it rejected
    live,      \* the facts the substrate still holds
    audit      \* the chain of audit records

vars == <<phase, spend, pending, inTurn, issued, verified, rejected, live, audit>>

Entry(kind) == [kind |-> kind, cites |-> {}, refused |-> FALSE, capped |-> FALSE,
                failed |-> FALSE, charge |-> 0, state |-> ""]

Init ==
    /\ phase = "idle"
    /\ spend = [turns |-> 0, tokens |-> 0, usd |-> 0, toolCalls |-> 0]
    /\ pending = <<>> /\ inTurn = 0
    /\ issued = <<>> /\ verified = <<>> /\ rejected = 0
    /\ live = Facts
    /\ audit = <<>>

------------------------------------------------------------------------------
(* The budget. *)

Lower(a, b) == IF a < b THEN a ELSE b
Higher(a, b) == IF a > b THEN a ELSE b

RemainingTokens == Higher(MaxTokens - spend.tokens, 0)

\* exhausted: the terminal state one more turn would violate.
Exhausted ==
    IF spend.turns >= MaxTurns THEN "turn-limit"
    ELSE IF RemainingTokens < MinTurnTokens THEN "budget-tokens"
    ELSE IF MaxUSD > 0 /\ spend.usd >= MaxUSD THEN "budget-usd"
    ELSE ""

ToolCallAllowed == inTurn < MaxCallsPerTurn /\ spend.toolCalls < MaxToolCalls

------------------------------------------------------------------------------
(* The registry: a call is refused, or answered with a projection of the    *)
(* substrate and the facts it showed.  A call is a record of its arguments: *)
(* [tool, fits (what the schema's shape checks said), index, key, from, to, *)
(* limit]; index -1, key "" and from = to = 0 stand for absent.             *)

\* Validate and the quantity branch of parse: a quantity outside its bounds is
\* clamped, never refused.
ClampLimit(call) == Lower(Higher(call.limit, 1), MaxRows)

\* subjectOf: exactly one selector, and it must name an enumerated subject.
Selected(call) ==
    IF call.index >= 0 /\ call.key # "" THEN {}
    ELSE IF call.index >= 0 THEN {Subjects[i] : i \in {call.index + 1} \cap DOMAIN Subjects}
    ELSE {call.key} \cap {Subjects[i] : i \in DOMAIN Subjects}

\* A mutant: the asked window is not intersected with the scope's.
ClampSpan(call, maxSpan) ==
    LET absent == call.from = 0 /\ call.to = 0
    IN IF absent THEN <<ScopeFrom, ScopeTo>>
       ELSE IF call.to <= call.from THEN <<>> ELSE <<call.from, call.to>>

\* clampWindow: the asked window intersected with the scope's and cut to the
\* span; <<>> when it is inverted or the intersection is empty.
ClampWindow(call, maxSpan) ==
    LET absent == call.from = 0 /\ call.to = 0
        from == IF absent THEN ScopeFrom ELSE call.from
        to   == IF absent THEN ScopeTo ELSE call.to
        lo   == Higher(from, ScopeFrom)
        hi   == Lower(to, ScopeTo)
    IN IF to <= from \/ hi <= lo THEN <<>>
       ELSE <<lo, IF maxSpan > 0 THEN Lower(hi, lo + maxSpan) ELSE hi>>

InWindow(f, w) == w[1] <= f.at /\ f.at < w[2]

\* the n newest of a set of facts.
Newest(S, n) == {f \in S : Cardinality({g \in S : g.at > f.at}) < n}

\* evenIndices: at most want of n positions, first and last included.
EvenIndices(n, want) ==
    IF n <= want THEN 1..n
    ELSE IF want = 1 THEN {1}
    ELSE {(i * (n - 1)) \div (want - 1) + 1 : i \in 0..want - 1}

\* runQueryEvidence: events of one subject, newest first, at most limit of them.
QueryEvidence(call) ==
    LET w == ClampWindow(call, MaxSpan)
    IN Newest({f \in live : /\ f.kind = "event" /\ f.subject \in Selected(call)
                            /\ InWindow(f, w)}, ClampLimit(call))

\* runClusterTimeline: points of the window, evenly sampled.
ClusterTimeline(call) ==
    LET pts == {f \in live : f.kind = "point" /\ InWindow(f, ClampWindow(call, 0))}
        position(f) == Cardinality({g \in pts : g.at <= f.at})
    IN {f \in pts : position(f) \in EvenIndices(Cardinality(pts), Higher(call.limit, 2))}

\* runGetDossier and runExplain: every fact of the subject the window holds
\* (their byte caps drop facts, which the row cap of a query already shows).
CaseFile(call) ==
    {f \in live : f.subject \in Selected(call) /\ InWindow(f, ClampWindow(call, 0))}

\* Registry.Run up to the tool's body: unknown tool, arguments that do not fit
\* the schema, a selector that names nothing, an empty window; a body that
\* times out, fails or answers too much is refused as well (fits = FALSE).
Refused(call) ==
    \/ call.tool \notin {"list", "dossier", "query", "timeline", "explain"}
    \/ ~call.fits
    \/ call.tool \in {"dossier", "query", "explain"} /\ Selected(call) = {}
    \/ call.tool # "list"
       /\ ClampWindow(call, IF call.tool = "query" THEN MaxSpan ELSE 0) = <<>>

\* Registry.Run: what the call shows; listing subjects cites nothing.
Shows(call) ==
    IF Refused(call) \/ call.tool = "list" THEN {}
    ELSE IF call.tool = "query" THEN QueryEvidence(call)
    ELSE IF call.tool = "timeline" THEN ClusterTimeline(call)
    ELSE CaseFile(call)

------------------------------------------------------------------------------
(* The loop. *)

Issued == {issued[i] : i \in DOMAIN issued}

\* record: a handle for each citation not seen before, in the tool's order.
Record(S) ==
    LET fresh == S \ Issued
        rank(f) == Cardinality({g \in fresh : g.at <= f.at})
    IN issued' = issued \o [n \in 1..Cardinality(fresh) |-> CHOOSE f \in fresh : rank(f) = n]

\* Run up to the loop: the question opens the chain.
Ask ==
    /\ phase = "idle"
    /\ phase' = "asking"
    /\ audit' = <<Entry("question")>>
    /\ UNCHANGED <<spend, pending, inTurn, issued, verified, rejected, live>>

\* terminal, closeAudit: the outcome record seals the chain.  A partial finding
\* reports what the session was shown and the substrate still holds.
Close(state, cites) ==
    /\ phase' = "done"
    /\ audit' = Append(audit, [Entry("outcome") EXCEPT !.state = state, !.cites = cites])

\* the head of the loop: the budget is spent before another turn starts.
Stop ==
    /\ phase = "asking" /\ Exhausted # ""
    /\ Close(Exhausted, Issued \cap live)
    /\ UNCHANGED <<spend, pending, inTurn, issued, verified, rejected, live>>

\* Chat failed: the turn is audited and not charged.
ProviderFails ==
    /\ phase = "asking" /\ Exhausted = ""
    /\ phase' = "done"
    /\ audit' = audit \o <<[Entry("turn") EXCEPT !.failed = TRUE],
                           [Entry("outcome") EXCEPT !.state = "provider-failed"]>>
    /\ UNCHANGED <<spend, pending, inTurn, issued, verified, rejected, live>>

\* charge, and the turn's audit record.
Charge(c) ==
    /\ phase = "asking" /\ Exhausted = ""
    /\ spend' = [spend EXCEPT !.turns = @ + 1, !.tokens = @ + c.tokens, !.usd = @ + c.usd]

TurnRecord(c) == [Entry("turn") EXCEPT !.charge = c.tokens]

\* a turn that asks for tools.
TurnCalls(c, asked) ==
    /\ Charge(c)
    /\ phase' = "calling"
    /\ pending' = asked /\ inTurn' = 0
    /\ audit' = Append(audit, TurnRecord(c))
    /\ UNCHANGED <<issued, verified, rejected, live>>

\* a turn with a finding: its handles go through the publish gate.
TurnAnswers(c, handles) ==
    /\ Charge(c)
    /\ phase' = "publishing"
    /\ pending' = handles
    /\ audit' = Append(audit, TurnRecord(c))
    /\ UNCHANGED <<inTurn, issued, verified, rejected, live>>

\* a turn without a finding and without calls, or a finding of another shape.
TurnIsMalformed(c) ==
    /\ Charge(c)
    /\ phase' = "done"
    /\ audit' = audit \o <<TurnRecord(c), [Entry("outcome") EXCEPT !.state = "malformed"]>>
    /\ UNCHANGED <<pending, inTurn, issued, verified, rejected, live>>

\* A mutant: a call beyond the caps waits for them instead of being refused.
CallWaits ==
    /\ phase = "calling" /\ pending # <<>> /\ ToolCallAllowed
    /\ spend' = [spend EXCEPT !.toolCalls = @ + 1]
    /\ Record(Shows(Head(pending)))
    /\ audit' = Append(audit, [Entry("tool") EXCEPT !.cites = Shows(Head(pending)),
                                                    !.refused = Refused(Head(pending))])
    /\ pending' = Tail(pending) /\ inTurn' = inTurn + 1
    /\ UNCHANGED <<phase, verified, rejected, live>>

\* one round of runCalls, with deliver: a call beyond the caps is refused and
\* audited without running.
Call ==
    /\ phase = "calling" /\ pending # <<>>
    /\ LET call == Head(pending)
           shown == IF ToolCallAllowed THEN Shows(call) ELSE {}
       IN /\ spend' = [spend EXCEPT !.toolCalls = IF ToolCallAllowed THEN @ + 1 ELSE @]
          /\ Record(shown)
          /\ audit' = Append(audit, [Entry("tool") EXCEPT
                                       !.cites = shown, !.capped = ~ToolCallAllowed,
                                       !.refused = ~ToolCallAllowed \/ Refused(call)])
    /\ pending' = Tail(pending) /\ inTurn' = inTurn + 1
    /\ UNCHANGED <<phase, verified, rejected, live>>

\* the loop comes round when every call was delivered.
Again ==
    /\ phase = "calling" /\ pending = <<>>
    /\ phase' = "asking"
    /\ UNCHANGED <<spend, pending, inTurn, issued, verified, rejected, live, audit>>

\* one round of publish: the handle must have been issued, and the fact behind
\* it must still resolve.
VerifyCitation ==
    /\ phase = "publishing" /\ pending # <<>>
    /\ LET h == Head(pending).handle
           holds == h \in DOMAIN issued /\ issued[h] \in live
       IN IF holds
          THEN verified' = Append(verified, issued[h]) /\ UNCHANGED rejected
          ELSE rejected' = rejected + 1 /\ UNCHANGED verified
    /\ pending' = Tail(pending)
    /\ UNCHANGED <<phase, spend, inTurn, issued, live, audit>>

\* the rest of publish: an answer with one bad citation, or none, is discarded.
Publish ==
    /\ phase = "publishing" /\ pending = <<>>
    /\ IF rejected > 0 \/ verified = <<>>
       THEN Close("discarded", {})
       ELSE Close("answered", {verified[i] : i \in DOMAIN verified})
    /\ UNCHANGED <<spend, pending, inTurn, issued, verified, rejected, live>>

\* the substrate prunes or evicts a fact while the investigation runs.
Evict(f) ==
    /\ phase \notin {"idle", "done"} /\ f \in live
    /\ live' = live \ {f}
    /\ UNCHANGED <<phase, spend, pending, inTurn, issued, verified, rejected, audit>>

Asked == UNION {[1..n -> Calls] : n \in 1..MaxFan}
Handles == UNION {[1..n -> [handle : 0..Cardinality(Facts)]] : n \in 0..MaxFan}

Turn ==
    \E c \in Charges :
        \/ \E asked \in Asked : TurnCalls(c, asked)
        \/ \E handles \in Handles : TurnAnswers(c, handles)
        \/ TurnIsMalformed(c)

Step == Ask \/ Stop \/ ProviderFails \/ Turn \/ Call \/ Again \/ VerifyCitation \/ Publish

Next == Step \/ \E f \in Facts : Evict(f)

Fairness == WF_vars(Step)

Spec == Init /\ [][Next]_vars /\ Fairness

------------------------------------------------------------------------------
Records(kind) == {i \in DOMAIN audit : audit[i].kind = kind}
Shown == UNION {audit[i].cites : i \in Records("tool")}

(* An answer is published only with evidence, and every piece of it lies in  *)
(* the window the investigation was opened with, was shown to the model by   *)
(* a tool call of this session that the chain records, and resolved when the *)
(* gate looked it up (loop.go publish, tools.go clampWindow).                *)
AnswerIsGrounded ==
    \A i \in Records("outcome") : audit[i].state = "answered" =>
        /\ audit[i].cites # {}
        /\ audit[i].cites \subseteq Shown
        /\ \A f \in audit[i].cites : ScopeFrom <= f.at /\ f.at < ScopeTo

(* The chain alone accounts for the investigation: it opens with the         *)
(* question, ends with one outcome, and recounting its records gives the     *)
(* turns, tokens and tool calls the session charged; no budget is passed by  *)
(* more than the turn that reached it (audit.go, budget.go exhausted).       *)
ChainAccounts ==
    /\ Records("question") \subseteq {1}
    /\ Records("outcome") = IF phase = "done" THEN {Len(audit)} ELSE {}
    /\ spend.turns = Cardinality({i \in Records("turn") : ~audit[i].failed})
    /\ spend.toolCalls = Cardinality({i \in Records("tool") : ~audit[i].capped})
    /\ spend.turns <= MaxTurns /\ spend.toolCalls <= MaxToolCalls
    /\ \A i \in Records("turn") : spend.tokens - audit[i].charge <= MaxTokens - MinTurnTokens
                                  \/ \E j \in Records("turn") : j > i

(* An investigation that was opened ends, whatever the model asks for        *)
(* (budget.go: every field bounds the loop).                                 *)
InvestigationEnds == phase # "idle" ~> phase = "done"
==============================================================================
