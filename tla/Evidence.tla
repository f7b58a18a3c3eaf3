------------------------------- MODULE Evidence -------------------------------
(***************************************************************************)
(* The event log and the usage series that Kilter's evidence is kept in,   *)
(* and the investigations that answer from evidence, in one specification: *)
(* which is the machine a behaviour is about.  The two stores have their   *)
(* own books in the code, an investigation meets them through queries      *)
(* only, and its substrate loses facts at any step, so they share no state *)
(* here either: each machine's INSTANCE says which variables it keeps its  *)
(* own in, and those it does not use are "-".                              *)
(***************************************************************************)
EXTENDS Integers, Sequences, FiniteSets

CONSTANTS Systems,            \* the machines that behaviours are about
          Subjects, Keys, DedupWindow, MaxAge, MaxEventsPerSubject, MaxEventBytes,
          MaxHour, MaxEvents,                                      \* of EventLog
          Levels, SampleHours, DayHours, RawSampleCap, HourlyCap, DailyCap,
          MaxSamplesPerHour, MaxSeriesBytes, RawMaxAge, HourlyMaxAge, DailyMaxAge,
          MaxSamples,                                              \* of Series
          SubjectList, Facts, ScopeFrom, ScopeTo, MaxSpan, MaxRows,
          MaxTurns, MaxTokens, MaxUSD, MinTurnTokens, MaxToolCalls, MaxCallsPerTurn,
          Calls, MaxFan, Charges                                   \* of Investigation

\* The caps are positive constants of the code and the budget is validated; a
\* fact's time tells it apart.
ASSUME EvidenceAssumption ==
  /\ IsFiniteSet(Subjects)
  /\ {DedupWindow, MaxAge, MaxEventBytes, MaxHour, MaxEvents} \subseteq Nat
  /\ MaxEventsPerSubject \in Nat \ {0}
  /\ {SampleHours, MaxSeriesBytes, RawMaxAge, HourlyMaxAge, DailyMaxAge, MaxSamples} \subseteq Nat
  /\ {DayHours, RawSampleCap, HourlyCap, DailyCap, MaxSamplesPerHour} \subseteq Nat \ {0}
  /\ IsFiniteSet(Facts)
  /\ \A f \in Facts : f.at \in Nat /\ \A g \in Facts : f.at = g.at => f = g
  /\ {ScopeFrom, ScopeTo, MaxSpan, MaxRows, MaxUSD} \subseteq Nat
  /\ {MaxTurns, MaxTokens, MinTurnTokens, MaxToolCalls, MaxCallsPerTurn} \subseteq Nat \ {0}
  /\ \A c \in Charges : c.tokens \in Nat /\ c.usd \in Nat
  /\ MaxFan \in Nat
  /\ \A c \in Calls : c.from \in Nat /\ c.to \in Nat /\ c.limit \in Int

VARIABLES which, hour, db, run, snap, env, targets, checkpoint, report, was, events

vars == <<which, run, hour, db, snap, env, targets, checkpoint, report, was, events>>

Log == INSTANCE EventLog WITH log <- db, logged <- hour, arrived <- run
Ser == INSTANCE Series WITH series <- db, bytes <- hour, seq <- run, MaxHour <- SampleHours
Inv == INSTANCE Investigation WITH phase <- run, spend <- env, pending <- snap,
  inTurn <- hour, issued <- targets, verified <- checkpoint, rejected <- was, live <- db,
  audit <- report, Subjects <- SubjectList

Unset(v) == v = "-"

EvidenceInit ==
  /\ which \in Systems
  /\ \/ /\ which = "log" /\ Log!Init
        /\ Unset(snap) /\ Unset(env) /\ Unset(targets) /\ Unset(checkpoint) /\ Unset(report)
        /\ Unset(was) /\ Unset(events)
     \/ /\ which = "series" /\ Ser!Init
        /\ Unset(snap) /\ Unset(env) /\ Unset(targets) /\ Unset(checkpoint) /\ Unset(report)
        /\ Unset(was) /\ Unset(events)
     \/ which = "reason" /\ Inv!Init /\ Unset(events)

\* inputs are enumerated for the machine the behaviour is about only.
Only(system, S) == IF which = system THEN S ELSE {}

On(system, idle, A) == which = system /\ A /\ UNCHANGED <<which, idle>>

OnLog(A) == On("log", <<snap, env, targets, checkpoint, report, was, events>>, A)
NextLog ==
  \/ \E s \in Only("log", Subjects), k \in Keys, at \in 0..MaxHour, sev \in Log!Severities :
       OnLog(Log!Fold(s, k, at, sev)) \/ OnLog(Log!Store(s, k, at, sev))
  \/ \E now \in Only("log", 0..MaxHour) : OnLog(Log!Prune(now))
  \/ OnLog(Log!Restart)

OnSeries(A) == On("series", <<snap, env, targets, checkpoint, report, was, events>>, A)
NextSeries ==
  \/ \E s \in Only("series", Subjects), h \in Ser!Hours, l \in Levels, k \in BOOLEAN :
       OnSeries(Ser!ObserveSample(s, Ser!Sample(h, l, k)))
  \/ \E now \in Only("series", Ser!Hours) :
       OnSeries((\A s \in Ser!Held : db[s].lastAt <= now) /\ Ser!Prune(now))
  \/ OnSeries(Ser!Restart)

OnReason(A) == On("reason", events, A)
NextReason ==
  \/ OnReason(Inv!Ask) \/ OnReason(Inv!Stop) \/ OnReason(Inv!ProviderFails)
  \/ OnReason(Inv!Call) \/ OnReason(Inv!Again) \/ OnReason(Inv!VerifyCitation) \/ OnReason(Inv!Publish)
  \/ \E c \in Only("reason", Charges) :
       \/ \E asked \in Inv!Asked : OnReason(Inv!TurnCalls(c, asked))
       \/ \E handles \in Inv!Handles : OnReason(Inv!TurnAnswers(c, handles))
       \/ OnReason(Inv!TurnIsMalformed(c))
  \/ \E f \in Only("reason", Facts) : OnReason(Inv!Evict(f))

EvidenceNext == NextLog \/ NextSeries \/ NextReason

\* The fairness of Investigation; the stores are data structures that are called.
Fairness == WF_vars(which = "reason" /\ UNCHANGED <<which, events>> /\ Inv!Step)

EvidenceSpec == EvidenceInit /\ [][EvidenceNext]_vars /\ Fairness

-----------------------------------------------------------------------------
\* An append takes the oldest entries of all subjects and no other, except for
\* the oldest of a subject that is full (log.go enforceBudget, append).
EvictsOldest == [][which = "log" => Log!TakesTheOldest]_vars

\* What a store accounts for is what it holds, and its checkpoint loads again
\* (log.go enforceBudget, filterAll; series.go rollHour; codec.go FromCheckpoint).
BooksBalance ==
  /\ which = "log" => Log!LogAgrees
  /\ which = "series" => Ser!BytesAgree /\ Ser!Restorable

\* An answer is published with evidence that a tool call of the session showed
\* and the scope admits, and the chain accounts for every turn, call and token
\* (loop.go publish, tools.go clampWindow, audit.go, budget.go).
AnswerIsGrounded == which = "reason" => Inv!AnswerIsGrounded /\ Inv!ChainAccounts

\* An investigation ends, whatever the model asks for (budget.go exhausted).
InvestigationEnds ==
  (which = "reason" /\ run # "idle") ~> (which = "reason" /\ run = "done")
=============================================================================
