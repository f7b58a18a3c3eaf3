---- MODULE Safety ----
(***************************************************************************)
(* The disruption rules of pkg/safety as pure operators: cooldowns, the    *)
(* sliding eviction budget, the PodDisruptionBudget ledger and the         *)
(* regression watch.  Times are naturals; a map entry Go leaves out is the *)
(* sentinel Never.                                                         *)
(***************************************************************************)
EXTENDS Integers, FiniteSets

Never == -1

(* ---- Cooldowns: one timestamp per key ---- *)

\* Cooldowns.Allow's test: the key is unknown or its interval has passed.
CooldownOver(last, key, interval, now) ==
    last[key] = Never \/ now - last[key] >= interval

\* Cooldowns.Allow's effect on the keys it let through.
Touched(last, keys, now) ==
    [k \in DOMAIN last |-> IF k \in keys THEN now ELSE last[k]]

(* ---- Budget: at most max events in any window ---- *)

\* A grant of the budget: Go keeps its time, id tells equal times apart.
Grants == [id: Nat, at: Nat]

\* The events Budget.Allow keeps: those after now - window.
Live(events, window, now) == {e \in events : e.at > now - window}

\* Mutant: one grant too many.
AllowsOneMore(events, max, window, now) == Cardinality(Live(events, window, now)) <= max

BudgetAllows(events, max, window, now) == Cardinality(Live(events, window, now)) < max

(* ---- PDBGuard: disruptions left per budget, seeded from the snapshot ---- *)

\* NewPDBGuard: a negative allowance is a refusal.
PDBLedger(allowed) == [b \in DOMAIN allowed |-> IF allowed[b] < 0 THEN 0 ELSE allowed[b]]

\* Mutant: a spent budget still grants one.
CanReserveAtZero(ledger, covering) == \A b \in covering : ledger[b] >= 0

\* Reserve is refused if any covering budget is spent ...
CanReserve(ledger, covering) == \A b \in covering : ledger[b] > 0

\* ... and otherwise takes one from each of them.
Reserved(ledger, covering) ==
    [b \in DOMAIN ledger |-> IF b \in covering THEN ledger[b] - 1 ELSE ledger[b]]

\* Release gives one back, never above what was collected.
Released(ledger, initial, covering) ==
    [b \in DOMAIN ledger |-> IF b \in covering /\ ledger[b] < initial[b]
                             THEN ledger[b] + 1 ELSE ledger[b]]

(* ---- RegressionDetector: a watch per changed workload, then a quarantine ---- *)

NoWatch == [at |-> Never, base |-> 0]

Watched(watch, w) == watch[w].at # Never

\* Check drops a watch older than the window before it looks at the pods.
WatchLapsed(watch, w, window, now) == Watched(watch, w) /\ now - watch[w].at > window

\* The workloads Check declares regressed: watched, and hurt since the baseline.
Regressed(watch, harm, window, now) ==
    {w \in DOMAIN watch : /\ Watched(watch, w)
                          /\ now - watch[w].at <= window
                          /\ harm[w] > watch[w].base}

Quarantined(until, w, now) == until[w] # Never /\ now <= until[w]
====
