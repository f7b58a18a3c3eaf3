----------------------------- MODULE Commitments -----------------------------
(***************************************************************************)
(* What a change of the account's usage really saves (pkg/pricing/commit,  *)
(* domain.Ledger): an hour of usage is billed through the waterfall of     *)
(* reservations and savings plans, and a change is priced as the           *)
(* difference of two bills.  Between assessments the owner changes usage,  *)
(* commitments expire and the rates of the plans become known.             *)
(*                                                                         *)
(* Prices are per normalization unit, which makes every division of the    *)
(* code exact; an hour is a number of units.  A line is                    *)
(* [kind, family, size, copies, zone, count]: size is the units of one     *)
(* instance, copies what a Multi-AZ deployment multiplies them by.         *)
(***************************************************************************)
EXTENDS Integers, Sequences, FiniteSetsExt, SequencesExt

CONSTANTS
    Lines,          \* the ids of the usage lines, natural numbers
    Shapes,         \* Shapes[i]: what the line of id i can be
    RIs, ReservedDBs,        \* [id, shape fields, units, rate, expires]
    EC2Plans, ComputePlans,  \* [id, family, rate (per hour), expires]
    Rigid,          \* families, or engines, without size flexibility
    Od, EC2Rate, ComputeRate, \* the list price and the plans' rates, by family
    Unknown,        \* rate keys the catalog does not know at first
    MaxHour         \* bound: the clock

VARIABLES usage,    \* the account's lines, by id
          known,    \* the rate keys the synced table knows
          hour,
          offer     \* the change assessed last

vars == <<usage, known, hour, offer>>

Absent == [kind |-> "none", family |-> "none", size |-> 1, copies |-> 1, zone |-> "", count |-> 0]
NoOffer == [line |-> 0, to |-> Absent, net |-> 0, gross |-> 0, verdict |-> "none",
            floor |-> FALSE, validFrom |-> 0]

Each(l) == l.size * l.copies
Quantity(l) == l.count * Each(l)
RateKey(l) == <<l.family, l.size>>
Shape == UNION {Shapes[i] : i \in Lines}
RateKeys == {RateKey(l) : l \in Shape}

------------------------------------------------------------------------------
(* The waterfall.  A bill in the making knows what is left of each line,    *)
(* what each commitment absorbed, and the lines priced without a rate.      *)

\* Active: what is in force at hour t; canonicalRIs, canonicalReservedDBs and
\* canonicalSPs: soonest to expire first.
Active(commitments, t) == {c \in commitments : c.expires > t}
Canonical(S) ==
    SetToSortSeq(S, LAMBDA c, d : c.expires < d.expires \/ (c.expires = d.expires /\ c.id < d.id))

\* newStates.
Opened(u) == [left |-> [i \in Lines |-> Quantity(u[i])], used |-> <<>>, fallback |-> {}]

Smallest(u, S) ==
    SetToSortSeq(S, LAMBDA i, j : Each(u[i]) < Each(u[j]) \/ (Each(u[i]) = Each(u[j]) /\ i < j))

Absorb(b, c, absorbed) == [b EXCEPT !.used = Append(@, [of |-> c, absorbed |-> absorbed])]

\* applyRI and applyReservedDB: the units of the lines the reservation matches,
\* smallest first, until its capacity is used up.
SizeFlexible(r) == r.zone = "" /\ r.family \notin Rigid
Matches(r, l) ==
    /\ l.kind = r.kind /\ l.family = r.family
    /\ r.zone # "" => l.zone = r.zone
    /\ ~SizeFlexible(r) => l.size = r.size /\ l.copies = r.copies
applyReserved(u, b, r) ==
    LET elig == Smallest(u, {i \in Lines : b.left[i] > 0 /\ Matches(r, u[i])})
        take(s, i) == LET t == Min({s.budget, s.left[i]})
                      IN [budget |-> s.budget - t, left |-> [s.left EXCEPT ![i] = @ - t]]
        done == FoldLeft(take, [budget |-> r.units, left |-> b.left], elig)
    IN Absorb([b EXCEPT !.left = done.left], r, r.rate * (r.units - done.budget))

\* applySPPool: the highest saving first, then the lower rate; a line whose rate
\* is unknown is covered free and consumes nothing.  What the pool consumed is
\* attributed to its plans in order.
Ranked(u, rate, S) == SetToSortSeq(S, LAMBDA i, j :
    LET gain(k, l) == (Od[u[k].family] - rate[u[k].family]) * Od[u[l].family]
        price(k) == rate[u[k].family] * Each(u[k])
    IN \/ gain(i, j) > gain(j, i)
       \/ gain(i, j) = gain(j, i) /\ (price(i) < price(j) \/ (price(i) = price(j) /\ i < j)))

Attribute(b, pool, consumed) ==
    LET share(s, c) == LET t == Min({s.rem, c.rate})
                       IN [rem |-> s.rem - t, b |-> Absorb(s.b, c, t)]
    IN FoldLeft(share, [rem |-> consumed, b |-> b], pool).b

Unpriced(u, S, rates, force) == {i \in S : i \in force \/ RateKey(u[i]) \notin rates}

applySPPool(u, b, pool, rates, rate, force, eligible) ==
    LET start == FoldLeft(LAMBDA s, c : s + c.rate, 0, pool)
        free == Unpriced(u, eligible, rates, force)
        cover(s, i) ==
            LET r == rate[u[i].family]
                q == Min({s.left[i], s.budget \div r})
            IN [budget |-> s.budget - q * r, left |-> [s.left EXCEPT ![i] = @ - q]]
        done == FoldLeft(cover, [budget |-> start, left |-> b.left], Ranked(u, rate, eligible \ free))
    IN IF start = 0 THEN b
       ELSE Attribute([b EXCEPT !.left = [i \in Lines |-> IF i \in free THEN 0 ELSE done.left[i]],
                                !.fallback = @ \cup free],
                      pool, start - done.budget)

\* bill, its stages in order: zonal and regional reservations, reserved
\* databases, the plans of one family, the plans of the account.
Left(b, u, P(_)) == {i \in Lines : b.left[i] > 0 /\ P(u[i])}
reserve(u, b, t) ==
    FoldLeft(LAMBDA s, r : applyReserved(u, s, r), b,
             Canonical({r \in Active(RIs, t) : r.zone # ""})
             \o Canonical({r \in Active(RIs, t) : r.zone = ""})
             \o Canonical(Active(ReservedDBs, t)))
groupEC2SPs(u, b, t, rates, force) ==
    FoldLeft(LAMBDA s, f : applySPPool(u, s, Canonical({c \in Active(EC2Plans, t) : c.family = f}),
                                       rates, EC2Rate, force,
                                       Left(s, u, LAMBDA l : l.kind = "ec2" /\ l.family = f)),
             b, SetToSeq({c.family : c \in Active(EC2Plans, t)}))
bill(u, t, rates, force) ==
    LET b == groupEC2SPs(u, reserve(u, Opened(u), t), t, rates, force)
    IN applySPPool(u, b, Canonical(Active(ComputePlans, t)), rates, ComputeRate, force,
                   Left(b, u, LAMBDA l : l.kind \in {"ec2", "fargate"}))

\* Cost: a commitment is paid for whether or not usage absorbs it.
Committed(c) == IF "units" \in DOMAIN c THEN c.units * c.rate ELSE c.rate
CommittedUSD(b) == FoldLeft(LAMBDA s, x : s + Committed(x.of), 0, b.used)
OnDemandUSD(u, left) == MapThenSumSet(LAMBDA i : left[i] * Od[u[i].family], Lines)
HourlyUSD(u, b) == CommittedUSD(b) + OnDemandUSD(u, b.left)
Stranded(b, c) ==
    FoldLeft(LAMBDA s, x : IF x.of = c THEN s + Committed(c) - x.absorbed ELSE s, 0, b.used)
Commitments(b) == {b.used[n].of : n \in DOMAIN b.used}

------------------------------------------------------------------------------
(* Ledger.Net and NetSavings: what is claimed for changing one line.        *)

\* splice: the changed line replaces the one of its id.
splice(u, i, to) == [u EXCEPT ![i] = to]

\* both sides price the lines without a rate the same way (fallbackIDs).
Rebill(both, force, before, after, t, rates) ==
    IF force = {} THEN both ELSE <<bill(before, t, rates, force), bill(after, t, rates, force)>>
Harmonise(both, before, after, t, rates) ==
    Rebill(both, both[1].fallback \cup both[2].fallback, before, after, t, rates)
Bills(before, after, t, rates) ==
    Harmonise(<<bill(before, t, rates, {}), bill(after, t, rates, {})>>, before, after, t, rates)

\* newlyStrandedExpiry: when the first commitment that the change strands ends.
newlyStrandedExpiry(b, a) ==
    LET struck == {c \in Commitments(a) : Stranded(a, c) > Stranded(b, c)}
    IN IF struck = {} THEN 0 ELSE Min({c.expires : c \in struck})

Claim(i, to, net, gross, both) ==
    [line |-> i, to |-> to, net |-> net, gross |-> gross,
     verdict |-> CASE net < 0 -> "negative"
                   [] net = 0 /\ gross > 0 -> "neutral"
                   [] OTHER -> "claim",
     floor |-> both[1].fallback \cup both[2].fallback # {},
     validFrom |-> newlyStrandedExpiry(both[1], both[2])]
Net(before, after, i, to, both) ==
    Claim(i, to, HourlyUSD(before, both[1]) - HourlyUSD(after, both[2]),
          OnDemandUSD(before, Opened(before).left) - OnDemandUSD(after, Opened(after).left), both)
NetSavings(before, i, to, t, rates) ==
    LET after == splice(before, i, to)
    IN Net(before, after, i, to, Bills(before, after, t, rates))

------------------------------------------------------------------------------
Init ==
    /\ usage \in {u \in [Lines -> Shape] : \A i \in Lines : u[i] \in Shapes[i]}
    /\ known = RateKeys \ Unknown
    /\ hour = 0 /\ offer = NoOffer

\* a report prices a change of one line.
Assess(i, to) ==
    /\ to # usage[i]
    /\ offer' = NetSavings(usage, i, to, hour, known)
    /\ UNCHANGED <<usage, known, hour>>

\* the owner takes the change.
Take ==
    /\ offer.verdict = "claim"
    /\ usage' = splice(usage, offer.line, offer.to)
    /\ offer' = NoOffer
    /\ UNCHANGED <<known, hour>>

\* an hour passes, and with it the commitments that end.
Pass ==
    /\ hour < MaxHour
    /\ hour' = hour + 1 /\ offer' = NoOffer
    /\ UNCHANGED <<usage, known>>

\* RateTable.Apply after a sync brought the rate of a usage type.
Sync(k) ==
    /\ k \notin known
    /\ known' = known \cup {k} /\ offer' = NoOffer
    /\ UNCHANGED <<usage, hour>>

Next ==
    \/ \E i \in Lines : \E to \in Shapes[i] : Assess(i, to)
    \/ Take \/ Pass
    \/ \E k \in Unknown : Sync(k)

Spec == Init /\ [][Next]_vars

------------------------------------------------------------------------------
\* what the invoice will say: every rate is charged, known to the catalog or not.
Invoice(u) == HourlyUSD(u, bill(u, hour, RateKeys, {}))
Realized == Invoice(usage) - Invoice(splice(usage, offer.line, offer.to))

(* The bill is a partition: what is absorbed never passes what is committed, *)
(* no line is covered beyond its quantity, and a commitment is not charged   *)
(* twice (waterfall.go bill).                                                *)
BillBalances ==
    \A b \in {bill(usage, hour, known, {})} :
       /\ \A i \in Lines : 0 <= b.left[i] /\ b.left[i] <= Quantity(usage[i])
       /\ \A n \in DOMAIN b.used : 0 <= b.used[n].absorbed /\ b.used[n].absorbed <= Committed(b.used[n].of)
       /\ Cardinality(Commitments(b)) = Len(b.used)

\* a reservation that a change of the family can take from one line for another.
Displaces(l) == \E r \in Active(RIs \cup ReservedDBs, hour) : r.family = l.family

(* A saving is never invented: a change that is offered lowers the invoice   *)
(* by what was claimed.  When a rate was unknown the claim is a floor, for a *)
(* change within a family that no reservation covers (netsavings.go:80       *)
(* "manufacture a saving"; with a reservation it can be: see the hazards).   *)
HonestSavings ==
    offer.net > 0 =>
        IF ~offer.floor THEN offer.net = Realized
        ELSE /\ offer.to.family = usage[offer.line].family
             /\ ~Displaces(offer.to)
             => offer.net <= Realized
==============================================================================
