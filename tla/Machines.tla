------------------------------ MODULE Machines ------------------------------
(***************************************************************************)
(* EC2 rightsizing (pkg/ec2 collect.go, sizer.go, burst.go, batchenrich.go *)
(* and the domain around them): instances are listed page by page, their   *)
(* metrics are fetched page by page, and each instance is assessed from    *)
(* what was delivered.  CloudWatch is the environment: a page can be the   *)
(* last one the budget allows, a series can be answered in part, and a     *)
(* query may get no answer at all.  Every instance's series is what        *)
(* CloudWatch holds; each answer brings the next Chunk hours of it.        *)
(***************************************************************************)
EXTENDS Integers, Sequences, FiniteSetsExt

CONSTANTS
    Fleets,       \* functions of instance ids to instances, see Instance
    Catalog,      \* Catalog[type] = [milli, mem, usd, arch, burst (baseline known), t (T family)]
    Hours, Chunk, \* the window, in hours, and how many of them one answer holds
    MinWindow,    \* Config: hours a proposal must rest on
    CPUHeadroom, MemHeadroom, CoarseHeadroom, \* Config, percentages
    MinCoverage, MinConfidence,               \* Config, per mille
    Stranded,     \* <<from, to>>: moves the commitment waterfall saves nothing on
    MaxPages,     \* CollectorConfig.MaxPages
    Environments, \* Batch compute environments: [name, managed, minv, types, bestFit, bid]
    MaxBad        \* bound: how many answers are incomplete

VARIABLES fleet,   \* the account
          phase,   \* "list" | "metrics" | "batch" | "assess" | "done" | "failed"
          listed,  \* the instances read so far
          pages,   \* pages of the listing, or of the metrics, read so far
          answer,  \* answer[q]: [chunks, bad] what came back for query q
          bad,     \* incomplete answers so far
          stale,   \* the metrics' page budget ran out, or a query was not answered
          batch,   \* the enrichment: [found, partial]
          report   \* assessments, by instance

vars == <<fleet, phase, listed, pages, answer, bad, stale, batch, report>>

(* An instance: [owner, type, arch, state, detailed, mode, store, series],   *)
(* series[m] the function of the hours CloudWatch holds to their values.     *)

Queries(ids) ==
    UNION {{<<i, m>> : m \in {"cpu", "mem"} \cup
               IF Catalog[fleet[i].type].t THEN {"balance", "surplus"} ELSE {}} : i \in ids}

NoAnswer == [chunks |-> 0, bad |-> FALSE]
Verdict == [codes |-> {}, to |-> "none", arm |-> "none", score |-> 0]

Init ==
    /\ fleet \in Fleets
    /\ phase = "list" /\ listed = {} /\ pages = 0
    /\ answer = [q \in {} |-> NoAnswer] /\ bad = 0 /\ stale = FALSE
    /\ batch = [found |-> {}, partial |-> FALSE]
    /\ report = [i \in {} |-> Verdict]

------------------------------------------------------------------------------
(* Collection. *)

\* describeInstances: one page; an instance seen twice counts once, one that is
\* not running is left out.
ListPage(ids) ==
    /\ phase = "list" /\ pages < MaxPages
    /\ listed' = listed \cup {i \in ids : fleet[i].state = "running"}
    /\ pages' = pages + 1
    /\ UNCHANGED <<fleet, phase, answer, bad, stale, batch, report>>

\* the last page, or the page budget; what was not read stays unread.
Listed ==
    /\ phase = "list" /\ pages > 0
    /\ phase' = "metrics" /\ pages' = 0
    /\ answer' = [q \in Queries(listed) |-> NoAnswer]
    /\ UNCHANGED <<fleet, listed, bad, stale, batch, report>>

Series(q) == fleet[q[1]].series[q[2]]
Whole(q) == answer[q].chunks * Chunk >= Hours

\* collectMetrics, one page: the next chunk of some of the queries, some of them
\* with a status that says they are incomplete (appendResult).
MetricPage(Q, B) ==
    /\ phase = "metrics" /\ pages < MaxPages
    /\ Q # {} /\ \A q \in Q : ~Whole(q)
    /\ B \subseteq Q /\ bad + Cardinality(B) <= MaxBad
    /\ answer' = [q \in DOMAIN answer |->
                    IF q \in Q THEN [chunks |-> answer[q].chunks + 1, bad |-> answer[q].bad \/ q \in B]
                    ELSE answer[q]]
    /\ bad' = bad + Cardinality(B)
    /\ pages' = pages + 1
    /\ UNCHANGED <<fleet, phase, listed, stale, batch, report>>

\* the pages end: at the budget whatever is missing, otherwise when everything
\* that was answered is whole; a query without an answer makes the lot stale.
MetricsEnd ==
    /\ phase = "metrics"
    /\ \/ pages = MaxPages
       \/ \A q \in DOMAIN answer : answer[q].chunks = 0 \/ Whole(q) \/ answer[q].bad
    /\ stale' = \/ \E q \in DOMAIN answer : answer[q].chunks = 0
                \/ pages = MaxPages /\ \E q \in DOMAIN answer : ~Whole(q)
    /\ phase' = "batch"
    /\ UNCHANGED <<fleet, listed, pages, answer, bad, batch, report>>

\* collectBatch: whatever could be read; it changes nothing else.
EnrichBatch(E, partial) ==
    /\ phase = "batch"
    /\ batch' = [found |-> E, partial |-> partial]
    /\ partial \/ E = Environments
    /\ phase' = "assess"
    /\ UNCHANGED <<fleet, listed, pages, answer, bad, stale, report>>

\* an error of a describe or of a metrics call is no snapshot.
CallFails ==
    /\ phase \in {"list", "metrics"}
    /\ phase' = "failed"
    /\ UNCHANGED <<fleet, listed, pages, answer, bad, stale, batch, report>>

------------------------------------------------------------------------------
(* What was delivered.  The window's hours are 1..Hours.                    *)

Partial(i) == stale \/ \E q \in Queries({i}) : answer[q].bad

\* a bad answer's last chunk is what is missing.
Delivered(i, m) ==
    LET a == answer[<<i, m>>]
        upTo == (IF a.bad THEN a.chunks - 1 ELSE a.chunks) * Chunk
        s == Series(<<i, m>>)
    IN [h \in {h \in DOMAIN s : h <= upTo} |-> s[h]]

Values(s) == {s[h] : h \in DOMAIN s}
Ceil(a, b) == (a + b - 1) \div b

\* Series.Percentile by nearest rank, of p per cent.
Percentile(s, p) ==
    LET rank == Ceil(Cardinality(DOMAIN s) * p, 100)
    IN Min({v \in Values(s) : Cardinality({h \in DOMAIN s : s[h] <= v}) >= rank})

Span(s) == Max(DOMAIN s) - Min(DOMAIN s)
Coverage(s) == IF Span(s) = 0 THEN 1000
               ELSE Min({1000, (1000 * Cardinality(DOMAIN s)) \div Span(s)})

\* resolutionHeadroom; demand is never below the peak that was seen.
Resolution(in) == IF in.detailed THEN 100 ELSE CoarseHeadroom
DemandCPU(in, cpu) ==
    Ceil(Max({Percentile(cpu, 95) * CPUHeadroom, Max(Values(cpu)) * 100}) * Resolution(in)
           * Catalog[in.type].milli, 1000000)
MemoryFloor(in, mem) ==
    IF mem = <<>> THEN Catalog[in.type].mem
    ELSE Ceil(Max(Values(mem)) * MemHeadroom * Catalog[in.type].mem, 10000)

\* AnalyzeBurst: a standard instance out of credits for a tenth of the window is
\* throttled; an unlimited one that paid for credits is on surplus.
BurstClass(in, balance, surplus) ==
    IF ~Catalog[in.type].t THEN "not-burstable"
    ELSE IF ~Catalog[in.type].burst \/ DOMAIN balance = {} THEN "unknown"
    ELSE IF in.mode \notin {"standard", "unlimited"} THEN "unknown"
    ELSE IF /\ in.mode = "standard"
            /\ 10 * Cardinality({h \in DOMAIN balance : balance[h] = 0}) >= Cardinality(DOMAIN balance)
         THEN "throttled"
    ELSE IF in.mode = "unlimited" /\ Values(surplus) \ {0} # {} THEN "surplus"
    ELSE "healthy"

\* cheapest: by price, of one architecture.
Clears(arch, milli, mem, burstable) ==
    {t \in DOMAIN Catalog : /\ Catalog[t].arch = arch
                            /\ Catalog[t].milli >= milli /\ Catalog[t].mem >= mem
                            /\ burstable \/ ~Catalog[t].t}
CheapestOf(T) == IF T = {} THEN "none" ELSE CHOOSE t \in T : \A u \in T : Catalog[t].usd <= Catalog[u].usd
Price(t) == Catalog[t].usd

\* gravitonAdvisory: an ARM shape as large, of less than the present price.
gravitonAdvisory(in, milli, mem) ==
    LET arm == CheapestOf(Clears("arm64", milli, mem, FALSE))
    IN IF in.arch = "amd64" /\ arm # "none" /\ Price(arm) < Price(in.type) THEN arm ELSE "none"

\* confidence, per mille.
Confidence(in, cpu, mem) ==
    (Coverage(cpu) * 300) \div 1000 + Min({200, (200 * Span(cpu)) \div MinWindow})
    + (IF mem = <<>> THEN 0 ELSE 200) + (IF in.detailed THEN 150 ELSE 60) + 150

------------------------------------------------------------------------------
(* Sizer.assess: the first refusal that applies ends the assessment.        *)

\* somebody else's instance, or one without a price.
Ownership(in) ==
    IF in.owner # "none" THEN in.owner
    ELSE IF in.type \notin DOMAIN Catalog THEN "unknown-instance-type"
    ELSE ""

\* what the delivered series cannot carry.
Evidence(i, cpu, class) ==
    IF Partial(i) THEN "partial-metrics"
    ELSE IF DOMAIN cpu = {} THEN "no-metrics"
    ELSE IF Span(cpu) < MinWindow THEN "insufficient-window"
    ELSE IF Coverage(cpu) < MinCoverage THEN "insufficient-samples"
    ELSE IF class = "unknown" THEN "burst-evidence-missing"
    ELSE IF class = "throttled" THEN "burst-credit-depleted"
    ELSE ""

\* the candidate search and what it comes to.
Sized(in, cpu, mem, class) ==
    LET milli == DemandCPU(in, cpu)
        floor == MemoryFloor(in, mem)
        burstable == class \in {"healthy", "surplus"}
        best  == CheapestOf(Clears(in.arch, milli, floor, burstable))
        blind == IF mem = <<>> THEN CheapestOf(Clears(in.arch, milli, 0, burstable)) ELSE "none"
        floored == /\ blind \notin {"none", in.type}
                   /\ best = "none" \/ Price(blind) < Price(best)
        found == [Verdict EXCEPT !.codes = IF floored THEN {"memory-blind"} ELSE {},
                                 !.score = Confidence(in, cpu, mem),
                                 !.arm = gravitonAdvisory(in, milli, floor)]
        Suppress(code) == [found EXCEPT !.codes = @ \cup {code}]
    IN IF Catalog[in.type].milli < milli \/ Catalog[in.type].mem < floor THEN Suppress("undersized")
       ELSE IF best \in {"none", in.type} \/ Price(best) >= Price(in.type) THEN
              IF floored THEN found ELSE Suppress("no-cheaper-candidate")
       ELSE IF class = "surplus" /\ Catalog[best].t THEN
              [Suppress("burst-surplus-charged") EXCEPT !.arm = "none"]
       ELSE IF found.score < MinConfidence THEN Suppress("low-confidence")
       ELSE IF <<in.type, best>> \in Stranded THEN Suppress("commitment-stranding")
       ELSE [found EXCEPT !.to = best]

assess(i) ==
    LET in    == fleet[i]
        cpu   == Delivered(i, "cpu")
        class == IF Catalog[in.type].t THEN BurstClass(in, Delivered(i, "balance"), Delivered(i, "surplus"))
                 ELSE "not-burstable"
        Refuse(code) == [Verdict EXCEPT !.codes = {code}]
    IN IF Ownership(in) # "" THEN Refuse(Ownership(in))
       ELSE IF Evidence(i, cpu, class) # "" THEN Refuse(Evidence(i, cpu, class))
       ELSE Sized(in, cpu, Delivered(i, "mem"), class)

Assess ==
    /\ phase = "assess"
    /\ report' = [i \in listed |-> assess(i)]
    /\ phase' = "done"
    /\ UNCHANGED <<fleet, listed, pages, answer, bad, stale, batch>>

\* floorRate and batchInsights: report-scope advisories, none of them a saving.
floorRate(e) == LET T == e.types \cap DOMAIN Catalog
                IN IF T = {} THEN 0 ELSE Min({(1000 * Price(t)) \div Catalog[t].milli : t \in T})
batchInsights ==
    UNION {(IF e.minv > 0 THEN {<<e.name, "minvcpus", e.minv * floorRate(e)>>} ELSE {})
           \cup (IF e.bestFit THEN {<<e.name, "best-fit", 0>>} ELSE {})
           \cup (IF e.bid > 0 THEN {<<e.name, "bid", 0>>} ELSE {})
           : e \in {e \in batch.found : e.managed}}

Next ==
    \/ \E ids \in SUBSET DOMAIN fleet : ListPage(ids)
    \/ Listed
    \/ \E Q \in SUBSET DOMAIN answer : \E B \in SUBSET Q : MetricPage(Q, B)
    \/ MetricsEnd
    \/ \E E \in SUBSET Environments, p \in BOOLEAN : EnrichBatch(E, p)
    \/ CallFails
    \/ Assess

Spec == Init /\ [][Next]_vars

------------------------------------------------------------------------------
(* A machine is proposed only when the whole truth supports it: nobody else  *)
(* owns the instance, and the shape covers the highest CPU and memory that   *)
(* CloudWatch holds for the window, delivered or not; without a memory       *)
(* series it has at least the present memory; an instance that was short of  *)
(* credits is never shrunk; and the price falls (sizer.go assess).           *)
MachineIsSupported ==
    \A i \in {j \in DOMAIN report : report[j].to # "none"} :
        LET in == fleet[i]
            c  == Catalog[in.type]
            p  == Catalog[report[i].to]
            peak(m) == Max(Values(in.series[m]))
        IN /\ in.owner = "none" /\ p.arch = in.arch /\ p.usd < c.usd
           /\ 100 * p.milli >= peak("cpu") * c.milli
           /\ IF in.series["mem"] = <<>> THEN p.mem >= c.mem ELSE 100 * p.mem >= peak("mem") * c.mem
           /\ in.mode = "standard" /\ c.t =>
                10 * Cardinality({h \in DOMAIN in.series["balance"] : in.series["balance"][h] = 0})
                  < Cardinality(DOMAIN in.series["balance"])
==============================================================================
