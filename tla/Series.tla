------------------------------- MODULE Series -------------------------------
(***************************************************************************)
(* The tiered usage history of the evidence substrate (pkg/evidence):      *)
(* raw samples, hourly digests that are coalesced while nothing happens,   *)
(* daily digests, and the hour and the day that are still accumulating;    *)
(* under caps, a byte budget that sheds the coldest subject first, age     *)
(* pruning, and a checkpoint that a restart validates record by record.    *)
(*                                                                         *)
(* Time is counted in hours, a day has DayHours of them.  A sample has a   *)
(* level, of which two that differ are not within the tolerance, and says  *)
(* whether the container was killed.  A digest keeps the highest level.    *)
(***************************************************************************)
EXTENDS Integers, Sequences, FiniteSets, SequencesExt, FiniteSetsExt

CONSTANTS Subjects, Levels,
          MaxHour, DayHours,             \* bound on time; hours in a day
          RawSampleCap, HourlyCap, DailyCap, MaxSamplesPerHour,
          MaxSeriesBytes,                \* the budget
          RawMaxAge, HourlyMaxAge, DailyMaxAge,
          MaxSamples                     \* bound: samples ever taken in

VARIABLES series,  \* a series per subject, or Absent
          bytes,   \* seriesBytes, as accounted
          seq      \* the arrival counter

vars == <<series, bytes, seq>>

Hours == 0..MaxHour
Absent == [raw |-> <<>>, lastAt |-> -1]
None == [start |-> -1]
Held == {s \in Subjects : series[s] # Absent}

\* log.go: what an item is charged.
subjectOverheadBytes == 256
sampleBytes == 48
digestBytes == 136
accSampleBytes == 24

Sample(at, level, killed) == [at |-> at, level |-> level, killed |-> killed]
Bigger(a, b) == IF a > b THEN a ELSE b

Fresh == [raw |-> <<>>, hourly |-> <<>>, daily |-> <<>>, acc |-> None, day |-> None,
          lastAt |-> 0, lastSeq |-> 0]
Hollow(sr) == sr.raw = <<>> /\ sr.hourly = <<>> /\ sr.daily = <<>> /\ sr.acc = None /\ sr.day = None

Init ==
  /\ series = [s \in Subjects |-> Absent]
  /\ bytes = 0 /\ seq = 0

\* The bytes of one accumulating hour: only the samples under the cap are kept.
AccBytes(acc) == IF acc = None THEN 0 ELSE acc.kept * accSampleBytes

(***************************************************************************)
(* Digests.                                                                *)
(***************************************************************************)
finalize(acc) ==
  [start |-> acc.start, end |-> acc.start + 1, level |-> acc.level,
   samples |-> acc.kept + acc.dropped, kills |-> acc.kills]

\* Adjacent, uneventful and alike.
canCoalesce(prev, next) ==
  /\ prev.end = next.start
  /\ prev.kills = 0 /\ next.kills = 0
  /\ prev.level = next.level

foldInto(prev, next) ==
  [prev EXCEPT !.end = next.end, !.level = Bigger(@, next.level),
               !.samples = @ + next.samples, !.kills = @ + next.kills]

\* A ring's push at its cap, and what it adds to the bytes.
Push(ring, x, cap) == IF Len(ring) >= cap THEN Append(Tail(ring), x) ELSE Append(ring, x)
PushBytes(ring, cap, cost) == IF Len(ring) >= cap THEN 0 ELSE cost

Coalesces(ring, d) == ring # <<>> /\ canCoalesce(Last(ring), d)
appendDigest(ring, d, cap) ==
  IF Coalesces(ring, d) THEN [ring EXCEPT ![Len(ring)] = foldInto(@, d)] ELSE Push(ring, d, cap)
AppendBytes(ring, d, cap) == IF Coalesces(ring, d) THEN 0 ELSE PushBytes(ring, cap, digestBytes)

(***************************************************************************)
(* ingest: a sample of a later hour first rolls the hour that accumulates  *)
(* into a digest, the digest into the day, and a finished day into its     *)
(* tier.  Each returns the series and the bytes it accounts for.           *)
(***************************************************************************)
flushDay(sr) ==
  [sr |-> [sr EXCEPT !.daily = appendDigest(@, sr.day, DailyCap), !.day = None],
   delta |-> AppendBytes(sr.daily, sr.day, DailyCap) - digestBytes]

rollHour(sr) ==
  LET d == finalize(sr.acc)
      later == sr.day # None /\ d.start \div DayHours > sr.day.start \div DayHours
      flushed == IF later THEN flushDay(sr) ELSE [sr |-> sr, delta |-> 0]
      day == flushed.sr.day
  IN [sr |-> [flushed.sr EXCEPT !.acc = None,
                !.day = IF day = None THEN d ELSE foldInto(day, d),
                !.hourly = appendDigest(@, d, HourlyCap)],
      delta |-> flushed.delta - AccBytes(sr.acc)
                + (IF day = None THEN digestBytes ELSE 0)
                + AppendBytes(sr.hourly, d, HourlyCap)]

accumulate(acc, smp) ==
  LET fits == acc = None \/ acc.kept < MaxSamplesPerHour
      k == IF smp.killed THEN 1 ELSE 0
  IN IF acc = None
     THEN [start |-> smp.at, kept |-> 1, dropped |-> 0, level |-> smp.level, kills |-> k]
     ELSE [acc EXCEPT !.kept = IF fits THEN @ + 1 ELSE @,
                      !.dropped = IF fits THEN @ ELSE @ + 1,
                      !.level = IF fits THEN Bigger(@, smp.level) ELSE @,
                      !.kills = @ + k]

IngestInto(rolled, smp, n) ==
  LET sr == rolled.sr
      acc == accumulate(sr.acc, smp)
  IN [sr |-> [sr EXCEPT !.acc = acc, !.raw = Push(@, smp, RawSampleCap),
                        !.lastAt = smp.at, !.lastSeq = n],
      delta |-> rolled.delta + AccBytes(acc) - AccBytes(sr.acc)
                + PushBytes(sr.raw, RawSampleCap, sampleBytes)]
ingest(sr, smp, n) ==
  IngestInto(IF sr.acc # None /\ smp.at > sr.acc.start THEN rollHour(sr) ELSE [sr |-> sr, delta |-> 0],
             smp, n)

(***************************************************************************)
(* The budget: the coldest series gives up one item at a time.             *)
(***************************************************************************)
evictOne(sr) ==
  LET none(ring) == ring = <<>>
  IN CASE ~none(sr.raw) -> [sr |-> [sr EXCEPT !.raw = Tail(@)], delta |-> sampleBytes]
       [] none(sr.raw) /\ ~none(sr.hourly) ->
            [sr |-> [sr EXCEPT !.hourly = Tail(@)], delta |-> digestBytes]
       [] none(sr.raw) /\ none(sr.hourly) /\ ~none(sr.daily) ->
            [sr |-> [sr EXCEPT !.daily = Tail(@)], delta |-> digestBytes]
       [] none(sr.raw) /\ none(sr.hourly) /\ none(sr.daily) /\ sr.acc # None ->
            [sr |-> [sr EXCEPT !.acc = None], delta |-> AccBytes(sr.acc)]
       [] OTHER -> [sr |-> [sr EXCEPT !.day = None], delta |-> digestBytes]

Coldest(all) ==
  LET held == {s \in Subjects : all[s] # Absent}
  IN CHOOSE s \in held : \A o \in held : all[s].lastSeq <= all[o].lastSeq

Shed(state) ==
  LET s == Coldest(state.all)
      out == evictOne(state.all[s])
      gone == Hollow(out.sr)
  IN [all |-> [state.all EXCEPT ![s] = IF gone THEN Absent ELSE out.sr],
      bytes |-> state.bytes - out.delta - (IF gone THEN subjectOverheadBytes ELSE 0)]

OverBudget(state) == state.bytes > MaxSeriesBytes /\ \E s \in Subjects : state.all[s] # Absent
Round(state) == IF OverBudget(state) THEN Shed(state) ELSE state

Items(sr) ==
  IF sr = Absent THEN 0
  ELSE Len(sr.raw) + Len(sr.hourly) + Len(sr.daily)
       + (IF sr.acc = None THEN 0 ELSE 1) + (IF sr.day = None THEN 0 ELSE 1)

\* The loop, as many rounds as there are items: each takes one.
enforceSeriesBudget(state) ==
  LET all == SumFunction([s \in Subjects |-> Items(state.all[s])])
      after[n \in 0..all] == IF n = 0 THEN state ELSE Round(after[n - 1])
  IN after[all]

(***************************************************************************)
(* The operations of the store.                                            *)
(***************************************************************************)
ObserveSample(s, smp) ==
  /\ seq < MaxSamples
  /\ series[s] # Absent => smp.at >= series[s].lastAt
  /\ \E in \in {ingest(IF series[s] = Absent THEN Fresh ELSE series[s], smp, seq + 1)} :
       LET new == IF series[s] = Absent THEN subjectOverheadBytes ELSE 0
       IN \E out \in {enforceSeriesBudget([all |-> [series EXCEPT ![s] = in.sr],
                                            bytes |-> bytes + new + in.delta])} :
            series' = out.all /\ bytes' = out.bytes
  /\ seq' = seq + 1

\* What age takes from one series: a ring loses its old end, up to the first
\* item that is young enough.
Cut(ring, young) == IF young = {} THEN <<>> ELSE SubSeq(ring, Min(young), Len(ring))
prune(sr, now) ==
  [sr EXCEPT
     !.raw = Cut(@, {i \in DOMAIN @ : @[i].at >= now - RawMaxAge}),
     !.hourly = Cut(@, {i \in DOMAIN @ : @[i].end > now - HourlyMaxAge}),
     !.daily = Cut(@, {i \in DOMAIN @ : @[i].end > now - DailyMaxAge}),
     !.acc = IF @ # None /\ @.start + 1 <= now - HourlyMaxAge THEN None ELSE @,
     !.day = IF @ # None /\ @.end <= now - DailyMaxAge THEN None ELSE @]

SeriesBytes(sr) ==
  Len(sr.raw) * sampleBytes + (Len(sr.hourly) + Len(sr.daily)) * digestBytes
  + AccBytes(sr.acc) + (IF sr.day = None THEN 0 ELSE digestBytes)

Prune(now) ==
  LET left(s) == prune(series[s], now)
      freed(s) == IF s \notin Held THEN 0
                  ELSE SeriesBytes(series[s]) - SeriesBytes(left(s))
                       + (IF Hollow(left(s)) THEN subjectOverheadBytes ELSE 0)
  IN /\ series' = [s \in Subjects |->
                     IF s \notin Held \/ Hollow(left(s)) THEN Absent ELSE left(s)]
     /\ bytes' = bytes - SumFunction([s \in Subjects |-> freed(s)])
     /\ UNCHANGED seq

(***************************************************************************)
(* The checkpoint.  restoreSeries checks every record and refuses the      *)
(* whole checkpoint for one that is not as ingest would have left it.      *)
(***************************************************************************)
InOrder(ring) ==
  /\ \A i \in DOMAIN ring : ring[i].start < ring[i].end /\ ring[i].samples >= 1 /\ ring[i].kills >= 0
  /\ \A i, j \in DOMAIN ring : i < j => ring[i].end <= ring[j].start

Loads(sr) ==
  /\ Len(sr.raw) <= RawSampleCap /\ Len(sr.hourly) <= HourlyCap /\ Len(sr.daily) <= DailyCap
  /\ \A i, j \in DOMAIN sr.raw : i <= j => sr.raw[i].at <= sr.raw[j].at
  /\ \A i \in DOMAIN sr.raw : sr.raw[i].at <= sr.lastAt
  /\ InOrder(sr.hourly) /\ InOrder(sr.daily)
  /\ sr.acc # None => sr.acc.kept \in 1..MaxSamplesPerHour
  /\ sr.day # None => InOrder(<<sr.day>>)

\* The bytes a restored series is charged are those of what it holds.
Charged(sr) == IF sr = Absent THEN 0 ELSE SeriesBytes(sr) + subjectOverheadBytes
Accounted(all) == SumFunction([s \in Subjects |-> Charged(all[s])])

Restart ==
  /\ \A s \in Held : Loads(series[s])
  /\ LET out == enforceSeriesBudget([all |-> series, bytes |-> Accounted(series)])
     IN series' = out.all /\ bytes' = out.bytes
  /\ UNCHANGED seq

Next ==
  \/ \E s \in Subjects, h \in Hours, l \in Levels, k \in BOOLEAN : ObserveSample(s, Sample(h, l, k))
  \/ \E now \in Hours : (\A s \in Held : series[s].lastAt <= now) /\ Prune(now)
  \/ Restart

Spec == Init /\ [][Next]_vars

-----------------------------------------------------------------------------
\* The accounted bytes are those of what is held, and within the budget: no
\* roll, fold, eviction or pruning charges an item twice or forgets one.
BytesAgree == bytes = Accounted(series) /\ bytes <= MaxSeriesBytes

\* Whatever the store holds at any moment is a checkpoint it accepts (the brain
\* does not start on one it refuses: restoreEvidence in pkg/api/substrate.go).
Restorable == \A s \in Held : Loads(series[s])
=============================================================================
