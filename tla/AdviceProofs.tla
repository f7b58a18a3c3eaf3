----------------------------- MODULE AdviceProofs -----------------------------
(* Proofs about Advice: every machine, for every account, cluster, history and configuration. *)
EXTENDS Advice, TLAPS, FiniteSetTheorems, NaturalsInduction, WellFoundedInduction

(* ---- The inductive invariant, machine by machine ---- *)

\* EBS.  The record of a volume that was read, the record that was there to be read, and the two
\* agree.
Dated(x) == {"mod", "modAt", "to", "type"} \subseteq DOMAIN x /\ x.modAt \in Int
Agrees(x, y) == x.mod = y.mod /\ x.modAt = y.modAt

AccountInv ==
  /\ hour \in Nat
  /\ \A v \in DOMAIN db : Dated(db[v])

\* What a run has read so far.
CollectedInv ==
  /\ {"at", "stale", "inst", "real", "samples", "blind"} \subseteq DOMAIN snap /\ snap.stale \in BOOLEAN
  /\ DOMAIN snap.inst \subseteq DOMAIN db /\ DOMAIN snap.real \subseteq DOMAIN snap.inst
  /\ \A v \in DOMAIN snap.inst : Dated(snap.inst[v])
  /\ \A v \in DOMAIN snap.real : Dated(snap.real[v])
  /\ run \in {"modified", "measured"} =>
       /\ DOMAIN snap.real = DOMAIN snap.inst
       /\ ~snap.stale => \A v \in DOMAIN snap.inst : Agrees(snap.inst[v], snap.real[v])

\* What is known of the steps that were executed, in memory or in the checkpoint: the account was
\* changed then, or later; and the mark of the step is still there, or the record that was last
\* read tells of the change.
ExecutedInv(done) ==
  \A v \in DOMAIN done : v \in DOMAIN db /\ done[v] \in Nat /\ done[v] <= hour /\ done[v] <= db[v].modAt
Tells(done, applied, v, real) ==
  v \in DOMAIN done => \/ v \in DOMAIN applied /\ applied[v] = done[v]
                       \/ done[v] <= real.modAt

\* A domain, with the steps that the process that has it executed.
LearnedInv(d, done) ==
  /\ {"volumes", "applied", "stale", "learned", "lastAt"} \subseteq DOMAIN d /\ d.stale \in BOOLEAN
  /\ DOMAIN d.volumes \subseteq DOMAIN db
  /\ \A v \in DOMAIN d.applied : d.applied[v] \in Int
  /\ \A v \in DOMAIN d.volumes : /\ Dated(d.volumes[v].inst) /\ Dated(d.volumes[v].real)
                                 /\ Tells(done, d.applied, v, d.volumes[v].real)

WholeInv(d) == \A v \in DOMAIN d.volumes : Agrees(d.volumes[v].inst, d.volumes[v].real)

\* A plan has one step of a volume.
PlannedInv ==
  /\ \A s \in report : s.target \in DOMAIN db /\ s.at \in Nat
  /\ \A s, t \in report : s.target = t.target => s = t

VolumeInv ==
  /\ AccountInv /\ CollectedInv
  /\ {"done", "saved", "whole", "kept", "runs"} \subseteq DOMAIN was
  /\ was.whole \in BOOLEAN /\ was.kept \in BOOLEAN
  /\ ExecutedInv(was.done) /\ ExecutedInv(was.saved)
  /\ \A v \in DOMAIN snap.real : Tells(was.done, targets.applied, v, snap.real[v])
  /\ LearnedInv(targets, was.done) /\ LearnedInv(checkpoint, was.saved)
  /\ was.whole /\ ~targets.stale => WholeInv(targets)
  /\ was.kept => WholeInv(checkpoint)
  /\ PlannedInv /\ Ebs!NeverTooSoon

(* ---- EBS: no volume is planned for too soon ---- *)

\* Nothing is known at the start.
LEMMA VolumeInit == Ebs!Init => VolumeInv
<1>. SUFFICES ASSUME Ebs!Init PROVE VolumeInv
  OBVIOUS
<1>. USE DEF Ebs!Init, Ebs!NoSnap, Ebs!NoDomain, Ebs!Empty
<1>1. AccountInv /\ CollectedInv
  BY VolumeAssumption DEF AccountInv, CollectedInv, Dated
<1>2. ExecutedInv(was.done) /\ ExecutedInv(was.saved)
  BY DEF ExecutedInv
<1>3. LearnedInv(targets, was.done) /\ LearnedInv(checkpoint, was.saved) /\ WholeInv(targets) /\ WholeInv(checkpoint)
  BY DEF LearnedInv, WholeInv
<1>4. PlannedInv /\ Ebs!NeverTooSoon
  BY DEF PlannedInv, Ebs!NeverTooSoon
<1>. QED
  BY <1>1, <1>2, <1>3, <1>4 DEF VolumeInv

\* The newest modification that counts is the one that was read or the mark, whichever is later.
LEMMA LastIsLatest ==
  ASSUME NEW v, NEW t, t.inst.modAt \in Int, \A w \in DOMAIN targets.applied : targets.applied[w] \in Int
  PROVE  /\ Ebs!lastModification(v, t) \in Int /\ Ebs!lastModification(v, t) >= t.inst.modAt
         /\ v \in DOMAIN targets.applied => Ebs!lastModification(v, t) >= targets.applied[v]
<1>. DEFINE S == {t.inst.modAt} \cup {targets.applied[w] : w \in {v} \cap DOMAIN targets.applied}
<1>1. \E m \in S : \A x \in S : m >= x
  <2>1. CASE v \in DOMAIN targets.applied
    <3>1. S = {t.inst.modAt, targets.applied[v]}
      BY <2>1
    <3>2. t.inst.modAt >= targets.applied[v] \/ targets.applied[v] >= t.inst.modAt
      BY <2>1
    <3>. HIDE DEF S
    <3>. QED
      BY <2>1, <3>1, <3>2
  <2>2. CASE v \notin DOMAIN targets.applied
    <3>1. S = {t.inst.modAt}
      BY <2>2
    <3>. HIDE DEF S
    <3>. QED
      BY <3>1
  <2>. QED
    BY <2>1, <2>2
<1>2. Ebs!Max(S) \in S /\ \A x \in S : Ebs!Max(S) >= x
  <2>. HIDE DEF S
  <2>. QED
    BY <1>1 DEF Ebs!Max
<1>3. Ebs!lastModification(v, t) = Ebs!Max(S)
  BY DEF Ebs!lastModification
<1>4. \A x \in S : x \in Int
  OBVIOUS
<1>. QED
  BY <1>2, <1>3, <1>4

\* What an assessment that refuses nothing says of its volume: that it has settled, as the domain
\* knows it.
Settled(v, t, a) ==
  /\ a.step.target = v /\ a.step.sure = was.whole /\ a.step.at = hour /\ a.step.real = t.real
  /\ t.inst.mod \notin Ebs!InFlight
  /\ ~(Ebs!lastModification(v, t) >= 0 /\ hour - Ebs!lastModification(v, t) < VolumeCase.Cooldown)

LEMMA VerdictHasSettled ==
  ASSUME NEW v, NEW t, NEW obs, NEW p, Ebs!Verdict(v, t, obs, p).refusal = ""
  PROVE  Settled(v, t, Ebs!Verdict(v, t, obs, p))
<1>1. Ebs!Unfit(v, t) = ""
  BY DEF Ebs!Verdict
<1>2. LET s == Ebs!Verdict(v, t, obs, p).step
      IN s.target = v /\ s.sure = was.whole /\ s.at = hour /\ s.real = t.real
  BY <1>1 DEF Ebs!Verdict
<1>3. /\ t.inst.mod \notin Ebs!InFlight
      /\ ~(Ebs!lastModification(v, t) >= 0 /\ hour - Ebs!lastModification(v, t) < VolumeCase.Cooldown)
  BY <1>1 DEF Ebs!Unfit
<1>. QED
  BY <1>2, <1>3 DEF Settled

LEMMA OfferedHasSettled ==
  ASSUME NEW v, NEW t, Ebs!assess(v, t).refusal = ""
  PROVE  Settled(v, t, Ebs!assess(v, t))
<1>1. PICK obs, p : Ebs!assess(v, t) = Ebs!Verdict(v, t, obs, p)
  BY DEF Ebs!assess, Ebs!Observed
<1>2. Ebs!Verdict(v, t, obs, p).refusal = ""
  BY <1>1
<1>. QED
  BY <1>1, <1>2, VerdictHasSettled

\* A clock that moves on keeps what was executed before it; an account that changes keeps it where
\* no modification becomes older.
LEMMA ExecutedKeeps ==
  ASSUME NEW done, ExecutedInv(done), AccountInv, hour' \in Nat, hour' >= hour, DOMAIN db' = DOMAIN db,
         \A v \in DOMAIN db : Dated(db'[v]) /\ (db'[v].modAt = db[v].modAt \/ db'[v].modAt = hour)
  PROVE  ExecutedInv(done)' /\ AccountInv'
BY DEF ExecutedInv, AccountInv, Dated

LEMMA VolumeNextHour == VolumeInv /\ Ebs!NextHour => VolumeInv'
<1>. SUFFICES ASSUME VolumeInv, Ebs!NextHour PROVE VolumeInv'
  OBVIOUS
<1>1. hour' = hour + 1 /\ UNCHANGED <<db, run, snap, targets, checkpoint, report, was>>
  BY DEF Ebs!NextHour
<1>2. AccountInv' /\ ExecutedInv(was.done)' /\ ExecutedInv(was.saved)'
  BY <1>1 DEF VolumeInv, AccountInv, ExecutedInv, Dated
<1>. QED
  BY <1>1, <1>2 DEF VolumeInv, CollectedInv, LearnedInv, WholeInv, PlannedInv, Ebs!NeverTooSoon, Tells

\* AWS completes a modification, or the owner starts one: no record becomes older.
LEMMA VolumeChanges ==
  ASSUME VolumeInv, NEW v \in DOMAIN db, Ebs!Advance(v) \/ Ebs!Outside(v)
  PROVE  VolumeInv'
<1>1. UNCHANGED <<hour, run, snap, targets, checkpoint, report, was>>
  BY DEF Ebs!Advance, Ebs!Outside
<1>2. DOMAIN db' = DOMAIN db
  BY DEF Ebs!Advance, Ebs!Outside
<1>3. \A w \in DOMAIN db : Dated(db'[w]) /\ (db'[w].modAt = db[w].modAt \/ db'[w].modAt = hour)
  <2>1. CASE Ebs!Outside(v)
    <3>1. db' = [db EXCEPT ![v] = [@ EXCEPT !.mod = "modifying", !.modAt = hour, !.to = db[v].type]]
      BY <2>1 DEF Ebs!Outside
    <3>. QED
      BY <3>1 DEF VolumeInv, AccountInv, Dated
  <2>2. CASE Ebs!Advance(v) /\ db[v].mod = "modifying"
    BY <2>2 DEF Ebs!Advance, VolumeInv, AccountInv, Dated
  <2>3. CASE Ebs!Advance(v) /\ db[v].mod # "modifying"
    BY <2>3 DEF Ebs!Advance, VolumeInv, AccountInv, Dated
  <2>. QED
    BY <2>1, <2>2, <2>3
<1>4. AccountInv' /\ ExecutedInv(was.done)' /\ ExecutedInv(was.saved)'
  BY <1>1, <1>2, <1>3 DEF VolumeInv, AccountInv, ExecutedInv, Dated
<1>. QED
  BY <1>1, <1>2, <1>4 DEF VolumeInv, CollectedInv, LearnedInv, WholeInv, PlannedInv, Ebs!NeverTooSoon, Tells

LEMMA VolumeDescribed ==
  ASSUME VolumeInv, NEW listed \in SUBSET DOMAIN db, Ebs!DescribeVolumes(listed)
  PROVE  VolumeInv'
<1>1. /\ UNCHANGED <<hour, db, targets, checkpoint, report>> /\ run' = "listed"
      /\ was' = [was EXCEPT !.runs = @ + 1]
      /\ snap' = [Ebs!NoSnap EXCEPT !.at = hour, !.stale = listed # DOMAIN db,
                    !.inst = [v \in listed |-> [db[v] EXCEPT !.mod = "", !.modAt = -1]]]
  BY DEF Ebs!DescribeVolumes
<1>. DEFINE inst == [v \in listed |-> [db[v] EXCEPT !.mod = "", !.modAt = -1]]
<1>4. \A v \in listed : Dated(inst[v])
  <2>. SUFFICES ASSUME NEW v \in listed PROVE Dated([db[v] EXCEPT !.mod = "", !.modAt = -1])
    OBVIOUS
  <2>1. Dated(db[v])
    BY DEF VolumeInv, AccountInv
  <2>. QED
    BY <2>1 DEF Dated
<1>5. /\ DOMAIN snap' = {"at", "stale", "inst", "real", "samples", "blind"} /\ snap'.stale \in BOOLEAN
      /\ snap'.inst = inst /\ DOMAIN snap'.real = {}
  BY <1>1 DEF Ebs!NoSnap, Ebs!Empty
<1>2. CollectedInv' /\ DOMAIN snap'.real = {}
  BY <1>1, <1>4, <1>5 DEF CollectedInv
<1>3. /\ DOMAIN was' = DOMAIN was /\ was'.done = was.done /\ was'.saved = was.saved
      /\ was'.whole = was.whole /\ was'.kept = was.kept
  BY <1>1 DEF VolumeInv
<1>. QED
  BY <1>1, <1>2, <1>3 DEF VolumeInv, AccountInv, ExecutedInv, LearnedInv, WholeInv, PlannedInv, Ebs!NeverTooSoon

\* The record that is there to be read is not older than the step that was executed.
LEMMA VolumeModified ==
  ASSUME VolumeInv, NEW answered \in BOOLEAN, Ebs!DescribeModifications(answered)
  PROVE  VolumeInv'
<1>. DEFINE record(v) == [snap.inst[v] EXCEPT !.mod = db[v].mod, !.modAt = db[v].modAt]
            inst == [v \in DOMAIN snap.inst |-> IF answered THEN record(v) ELSE snap.inst[v]]
            real == [v \in DOMAIN snap.inst |-> record(v)]
<1>1. /\ UNCHANGED <<hour, db, targets, checkpoint, report, was>> /\ run' = "modified"
      /\ snap' = [snap EXCEPT !.inst = inst, !.stale = @ \/ ~answered, !.real = real]
  BY DEF Ebs!DescribeModifications
<1>2. /\ DOMAIN snap' = DOMAIN snap /\ snap'.inst = inst /\ snap'.real = real
      /\ snap'.stale = (snap.stale \/ ~answered)
  BY <1>1 DEF VolumeInv, CollectedInv
<1>3. \A v \in DOMAIN snap.inst : /\ Dated(record(v)) /\ Dated(inst[v]) /\ record(v).modAt = db[v].modAt
                                  /\ answered => Agrees(inst[v], record(v))
  BY DEF VolumeInv, CollectedInv, AccountInv, Dated, Agrees
<1>. HIDE DEF record
<1>4. CollectedInv'
  BY <1>1, <1>2, <1>3 DEF VolumeInv, CollectedInv
<1>5. \A v \in DOMAIN snap'.real : Tells(was.done, targets.applied, v, snap'.real[v])
  BY <1>2, <1>3 DEF VolumeInv, CollectedInv, ExecutedInv, Tells
<1>. QED
  BY <1>1, <1>4, <1>5 DEF VolumeInv, AccountInv, ExecutedInv, LearnedInv, WholeInv, PlannedInv, Ebs!NeverTooSoon

LEMMA VolumeMeasured ==
  ASSUME VolumeInv, NEW missing, Ebs!CollectMetrics(missing)
  PROVE  VolumeInv'
<1>. DEFINE metered == {v \in DOMAIN snap.inst : snap.inst[v].type = "gp2"}
            got(v, read, write) ==
              IF {<<v, read>>, <<v, write>>} \cap missing # {} THEN Ebs!Empty ELSE Ebs!Merged(v, read, write)
            of == [v \in metered |-> [iops |-> got(v, "ReadOps", "WriteOps"),
                                      tput |-> got(v, "ReadBytes", "WriteBytes")]]
            failed == \E m \in missing : m[1] \in metered
            blind == {v \in DOMAIN snap.inst : v \in metered => DOMAIN of[v].iops = {}}
<1>1. snap' = [snap EXCEPT !.samples = of, !.stale = @ \/ failed, !.blind = blind]
  BY DEF Ebs!CollectMetrics
<1>. HIDE DEF of, failed, blind
<1>2. UNCHANGED <<hour, db, targets, checkpoint, report, was>> /\ run = "modified" /\ run' = "measured"
  BY DEF Ebs!CollectMetrics
<1>3. /\ DOMAIN snap' = DOMAIN snap /\ snap'.inst = snap.inst /\ snap'.real = snap.real
      /\ snap'.stale = (snap.stale \/ failed)
  BY <1>1 DEF VolumeInv, CollectedInv
<1>4. CollectedInv'
  BY <1>2, <1>3 DEF VolumeInv, CollectedInv
<1>. QED
  BY <1>2, <1>3, <1>4 DEF VolumeInv, AccountInv, ExecutedInv, LearnedInv, WholeInv, PlannedInv, Ebs!NeverTooSoon, Tells

\* A volume that was read keeps its mark; and what was read in full agrees with the account.
LEMMA VolumeLearned == VolumeInv /\ Ebs!Learn => VolumeInv'
<1>. SUFFICES ASSUME VolumeInv, Ebs!Learn PROVE VolumeInv'
  OBVIOUS
<1>. DEFINE seen == DOMAIN snap.inst
            whole == snap.inst # Ebs!Empty
<1>1. /\ run = "measured" /\ run' = "idle" /\ snap' = Ebs!NoSnap /\ UNCHANGED <<hour, db, checkpoint, report>>
      /\ was' = [was EXCEPT !.whole = @ \/ whole]
  BY DEF Ebs!Learn
<1>2. /\ DOMAIN was' = DOMAIN was /\ was'.done = was.done /\ was'.saved = was.saved
      /\ was'.whole = (was.whole \/ whole) /\ was'.kept = was.kept
  BY <1>1 DEF VolumeInv
<1>3. CollectedInv' /\ DOMAIN snap'.real = {}
  BY <1>1 DEF CollectedInv, Ebs!NoSnap, Ebs!Empty
<1>4. LearnedInv(targets, was.done)' /\ (~targets'.stale => WholeInv(targets'))
  <2>1. CASE seen = {}
    <3>1. targets' = [targets EXCEPT !.stale = TRUE]
      BY <2>1 DEF Ebs!Learn
    <3>. QED
      BY <1>1, <1>2, <3>1 DEF VolumeInv, LearnedInv
  <2>2. CASE seen # {}
    <3>1. targets' = [volumes |-> [v \in seen |-> Ebs!Learned(v)],
                      applied |-> Ebs!Restrict(targets.applied, seen \cap DOMAIN targets.applied),
                      stale   |-> snap.stale, learned |-> TRUE, lastAt |-> Ebs!Max({snap.at, targets.lastAt})]
      BY <2>2 DEF Ebs!Learn
    <3>2. \A v \in seen : Ebs!Learned(v).inst = snap.inst[v] /\ Ebs!Learned(v).real = snap.real[v]
      BY DEF Ebs!Learned
    <3>3. /\ DOMAIN targets' = {"volumes", "applied", "stale", "learned", "lastAt"}
          /\ DOMAIN targets'.volumes = seen /\ targets'.stale = snap.stale
          /\ \A v \in seen : targets'.volumes[v].inst = snap.inst[v] /\ targets'.volumes[v].real = snap.real[v]
      BY <3>1, <3>2
    <3>4. /\ DOMAIN targets'.applied = seen \cap DOMAIN targets.applied
          /\ \A v \in DOMAIN targets'.applied : targets'.applied[v] = targets.applied[v]
      BY <3>1 DEF Ebs!Restrict
    <3>5. DOMAIN snap.real = seen
      BY <1>1 DEF VolumeInv, CollectedInv
    <3>6. \A v \in seen : Tells(was.done, targets'.applied, v, snap.real[v])
      BY <3>4, <3>5 DEF VolumeInv, Tells
    <3>7. LearnedInv(targets, was.done)'
      BY <1>1, <1>2, <3>3, <3>4, <3>5, <3>6 DEF VolumeInv, CollectedInv, LearnedInv
    <3>8. ~snap.stale => WholeInv(targets')
      BY <1>1, <3>3 DEF VolumeInv, CollectedInv, WholeInv
    <3>. QED
      BY <3>3, <3>7, <3>8
  <2>. QED
    BY <2>1, <2>2
<1>. HIDE DEF whole
<1>5. was'.whole \in BOOLEAN
  BY <1>2 DEF VolumeInv, whole
<1>. QED
  BY <1>1, <1>2, <1>3, <1>4, <1>5 DEF VolumeInv, AccountInv, ExecutedInv, LearnedInv, WholeInv, PlannedInv,
     Ebs!NeverTooSoon

\* A checkpoint is of what is in memory, the marks included.
LEMMA VolumeSaved == VolumeInv /\ Ebs!Checkpoint => VolumeInv'
<1>. SUFFICES ASSUME VolumeInv, Ebs!Checkpoint PROVE VolumeInv'
  OBVIOUS
<1>1. /\ checkpoint' = targets /\ UNCHANGED <<hour, db, run, snap, targets, report>>
      /\ was' = [was EXCEPT !.saved = was.done, !.kept = was.whole /\ ~targets.stale]
  BY DEF Ebs!Checkpoint
<1>2. /\ DOMAIN was' = DOMAIN was /\ was'.done = was.done /\ was'.saved = was.done
      /\ was'.whole = was.whole /\ was'.kept = (was.whole /\ ~targets.stale)
  BY <1>1 DEF VolumeInv
<1>. QED
  BY <1>1, <1>2 DEF VolumeInv, AccountInv, CollectedInv, ExecutedInv, LearnedInv, WholeInv, PlannedInv,
     Ebs!NeverTooSoon, Tells

LEMMA VolumeRestored == VolumeInv /\ Ebs!Restore => VolumeInv'
<1>. SUFFICES ASSUME VolumeInv, Ebs!Restore PROVE VolumeInv'
  OBVIOUS
<1>1. /\ run' = "idle" /\ snap' = Ebs!NoSnap /\ report' = {} /\ UNCHANGED <<hour, db, checkpoint>>
      /\ targets' = [checkpoint EXCEPT !.stale = FALSE]
      /\ was' = [was EXCEPT !.done = was.saved, !.whole = was.kept]
  BY DEF Ebs!Restore
<1>2. /\ DOMAIN was' = DOMAIN was /\ was'.done = was.saved /\ was'.saved = was.saved
      /\ was'.whole = was.kept /\ was'.kept = was.kept
  BY <1>1 DEF VolumeInv
<1>3. CollectedInv' /\ DOMAIN snap'.real = {}
  BY <1>1 DEF CollectedInv, Ebs!NoSnap, Ebs!Empty
<1>4. /\ DOMAIN targets' = DOMAIN checkpoint /\ targets'.volumes = checkpoint.volumes
      /\ targets'.applied = checkpoint.applied /\ targets'.stale = FALSE
  BY <1>1 DEF VolumeInv, LearnedInv
<1>5. LearnedInv(targets, was.done)'
  BY <1>1, <1>2, <1>4 DEF VolumeInv, LearnedInv
<1>6. was'.whole => WholeInv(targets')
  BY <1>2, <1>4 DEF VolumeInv, WholeInv
<1>7. PlannedInv' /\ Ebs!NeverTooSoon'
  BY <1>1 DEF PlannedInv, Ebs!NeverTooSoon
<1>. QED
  BY <1>1, <1>2, <1>3, <1>5, <1>6, <1>7 DEF VolumeInv, AccountInv, ExecutedInv, LearnedInv, WholeInv, Tells

\* What is planned for has settled: the domain that plans was learned in full, so its record is the
\* one that was there to be read, and that or the mark tells of what was executed.
LEMMA VolumePlanned ==
  ASSUME VolumeInv, NEW steps, Ebs!PlanSteps(steps)
  PROVE  VolumeInv'
<1>1. /\ UNCHANGED <<hour, db, run, snap, targets, checkpoint, was>> /\ report' = steps
      /\ Ebs!Ready /\ steps \subseteq {a.step : a \in {a \in Ebs!Recommend : ~a.suppressed}}
  BY DEF Ebs!PlanSteps
<1>2. ASSUME NEW s \in steps
      PROVE  \E v \in DOMAIN targets.volumes :
                LET a == Ebs!assess(v, targets.volumes[v]) IN s = a.step /\ a.refusal = ""
  <2>1. PICK a \in Ebs!Recommend : s = a.step
    BY <1>1
  <2>2. PICK v \in DOMAIN targets.volumes : a = Ebs!assess(v, targets.volumes[v])
    BY <2>1 DEF Ebs!Recommend
  <2>. QED
    BY <2>1, <2>2 DEF Ebs!Recommend
<1>3. ASSUME NEW s \in steps
      PROVE  \E v \in DOMAIN targets.volumes :
                LET a == Ebs!assess(v, targets.volumes[v]) IN s = a.step /\ Settled(v, targets.volumes[v], a)
  <2>1. PICK v \in DOMAIN targets.volumes :
          LET a == Ebs!assess(v, targets.volumes[v]) IN s = a.step /\ a.refusal = ""
    BY <1>2
  <2>2. Settled(v, targets.volumes[v], Ebs!assess(v, targets.volumes[v]))
    BY <2>1, OfferedHasSettled
  <2>. QED
    BY <2>1, <2>2
<1>4. PlannedInv'
  <2>1. \A s \in steps : s.target \in DOMAIN db /\ s.at \in Nat
    BY <1>3 DEF Settled, VolumeInv, LearnedInv, AccountInv
  <2>2. ASSUME NEW s \in steps, NEW t \in steps, s.target = t.target PROVE s = t
    BY <1>3, <2>2 DEF Settled
  <2>. QED
    BY <1>1, <2>1, <2>2 DEF PlannedInv
<1>5. ASSUME NEW s \in steps, s.sure
      PROVE  /\ s.real.mod \notin Ebs!InFlight
             /\ s.real.modAt >= 0 => s.at - s.real.modAt >= VolumeCase.Cooldown
             /\ s.target \in DOMAIN was.done => s.at - was.done[s.target] >= VolumeCase.Cooldown
  <2>1. PICK v \in DOMAIN targets.volumes :
          LET a == Ebs!assess(v, targets.volumes[v]) IN s = a.step /\ Settled(v, targets.volumes[v], a)
    BY <1>3
  <2>. DEFINE t == targets.volumes[v]
              last == Ebs!lastModification(v, t)
  <2>2. /\ s.target = v /\ was.whole /\ s.at = hour /\ s.real = t.real
        /\ t.inst.mod \notin Ebs!InFlight /\ ~(last >= 0 /\ hour - last < VolumeCase.Cooldown)
    BY <2>1, <1>5 DEF Settled
  <2>3. Agrees(t.inst, t.real) /\ Dated(t.inst) /\ Tells(was.done, targets.applied, v, t.real)
    BY <1>1, <2>2 DEF Ebs!Ready, VolumeInv, WholeInv, LearnedInv
  <2>4. /\ last \in Int /\ last >= t.inst.modAt
        /\ v \in DOMAIN targets.applied => last >= targets.applied[v]
    BY <2>3, LastIsLatest DEF Dated, VolumeInv, LearnedInv
  <2>5. v \in DOMAIN was.done => was.done[v] \in Nat /\ was.done[v] <= last
    BY <2>3, <2>4 DEF VolumeInv, ExecutedInv, Tells, Agrees, Dated
  <2>6. hour \in Nat /\ VolumeCase.Cooldown \in Int /\ t.inst.modAt \in Int
    BY <2>3, VolumeAssumption DEF VolumeInv, AccountInv, Dated
  <2>. HIDE DEF t, last
  <2>. QED
    BY <2>2, <2>3, <2>4, <2>5, <2>6 DEF Agrees
<1>6. Ebs!NeverTooSoon'
  BY <1>1, <1>5 DEF Ebs!NeverTooSoon, Ebs!InFlight
<1>. QED
  BY <1>1, <1>4, <1>6 DEF VolumeInv, AccountInv, CollectedInv, ExecutedInv, LearnedInv, WholeInv, Tells

\* A step that is executed leaves its mark, and the plan has no other step of its volume.
LEMMA VolumeExecuted ==
  ASSUME VolumeInv, NEW step \in report, Ebs!Execute(step)
  PROVE  VolumeInv'
<1>. DEFINE v == step.target
<1>1. /\ db' = [db EXCEPT ![v] = [@ EXCEPT !.mod = "modifying", !.modAt = hour, !.to = "gp3"]]
      /\ targets' = [targets EXCEPT !.applied = Ebs!Marked(@, v)]
      /\ was' = [was EXCEPT !.done = Ebs!Marked(@, v)]
      /\ report' = report \ {step} /\ UNCHANGED <<hour, run, snap, checkpoint>>
  BY DEF Ebs!Execute
<1>2. /\ DOMAIN was' = DOMAIN was /\ was'.done = Ebs!Marked(was.done, v) /\ was'.saved = was.saved
      /\ was'.whole = was.whole /\ was'.kept = was.kept
  BY <1>1 DEF VolumeInv
<1>3. /\ DOMAIN targets' = DOMAIN targets /\ targets'.volumes = targets.volumes
      /\ targets'.applied = Ebs!Marked(targets.applied, v) /\ targets'.stale = targets.stale
  BY <1>1 DEF VolumeInv, LearnedInv
<1>4. v \in DOMAIN db /\ hour \in Nat /\ DOMAIN db' = DOMAIN db
  BY <1>1 DEF VolumeInv, PlannedInv, AccountInv
<1>. HIDE DEF v
<1>15. db'[v] = [db[v] EXCEPT !.mod = "modifying", !.modAt = hour, !.to = "gp3"]
  BY <1>1, <1>4
<1>5. /\ db'[v].modAt = hour /\ \A w \in DOMAIN db : Dated(db'[w])
      /\ \A w \in DOMAIN db : w # v => db'[w] = db[w]
  <2>1. Dated(db[v])
    BY <1>4 DEF VolumeInv, AccountInv
  <2>2. db'[v].modAt = hour /\ Dated(db'[v])
    BY <1>4, <1>15, <2>1 DEF Dated
  <2>3. \A w \in DOMAIN db : w # v => db'[w] = db[w]
    BY <1>1, <1>4
  <2>. QED
    BY <2>2, <2>3 DEF VolumeInv, AccountInv
<1>16. ASSUME NEW f
       PROVE  /\ DOMAIN Ebs!Marked(f, v) = DOMAIN f \cup {v} /\ Ebs!Marked(f, v)[v] = hour
              /\ \A w \in DOMAIN f : w # v => Ebs!Marked(f, v)[w] = f[w]
  BY DEF Ebs!Marked
<1>17. /\ DOMAIN was'.done = DOMAIN was.done \cup {v} /\ was'.done[v] = hour
       /\ \A w \in DOMAIN was.done : w # v => was'.done[w] = was.done[w]
  BY <1>2, <1>16
<1>6. /\ DOMAIN targets'.applied = DOMAIN targets.applied \cup {v} /\ targets'.applied[v] = hour
      /\ \A w \in DOMAIN targets.applied : w # v => targets'.applied[w] = targets.applied[w]
  BY <1>3, <1>16
<1>7. AccountInv' /\ ExecutedInv(was.saved)'
  BY <1>1, <1>2, <1>4, <1>5 DEF VolumeInv, AccountInv, ExecutedInv
<1>8. ExecutedInv(was.done)'
  BY <1>1, <1>4, <1>5, <1>17 DEF VolumeInv, ExecutedInv
<1>9. \A w, real : Tells(was.done, targets.applied, w, real) => Tells(was'.done, targets'.applied, w, real)
  BY <1>6, <1>17 DEF Tells
<1>10. LearnedInv(targets, was.done)' /\ LearnedInv(checkpoint, was.saved)'
  <2>1. \A w \in DOMAIN targets'.applied : targets'.applied[w] \in Int
    BY <1>4, <1>6 DEF VolumeInv, LearnedInv
  <2>. QED
    BY <1>1, <1>2, <1>3, <1>4, <1>9, <2>1 DEF VolumeInv, LearnedInv
<1>11. PlannedInv'
  BY <1>1, <1>4 DEF VolumeInv, PlannedInv
<1>12. Ebs!NeverTooSoon'
  <2>1. \A s \in report' : s \in report /\ s.target # v
    BY <1>1 DEF VolumeInv, PlannedInv, v
  <2>2. \A s \in report' : s.target \in DOMAIN was'.done =>
           s.target \in DOMAIN was.done /\ was'.done[s.target] = was.done[s.target]
    BY <1>17, <2>1
  <2>. QED
    BY <2>1, <2>2 DEF VolumeInv, Ebs!NeverTooSoon
<1>13. \A w \in DOMAIN snap'.real : Tells(was'.done, targets'.applied, w, snap'.real[w])
  BY <1>1, <1>9 DEF VolumeInv
<1>14. CollectedInv' /\ (was'.whole /\ ~targets'.stale => WholeInv(targets'))
  BY <1>1, <1>2, <1>3, <1>4 DEF VolumeInv, CollectedInv, WholeInv
<1>. QED
  BY <1>1, <1>2, <1>7, <1>8, <1>10, <1>11, <1>12, <1>13, <1>14 DEF VolumeInv, WholeInv

LEMMA VolumeNext == VolumeInv /\ Ebs!Next => VolumeInv'
BY VolumeNextHour, VolumeLearned, VolumeSaved, VolumeRestored, VolumeChanges, VolumeDescribed,
   VolumeModified, VolumeMeasured, VolumePlanned, VolumeExecuted DEF Ebs!Next

-----------------------------------------------------------------------------
(* ---- Fargate: a change that hurt is taken back ---- *)

\* The pods as they are, were seen, or were when a change was recorded.
Pod(p) == {"mem", "replicas", "gen", "killed", "restarts", "provisioned"} \subseteq DOMAIN p
          /\ p.gen \in Int /\ IsFiniteSet(p.killed)
Seen(pods) == \A w \in DOMAIN pods : Pod(pods[w])

\* A domain.  What is watched was applied.
DomainInv(d) ==
  /\ {"last", "at", "stale", "stats", "applied", "reverts", "watch", "until", "known"} \subseteq DOMAIN d
  /\ d.last # Far!NoSnap => DOMAIN d.last.pods = DOMAIN FargateCase.Fleet
  /\ DOMAIN d.last.pods \subseteq DOMAIN FargateCase.Fleet /\ Seen(d.last.pods)
  /\ DOMAIN d.watch \subseteq DOMAIN d.applied
  /\ \A w \in DOMAIN d.watch : Pod(d.watch[w].pod)

\* What is owed is to be reverted to that size, and is watched no more.
OwedInv(owed, d) ==
  /\ \A w \in DOMAIN owed : w \in DOMAIN d.reverts /\ owed[w] = d.reverts[w].from.mem
  /\ DOMAIN owed \cap DOMAIN d.watch = {}

FargateInv ==
  /\ DOMAIN db = DOMAIN FargateCase.Fleet /\ Seen(db)
  /\ \A s \in snap : DOMAIN s.pods = DOMAIN FargateCase.Fleet /\ Seen(s.pods)
  /\ DomainInv(targets) /\ DomainInv(checkpoint) /\ DOMAIN checkpoint.watch = {}
  /\ \A r \in report \cup run : r.target \in DOMAIN FargateCase.Fleet
  /\ {"runs", "events", "owed", "about"} \subseteq DOMAIN was
  /\ OwedInv(was.owed, targets)
  /\ Far!RevertIsOffered

LEMMA FargateInit == Far!Init => FargateInv
<1>. SUFFICES ASSUME Far!Init PROVE FargateInv
  OBVIOUS
<1>. USE DEF Far!Init, Far!NoSnap, Far!NoDomain, Far!Nothing
<1>1. DOMAIN db = DOMAIN FargateCase.Fleet /\ Seen(db)
  BY FS_EmptySet DEF Seen, Pod
<1>2. DomainInv(targets) /\ DomainInv(checkpoint) /\ DOMAIN checkpoint.watch = {}
  BY DEF DomainInv, Seen
<1>3. OwedInv(was.owed, targets) /\ Far!RevertIsOffered
  BY DEF OwedInv, Far!RevertIsOffered
<1>. QED
  BY <1>1, <1>2, <1>3 DEF FargateInv

\* The cluster changes, and a snapshot of it is taken.
LEMMA FargateNextHour == FargateInv /\ Far!NextHour => FargateInv'
BY DEF FargateInv, Far!NextHour, DomainInv, OwedInv, Seen, Pod, Far!RevertIsOffered, Far!NoSnap, Far!Nothing

LEMMA FargateKilled ==
  ASSUME FargateInv, NEW w \in DOMAIN db, NEW killed, IsFiniteSet(killed), Far!Kill(w, killed)
  PROVE  FargateInv'
<1>1. /\ was' = [was EXCEPT !.events = @ + 1]
      /\ db' = [db EXCEPT ![w].killed = @ \cup killed, ![w].restarts = @ + 1]
      /\ UNCHANGED <<hour, run, snap, targets, checkpoint, report>>
  BY DEF Far!Kill
<1>2. Pod(db[w])
  BY DEF FargateInv, Seen
<1>3. /\ DOMAIN db' = DOMAIN db /\ DOMAIN db'[w] = DOMAIN db[w] /\ db'[w].gen = db[w].gen
      /\ db'[w].killed = db[w].killed \cup killed /\ \A v \in DOMAIN db : v # w => db'[v] = db[v]
  BY <1>1, <1>2 DEF Pod
<1>4. IsFiniteSet(db[w].killed \cup killed)
  BY <1>2, FS_Union DEF Pod
<1>7. Pod(db'[w])
  BY <1>2, <1>3, <1>4 DEF Pod
<1>5. DOMAIN db' = DOMAIN db /\ Seen(db')
  BY <1>3, <1>7 DEF FargateInv, Seen
<1>6. DOMAIN was' = DOMAIN was /\ was'.owed = was.owed /\ was'.about = was.about
  BY <1>1 DEF FargateInv
<1>. QED
  BY <1>1, <1>5, <1>6 DEF FargateInv, Far!RevertIsOffered

LEMMA FargateEdited ==
  ASSUME FargateInv, NEW w \in DOMAIN db, NEW replicas, NEW mem, Far!Edit(w, replicas, mem)
  PROVE  FargateInv'
<1>. DEFINE new == [mem |-> mem, replicas |-> replicas, gen |-> db[w].gen + 1, killed |-> {}, restarts |-> 0,
                    provisioned |-> Far!Quantize([cpu |-> FargateCase.Fleet[w].cpu, mem |-> Far!Total(mem)],
                                                 FargateCase.Fleet[w].init)]
<1>1. /\ was' = [was EXCEPT !.events = @ + 1]
      /\ db' = [db EXCEPT ![w] = IF mem = @.mem THEN [@ EXCEPT !.replicas = replicas] ELSE new]
      /\ UNCHANGED <<hour, run, snap, targets, checkpoint, report>>
  BY DEF Far!Edit
<1>2. Pod(db[w])
  BY DEF FargateInv, Seen
<1>3. Pod(new)
  BY <1>2, FS_EmptySet DEF Pod
<1>4. Pod([db[w] EXCEPT !.replicas = replicas])
  BY <1>2 DEF Pod
<1>. HIDE DEF new
<1>5. DOMAIN db' = DOMAIN db /\ Seen(db')
  BY <1>1, <1>3, <1>4 DEF FargateInv, Seen
<1>6. DOMAIN was' = DOMAIN was /\ was'.owed = was.owed /\ was'.about = was.about
  BY <1>1 DEF FargateInv
<1>. QED
  BY <1>1, <1>5, <1>6 DEF FargateInv, Far!RevertIsOffered

LEMMA FargateCollected ==
  ASSUME FargateInv, NEW usage, NEW stale, Far!Collect(usage, stale)
  PROVE  FargateInv'
<1>1. /\ was' = [was EXCEPT !.runs = @ + 1]
      /\ snap' = snap \cup {[at |-> hour, pods |-> db, usage |-> usage, stale |-> stale]}
      /\ UNCHANGED <<hour, db, run, targets, checkpoint, report>>
  BY DEF Far!Collect
<1>2. DOMAIN was' = DOMAIN was /\ was'.owed = was.owed /\ was'.about = was.about
  BY <1>1 DEF FargateInv
<1>3. \A s \in snap' : DOMAIN s.pods = DOMAIN FargateCase.Fleet /\ Seen(s.pods)
  BY <1>1 DEF FargateInv
<1>. QED
  BY <1>1, <1>2, <1>3 DEF FargateInv, Far!RevertIsOffered

\* A snapshot that is learned replaces the view and no change.
LEMMA FargateLearned ==
  ASSUME FargateInv, NEW s \in snap, Far!Learn(s)
  PROVE  FargateInv'
<1>1. \E at, stats, known :
        targets' = [targets EXCEPT !.last = s, !.at = at, !.stale = s.stale, !.stats = stats, !.known = known]
  BY DEF Far!Learn
<1>2. PICK at, stats, known :
        targets' = [targets EXCEPT !.last = s, !.at = at, !.stale = s.stale, !.stats = stats, !.known = known]
  BY <1>1
<1>3. snap' = snap \ {s} /\ UNCHANGED <<hour, db, run, checkpoint, report, was>>
  BY DEF Far!Learn
<1>4. /\ DOMAIN targets' = DOMAIN targets /\ targets'.last = s /\ targets'.applied = targets.applied
      /\ targets'.reverts = targets.reverts /\ targets'.watch = targets.watch
  BY <1>2 DEF FargateInv, DomainInv
<1>5. DomainInv(targets') /\ OwedInv(was.owed, targets')
  BY <1>4 DEF FargateInv, DomainInv, OwedInv
<1>. QED
  BY SMTT(30), <1>3, <1>5 DEF FargateInv, Far!RevertIsOffered

LEMMA FargateMarked == FargateInv /\ Far!LearnNothing => FargateInv'
<1>. SUFFICES ASSUME FargateInv, Far!LearnNothing PROVE FargateInv'
  OBVIOUS
<1>1. targets' = [targets EXCEPT !.stale = TRUE] /\ UNCHANGED <<hour, db, run, snap, checkpoint, report, was>>
  BY DEF Far!LearnNothing
<1>2. DomainInv(targets') /\ OwedInv(was.owed, targets')
  BY <1>1 DEF FargateInv, DomainInv, OwedInv
<1>. QED
  BY <1>1, <1>2 DEF FargateInv, Far!RevertIsOffered

\* A checkpoint has no view and watches nothing.
LEMMA FargateSaved == FargateInv /\ Far!Checkpoint => FargateInv'
<1>. SUFFICES ASSUME FargateInv, Far!Checkpoint PROVE FargateInv'
  OBVIOUS
<1>1. /\ checkpoint' = [targets EXCEPT !.last = Far!NoSnap, !.at = -1, !.stale = FALSE,
                          !.watch = Far!Nothing, !.until = Far!Nothing]
      /\ UNCHANGED <<hour, db, run, snap, targets, report, was>>
  BY DEF Far!Checkpoint
<1>2. /\ DOMAIN checkpoint' = DOMAIN targets /\ checkpoint'.last = Far!NoSnap
      /\ checkpoint'.watch = Far!Nothing /\ checkpoint'.applied = targets.applied
  BY <1>1 DEF FargateInv, DomainInv
<1>3. DomainInv(checkpoint') /\ DOMAIN checkpoint'.watch = {}
  BY <1>2 DEF FargateInv, DomainInv, Far!NoSnap, Far!Nothing, Seen
<1>. QED
  BY <1>1, <1>3 DEF FargateInv, Far!RevertIsOffered

LEMMA FargateRestored == FargateInv /\ Far!Restore => FargateInv'
<1>. SUFFICES ASSUME FargateInv, Far!Restore PROVE FargateInv'
  OBVIOUS
<1>. DEFINE known == {w \in DOMAIN was.owed \cap DOMAIN checkpoint.reverts :
                        checkpoint.reverts[w].from.mem = was.owed[w]}
<1>1. /\ targets' = checkpoint /\ run' = {} /\ report' = {}
      /\ was' = [was EXCEPT !.owed = Far!Restrict(@, known), !.about = {}]
      /\ UNCHANGED <<hour, db, snap, checkpoint>>
  BY DEF Far!Restore
<1>2. DOMAIN was' = DOMAIN was /\ was'.owed = Far!Restrict(was.owed, known) /\ was'.about = {}
  BY <1>1 DEF FargateInv
<1>3. OwedInv(was'.owed, targets')
  BY <1>1, <1>2 DEF FargateInv, OwedInv, Far!Restrict
<1>4. Far!RevertIsOffered'
  BY <1>2 DEF Far!RevertIsOffered
<1>. QED
  BY <1>1, <1>2, <1>3, <1>4 DEF FargateInv

LEMMA FargatePlanned ==
  ASSUME FargateInv, NEW steps, Far!PlanSteps(steps)
  PROVE  FargateInv'
<1>1. /\ steps \subseteq report /\ run' = steps /\ report' = {} /\ was' = [was EXCEPT !.about = {}]
      /\ UNCHANGED <<hour, db, snap, targets, checkpoint>>
  BY DEF Far!PlanSteps
<1>2. DOMAIN was' = DOMAIN was /\ was'.owed = was.owed /\ was'.about = {}
  BY <1>1 DEF FargateInv
<1>. QED
  BY <1>1, <1>2 DEF FargateInv, Far!RevertIsOffered

\* A change that is recorded is watched, and nothing is owed for it yet.
LEMMA FargateExecuted ==
  ASSUME FargateInv, NEW step \in run, Far!Execute(step)
  PROVE  FargateInv'
<1>. DEFINE w == step.target
            stamp == Far!Quantize([cpu |-> FargateCase.Fleet[w].cpu, mem |-> Far!Total(step.to)],
                                  FargateCase.Fleet[w].init)
<1>1. /\ run' = run \ {step} /\ targets' = Far!RecordApplied(targets, step)
      /\ was' = [was EXCEPT !.owed = Far!Restrict(@, DOMAIN @ \ {w})]
      /\ db' = [db EXCEPT ![w] = [@ EXCEPT !.mem = step.to, !.gen = db[w].gen + 1, !.killed = {}, !.restarts = 0,
                                           !.provisioned = stamp]]
      /\ UNCHANGED <<hour, snap, checkpoint, report>>
  BY DEF Far!Execute
<1>2. w \in DOMAIN db /\ w \in DOMAIN FargateCase.Fleet /\ Pod(db[w])
  BY DEF FargateInv, Seen
<1>3. DOMAIN was' = DOMAIN was /\ was'.owed = Far!Restrict(was.owed, DOMAIN was.owed \ {w}) /\ was'.about = was.about
  BY <1>1 DEF FargateInv
<1>. HIDE DEF stamp
<1>4. /\ DOMAIN db' = DOMAIN db /\ \A v \in DOMAIN db : v # w => db'[v] = db[v]
      /\ DOMAIN db'[w] = DOMAIN db[w] /\ db'[w].gen = db[w].gen + 1 /\ db'[w].killed = {}
  BY <1>1, <1>2 DEF Pod
<1>5. DOMAIN db' = DOMAIN db /\ Seen(db')
  <2>1. Pod(db'[w])
    BY <1>2, <1>4, FS_EmptySet DEF Pod
  <2>. QED
    BY <1>4, <2>1 DEF FargateInv, Seen
<1>. HIDE DEF w
<1>6. /\ DOMAIN was'.owed = DOMAIN was.owed \ {w}
      /\ \A x \in DOMAIN was'.owed : was'.owed[x] = was.owed[x]
  BY <1>3 DEF Far!Restrict
<1>7. DomainInv(targets') /\ OwedInv(was'.owed, targets')
  <2>1. CASE targets.last = Far!NoSnap
    BY <1>1, <1>6, <2>1 DEF Far!RecordApplied, FargateInv, DomainInv, OwedInv
  <2>2. CASE targets.last # Far!NoSnap
    <3>. DEFINE seen == [at |-> hour, pod |-> targets.last.pods[w]]
    <3>1. targets' = [targets EXCEPT !.watch = Far!With(@, w, seen), !.applied = Far!With(@, w, [from |-> step.from]),
                                     !.reverts = Far!Restrict(@, DOMAIN @ \ {w})]
      BY <1>1, <2>2 DEF Far!RecordApplied, w
    <3>2. /\ DOMAIN targets' = DOMAIN targets /\ targets'.last = targets.last
          /\ targets'.watch = Far!With(targets.watch, w, seen)
          /\ targets'.applied = Far!With(targets.applied, w, [from |-> step.from])
          /\ targets'.reverts = Far!Restrict(targets.reverts, DOMAIN targets.reverts \ {w})
      BY <3>1 DEF FargateInv, DomainInv
    <3>3. /\ DOMAIN targets'.watch = DOMAIN targets.watch \cup {w} /\ targets'.watch[w] = seen
          /\ \A x \in DOMAIN targets.watch : x # w => targets'.watch[x] = targets.watch[x]
          /\ DOMAIN targets'.applied = DOMAIN targets.applied \cup {w}
      BY <3>2 DEF Far!With
    <3>4. /\ DOMAIN targets'.reverts = DOMAIN targets.reverts \ {w}
          /\ \A x \in DOMAIN targets'.reverts : targets'.reverts[x] = targets.reverts[x]
      BY <3>2 DEF Far!Restrict
    <3>5. Pod(seen.pod)
      BY <1>2, <2>2 DEF FargateInv, DomainInv, Seen
    <3>6. DomainInv(targets')
      BY <3>2, <3>3, <3>5 DEF FargateInv, DomainInv
    <3>7. OwedInv(was'.owed, targets')
      BY <1>6, <3>3, <3>4 DEF FargateInv, OwedInv
    <3>. QED
      BY <3>6, <3>7
  <2>. QED
    BY <2>1, <2>2
<1>8. Far!RevertIsOffered'
  <2>. SUFFICES ASSUME NEW x \in DOMAIN was'.owed \cap was'.about
                PROVE  \E r \in report' : r.target = x /\ r.change = "revert" /\ r.to = was'.owed[x]
    BY DEF Far!RevertIsOffered
  <2>1. x \in DOMAIN was.owed \cap was.about /\ was'.owed[x] = was.owed[x] /\ report' = report
    BY <1>1, <1>3, <1>6
  <2>. QED
    BY <2>1 DEF FargateInv, Far!RevertIsOffered
<1>. QED
  BY <1>1, <1>3, <1>5, <1>7, <1>8 DEF FargateInv

LEMMA FargateSizes == \A S : Far!Cardinality(S) = Cardinality(S)
BY DEF Far!Cardinality, Cardinality

\* What the watch finds is parked: its size is to be reverted, it is watched no more, and the rest
\* stays as it was.
LEMMA ParkedReverts ==
  ASSUME FargateInv
  PROVE  LET d == Far!Parked(targets)
             ours == Far!Check(targets).regressed \cap DOMAIN targets.applied
         IN /\ DOMAIN d = DOMAIN targets /\ d.last = targets.last /\ Far!Hurt(targets) \subseteq ours
            /\ ours \subseteq DOMAIN targets.watch
            /\ DOMAIN d.reverts = ours \cup DOMAIN targets.reverts
            /\ \A w \in ours : d.reverts[w] = targets.applied[w]
            /\ \A w \in DOMAIN targets.reverts \ ours : d.reverts[w] = targets.reverts[w]
            /\ DOMAIN d.watch \subseteq DOMAIN targets.watch \ ours
            /\ \A w \in DOMAIN d.watch : d.watch[w] = targets.watch[w]
            /\ DOMAIN d.applied = DOMAIN targets.applied \ ours
<1>. DEFINE d == Far!Parked(targets)
            c == Far!Check(targets)
            ours == c.regressed \cap DOMAIN targets.applied
            live == {w \in DOMAIN targets.watch : hour - targets.watch[w].at <= FargateCase.RegressionWindow}
            bad == {w \in live \cap DOMAIN targets.last.pods :
                      \/ Far!NewKills(targets.watch[w].pod, targets.last.pods[w]) > 0
                      \/ Far!NewRestarts(targets.watch[w].pod, targets.last.pods[w]) > Far!restartTolerance}
<1>1. c.watch = Far!Restrict(targets.watch, live \ bad) /\ c.regressed = bad
  BY DEF Far!Check
<1>2. d = [targets EXCEPT !.watch = c.watch, !.until = c.until,
             !.reverts = [w \in ours \cup DOMAIN @ |-> IF w \in ours THEN targets.applied[w] ELSE targets.reverts[w]],
             !.applied = Far!Restrict(@, DOMAIN @ \ ours)]
  BY DEF Far!Parked
<1>3. Far!Hurt(targets) \subseteq bad
  <2>. SUFFICES ASSUME NEW w \in Far!Hurt(targets) PROVE w \in bad
    OBVIOUS
  <2>. DEFINE pod == targets.last.pods[w]
              base == targets.watch[w].pod
  <2>1. /\ w \in live /\ w \in DOMAIN targets.last.pods /\ pod.gen > base.gen
        /\ pod.killed # {} \/ pod.restarts > Far!restartTolerance
    BY DEF Far!Hurt
  <2>2. Pod(pod) /\ Pod(base)
    BY <2>1 DEF FargateInv, DomainInv, Seen
  <2>3. base.gen # pod.gen /\ IsFiniteSet(pod.killed)
    BY <2>1, <2>2 DEF Pod
  <2>. HIDE DEF pod, base
  <2>4. pod.killed # {} => Far!NewKills(base, pod) > 0
    BY <2>3, FS_EmptySet, FS_CardinalityType, FargateSizes DEF Far!NewKills
  <2>5. pod.restarts > Far!restartTolerance => Far!NewRestarts(base, pod) > Far!restartTolerance
    BY <2>3 DEF Far!NewRestarts
  <2>6. Far!NewKills(base, pod) > 0 \/ Far!NewRestarts(base, pod) > Far!restartTolerance
    BY <2>1, <2>4, <2>5
  <2>. QED
    BY <2>1, <2>6 DEF pod, base
<1>4. bad \subseteq DOMAIN targets.watch /\ bad \subseteq DOMAIN targets.applied
  BY DEF FargateInv, DomainInv
<1>. HIDE DEF bad, live, c, d
<1>5. ours = bad
  BY <1>1, <1>4
<1>6. /\ DOMAIN d = DOMAIN targets /\ d.last = targets.last /\ d.watch = c.watch
      /\ d.reverts = [w \in ours \cup DOMAIN targets.reverts |->
                        IF w \in ours THEN targets.applied[w] ELSE targets.reverts[w]]
      /\ d.applied = Far!Restrict(targets.applied, DOMAIN targets.applied \ ours)
  BY <1>2 DEF FargateInv, DomainInv
<1>7. /\ DOMAIN d.reverts = ours \cup DOMAIN targets.reverts
      /\ \A w \in ours : d.reverts[w] = targets.applied[w]
      /\ \A w \in DOMAIN targets.reverts \ ours : d.reverts[w] = targets.reverts[w]
  BY <1>6
<1>8. /\ DOMAIN d.watch = live \ bad /\ \A w \in DOMAIN d.watch : d.watch[w] = targets.watch[w]
      /\ DOMAIN d.applied = DOMAIN targets.applied \ ours
  BY <1>1, <1>6 DEF Far!Restrict
<1>9. live \subseteq DOMAIN targets.watch
  BY DEF live
<1>. QED
  BY <1>3, <1>4, <1>5, <1>6, <1>7, <1>8, <1>9 DEF d, c

\* Every recommendation is about the workload it was made for, and a revert is to the size kept.
LEMMA ProposedIsAbout ==
  ASSUME NEW d, NEW w, NEW policy, NEW r \in Far!recommendWorkload(d, w, policy)
  PROVE  r.target = w
<1>1. PICK pod, chosen : r \in Far!Proposed(d, w, pod, chosen)
  BY DEF Far!recommendWorkload
<1>. DEFINE gross == pod.replicas * (Far!Cost(Far!PodConfig(w, pod)) - Far!Cost(chosen.tier))
            floor == IF chosen.change = "boundary-shave" THEN FargateCase.MinShave ELSE FargateCase.MinMove
            suppressed == IF Far!Quarantined(d, w) THEN "quarantined"
                          ELSE IF gross > 0 /\ w \in FargateCase.Stranded THEN "stranded"
                          ELSE IF FargateCase.Fleet[w].mode = "recommend" THEN "mode"
                          ELSE ""
            risk == IF Far!Total(chosen.mem) < Far!Total(pod.mem) THEN "medium" ELSE "low"
            none == chosen = Far!NoCandidate \/ gross = 0 \/ (gross > 0 /\ gross < floor)
            rec == [target |-> w, seen |-> d.known, at |-> hour, change |-> chosen.change,
                    from |-> Far!Shape(w, pod), to |-> chosen.mem, tier |-> chosen.tier, gross |-> gross,
                    suppressed |-> suppressed, risk |-> risk]
<1>2. Far!Proposed(d, w, pod, chosen) = IF none THEN {} ELSE {rec}
  BY DEF Far!Proposed
<1>3. rec.target = w
  <2>. HIDE DEF gross, suppressed, risk
  <2>. QED
    OBVIOUS
<1>. HIDE DEF none, rec
<1>. QED
  BY <1>1, <1>2, <1>3

LEMMA RevertIsAbout ==
  ASSUME NEW d, NEW w
  PROVE  \E r : /\ Far!revertRec(d, w) = {r}
                /\ r.target = w /\ r.change = "revert" /\ r.to = d.reverts[w].from.mem
<1>. DEFINE pod == d.last.pods[w]
            from == d.reverts[w].from
            gross == pod.replicas * (Far!Cost(Far!PodConfig(w, pod)) - Far!Cost(from.tier))
            suppressed == IF FargateCase.Fleet[w].mode = "recommend" THEN "mode" ELSE ""
            rec == [target |-> w, seen |-> d.known, at |-> hour, change |-> "revert", from |-> Far!Shape(w, pod),
                    to |-> from.mem, tier |-> from.tier, gross |-> gross, suppressed |-> suppressed, risk |-> "low"]
<1>1. Far!revertRec(d, w) = {rec}
  BY DEF Far!revertRec
<1>. HIDE DEF gross, suppressed
<1>2. rec.target = w /\ rec.change = "revert" /\ rec.to = d.reverts[w].from.mem
  OBVIOUS
<1>. HIDE DEF rec
<1>. QED
  BY <1>1, <1>2

\* A report offers every size that is owed: what hurt is among what the watch found, and what was
\* owed before has not been forgotten; a revert is dropped where the sizes are back, and nothing is
\* owed there.
LEMMA FargateRecommended ==
  ASSUME FargateInv, NEW policy, Far!Recommend(policy)
  PROVE  FargateInv'
<1>. DEFINE d == Far!Parked(targets)
            back == {w \in Far!Groups(d) \cap DOMAIN d.reverts : Far!Back(d, w)}
            ours == Far!Check(targets).regressed \cap DOMAIN targets.applied
            of(w) == IF w \in back THEN {}
                     ELSE IF w \in DOMAIN d.reverts THEN Far!revertRec(d, w)
                     ELSE Far!recommendWorkload(d, w, policy[w])
            hurt == Far!Hurt(targets)
<1>1. /\ targets' = [d EXCEPT !.reverts = Far!Restrict(@, DOMAIN @ \ back)]
      /\ report' = UNION {of(w) : w \in Far!Groups(d)}
      /\ was' = [was EXCEPT !.about = Far!Groups(d), !.owed = Far!Owed(@)]
      /\ UNCHANGED <<hour, db, run, snap, checkpoint>>
  BY DEF Far!Recommend
<1>2. /\ DOMAIN d = DOMAIN targets /\ d.last = targets.last /\ hurt \subseteq ours
      /\ ours \subseteq DOMAIN targets.watch
      /\ DOMAIN d.reverts = ours \cup DOMAIN targets.reverts
      /\ \A w \in ours : d.reverts[w] = targets.applied[w]
      /\ \A w \in DOMAIN targets.reverts \ ours : d.reverts[w] = targets.reverts[w]
      /\ DOMAIN d.watch \subseteq DOMAIN targets.watch \ ours
      /\ \A w \in DOMAIN d.watch : d.watch[w] = targets.watch[w]
      /\ DOMAIN d.applied = DOMAIN targets.applied \ ours
  BY ParkedReverts
<1>3. Far!Groups(d) \subseteq DOMAIN targets.last.pods
  BY <1>2 DEF Far!Groups
<1>4. \A w \in back : targets.last.pods[w].mem = d.reverts[w].from.mem
  BY <1>2 DEF Far!Back, Far!Shape
<1>. HIDE DEF d, ours, hurt
<1>5. /\ DOMAIN was' = DOMAIN was /\ was'.about = Far!Groups(d) /\ was'.owed = Far!Owed(was.owed)
  BY SMTT(30), <1>1 DEF FargateInv
<1>6. /\ DOMAIN was'.owed \subseteq hurt \cup DOMAIN was.owed
      /\ \A w \in DOMAIN was'.owed :
            /\ was'.owed[w] = IF w \in hurt THEN targets.applied[w].from.mem ELSE was.owed[w]
            /\ targets.last.pods[w].mem # was'.owed[w]
  BY <1>5 DEF Far!Owed, Far!Restrict, hurt
<1>7. \A w \in DOMAIN was'.owed : w \in DOMAIN d.reverts /\ was'.owed[w] = d.reverts[w].from.mem
  <2>. SUFFICES ASSUME NEW w \in DOMAIN was'.owed
                PROVE  w \in DOMAIN d.reverts /\ was'.owed[w] = d.reverts[w].from.mem
    OBVIOUS
  <2>1. CASE w \in hurt
    BY <1>2, <1>6, <2>1
  <2>2. CASE w \notin hurt
    <3>1. w \in DOMAIN was.owed /\ w \notin DOMAIN targets.watch /\ w \notin ours
      BY <1>2, <1>6, <2>2 DEF FargateInv, OwedInv
    <3>2. w \in DOMAIN targets.reverts /\ was.owed[w] = targets.reverts[w].from.mem
      BY <3>1 DEF FargateInv, OwedInv
    <3>. QED
      BY <1>2, <1>6, <2>2, <3>1, <3>2
  <2>. QED
    BY <2>1, <2>2
<1>8. \A w \in DOMAIN was'.owed : w \notin back
  BY <1>4, <1>6, <1>7
<1>9. /\ DOMAIN targets' = DOMAIN targets /\ targets'.last = targets.last /\ targets'.watch = d.watch
      /\ targets'.applied = d.applied
      /\ targets'.reverts = Far!Restrict(d.reverts, DOMAIN d.reverts \ back)
  BY <1>1, <1>2 DEF FargateInv, DomainInv
<1>10. DomainInv(targets')
  BY <1>2, <1>9 DEF FargateInv, DomainInv
<1>11. OwedInv(was'.owed, targets')
  <2>1. \A w \in DOMAIN was'.owed : w \in DOMAIN targets'.reverts /\ was'.owed[w] = targets'.reverts[w].from.mem
    BY <1>7, <1>8, <1>9 DEF Far!Restrict
  <2>2. DOMAIN was'.owed \cap DOMAIN targets'.watch = {}
    BY <1>2, <1>6, <1>9 DEF FargateInv, OwedInv
  <2>. QED
    BY <2>1, <2>2 DEF OwedInv
<1>12. \A r \in report' : r.target \in DOMAIN FargateCase.Fleet
  <2>. SUFFICES ASSUME NEW w \in Far!Groups(d), NEW r \in of(w) PROVE r.target = w
    BY <1>1, <1>3 DEF FargateInv, DomainInv
  <2>1. CASE w \in back
    BY <2>1
  <2>2. CASE w \notin back /\ w \in DOMAIN d.reverts
    BY <2>2, RevertIsAbout
  <2>3. CASE w \notin back /\ w \notin DOMAIN d.reverts
    BY <2>3, ProposedIsAbout
  <2>. QED
    BY <2>1, <2>2, <2>3
<1>13. Far!RevertIsOffered'
  <2>. SUFFICES ASSUME NEW w \in DOMAIN was'.owed \cap was'.about
                PROVE  \E r \in report' : r.target = w /\ r.change = "revert" /\ r.to = was'.owed[w]
    BY DEF Far!RevertIsOffered
  <2>1. w \in Far!Groups(d) /\ of(w) = Far!revertRec(d, w) /\ was'.owed[w] = d.reverts[w].from.mem
    BY <1>5, <1>7, <1>8
  <2>2. \E r \in of(w) : r.target = w /\ r.change = "revert" /\ r.to = d.reverts[w].from.mem
    <3>1. PICK r : /\ Far!revertRec(d, w) = {r}
                   /\ r.target = w /\ r.change = "revert" /\ r.to = d.reverts[w].from.mem
      BY RevertIsAbout
    <3>2. r \in of(w)
      BY <2>1, <3>1
    <3>. QED
      BY <3>1, <3>2
  <2>. QED
    BY <1>1, <2>1, <2>2
<1>. QED
  BY <1>1, <1>5, <1>10, <1>11, <1>12, <1>13 DEF FargateInv

LEMMA FargateNext == FargateInv /\ Far!Next => FargateInv'
<1>. SUFFICES ASSUME FargateInv, Far!Next PROVE FargateInv'
  OBVIOUS
<1>1. ASSUME NEW w \in DOMAIN db, NEW c, Far!Kill(w, {}) \/ Far!Kill(w, {c}) PROVE FargateInv'
  BY <1>1, FargateKilled, FS_EmptySet, FS_Singleton
<1>. QED
  BY <1>1, FargateNextHour, FargateMarked, FargateSaved, FargateRestored, FargateEdited, FargateCollected,
     FargateLearned, FargateRecommended, FargatePlanned, FargateExecuted DEF Far!Next

-----------------------------------------------------------------------------
(* ---- Numbers ---- *)

\* Numbers that are bounded have a first and a last.
LEMMA LeastInteger ==
  ASSUME NEW S \in SUBSET Int, S # {}, NEW lo \in Int, \A x \in S : lo <= x
  PROVE  \E m \in S : \A x \in S : m <= x
<1>. DEFINE T == {x - lo : x \in S}
<1>1. T \subseteq Nat /\ T # {}
  <2>1. ASSUME NEW x \in S PROVE x - lo \in Nat
    OBVIOUS
  <2>2. PICK x \in S : TRUE
    OBVIOUS
  <2>3. x - lo \in T
    OBVIOUS
  <2>. QED
    BY <2>1, <2>3
<1>2. PICK t \in T : \A u \in T : ~(<<u, t>> \in OpToRel(<, Nat))
  BY <1>1, WFMin, NatLessThanWellFounded
<1>3. PICK m \in S : t = m - lo
  OBVIOUS
<1>4. ASSUME NEW x \in S PROVE m <= x
  <2>1. x - lo \in T /\ x - lo \in Nat /\ t \in Nat
    BY <1>1
  <2>2. ~(x - lo < t)
    BY <1>2, <2>1 DEF OpToRel
  <2>. QED
    BY <1>3, <2>1, <2>2
<1>. QED
  BY <1>4

LEMMA GreatestInteger ==
  ASSUME NEW S \in SUBSET Int, S # {}, NEW hi \in Int, \A x \in S : x <= hi
  PROVE  \E m \in S : \A x \in S : m >= x
<1>. DEFINE T == {0 - x : x \in S}
<1>1. T \in SUBSET Int /\ T # {} /\ 0 - hi \in Int /\ \A t \in T : 0 - hi <= t
  <2>1. ASSUME NEW x \in S PROVE 0 - x \in Int /\ 0 - hi <= 0 - x
    OBVIOUS
  <2>2. PICK x \in S : TRUE
    OBVIOUS
  <2>3. 0 - x \in T
    OBVIOUS
  <2>. QED
    BY <2>1, <2>3
<1>2. PICK t \in T : \A u \in T : t <= u
  BY <1>1, LeastInteger
<1>3. PICK m \in S : t = 0 - m
  OBVIOUS
<1>4. ASSUME NEW x \in S PROVE m >= x
  <2>1. 0 - x \in T
    OBVIOUS
  <2>2. 0 - m <= 0 - x
    BY <1>2, <1>3, <2>1
  <2>. QED
    BY <2>2
<1>. QED
  BY <1>4

-----------------------------------------------------------------------------
(* ---- ECS: what is planned rests on fresh evidence about a service at rest ---- *)

\* The hours a series may have points of, and a snapshot.
Hours(at) == (at - ServiceCase.Window)..(at - 1)
CollectionInv(s) ==
  /\ {"cluster", "at", "stale", "services"} \subseteq DOMAIN s /\ s.at \in Nat
  /\ DOMAIN s.services \subseteq DOMAIN ServiceCase.Fleet
  /\ \A v \in DOMAIN s.services : /\ DOMAIN s.services[v].cpu.points \subseteq Hours(s.at)
                                  /\ DOMAIN s.services[v].mem.points \subseteq Hours(s.at)

ServiceInv ==
  /\ hour \in Nat /\ DOMAIN db = DOMAIN ServiceCase.Fleet
  /\ CollectionInv(snap)
  /\ \A c \in DOMAIN targets : CollectionInv(targets[c])
  /\ \A c \in DOMAIN checkpoint : CollectionInv(checkpoint[c])
  /\ Ecs!FreshAndSettled

LEMMA ServiceSizes == \A S : Ecs!Cardinality(S) = Cardinality(S)
BY DEF Ecs!Cardinality, Cardinality

LEMMA NothingCollected == CollectionInv(Ecs!NoSnap)
BY DEF CollectionInv, Ecs!NoSnap

LEMMA ServiceInit == Ecs!Init => ServiceInv
BY NothingCollected DEF Ecs!Init, ServiceInv, Ecs!NoDomain, Ecs!FreshAndSettled

LEMMA ServiceChanges ==
  ASSUME ServiceInv,
         \/ Ecs!NextHour \/ Ecs!Abort \/ Ecs!Checkpoint \/ Ecs!Restore
         \/ \E v \in DOMAIN db, rev \in DOMAIN ServiceCase.Revisions : Ecs!Deploy(v, rev)
         \/ \E v \in DOMAIN db, state \in {"COMPLETED", "FAILED"} : Ecs!RollOut(v, state)
  PROVE  ServiceInv'
<1>1. CASE Ecs!NextHour
  <2>1. /\ hour' = hour + 1 /\ DOMAIN db' = DOMAIN db
        /\ UNCHANGED <<run, snap, targets, checkpoint, report, was>>
    BY <1>1 DEF Ecs!NextHour
  <2>. QED
    BY <2>1 DEF ServiceInv, Ecs!FreshAndSettled
<1>2. CASE Ecs!Abort
  <2>1. snap' = Ecs!NoSnap /\ UNCHANGED <<hour, db, targets, checkpoint, report>>
    BY <1>2 DEF Ecs!Abort
  <2>. QED
    BY <2>1, NothingCollected DEF ServiceInv, Ecs!FreshAndSettled
<1>3. CASE Ecs!Checkpoint
  BY <1>3 DEF ServiceInv, Ecs!Checkpoint, Ecs!FreshAndSettled
<1>4. CASE Ecs!Restore
  <2>1. targets' = checkpoint /\ snap' = Ecs!NoSnap /\ report' = {} /\ UNCHANGED <<hour, db, checkpoint>>
    BY <1>4 DEF Ecs!Restore
  <2>. QED
    BY <2>1, NothingCollected DEF ServiceInv, Ecs!FreshAndSettled
<1>5. CASE \/ \E v \in DOMAIN db, rev \in DOMAIN ServiceCase.Revisions : Ecs!Deploy(v, rev)
           \/ \E v \in DOMAIN db, state \in {"COMPLETED", "FAILED"} : Ecs!RollOut(v, state)
  <2>1. DOMAIN db' = DOMAIN db /\ UNCHANGED <<hour, snap, targets, checkpoint, report>>
    BY <1>5 DEF Ecs!Deploy, Ecs!RollOut
  <2>. QED
    BY SMTT(30), <2>1 DEF ServiceInv, Ecs!FreshAndSettled
<1>. QED
  BY <1>1, <1>2, <1>3, <1>4, <1>5

\* A run reads the hours of its window.
LEMMA ServiceDescribed ==
  ASSUME ServiceInv, NEW c, NEW described, Ecs!DescribeServices(c, described)
  PROVE  ServiceInv'
<1>. DEFINE fargate == {v \in described : ServiceCase.Fleet[v].fargate}
            all == {v \in DOMAIN db : ServiceCase.Fleet[v].cluster = c}
<1>1. /\ UNCHANGED <<hour, db, targets, checkpoint, report>> /\ described \subseteq all
      /\ snap' = [cluster |-> c, at |-> hour, stale |-> described # all,
                  services |-> [v \in fargate |-> [primary |-> db[v], cpu |-> Ecs!NoSeries, mem |-> Ecs!NoSeries]]]
  BY DEF Ecs!DescribeServices
<1>2. fargate \subseteq DOMAIN ServiceCase.Fleet
  BY <1>1 DEF ServiceInv
<1>3. DOMAIN Ecs!NoSeries.points = {}
  BY DEF Ecs!NoSeries
<1>4. CollectionInv(snap')
  BY <1>1, <1>2, <1>3 DEF CollectionInv, ServiceInv
<1>. QED
  BY <1>1, <1>4 DEF ServiceInv, Ecs!FreshAndSettled

LEMMA ServiceMeasured ==
  ASSUME ServiceInv, NEW missing, Ecs!FetchMetrics(missing)
  PROVE  ServiceInv'
<1>. DEFINE hours(v) == {h \in DOMAIN ServiceCase.Load[v] : snap.at - ServiceCase.Window <= h /\ h < snap.at}
            got(v, dim) == {h \in hours(v) : <<v, dim>> \in missing => h # snap.at - 1}
            series(v, dim) == [complete |-> <<v, dim>> \notin missing,
                               points   |-> [h \in got(v, dim) |-> Ecs!Published(v, dim, h)]]
            services == [v \in DOMAIN snap.services |->
                           [primary |-> snap.services[v].primary, cpu |-> series(v, "cpu"), mem |-> series(v, "mem")]]
<1>1. snap' = [snap EXCEPT !.services = services] /\ UNCHANGED <<hour, db, targets, checkpoint, report>>
  BY DEF Ecs!FetchMetrics
<1>2. \A v \in DOMAIN snap.services : \A dim : DOMAIN series(v, dim).points \subseteq Hours(snap.at)
  <2>. SUFFICES ASSUME NEW v \in DOMAIN snap.services, NEW dim, NEW h \in hours(v) PROVE h \in Hours(snap.at)
    OBVIOUS
  <2>1. h \in Int /\ snap.at \in Nat /\ ServiceCase.Window \in Nat
    BY ServiceAssumption DEF ServiceInv, CollectionInv
  <2>. QED
    BY <2>1 DEF Hours
<1>. HIDE DEF series
<1>3. /\ \A v \in DOMAIN services : /\ DOMAIN services[v].cpu.points \subseteq Hours(snap.at)
                                    /\ DOMAIN services[v].mem.points \subseteq Hours(snap.at)
      /\ DOMAIN services = DOMAIN snap.services
  BY <1>2
<1>. HIDE DEF services
<1>4. DOMAIN snap' = DOMAIN snap /\ snap'.at = snap.at /\ snap'.services = services
  BY <1>1 DEF ServiceInv, CollectionInv
<1>5. CollectionInv(snap')
  BY <1>3, <1>4 DEF ServiceInv, CollectionInv
<1>. QED
  BY <1>1, <1>5 DEF ServiceInv, Ecs!FreshAndSettled

LEMMA ServiceLearned == ServiceInv /\ Ecs!Learn => ServiceInv'
<1>. SUFFICES ASSUME ServiceInv, Ecs!Learn PROVE ServiceInv'
  OBVIOUS
<1>1. /\ targets' = [c \in DOMAIN targets \cup {snap.cluster} |-> IF c = snap.cluster THEN snap ELSE targets[c]]
      /\ snap' = Ecs!NoSnap /\ UNCHANGED <<hour, db, checkpoint, report>>
  BY DEF Ecs!Learn
<1>2. \A c \in DOMAIN targets' : CollectionInv(targets'[c])
  BY <1>1 DEF ServiceInv
<1>. QED
  BY <1>1, <1>2, NothingCollected DEF ServiceInv, Ecs!FreshAndSettled

LEMMA ServiceEdges ==
  ASSUME NEW a \in Int, NEW b \in Int
  PROVE  /\ Ecs!Min({a, b}) \in {a, b} /\ Ecs!Min({a, b}) <= a /\ Ecs!Min({a, b}) <= b
         /\ Ecs!Max({a, b}) \in {a, b}
<1>1. \E m \in {a, b} : \A x \in {a, b} : m <= x
  OBVIOUS
<1>2. \E m \in {a, b} : \A x \in {a, b} : m >= x
  OBVIOUS
<1>3. Ecs!Min({a, b}) \in {a, b} /\ \A x \in {a, b} : Ecs!Min({a, b}) <= x
  BY <1>1 DEF Ecs!Min
<1>4. Ecs!Max({a, b}) \in {a, b}
  BY <1>2 DEF Ecs!Max
<1>. QED
  BY <1>3, <1>4

LEMMA NotBelow == \A x \in Int, n \in Nat : ~(x < n) => x \in Nat
OBVIOUS

LEMMA NaturalEdges == \A a, b \in Nat : Ecs!Min({a, b}) \in Nat
BY ServiceEdges

\* A quotient, times what it was divided by, is not more than what was divided.
LEMMA Quotient ==
  ASSUME NEW a \in Nat, NEW b \in Nat \ {0}
  PROVE  a \div b \in Nat /\ b * (a \div b) <= a
OBVIOUS

LEMMA TermIsShare ==
  ASSUME NEW have \in Nat, NEW want \in Nat \ {0}
  PROVE  Ecs!Term(have, want) \in 0..100
<1>. DEFINE q == (100 * have) \div want
<1>1. q \in Nat
  BY Quotient
<1>. HIDE DEF q
<1>2. Ecs!Min({100, q}) \in {100, q} /\ Ecs!Min({100, q}) <= 100
  BY <1>1, ServiceEdges
<1>. QED
  BY <1>1, <1>2 DEF Ecs!Term, q

\* The confidence floor bounds the age: no other term makes up for it.
Sure(depth, span, age) == (depth * span * Ecs!Freshness(age)) \div 10000
LEMMA FreshEnough ==
  ASSUME NEW depth \in 0..100, NEW span \in 0..100, NEW age \in Int,
         Sure(depth, span, age) >= ServiceCase.MinConfidence
  PROVE  100 * age <= ServiceCase.MaxSampleAge * (100 - ServiceCase.MinConfidence)
<1>. DEFINE most == ServiceCase.MaxSampleAge
            least == ServiceCase.MinConfidence
            left == Ecs!Max({0, most - age})
            f == Ecs!Freshness(age)
            p == depth * span
<1>1. most \in Nat \ {0} /\ least \in 1..100
  BY ServiceAssumption
<1>. HIDE DEF most, least
<1>2. left \in {0, most - age} /\ left \in Nat
  <2>1. most - age \in Int
    BY <1>1
  <2>2. left \in {0, most - age} /\ (most - age \in Nat \/ left = 0)
    <3>1. 0 \in {0, most - age} /\ \E m \in {0, most - age} : \A x \in {0, most - age} : m >= x
      BY <2>1
    <3>2. left \in {0, most - age} /\ left >= 0
      BY <3>1 DEF Ecs!Max
    <3>. QED
      BY <2>1, <3>2
  <2>. QED
    BY <2>1, <2>2
<1>3. f = (100 * left) \div most
  BY DEF Ecs!Freshness, most
<1>. HIDE DEF left, f
<1>4. f \in Nat /\ most * f <= 100 * left
  BY <1>1, <1>2, <1>3, Quotient
<1>5. p \in Nat /\ p <= 10000
  <2>1. depth * span \in Nat /\ depth * span <= 100 * span
    OBVIOUS
  <2>. QED
    BY <2>1
<1>6. (p * f) \div 10000 >= least
  BY DEF f, least, Sure
<1>. HIDE DEF p
<1>7. p * f \in Nat /\ p * f <= 10000 * f
  BY <1>4, <1>5
<1>8. 10000 * ((p * f) \div 10000) <= p * f /\ (p * f) \div 10000 \in Nat
  BY <1>7, Quotient
<1>9. f >= least
  BY <1>1, <1>4, <1>6, <1>7, <1>8
<1>10. most * least <= most * f
  BY <1>1, <1>4, <1>9
<1>11. most * least <= 100 * left /\ most * least \in Nat /\ most * least >= 1
  BY <1>1, <1>2, <1>4, <1>10
<1>12. left = most - age
  BY <1>2, <1>11
<1>13. 100 * age <= most * 100 - most * least
  BY <1>1, <1>11, <1>12
<1>14. most * 100 - most * least = most * (100 - least)
  BY <1>1
<1>. QED
  BY <1>13, <1>14 DEF most, least

\* Points within hours that are past have a number, a span and a newest hour.
LEMMA PointsAreCounted ==
  ASSUME NEW at \in Nat, NEW D, D \subseteq Hours(at)
  PROVE  /\ Ecs!Cardinality(D) \in Nat /\ D \subseteq Int
         /\ D # {} => /\ Ecs!Max(D) \in D /\ Ecs!Max(D) <= at - 1
                      /\ Ecs!Max(D) - Ecs!Min(D) \in Int
<1>1. ServiceCase.Window \in Nat
  BY ServiceAssumption
<1>2. /\ D \in SUBSET Int /\ at - ServiceCase.Window \in Int /\ at - 1 \in Int
      /\ \A x \in D : x <= at - 1 /\ at - ServiceCase.Window <= x
  BY <1>1 DEF Hours
<1>3. IsFiniteSet(D)
  <2>1. IsFiniteSet((at - ServiceCase.Window)..(at - 1))
    BY <1>2, FS_Interval
  <2>. QED
    BY <2>1, FS_Subset DEF Hours
<1>4. Ecs!Cardinality(D) \in Nat
  BY <1>3, FS_CardinalityType, ServiceSizes
<1>5. ASSUME D # {}
      PROVE  Ecs!Max(D) \in D /\ Ecs!Min(D) \in D
  <2>1. \E m \in D : \A x \in D : m >= x
    BY <1>2, <1>5, GreatestInteger
  <2>2. \E m \in D : \A x \in D : m <= x
    BY <1>2, <1>5, LeastInteger
  <2>. QED
    BY <2>1, <2>2 DEF Ecs!Max, Ecs!Min
<1>6. ASSUME D # {}
      PROVE  Ecs!Max(D) <= at - 1 /\ Ecs!Max(D) - Ecs!Min(D) \in Int
  <2>1. Ecs!Max(D) \in Int /\ Ecs!Min(D) \in Int /\ Ecs!Max(D) <= at - 1
    BY <1>2, <1>5, <1>6
  <2>. QED
    BY <2>1
<1>. QED
  BY <1>2, <1>4, <1>5, <1>6

\* Demand that is not refused rests on the samples and the span it asks for.
LEMMA DemandIsMet ==
  ASSUME NEW o, NEW at \in Nat, NEW start,
         DOMAIN o.cpu.points \subseteq Hours(at), DOMAIN o.mem.points \subseteq Hours(at),
         Ecs!Demand(o, start).refusal = ""
  PROVE  LET d == Ecs!Demand(o, start)
         IN /\ d.samples \in Nat /\ d.window \in Nat
            /\ DOMAIN o.cpu.points # {}
<1>. DEFINE p == o.primary
            r == ServiceCase.Revisions[p.rev]
            trim(points) == IF p.since > start THEN Ecs!TrimBefore(points, p.since) ELSE points
            cpu == trim(o.cpu.points)
            mem == trim(o.mem.points)
            trimmed == cpu # o.cpu.points \/ mem # o.mem.points
            refuse(code) == [refusal |-> code, samples |-> 0, window |-> 0, target |-> Ecs!NoTier]
            samples == Ecs!Min({Ecs!Cardinality(DOMAIN cpu), Ecs!Cardinality(DOMAIN mem)})
            window == Ecs!Min({Ecs!Span(cpu), Ecs!Span(mem)})
            target == [cpu |-> Ecs!Ceil(Ecs!AbsoluteFromPercent(Ecs!Percentile(cpu), r.cpu) * ServiceCase.CPUHeadroom, 100),
                       mem |-> Ecs!Ceil(Ecs!AbsoluteFromPercent(Ecs!Max(Ecs!Range(mem)), r.mem) * ServiceCase.MemHeadroom, 100)]
            d == Ecs!Demand(o, start)
            few == samples < ServiceCase.MinSamples
            short == window < ServiceCase.MinWindow
            partial == ~o.cpu.complete \/ ~o.mem.complete
<1>1. d = IF ~Ecs!IsTier(r) THEN refuse("invalid-task-size")
          ELSE IF partial THEN refuse("partial-metrics")
          ELSE IF DOMAIN cpu = {} \/ DOMAIN mem = {} THEN refuse("no-metric-window")
          ELSE IF trimmed /\ (few \/ short) THEN refuse("revision-drift")
          ELSE IF short THEN refuse("insufficient-window")
          ELSE IF few THEN refuse("insufficient-samples")
          ELSE [refusal |-> "", samples |-> samples, window |-> window, target |-> target]
  BY DEF Ecs!Demand
<1>2. DOMAIN cpu \subseteq DOMAIN o.cpu.points /\ DOMAIN mem \subseteq DOMAIN o.mem.points
  BY DEF Ecs!TrimBefore, Ecs!Restrict
<1>7. d.refusal = ""
  OBVIOUS
<1>. HIDE DEF cpu, mem, samples, window, target, r, trimmed, partial, few, short, d
<1>3. /\ DOMAIN cpu # {} /\ DOMAIN mem # {} /\ ~few /\ ~short
      /\ d.samples = samples /\ d.window = window
  BY <1>1, <1>7
<1>4. samples \in Nat
  <2>1. Ecs!Cardinality(DOMAIN cpu) \in Nat /\ Ecs!Cardinality(DOMAIN mem) \in Nat
    BY <1>2, PointsAreCounted
  <2>. QED
    BY <2>1, NaturalEdges DEF samples
<1>5. window \in Int
  <2>1. Ecs!Span(cpu) \in Int /\ Ecs!Span(mem) \in Int
    BY <1>2, <1>3, PointsAreCounted DEF Ecs!Span
  <2>. QED
    BY <2>1, ServiceEdges DEF window
<1>6. window \in Nat
  <2>1. ServiceCase.MinWindow \in Nat
    BY ServiceAssumption
  <2>2. ~(window < ServiceCase.MinWindow)
    BY <1>3 DEF short
  <2>. QED
    BY <1>5, <2>1, <2>2, NotBelow
<1>. QED
  BY <1>2, <1>3, <1>4, <1>6 DEF d

\* What is proposed, and not only shown, is for a service at rest, and confident.
LEMMA ProposedIsFresh ==
  ASSUME ServiceInv, NEW c \in DOMAIN targets, NEW v \in DOMAIN targets[c].services,
         NEW s \in Ecs!Assess(v, targets[c].services[v], targets[c].at), ~s.suppressed
  PROVE  /\ 100 * (s.at - (s.end - 1)) <= ServiceCase.MaxSampleAge * (100 - ServiceCase.MinConfidence)
         /\ Ecs!Serving(s.primary) = {s.primary.rev}
<1>. DEFINE o == targets[c].services[v]
            at == targets[c].at
            p == o.primary
            d == Ecs!Demand(o, at - ServiceCase.Window)
<1>1. PICK q : s \in Ecs!Weigh(v, o, at, d, q)
  BY SMTT(30) DEF Ecs!Assess, Ecs!Sized
<1>. HIDE DEF d
<1>. DEFINE proposed == /\ Ecs!Unfit(v, p) = {} /\ d.refusal = "" /\ q.refusal = ""
                        /\ Ecs!Confidence(o, d) >= ServiceCase.MinConfidence
<1>2. PICK current : s \in Ecs!Recommended(v, p, at, current, proposed, q.tier)
  BY <1>1 DEF Ecs!Weigh
<1>3. proposed /\ s.at = hour /\ s.end = at /\ s.primary = p
  <2>. DEFINE rec(to, suppressed) ==
                [target |-> v, primary |-> p, from |-> current, tier |-> to, at |-> hour,
                 start |-> at - ServiceCase.Window, end |-> at, suppressed |-> suppressed,
                 risk |-> Ecs!riskOf(current, to)]
              base == IF proposed THEN q.tier ELSE current
              alone == v \in ServiceCase.Stranded \/ ServiceCase.Fleet[v].mode = "recommend"
  <2>1. Ecs!Recommended(v, p, at, current, proposed, q.tier) =
          (IF proposed THEN {rec(q.tier, alone)} ELSE {}) \cup {rec(base, TRUE) : a \in Ecs!Advisories(v, p, base)}
    BY DEF Ecs!Recommended
  <2>2. \A to, suppressed : LET x == rec(to, suppressed)
                           IN x.suppressed = suppressed /\ x.at = hour /\ x.end = at /\ x.primary = p
    OBVIOUS
  <2>. HIDE DEF rec, base, alone, proposed, at, p
  <2>3. s # rec(base, TRUE)
    BY <2>2
  <2>. QED
    <3>1. s \in IF proposed THEN {rec(q.tier, alone)} ELSE {}
      BY <1>2, <2>1, <2>3, Zenon
    <3>2. proposed
      BY <3>1
    <3>3. s = rec(q.tier, alone)
      BY <3>1, <3>2
    <3>. QED
      BY <2>2, <3>2, <3>3
<1>4. at \in Nat /\ hour \in Nat /\ DOMAIN o.cpu.points \subseteq Hours(at) /\ DOMAIN o.mem.points \subseteq Hours(at)
  BY DEF ServiceInv, CollectionInv
<1>5. d.samples \in Nat /\ d.window \in Nat /\ DOMAIN o.cpu.points # {}
  BY <1>3, <1>4, DemandIsMet DEF d
<1>6. p.old = {}
  <2>1. ~Ecs!DeploymentInProgress(p)
    BY <1>3 DEF Ecs!Unfit
  <2>. QED
    BY <2>1 DEF Ecs!DeploymentInProgress
<1>7. 100 * (hour - (at - 1)) <= ServiceCase.MaxSampleAge * (100 - ServiceCase.MinConfidence)
  <2>. DEFINE D == DOMAIN o.cpu.points \cup DOMAIN o.mem.points
              age == hour - Ecs!Max(D)
              depth == Ecs!Term(d.samples, 2 * ServiceCase.MinSamples)
              span == Ecs!Term(d.window, 2 * ServiceCase.MinWindow)
  <2>1. Ecs!Max(D) \in Int /\ Ecs!Max(D) <= at - 1
    BY <1>4, <1>5, PointsAreCounted
  <2>2. /\ ServiceCase.MinConfidence \in 1..100 /\ ServiceCase.MaxSampleAge \in Nat \ {0}
        /\ 2 * ServiceCase.MinSamples \in Nat \ {0} /\ 2 * ServiceCase.MinWindow \in Nat \ {0}
    BY ServiceAssumption
  <2>3. depth \in 0..100 /\ span \in 0..100
    BY <1>5, <2>2, TermIsShare
  <2>. HIDE DEF D, depth, span
  <2>4. Sure(depth, span, age) >= ServiceCase.MinConfidence
    <3>. DEFINE x == Sure(depth, span, age)
    <3>1. Ecs!Confidence(o, d) = IF d.samples = 0 THEN 0 ELSE x
      BY DEF Ecs!Confidence, D, depth, span, Sure
    <3>2. Ecs!Confidence(o, d) >= ServiceCase.MinConfidence
      BY <1>3
    <3>. HIDE DEF x, proposed
    <3>3. x >= ServiceCase.MinConfidence
      BY <2>2, <3>1, <3>2
    <3>. QED
      BY <3>3 DEF x
  <2>5. age \in Int
    BY SMTT(30), <1>4, <2>1
  <2>. HIDE DEF age
  <2>6. 100 * age <= ServiceCase.MaxSampleAge * (100 - ServiceCase.MinConfidence)
    BY <2>3, <2>4, <2>5, FreshEnough
  <2>7. hour - (at - 1) <= age
    BY <1>4, <2>1 DEF age
  <2>8. ServiceCase.MaxSampleAge * (100 - ServiceCase.MinConfidence) \in Int
    BY <2>2
  <2>. QED
    BY <1>4, <2>5, <2>6, <2>7, <2>8
<1>. QED
  BY <1>3, <1>6, <1>7 DEF Ecs!Serving

LEMMA ServicePlanned ==
  ASSUME ServiceInv, NEW steps, Ecs!PlanSteps(steps)
  PROVE  ServiceInv'
<1>1. /\ steps \subseteq {s \in Ecs!Recommend : ~s.suppressed} /\ report' = steps
      /\ UNCHANGED <<hour, db, run, snap, targets, checkpoint, was>>
  BY DEF Ecs!PlanSteps
<1>2. ASSUME NEW s \in steps
      PROVE  /\ 100 * (s.at - (s.end - 1)) <= ServiceCase.MaxSampleAge * (100 - ServiceCase.MinConfidence)
             /\ Ecs!Serving(s.primary) = {s.primary.rev}
  <2>1. s \in Ecs!Recommend /\ ~s.suppressed
    BY <1>1
  <2>2. PICK c \in DOMAIN targets : \E v \in DOMAIN targets[c].services :
          s \in Ecs!Assess(v, targets[c].services[v], targets[c].at)
    BY <2>1 DEF Ecs!Recommend
  <2>. QED
    BY <2>1, <2>2, ProposedIsFresh
<1>3. Ecs!FreshAndSettled'
  BY <1>1, <1>2 DEF Ecs!FreshAndSettled, Ecs!Serving
<1>. QED
  BY <1>1, <1>3 DEF ServiceInv

LEMMA ServiceNext == ServiceInv /\ Ecs!Next => ServiceInv'
BY ServiceChanges, ServiceDescribed, ServiceMeasured, ServiceLearned, ServicePlanned DEF Ecs!Next

-----------------------------------------------------------------------------
(* ---- RDS: a growth that is reported happened ---- *)

\* The account, and what its identifiers really had so far.
Had(upto) == (0..upto) \X (Nat \ {0})
AllocatedInv ==
  /\ hour \in Nat
  /\ DOMAIN db = DOMAIN DatabaseCase.Fleet /\ DOMAIN was = DOMAIN DatabaseCase.Fleet
  /\ \A i \in DOMAIN db : {"gib", "mods"} \subseteq DOMAIN db[i] /\ db[i].gib \in Nat \ {0}
  /\ \A i \in DOMAIN db : was[i] \subseteq Had(hour) /\ <<hour, db[i].gib>> \in was[i]

\* A history is of sizes that the identifier had, one an instant.
HistoryInv(had, h) == \A o, p \in h : <<o.at, o.gib>> \in had /\ (o.at = p.at => o = p)
HistoriesInv(d) ==
  /\ DOMAIN d \subseteq DOMAIN was
  /\ \A i \in DOMAIN d : HistoryInv(was[i], d[i].history)

ReportedInv ==
  /\ DOMAIN report \subseteq DOMAIN was
  /\ \A i \in DOMAIN report :
       LET g == report[i].grew
       IN g # <<>> => /\ g[1].gib < g[2].gib /\ g[2].at - g[1].at >= DatabaseCase.MinSpan
                      /\ \A k \in {1, 2} : <<g[k].at, g[k].gib>> \in was[i]

DatabaseInv ==
  /\ AllocatedInv
  /\ DOMAIN snap \subseteq DOMAIN was
  /\ \A i \in DOMAIN snap : /\ {"at", "inst", "usable"} \subseteq DOMAIN snap[i]
                            /\ <<snap[i].at, snap[i].inst.gib>> \in was[i]
  /\ HistoriesInv(targets) /\ HistoriesInv(checkpoint) /\ ReportedInv

LEMMA DatabaseGrowthHappened == DatabaseInv => Rds!GrowthHappened
BY DEF DatabaseInv, HistoriesInv, HistoryInv, ReportedInv, Rds!GrowthHappened

LEMMA DatabaseInit == Rds!Init => DatabaseInv
<1>. SUFFICES ASSUME Rds!Init PROVE DatabaseInv
  OBVIOUS
<1>. USE DEF Rds!Init
<1>1. AllocatedInv
  BY DatabaseAssumption DEF AllocatedInv, Had
<1>2. HistoriesInv(targets) /\ HistoriesInv(checkpoint) /\ ReportedInv
  BY DEF HistoriesInv, ReportedInv
<1>. QED
  BY <1>1, <1>2 DEF DatabaseInv

\* What was had is not taken back: nothing that rests on it is lost.
LEMMA HadIsKept ==
  ASSUME DatabaseInv, DOMAIN was' = DOMAIN was, \A i \in DOMAIN was : was[i] \subseteq was'[i],
         UNCHANGED <<snap, targets, checkpoint, report>>, AllocatedInv'
  PROVE  DatabaseInv'
<1>1. HistoriesInv(targets)' /\ HistoriesInv(checkpoint)'
  BY DEF DatabaseInv, HistoriesInv, HistoryInv
<1>2. ReportedInv'
  BY DEF DatabaseInv, ReportedInv
<1>. QED
  BY <1>1, <1>2 DEF DatabaseInv

LEMMA DatabaseNextDay == DatabaseInv /\ Rds!NextDay => DatabaseInv'
<1>. SUFFICES ASSUME DatabaseInv, Rds!NextDay PROVE DatabaseInv'
  OBVIOUS
<1>1. /\ hour' = hour + 1 /\ UNCHANGED <<db, snap, targets, checkpoint, report>>
      /\ was' = [i \in DOMAIN was |-> was[i] \cup {<<hour + 1, db[i].gib>>}]
  BY DEF Rds!NextDay
<1>2. AllocatedInv'
  <2>1. hour + 1 \in Nat /\ Had(hour) \subseteq Had(hour + 1)
    BY DEF DatabaseInv, AllocatedInv, Had
  <2>2. \A i \in DOMAIN db : <<hour + 1, db[i].gib>> \in Had(hour + 1)
    BY DEF DatabaseInv, AllocatedInv, Had
  <2>3. \A i \in DOMAIN db : /\ was[i] \subseteq Had(hour) /\ i \in DOMAIN was
                             /\ was'[i] = was[i] \cup {<<hour + 1, db[i].gib>>}
    BY <1>1 DEF DatabaseInv, AllocatedInv
  <2>4. \A i \in DOMAIN db : was'[i] \subseteq Had(hour + 1) /\ <<hour + 1, db[i].gib>> \in was'[i]
    BY <2>1, <2>2, <2>3
  <2>. QED
    BY <1>1, <2>1, <2>4 DEF DatabaseInv, AllocatedInv
<1>. QED
  BY <1>1, <1>2, HadIsKept

\* The storage grows, or the identifier becomes that of another instance.
LEMMA DatabaseResized ==
  ASSUME DatabaseInv, NEW i \in DOMAIN db, NEW gib \in Nat \ {0}, NEW mods,
         db' = [db EXCEPT ![i].gib = gib, ![i].mods = mods],
         was' = [was EXCEPT ![i] = @ \cup {<<hour, gib>>}],
         UNCHANGED <<hour, snap, targets, checkpoint, report>>
  PROVE  DatabaseInv'
<1>1. /\ DOMAIN db' = DOMAIN db /\ DOMAIN was' = DOMAIN was
      /\ was'[i] = was[i] \cup {<<hour, gib>>} /\ db'[i].gib = gib /\ DOMAIN db'[i] = DOMAIN db[i]
      /\ \A j \in DOMAIN db : j # i => db'[j] = db[j] /\ was'[j] = was[j]
  BY DEF DatabaseInv, AllocatedInv
<1>2. AllocatedInv'
  <2>1. <<hour, gib>> \in Had(hour) /\ was[i] \subseteq Had(hour)
    BY DEF DatabaseInv, AllocatedInv, Had
  <2>2. was'[i] \subseteq Had(hour) /\ <<hour, gib>> \in was'[i]
    BY <1>1, <2>1
  <2>. QED
    BY <1>1, <2>2 DEF DatabaseInv, AllocatedInv
<1>3. \A j \in DOMAIN was : was[j] \subseteq was'[j]
  BY <1>1 DEF DatabaseInv, AllocatedInv
<1>. QED
  BY <1>1, <1>2, <1>3, HadIsKept

LEMMA DatabaseChanges ==
  ASSUME DatabaseInv, NEW i \in DOMAIN db,
         \/ \E step \in DatabaseCase.Steps : Rds!Grow(i, step)
         \/ \E gib \in DatabaseCase.Sizes[i] : Rds!Replace(i, gib)
  PROVE  DatabaseInv'
<1>0. i \in DOMAIN DatabaseCase.Fleet /\ db[i].gib \in Nat \ {0}
  BY DEF DatabaseInv, AllocatedInv
<1>1. ASSUME NEW step \in DatabaseCase.Steps, Rds!Grow(i, step) PROVE DatabaseInv'
  <2>1. /\ db' = [db EXCEPT ![i].gib = @ + step, ![i].mods = Append(@, hour)]
        /\ was' = [was EXCEPT ![i] = @ \cup {<<hour, db[i].gib + step>>}]
        /\ UNCHANGED <<hour, snap, targets, checkpoint, report>>
    BY <1>1 DEF Rds!Grow
  <2>2. db[i].gib + step \in Nat \ {0}
    BY <1>0, DatabaseAssumption
  <2>3. db' = [db EXCEPT ![i].gib = db[i].gib + step, ![i].mods = Append(db[i].mods, hour)]
    BY <2>1, Zenon
  <2>. QED
    BY <2>1, <2>2, <2>3, DatabaseResized
<1>2. ASSUME NEW gib \in DatabaseCase.Sizes[i], Rds!Replace(i, gib) PROVE DatabaseInv'
  <2>1. /\ db' = [db EXCEPT ![i].gib = gib, ![i].mods = <<>>]
        /\ was' = [was EXCEPT ![i] = @ \cup {<<hour, gib>>}]
        /\ UNCHANGED <<hour, snap, targets, checkpoint, report>>
    BY <1>2 DEF Rds!Replace
  <2>2. gib \in Nat \ {0}
    BY <1>0, DatabaseAssumption
  <2>. QED
    BY <2>1, <2>2, DatabaseResized
<1>. QED
  BY <1>1, <1>2

LEMMA DatabaseListed == DatabaseInv /\ Rds!List => DatabaseInv'
<1>. SUFFICES ASSUME DatabaseInv, Rds!List PROVE DatabaseInv'
  OBVIOUS
<1>1. /\ snap' = [i \in DOMAIN db |-> [at |-> hour, inst |-> db[i], usable |-> {}]]
      /\ report' = [i \in {} |-> Rds!Nothing] /\ UNCHANGED <<hour, db, targets, checkpoint, was>>
  BY DEF Rds!List
<1>2. AllocatedInv' /\ HistoriesInv(targets)' /\ HistoriesInv(checkpoint)' /\ ReportedInv'
  BY <1>1 DEF DatabaseInv, AllocatedInv, HistoriesInv, ReportedInv
<1>3. /\ DOMAIN snap' \subseteq DOMAIN was'
      /\ \A i \in DOMAIN snap' : /\ {"at", "inst", "usable"} \subseteq DOMAIN snap'[i]
                                 /\ <<snap'[i].at, snap'[i].inst.gib>> \in was'[i]
  BY <1>1 DEF DatabaseInv, AllocatedInv
<1>. QED
  BY <1>2, <1>3 DEF DatabaseInv

LEMMA DatabaseRead ==
  ASSUME DatabaseInv,
         \/ \E missing \in DatabaseCase.Misses : Rds!ReadMetrics(missing)
         \/ \E options, records \in BOOLEAN : Rds!ReadEnvelopes(options, records)
  PROVE  DatabaseInv'
<1>1. CASE \E options, records \in BOOLEAN : Rds!ReadEnvelopes(options, records)
  <2>1. UNCHANGED <<hour, db, snap, targets, checkpoint, report, was>>
    BY <1>1 DEF Rds!ReadEnvelopes
  <2>. QED
    BY <2>1 DEF DatabaseInv, AllocatedInv, HistoriesInv, ReportedInv
<1>2. ASSUME NEW missing \in DatabaseCase.Misses, Rds!ReadMetrics(missing) PROVE DatabaseInv'
  <2>1. /\ snap' = [i \in DOMAIN snap |-> Rds!Measure(i, missing)]
        /\ UNCHANGED <<hour, db, targets, checkpoint, report, was>>
    BY <1>2 DEF Rds!ReadMetrics
  <2>2. \A i \in DOMAIN snap : /\ DOMAIN Rds!Measure(i, missing) = DOMAIN snap[i]
                               /\ Rds!Measure(i, missing).at = snap[i].at
                               /\ Rds!Measure(i, missing).inst = snap[i].inst
    BY DEF Rds!Measure, DatabaseInv
  <2>. QED
    BY <2>1, <2>2 DEF DatabaseInv, AllocatedInv, HistoriesInv, ReportedInv
<1>. QED
  BY <1>1, <1>2

\* What is appended is what was there to be read, and replaces what was kept of that instant.
LEMMA ObservedIsHistory ==
  ASSUME DatabaseInv, NEW i \in DOMAIN snap
  PROVE  HistoryInv(was[i], Rds!Observed(i).history)
<1>. DEFINE h == IF i \in DOMAIN targets THEN Rds!StorageHistories[i] ELSE {}
            at == snap[i].at
            gib == snap[i].inst.gib
            all == {o \in h : o.at # at} \cup {[at |-> at, gib |-> gib]}
<1>1. Rds!Observed(i).history = Rds!Append1(h, at, gib)
  BY DEF Rds!Observed, Rds!Recorded
<1>2. HistoryInv(was[i], h)
  BY DEF DatabaseInv, HistoriesInv, HistoryInv, Rds!StorageHistories
<1>3. <<at, gib>> \in was[i]
  BY DEF DatabaseInv
<1>. HIDE DEF h, at, gib
<1>4. Rds!Append1(h, at, gib) \subseteq all
  BY DEF Rds!Append1
<1>5. HistoryInv(was[i], all)
  <2>. DEFINE new == [at |-> at, gib |-> gib]
  <2>1. new.at = at /\ new.gib = gib
    OBVIOUS
  <2>2. \A o \in all : o = new \/ (o \in h /\ o.at # at)
    OBVIOUS
  <2>. HIDE DEF new, all
  <2>. QED
    BY <1>2, <1>3, <2>1, <2>2 DEF HistoryInv
<1>. HIDE DEF all
<1>. QED
  BY <1>1, <1>4, <1>5 DEF HistoryInv

LEMMA DatabaseObserved ==
  ASSUME DatabaseInv, Rds!Observe \/ Rds!ObserveAgain
  PROVE  DatabaseInv'
<1>1. /\ DOMAIN targets' \subseteq DOMAIN targets \cup DOMAIN snap
      /\ \A i \in DOMAIN targets' : targets'[i] = IF i \in DOMAIN snap THEN Rds!Observed(i) ELSE targets[i]
      /\ UNCHANGED <<hour, db, snap, checkpoint, report, was>>
  BY DEF Rds!Observe, Rds!ObserveAgain
<1>2. HistoriesInv(targets)'
  BY <1>1, ObservedIsHistory DEF DatabaseInv, HistoriesInv
<1>. QED
  BY <1>1, <1>2 DEF DatabaseInv, AllocatedInv, HistoriesInv, ReportedInv

LEMMA DatabaseSaved == DatabaseInv /\ Rds!Checkpoint => DatabaseInv'
BY DEF DatabaseInv, Rds!Checkpoint, AllocatedInv, HistoriesInv, ReportedInv

LEMMA DatabaseRestored == DatabaseInv /\ Rds!Restore => DatabaseInv'
<1>. SUFFICES ASSUME DatabaseInv, Rds!Restore PROVE DatabaseInv'
  OBVIOUS
<1>1. /\ DOMAIN snap' = {} /\ DOMAIN report' = {} /\ targets' = checkpoint
      /\ UNCHANGED <<hour, db, checkpoint, was>>
  BY DEF Rds!Restore
<1>. QED
  BY <1>1 DEF DatabaseInv, AllocatedInv, HistoriesInv, ReportedInv

\* A history that is not empty has an oldest and a newest observation.
LEMMA HistoryHasEnds ==
  ASSUME NEW h, h # {}, \A o \in h : o.at \in Nat, NEW upto \in Nat, \A o \in h : o.at <= upto
  PROVE  /\ Rds!Oldest(h) \in h /\ \A o \in h : Rds!Oldest(h).at <= o.at
         /\ Rds!Newest(h) \in h /\ \A o \in h : o.at <= Rds!Newest(h).at
<1>. DEFINE T == {o.at : o \in h}
<1>1. T \in SUBSET Int /\ T # {} /\ upto \in Int /\ (\A t \in T : 0 <= t) /\ \A t \in T : t <= upto
  OBVIOUS
<1>. HIDE DEF T
<1>2. PICK m \in T : \A t \in T : m <= t
  BY <1>1, LeastInteger
<1>3. PICK n \in T : \A t \in T : n >= t
  BY <1>1, GreatestInteger
<1>. USE DEF T
<1>4. \E o \in h : \A p \in h : o.at <= p.at
  BY <1>2
<1>5. \E o \in h : \A p \in h : p.at <= o.at
  <2>1. PICK o \in h : n = o.at
    OBVIOUS
  <2>2. ASSUME NEW p \in h PROVE p.at <= o.at
    <3>1. p.at \in T /\ n >= p.at
      BY <1>3
    <3>. QED
      BY <2>1, <3>1
  <2>. QED
    BY <2>2
<1>. QED
  BY <1>4, <1>5 DEF Rds!Oldest, Rds!Newest

\* Where no observation is smaller than the one before it, none is smaller than the oldest: the
\* first that were would follow one that is not.
LEMMA NeverShrankIsMore ==
  ASSUME NEW h, h # {}, \A o \in h : o.at \in Nat /\ o.gib \in Nat \ {0},
         \A o, p \in h : o.at = p.at => o = p,
         NEW upto \in Nat, \A o \in h : o.at <= upto,
         \A s \in Rds!Pairs(h) : Rds!Attribute(s[1].gib, s[2].gib) # "shrank"
  PROVE  \A o \in h : Rds!Oldest(h).gib <= o.gib
<1>. DEFINE first == Rds!Oldest(h)
            Smaller == {o.at : o \in {x \in h : x.gib < first.gib}}
<1>1. first \in h /\ \A o \in h : first.at <= o.at
  BY HistoryHasEnds
<1>. HIDE DEF first
<1>2. ASSUME Smaller # {} PROVE FALSE
  <2>1. Smaller \in SUBSET Int /\ \A t \in Smaller : 0 <= t
    OBVIOUS
  <2>. HIDE DEF Smaller
  <2>2. PICK t \in Smaller : \A u \in Smaller : t <= u
    BY <1>2, <2>1, LeastInteger
  <2>. USE DEF Smaller
  <2>3. PICK b \in h : b.at = t /\ b.gib < first.gib
    BY <2>2
  <2>. DEFINE Before == {o.at : o \in {x \in h : x.at < b.at}}
  <2>4. b # first /\ first.at < b.at
    BY <1>1, <2>3
  <2>5. Before \in SUBSET Int /\ Before # {} /\ b.at \in Int /\ \A u \in Before : u <= b.at
    <3>1. first.at \in Before
      BY <1>1, <2>4
    <3>. QED
      BY <3>1
  <2>. HIDE DEF Before
  <2>6. PICK u \in Before : \A w \in Before : u >= w
    BY <2>5, GreatestInteger
  <2>. USE DEF Before
  <2>7. PICK p \in h : p.at = u /\ p.at < b.at
    BY <2>6
  <2>8. \A o \in h : o.at <= p.at \/ b.at <= o.at
    <3>. SUFFICES ASSUME NEW o \in h, o.at < b.at PROVE o.at <= p.at
      OBVIOUS
    <3>1. o.at \in Before
      OBVIOUS
    <3>2. u >= o.at
      BY <2>6, <3>1
    <3>. QED
      BY <2>7, <3>2
  <2>9. <<p, b>> \in Rds!Pairs(h)
    BY <2>7, <2>8 DEF Rds!Pairs
  <2>10. Rds!Attribute(p.gib, b.gib) # "shrank"
    BY <2>9
  <2>11. p.gib <= b.gib
    BY <2>10 DEF Rds!Attribute
  <2>12. p.at \in Smaller
    BY <1>1, <2>3, <2>11
  <2>13. t <= p.at
    BY <2>2, <2>12
  <2>14. p.at \in Nat /\ b.at \in Nat
    OBVIOUS
  <2>. HIDE DEF Smaller, Before
  <2>. QED
    BY <2>3, <2>7, <2>13, <2>14
<1>3. ASSUME NEW o \in h PROVE first.gib <= o.gib
  <2>1. o.gib >= first.gib \/ o.at \in Smaller
    BY <1>1
  <2>. QED
    BY <1>1, <1>2, <2>1
<1>. QED
  BY <1>3 DEF first

\* A growth that is stated is of a history whose ends differ, and that never shrank.
LEMMA StatedGrowth ==
  ASSUME NEW h, h # {}, \A o \in h : o.at \in Nat /\ o.gib \in Nat \ {0},
         \A o, p \in h : o.at = p.at => o = p,
         NEW upto \in Nat, \A o \in h : o.at <= upto,
         Rds!AssessStorageGrowth(h).state = "grew"
  PROVE  /\ Rds!Oldest(h) \in h /\ Rds!Newest(h) \in h
         /\ Rds!Oldest(h).gib < Rds!Newest(h).gib
         /\ Rds!Newest(h).at - Rds!Oldest(h).at >= DatabaseCase.MinSpan
<1>. DEFINE moves == {Rds!Attribute(s[1].gib, s[2].gib) : s \in Rds!Pairs(h)}
            steps == Rds!Cardinality({s \in Rds!Pairs(h) : s[1].gib < s[2].gib})
            v(state) == [state |-> state, rate |-> FALSE]
            few == Rds!Cardinality(h) < DatabaseCase.MinObservations
            short == Rds!Sampling(h).span < DatabaseCase.MinSpan
            flat == Rds!Oldest(h).gib = Rds!Newest(h).gib
            enough == steps >= DatabaseCase.MinSteps /\ Rds!Sampling(h).regular
<1>1. Rds!AssessStorageGrowth(h) =
        IF h = {} THEN v("no-history")
        ELSE IF few THEN v("too-few-observations")
        ELSE IF short THEN v("span-too-short")
        ELSE IF "shrank" \in moves THEN v("inconsistent")
        ELSE IF flat THEN v("flat")
        ELSE [state |-> "grew", rate |-> enough]
  BY DEF Rds!AssessStorageGrowth
<1>2. ~short /\ "shrank" \notin moves /\ ~flat
  <2>. HIDE DEF few, short, flat, moves, enough
  <2>. QED
    BY <1>1
<1>3. Rds!Oldest(h) \in h /\ Rds!Newest(h) \in h
  BY HistoryHasEnds
<1>4. Rds!Oldest(h).gib <= Rds!Newest(h).gib
  <2>1. \A s \in Rds!Pairs(h) : Rds!Attribute(s[1].gib, s[2].gib) # "shrank"
    BY <1>2
  <2>2. \A o \in h : Rds!Oldest(h).gib <= o.gib
    BY <2>1, NeverShrankIsMore
  <2>. QED
    BY <1>3, <2>2
<1>5. Rds!Sampling(h).span = Rds!Newest(h).at - Rds!Oldest(h).at
  BY DEF Rds!Sampling
<1>6. DatabaseCase.MinSpan \in Nat
  BY DatabaseAssumption
<1>7. Rds!Newest(h).at - Rds!Oldest(h).at \in Int
  BY <1>3
<1>. QED
  BY <1>2, <1>3, <1>4, <1>5, <1>6, <1>7

\* An assessment of parity always leaves the growth to be filled in.
LEMMA ParityIsOpen ==
  ASSUME NEW i, NEW t
  PROVE  DOMAIN Rds!AssessParity(i, t) = DOMAIN Rds!Nothing
<1>1. PICK inst, m, measured, plan : Rds!AssessParity(i, t) = Rds!ParityVerdict(i, inst, m, measured, plan)
  BY DEF Rds!AssessParity, Rds!ParityOn, Rds!MeasuredParity
<1>2. \E codes, p : \/ Rds!ParityVerdict(i, inst, m, measured, plan) = [Rds!Nothing EXCEPT !.codes = codes]
                    \/ Rds!ParityVerdict(i, inst, m, measured, plan) = [Rds!Nothing EXCEPT !.codes = codes, !.plan = p]
  BY DEF Rds!ParityVerdict
<1>. QED
  BY <1>1, <1>2

\* What is reported of one target is of its history.
LEMMA AssessedGrowth ==
  ASSUME NEW i, NEW t, NEW had, NEW upto \in Nat, had \subseteq Had(upto), HistoryInv(had, t.history)
  PROVE  LET g == Rds!assessTarget(i, t).grew
         IN g # <<>> => /\ g[1].gib < g[2].gib /\ g[2].at - g[1].at >= DatabaseCase.MinSpan
                        /\ \A k \in {1, 2} : <<g[k].at, g[k].gib>> \in had
<1>. DEFINE h == t.history
            parity == Rds!AssessParity(i, t)
            all == Rds!assessTarget(i, t)
            grown == Rds!AssessStorageGrowth(h).state = "grew"
            ends == <<Rds!Oldest(h), Rds!Newest(h)>>
            excluded == Rds!Exclusion(t.inst)
<1>1. all.grew = IF excluded # "" \/ ~grown THEN <<>> ELSE ends
  <2>1. CASE excluded # ""
    <3>1. all = [Rds!Nothing EXCEPT !.codes = {excluded}]
      BY <2>1 DEF Rds!assessTarget
    <3>. HIDE DEF all, excluded
    <3>. QED
      BY <2>1, <3>1 DEF Rds!Nothing
  <2>2. CASE excluded = ""
    <3>1. PICK inst, spent, codes, advice :
            all = [parity EXCEPT !.inst = inst, !.spent = spent, !.codes = codes, !.advice = advice,
                                 !.grew = IF grown THEN ends ELSE <<>>]
      BY <2>2 DEF Rds!assessTarget
    <3>2. DOMAIN parity = DOMAIN Rds!Nothing
      BY ParityIsOpen
    <3>. HIDE DEF all, excluded, parity, grown, ends
    <3>. QED
      BY <2>2, <3>1, <3>2 DEF Rds!Nothing
  <2>. QED
    BY <2>1, <2>2
<1>2. SUFFICES ASSUME grown
               PROVE  /\ ends[1].gib < ends[2].gib /\ ends[2].at - ends[1].at >= DatabaseCase.MinSpan
                      /\ \A k \in {1, 2} : <<ends[k].at, ends[k].gib>> \in had
  <2>. HIDE DEF all, grown, ends, excluded
  <2>. QED
    BY <1>1 DEF all
<1>3. h # {}
  BY <1>2 DEF Rds!AssessStorageGrowth
<1>4. /\ \A o \in h : <<o.at, o.gib>> \in had /\ o.at \in Nat /\ o.gib \in Nat \ {0} /\ o.at <= upto
      /\ \A o, p \in h : o.at = p.at => o = p
  <2>1. /\ \A o \in h : <<o.at, o.gib>> \in had
        /\ \A o, p \in h : o.at = p.at => o = p
    BY DEF HistoryInv
  <2>2. \A o \in h : o.at \in 0..upto /\ o.gib \in Nat \ {0}
    <3>. HIDE DEF h
    <3>. QED
      BY <2>1 DEF Had
  <2>. HIDE DEF h
  <2>. QED
    BY <2>1, <2>2
<1>5. /\ Rds!Oldest(h) \in h /\ Rds!Newest(h) \in h /\ Rds!Oldest(h).gib < Rds!Newest(h).gib
      /\ Rds!Newest(h).at - Rds!Oldest(h).at >= DatabaseCase.MinSpan
  BY <1>2, <1>3, <1>4, StatedGrowth
<1>6. ends[1] = Rds!Oldest(h) /\ ends[2] = Rds!Newest(h)
  OBVIOUS
<1>. HIDE DEF ends
<1>. QED
  BY <1>4, <1>5, <1>6

LEMMA DatabaseAssessed == DatabaseInv /\ Rds!Assess => DatabaseInv'
<1>. SUFFICES ASSUME DatabaseInv, Rds!Assess PROVE DatabaseInv'
  OBVIOUS
<1>1. /\ report' = [i \in DOMAIN targets \cap DOMAIN env |-> Rds!assessTarget(i, targets[i])]
      /\ DOMAIN snap' = {} /\ UNCHANGED <<hour, db, targets, checkpoint, was>>
  BY DEF Rds!Assess
<1>2. ReportedInv'
  <2>1. DOMAIN report' \subseteq DOMAIN targets /\ DOMAIN targets \subseteq DOMAIN was
    BY <1>1 DEF DatabaseInv, HistoriesInv
  <2>2. ASSUME NEW i \in DOMAIN report'
        PROVE  LET g == report'[i].grew
               IN g # <<>> => /\ g[1].gib < g[2].gib /\ g[2].at - g[1].at >= DatabaseCase.MinSpan
                              /\ \A k \in {1, 2} : <<g[k].at, g[k].gib>> \in was[i]
    <3>1. was[i] \subseteq Had(hour) /\ hour \in Nat /\ HistoryInv(was[i], targets[i].history)
      BY <2>1 DEF DatabaseInv, AllocatedInv, HistoriesInv
    <3>2. report'[i] = Rds!assessTarget(i, targets[i])
      BY <1>1
    <3>. QED
      BY <3>1, <3>2, AssessedGrowth
  <2>. QED
    BY <1>1, <2>1, <2>2 DEF ReportedInv
<1>. QED
  BY <1>1, <1>2 DEF DatabaseInv, AllocatedInv, HistoriesInv

LEMMA DatabaseNext == DatabaseInv /\ Rds!Next => DatabaseInv'
BY DatabaseNextDay, DatabaseListed, DatabaseObserved, DatabaseSaved, DatabaseRestored, DatabaseAssessed,
   DatabaseChanges, DatabaseRead DEF Rds!Next

-----------------------------------------------------------------------------
(* ---- Backtest: a replay does not look ahead, and both are asked the same ---- *)

\* A snapshot has a time, and each of its samples one of its own.
Timed(s) == s.at \in Int /\ \A u \in s.usage : u.at \in Int
KeptInv ==
  /\ IsFiniteSet(DOMAIN db) /\ DOMAIN db \subseteq Int
  /\ \A t \in DOMAIN db : db[t].at = t /\ Timed(db[t])

\* What a replay reads: snapshots in the order of their times.
ReadInv(s) ==
  /\ Len(s) \in Nat /\ DOMAIN s = 1..Len(s)
  /\ \A i \in DOMAIN s : Timed(s[i])
  /\ \A i, j \in DOMAIN s : i < j => s[i].at < s[j].at

\* What is known after n of them.
KnownAfter(s, n) == UNION {Bac!Usable(s[i]) : i \in {i \in DOMAIN s : i <= n}}

BlindInv(r) ==
  /\ r.at \in Int
  /\ \A s \in r.known : s[1] \in Int /\ s[1] <= r.at
  /\ \A s \in r.scored : s[2].at \in Int /\ r.at < s[2].at /\ s[2].at <= r.at + WhatIfCase.Horizon

ReplayInv ==
  /\ DOMAIN snap = {"rows", "next", "learned", "class", "records"}
  /\ snap.next \in Nat \ {0} /\ ReadInv(snap.rows)
  /\ snap.learned = KnownAfter(snap.rows, snap.next - 1)

LedgersInv ==
  /\ DOMAIN checkpoint = Bac!Sides
  /\ \A r \in Bac!Judged : BlindInv(r)

\* The orders in which what is kept may be read, and what is asked of a container at the ith
\* of the snapshots read, by what was told of it later.
Readings(kept) ==
  {[i \in DOMAIN at |-> kept[at[i]]] :
     at \in Bac!Ascending({t \in DOMAIN kept : WhatIfCase.From <= t /\ t < WhatIfCase.To})}
FutureOf(s, i, key) ==
  {x \in UNION {Bac!Usable(s[j]) : j \in DOMAIN s} :
     x[2].key = key /\ s[i].at < x[2].at /\ x[2].at <= s[i].at + WhatIfCase.Horizon}
ToldOf(told, s, i, key) ==
  {e \in told : /\ e.key = key /\ s[i].at < e.at /\ e.at <= s[i].at + WhatIfCase.Horizon
                /\ e.kind \in {"oom", "throttle", "regime"}}
QuestionOf(told, s, i, key) ==
  [key |-> key, at |-> s[i].at, known |-> Bac!Of(key, KnownAfter(s, i)),
   oracle |-> Bac!OracleRequest(FutureOf(s, i, key)), ooms |-> Bac!OOMKills(ToldOf(told, s, i, key)),
   adverse |-> ToldOf(told, s, i, key) # {}]

\* What is asked at an instant, at those before the nth snapshot, and at all.
AskedAt(told, s, i) ==
  {QuestionOf(told, s, i, k) : k \in {k \in DOMAIN Bac!EligibleContainers(s[i]) : FutureOf(s, i, k) # {}}}
AskedBefore(told, s, n) == UNION {AskedAt(told, s, i) : i \in {i \in Bac!DecisionInstants(s) : i < n}}
Asked(told, s) == UNION {AskedAt(told, s, i) : i \in Bac!DecisionInstants(s)}

Questions(records) == {Bac!Question(r) : r \in records}
Answered(told, kept, records) == \E s \in Readings(kept) : Questions(records) = Asked(told, s)

\* While nothing is kept or reported, both read the same and are asked the same.
StillInv ==
  was =>
    /\ run \in Bac!Sides =>
         /\ snap.rows \in Readings(db)
         /\ Questions(snap.records) = AskedBefore(events, snap.rows, snap.next)
    /\ run \in {"between", "candidate", "done"} => Answered(events, db, checkpoint.baseline.records)
    /\ run = "done" => Answered(events, db, checkpoint.candidate.records)

WhatIfInv ==
  /\ was \in BOOLEAN
  /\ run \in {"idle", "counted", "baseline", "between", "candidate", "done", "refused"}
  /\ KeptInv /\ ReplayInv /\ LedgersInv /\ StillInv

LEMMA WhatIfSizes == \A S : Bac!Cardinality(S) = Cardinality(S)
BY DEF Bac!Cardinality, Cardinality

\* A set of times has one ascending order: where two first differed, the smaller would be
\* missing from the other.
LEMMA OneOrder ==
  ASSUME NEW S \in SUBSET Int, IsFiniteSet(S), NEW a \in Bac!Ascending(S), NEW b \in Bac!Ascending(S)
  PROVE  a = b
<1>. DEFINE n == Cardinality(S)
<1>1. /\ n \in Nat /\ a \in [1..n -> S] /\ b \in [1..n -> S]
      /\ \A i, j \in 1..n : i < j => a[i] < a[j] /\ b[i] < b[j]
  BY FS_CardinalityType, WhatIfSizes DEF Bac!Ascending
<1>. HIDE DEF n
<1>2. ASSUME NEW f \in [1..n -> S], \A i, j \in 1..n : i < j => f[i] < f[j]
      PROVE  \A x \in S : \E i \in 1..n : f[i] = x
  <2>1. f \in Injection(1..n, S)
    <3>1. ASSUME NEW i \in 1..n, NEW j \in 1..n, f[i] = f[j] PROVE i = j
      <4>1. f[i] \in Int /\ f[j] \in Int
        BY <1>2
      <4>2. ~(i < j) /\ ~(j < i)
        BY <1>2, <3>1, <4>1
      <4>. QED
        BY <1>1, <4>2
    <3>. QED
      BY <1>2, <3>1 DEF Injection, IsInjective
  <2>2. Cardinality(1..n) = n
    BY <1>1, FS_Interval
  <2>3. f \in Surjection(1..n, S)
    BY <2>1, <2>2, FS_Injection DEF n
  <2>. QED
    BY <2>3 DEF Surjection
<1>3. /\ \A x \in S : \E i \in 1..n : a[i] = x
      /\ \A x \in S : \E i \in 1..n : b[i] = x
  BY <1>1, <1>2
<1>. DEFINE Differ == {i \in 1..n : a[i] # b[i]}
<1>4. ASSUME Differ # {} PROVE FALSE
  <2>1. Differ \in SUBSET Int /\ 0 \in Int /\ \A i \in Differ : 0 <= i
    BY <1>1
  <2>. HIDE DEF Differ
  <2>2. PICK d \in Differ : \A i \in Differ : d <= i
    BY <1>4, <2>1, LeastInteger
  <2>. USE DEF Differ
  <2>3. d \in 1..n /\ a[d] # b[d] /\ \A i \in 1..n : i < d => a[i] = b[i]
    <3>1. ASSUME NEW i \in 1..n, i < d PROVE a[i] = b[i]
      <4>1. i \notin Differ
        BY <1>1, <2>1, <2>2, <3>1
      <4>. QED
        BY <4>1
    <3>. QED
      BY <2>2, <3>1
  <2>4. a[d] \in Int /\ b[d] \in Int
    BY <1>1, <2>3
  <2>5. CASE a[d] < b[d]
    <3>1. PICK k \in 1..n : b[k] = a[d]
      BY <1>1, <1>3, <2>3
    <3>2. k < d
      <4>1. k = d \/ d < k \/ k < d
        BY <1>1, <2>3
      <4>2. ~(d < k)
        BY <1>1, <2>3, <2>4, <2>5, <3>1
      <4>. QED
        BY <2>3, <3>1, <4>1, <4>2
    <3>3. a[k] = a[d] /\ a[k] < a[d]
      BY <1>1, <2>3, <3>1, <3>2
    <3>. QED
      BY <2>4, <3>3
  <2>6. CASE b[d] < a[d]
    <3>1. PICK k \in 1..n : a[k] = b[d]
      BY <1>1, <1>3, <2>3
    <3>2. k < d
      <4>1. k = d \/ d < k \/ k < d
        BY <1>1, <2>3
      <4>2. ~(d < k)
        BY <1>1, <2>3, <2>4, <2>6, <3>1
      <4>. QED
        BY <2>3, <3>1, <4>1, <4>2
    <3>3. b[k] = b[d] /\ b[k] < b[d]
      BY <1>1, <2>3, <3>1, <3>2
    <3>. QED
      BY <2>4, <3>3
  <2>. QED
    BY <2>3, <2>4, <2>5, <2>6
<1>5. \A i \in 1..n : a[i] = b[i]
  BY <1>4
<1>. QED
  BY <1>1, <1>5

LEMMA WhatIsRead == Bac!OrderedSnapshots = Readings(db)
BY DEF Bac!OrderedSnapshots, Bac!Retained, Readings

LEMMA OneReading ==
  ASSUME KeptInv, NEW s \in Readings(db), NEW t \in Readings(db)
  PROVE  s = t
<1>1. Bac!Retained \in SUBSET Int /\ IsFiniteSet(Bac!Retained)
  BY FS_Subset DEF KeptInv, Bac!Retained
<1>2. PICK a \in Bac!Ascending(Bac!Retained) : s = [i \in DOMAIN a |-> db[a[i]]]
  BY DEF Bac!Retained, Readings
<1>3. PICK b \in Bac!Ascending(Bac!Retained) : t = [i \in DOMAIN b |-> db[b[i]]]
  BY DEF Bac!Retained, Readings
<1>4. a = b
  BY <1>1, OneOrder
<1>. QED
  BY <1>2, <1>3, <1>4

\* What is read is retained, in order.
LEMMA ReadIsOrdered ==
  ASSUME KeptInv, NEW s \in Readings(db)
  PROVE  ReadInv(s)
<1>. DEFINE S == Bac!Retained
            n == Cardinality(S)
<1>1. S \in SUBSET Int /\ S \subseteq DOMAIN db /\ n \in Nat
  BY FS_Subset, FS_CardinalityType DEF KeptInv, Bac!Retained
<1>2. PICK a \in Bac!Ascending(S) : s = [i \in DOMAIN a |-> db[a[i]]]
  BY DEF Bac!Retained, Readings
<1>3. a \in [1..n -> S] /\ \A i, j \in 1..n : i < j => a[i] < a[j]
  BY WhatIfSizes DEF Bac!Ascending
<1>. HIDE DEF n, S
<1>4. s = [i \in 1..n |-> db[a[i]]]
  BY <1>2, <1>3
<1>5. Len(s) = n /\ DOMAIN s = 1..n
  BY <1>1, <1>4
<1>6. \A i \in 1..n : s[i] = db[a[i]] /\ a[i] \in DOMAIN db /\ s[i].at = a[i] /\ Timed(s[i])
  BY <1>1, <1>3, <1>4 DEF KeptInv
<1>. QED
  BY <1>1, <1>3, <1>5, <1>6 DEF ReadInv

\* What both were asked, of the one reading there is.
LEMMA WhatIfIsSame == WhatIfInv => Bac!SameQuestion
<1>. SUFFICES ASSUME WhatIfInv, run = "done", was
              PROVE  Questions(checkpoint.baseline.records) = Questions(checkpoint.candidate.records)
  BY DEF Bac!SameQuestion, Questions
<1>1. PICK s \in Readings(db) : Questions(checkpoint.baseline.records) = Asked(events, s)
  BY DEF WhatIfInv, StillInv, Answered
<1>2. PICK t \in Readings(db) : Questions(checkpoint.candidate.records) = Asked(events, t)
  BY DEF WhatIfInv, StillInv, Answered
<1>3. s = t
  BY OneReading DEF WhatIfInv
<1>. QED
  BY <1>1, <1>2, <1>3

LEMMA WhatIfIsBlind == WhatIfInv => Bac!ReplayIsBlind
<1>. SUFFICES ASSUME WhatIfInv, NEW r \in Bac!Judged
              PROVE  /\ \A s \in r.known : s[1] <= r.at
                     /\ \A s \in r.scored : r.at < s[2].at /\ s[2].at <= r.at + WhatIfCase.Horizon
                     /\ \A s \in r.known \cap r.scored : s[1] < s[2].at
  BY DEF Bac!ReplayIsBlind
<1>1. BlindInv(r)
  BY DEF WhatIfInv, LedgersInv
<1>2. ASSUME NEW s \in r.known, s \in r.scored PROVE s[1] < s[2].at
  <2>1. r.at \in Int /\ s[1] \in Int /\ s[2].at \in Int /\ s[1] <= r.at /\ r.at < s[2].at
    BY <1>1, <1>2 DEF BlindInv
  <2>. QED
    BY <2>1
<1>. QED
  BY <1>1, <1>2 DEF BlindInv

LEMMA NothingIsKnown == ReadInv(<<>>) /\ KnownAfter(<<>>, 0) = {}
BY DEF ReadInv, KnownAfter

LEMMA WhatIfInit == Bac!Init => WhatIfInv
<1>. SUFFICES ASSUME Bac!Init PROVE WhatIfInv
  OBVIOUS
<1>1. /\ db \in WhatIfCase.Histories /\ run = "idle" /\ snap = Bac!Idle /\ was = TRUE
      /\ checkpoint = [s \in Bac!Sides |-> Bac!Unplayed]
  BY DEF Bac!Init
<1>2. KeptInv
  BY <1>1, WhatIfAssumption DEF KeptInv, Timed
<1>3. ReplayInv
  <2>1. /\ DOMAIN snap = {"rows", "next", "learned", "class", "records"}
        /\ snap.rows = <<>> /\ snap.next = 1 /\ snap.learned = {}
    BY <1>1 DEF Bac!Idle
  <2>2. snap.next - 1 = 0 /\ snap.next \in Nat \ {0}
    BY <2>1
  <2>. QED
    BY <2>1, <2>2, NothingIsKnown DEF ReplayInv
<1>4. LedgersInv
  <2>1. checkpoint.baseline.records = {} /\ checkpoint.candidate.records = {} /\ snap.records = {}
    BY <1>1 DEF Bac!Sides, Bac!Unplayed, Bac!Idle
  <2>. QED
    BY <1>1, <2>1 DEF LedgersInv, Bac!Judged
<1>. QED
  BY <1>1, <1>2, <1>3, <1>4 DEF WhatIfInv, StillInv, Bac!Sides

\* What is kept or reported meanwhile is told of: the replays may differ then.
LEMMA WhatIfKept ==
  ASSUME WhatIfInv, \/ \E s \in WhatIfCase.Resaves : Bac!SaveSnapshotAt(s)
                    \/ \E note \in WhatIfCase.Notes : Bac!Report(note)
  PROVE  WhatIfInv'
<1>1. /\ UNCHANGED <<run, env, snap, checkpoint, report>>
      /\ was' = (was /\ (run = "idle" \/ (db' = db /\ events' = events)))
  BY DEF Bac!SaveSnapshotAt, Bac!Report
<1>2. KeptInv'
  <2>1. CASE db' = db
    BY <2>1 DEF WhatIfInv, KeptInv
  <2>2. ASSUME NEW s \in WhatIfCase.Resaves, Bac!SaveSnapshotAt(s), db' # db PROVE KeptInv'
    <3>. DEFINE more == [t \in DOMAIN db \cup {s.at} |-> IF t = s.at THEN s ELSE db[t]]
    <3>1. db' = Bac!Newest(more)
      BY <2>2 DEF Bac!SaveSnapshotAt
    <3>2. s.at \in Int /\ Timed(s)
      BY WhatIfAssumption DEF Timed
    <3>3. /\ IsFiniteSet(DOMAIN db \cup {s.at}) /\ DOMAIN more = DOMAIN db \cup {s.at}
          /\ \A t \in DOMAIN more : t \in Int /\ more[t].at = t /\ Timed(more[t])
      BY <3>2, FS_AddElement DEF WhatIfInv, KeptInv
    <3>. HIDE DEF more
    <3>4. DOMAIN db' \subseteq DOMAIN more /\ \A t \in DOMAIN db' : db'[t] = more[t]
      BY <3>1 DEF Bac!Newest
    <3>. QED
      BY <3>3, <3>4, FS_Subset DEF KeptInv
  <2>3. CASE \E note \in WhatIfCase.Notes : Bac!Report(note)
    BY <2>1, <2>3 DEF Bac!Report
  <2>. QED
    BY <2>1, <2>2, <2>3
<1>3. ReplayInv' /\ LedgersInv'
  BY <1>1 DEF WhatIfInv, ReplayInv, LedgersInv, Bac!Judged
<1>4. StillInv'
  <2>1. CASE run = "idle"
    BY <1>1, <2>1 DEF StillInv, Bac!Sides
  <2>2. CASE ~was'
    BY <2>2 DEF StillInv
  <2>3. CASE was /\ db' = db /\ events' = events
    BY <1>1, <2>3 DEF WhatIfInv, StillInv, Bac!Sides
  <2>. QED
    BY <1>1, <2>1, <2>2, <2>3
<1>5. was' \in BOOLEAN
  BY <1>1 DEF WhatIfInv
<1>. QED
  BY <1>1, <1>2, <1>3, <1>4, <1>5 DEF WhatIfInv

\* A what-if begins, and each of its replays with what is kept by then.
LEMMA WhatIfAsked ==
  ASSUME WhatIfInv, Bac!Ask \/ Bac!Read
  PROVE  WhatIfInv'
<1>1. CASE Bac!Ask
  <2>1. /\ run = "idle" /\ run' \in {"refused", "counted"}
        /\ UNCHANGED <<db, events, snap, checkpoint, was>>
    BY <1>1 DEF Bac!Ask
  <2>2. ReplayInv' /\ LedgersInv' /\ KeptInv'
    BY <2>1 DEF WhatIfInv, ReplayInv, LedgersInv, KeptInv, Bac!Judged
  <2>3. StillInv'
    BY <2>1 DEF StillInv, Bac!Sides
  <2>. QED
    BY <2>1, <2>2, <2>3 DEF WhatIfInv
<1>2. CASE Bac!Read
  <2>1. PICK s \in Bac!OrderedSnapshots : snap' = [Bac!Idle EXCEPT !.rows = s]
    BY <1>2 DEF Bac!Read
  <2>2. /\ (run = "counted" /\ run' = "baseline") \/ (run = "between" /\ run' = "candidate")
        /\ UNCHANGED <<db, events, checkpoint, was>>
    <3>1. /\ run \in {"counted", "between"} /\ run' = IF run = "counted" THEN "baseline" ELSE "candidate"
          /\ UNCHANGED <<db, events, checkpoint, was>>
      BY <1>2 DEF Bac!Read
    <3>. QED
      BY <3>1
  <2>3. /\ DOMAIN snap' = {"rows", "next", "learned", "class", "records"}
        /\ snap'.rows = s /\ snap'.next = 1 /\ snap'.learned = {} /\ snap'.records = {}
    BY <2>1 DEF Bac!Idle
  <2>4. ReadInv(s) /\ s \in Readings(db)
    BY ReadIsOrdered, WhatIsRead DEF WhatIfInv
  <2>5. KnownAfter(s, 0) = {} /\ AskedBefore(events, s, 1) = {}
    <3>1. \A i \in DOMAIN s : ~(i <= 0) /\ ~(i < 1)
      BY <2>4 DEF ReadInv
    <3>. QED
      BY <3>1 DEF KnownAfter, AskedBefore, Bac!DecisionInstants
  <2>6. ReplayInv'
    <3>1. snap'.next - 1 = 0 /\ snap'.next \in Nat \ {0}
      BY <2>3
    <3>. QED
      BY <2>3, <2>4, <2>5, <3>1 DEF ReplayInv
  <2>7. LedgersInv' /\ KeptInv'
    BY <2>2, <2>3 DEF WhatIfInv, LedgersInv, KeptInv, Bac!Judged
  <2>8. StillInv'
    <3>1. Questions(snap'.records) = {}
      BY <2>3 DEF Questions
    <3>. QED
      BY <2>2, <2>3, <2>4, <2>5, <3>1 DEF WhatIfInv, StillInv
  <2>. QED
    BY <2>2, <2>6, <2>7, <2>8 DEF WhatIfInv
<1>. QED
  BY <1>1, <1>2

\* One more snapshot is learned.
LEMMA KnownIsLearned ==
  ASSUME ReplayInv, snap.next \in DOMAIN snap.rows
  PROVE  Bac!Learned = KnownAfter(snap.rows, snap.next)
<1>. DEFINE n == snap.next
            s == snap.rows
<1>1. n \in Nat \ {0} /\ n \in DOMAIN s /\ DOMAIN s = 1..Len(s) /\ Len(s) \in Nat
  BY DEF ReplayInv, ReadInv
<1>2. Bac!Learned = KnownAfter(s, n - 1) \cup Bac!Usable(s[n])
  BY DEF ReplayInv, Bac!Learned
<1>. HIDE DEF n, s
<1>3. \A i \in DOMAIN s : i <= n <=> (i <= n - 1 \/ i = n)
  BY <1>1
<1>. QED
  BY <1>1, <1>2, <1>3 DEF KnownAfter, n, s

\* What a record holds that is not the policy's.
LEMMA DecisionIsOf ==
  ASSUME NEW key, NEW current, NEW offer, NEW failed, NEW learned, NEW t
  PROVE  LET d == Bac!Decision(key, current, offer, failed, learned, t)
             notes == Bac!Adverse(key, t, t + WhatIfCase.Horizon)
         IN /\ d.key = key /\ d.at = t /\ d.known = Bac!Of(key, learned) /\ d.scored = Bac!Future(key, t)
            /\ d.oracle = Bac!OracleRequest(Bac!Future(key, t)) /\ d.ooms = Bac!OOMKills(notes)
            /\ d.adverse = (notes # {})
<1>. DEFINE d == Bac!Decision(key, current, offer, failed, learned, t)
            window == Bac!Future(key, t)
            notes == Bac!Adverse(key, t, t + WhatIfCase.Horizon)
<1>1. \E applied, code, target, chosen, violated :
        d = [key |-> key, at |-> t, applied |-> applied, code |-> code,
             current |-> current, target |-> target, chosen |-> chosen,
             oracle |-> Bac!OracleRequest(window), violated |-> violated,
             ooms |-> Bac!OOMKills(notes), adverse |-> notes # {},
             known |-> Bac!Of(key, learned), scored |-> window]
  BY ZenonT(60) DEF Bac!Decision
<1>. HIDE DEF d, window, notes
<1>2. /\ d.key = key /\ d.at = t /\ d.known = Bac!Of(key, learned) /\ d.scored = window
      /\ d.oracle = Bac!OracleRequest(window) /\ d.ooms = Bac!OOMKills(notes) /\ d.adverse = (notes # {})
  BY <1>1
<1>. QED
  BY <1>2 DEF d, window, notes

\* A decision knows nothing of later, and is scored with nothing of before.
LEMMA DecisionIsBlind ==
  ASSUME ReplayInv, snap.next \in DOMAIN snap.rows, NEW key, NEW current, NEW offer, NEW failed
  PROVE  BlindInv(Bac!Decision(key, current, offer, failed, Bac!Learned, snap.rows[snap.next].at))
<1>. DEFINE n == snap.next
            s == snap.rows
            t == s[n].at
            d == Bac!Decision(key, current, offer, failed, Bac!Learned, t)
<1>1. /\ n \in DOMAIN s /\ DOMAIN s = 1..Len(s) /\ Len(s) \in Nat
      /\ \A i \in DOMAIN s : Timed(s[i])
      /\ \A i, j \in DOMAIN s : i < j => s[i].at < s[j].at
  BY DEF ReplayInv, ReadInv
<1>2. d.at = t /\ d.known = Bac!Of(key, KnownAfter(s, n)) /\ d.scored = Bac!Future(key, t)
  BY DecisionIsOf, KnownIsLearned
<1>3. ASSUME NEW x \in d.scored
      PROVE  x[2].at \in Int /\ t < x[2].at /\ x[2].at <= t + WhatIfCase.Horizon
  <2>1. PICK i \in DOMAIN s : x \in Bac!Usable(s[i])
    BY <1>2, <1>3 DEF Bac!Future
  <2>2. \E u \in s[i].usage : x = <<s[i].at, u>>
    BY <2>1 DEF Bac!Usable
  <2>3. x[2].at \in Int
    BY <1>1, <2>2 DEF Timed
  <2>. HIDE DEF t
  <2>. QED
    BY <1>2, <1>3, <2>3 DEF Bac!Future
<1>4. ASSUME NEW x \in d.known
      PROVE  x[1] \in Int /\ x[1] <= t
  <2>1. PICK i \in DOMAIN s : i <= n /\ x \in Bac!Usable(s[i])
    BY <1>2, <1>4 DEF Bac!Of, KnownAfter
  <2>2. x[1] = s[i].at
    BY <2>1 DEF Bac!Usable
  <2>3. s[i].at \in Int /\ s[n].at \in Int
    BY <1>1 DEF Timed
  <2>. HIDE DEF d, n, s
  <2>4. i = n \/ i < n
    BY <1>1, <2>1
  <2>. QED
    BY <1>1, <2>2, <2>3, <2>4
<1>5. t \in Int
  BY <1>1 DEF Timed
<1>. HIDE DEF d, t
<1>6. BlindInv(d)
  BY <1>2, <1>3, <1>4, <1>5 DEF BlindInv
<1>. QED
  BY <1>6 DEF d, t

\* What is recorded at an instant is what is asked there.
LEMMA DecisionIsAnswer ==
  ASSUME ReplayInv, snap.next \in DOMAIN snap.rows, NEW key, NEW current, NEW offer, NEW failed
  PROVE  /\ Bac!Question(Bac!Decision(key, current, offer, failed, Bac!Learned, snap.rows[snap.next].at))
              = QuestionOf(events, snap.rows, snap.next, key)
         /\ Bac!Future(key, snap.rows[snap.next].at) = FutureOf(snap.rows, snap.next, key)
<1>. DEFINE t == snap.rows[snap.next].at
            d == Bac!Decision(key, current, offer, failed, Bac!Learned, t)
            notes == Bac!Adverse(key, t, t + WhatIfCase.Horizon)
<1>1. Bac!Future(key, t) = FutureOf(snap.rows, snap.next, key)
  BY DEF Bac!Future, FutureOf
<1>2. notes = ToldOf(events, snap.rows, snap.next, key)
  BY DEF Bac!Adverse, ToldOf
<1>3. /\ d.key = key /\ d.at = t /\ d.known = Bac!Of(key, Bac!Learned)
      /\ d.oracle = Bac!OracleRequest(Bac!Future(key, t)) /\ d.ooms = Bac!OOMKills(notes)
      /\ d.adverse = (notes # {})
  BY DecisionIsOf
<1>4. Bac!Learned = KnownAfter(snap.rows, snap.next)
  BY KnownIsLearned
<1>. HIDE DEF d, notes
<1>5. Bac!Question(d) = QuestionOf(events, snap.rows, snap.next, key)
  BY <1>1, <1>2, <1>3, <1>4 DEF Bac!Question, QuestionOf
<1>. QED
  BY <1>1, <1>5 DEF d

\* What is asked before the next snapshot is that, and what is asked at this one.
LEMMA AskedNext ==
  ASSUME ReplayInv, snap.next \in DOMAIN snap.rows
  PROVE  AskedBefore(events, snap.rows, snap.next + 1)
           = AskedBefore(events, snap.rows, snap.next)
               \cup (IF Bac!AtInstant THEN AskedAt(events, snap.rows, snap.next) ELSE {})
<1>. DEFINE n == snap.next
            s == snap.rows
            I == Bac!DecisionInstants(s)
<1>1. n \in Nat /\ DOMAIN s = 1..Len(s) /\ Len(s) \in Nat /\ I \subseteq DOMAIN s
  BY DEF ReplayInv, ReadInv, Bac!DecisionInstants
<1>2. Bac!AtInstant <=> n \in I
  BY DEF Bac!AtInstant
<1>. HIDE DEF n, s, I
<1>3. \A i \in I : i < n + 1 <=> (i < n \/ i = n)
  BY <1>1
<1>4. {i \in I : i < n + 1} = {i \in I : i < n} \cup (IF n \in I THEN {n} ELSE {})
  BY <1>1, <1>3
<1>5. AskedBefore(events, s, n + 1)
        = AskedBefore(events, s, n) \cup (IF n \in I THEN AskedAt(events, s, n) ELSE {})
  BY <1>4 DEF AskedBefore, I
<1>. QED
  BY <1>2, <1>5 DEF n, s

\* A replay goes on to the next snapshot, with the records of this one.
LEMMA WhatIfAdvances ==
  ASSUME WhatIfInv, run \in Bac!Sides, snap.next <= Len(snap.rows), NEW more,
         \A r \in more : BlindInv(r),
         Questions(more) = IF Bac!AtInstant THEN AskedAt(events, snap.rows, snap.next) ELSE {},
         DOMAIN snap' = DOMAIN snap, snap'.rows = snap.rows, snap'.next = snap.next + 1,
         snap'.learned = Bac!Learned, snap'.records = snap.records \cup more,
         UNCHANGED <<db, events, run, checkpoint, was>>
  PROVE  WhatIfInv'
<1>1. snap.next \in DOMAIN snap.rows /\ snap.next \in Nat /\ ReplayInv
  BY DEF WhatIfInv, ReplayInv, ReadInv
<1>2. ReplayInv'
  <2>1. snap'.next \in Nat \ {0} /\ snap'.next - 1 = snap.next
    BY <1>1
  <2>2. snap'.learned = KnownAfter(snap'.rows, snap'.next - 1)
    BY <1>1, <2>1, KnownIsLearned
  <2>. QED
    BY <2>1, <2>2 DEF WhatIfInv, ReplayInv
<1>3. LedgersInv'
  BY DEF WhatIfInv, LedgersInv, Bac!Judged
<1>4. StillInv'
  <2>1. SUFFICES ASSUME was PROVE /\ snap'.rows \in Readings(db)
                                  /\ Questions(snap'.records) = AskedBefore(events, snap'.rows, snap'.next)
    BY DEF WhatIfInv, StillInv
  <2>2. /\ snap.rows \in Readings(db)
        /\ Questions(snap.records) = AskedBefore(events, snap.rows, snap.next)
    BY <2>1 DEF WhatIfInv, StillInv
  <2>3. Questions(snap'.records) = Questions(snap.records) \cup Questions(more)
    BY DEF Questions
  <2>. QED
    BY <1>1, <2>2, <2>3, AskedNext
<1>5. KeptInv'
  BY DEF WhatIfInv, KeptInv
<1>. QED
  BY <1>2, <1>3, <1>4, <1>5 DEF WhatIfInv

LEMMA WhatIfReplays ==
  ASSUME WhatIfInv, \/ Bac!Observe
                    \/ \E offers \in [WhatIfCase.Keys -> WhatIfCase.Offers], failed \in BOOLEAN :
                         Bac!DecideAt(offers, failed)
  PROVE  WhatIfInv'
<1>1. DOMAIN snap = {"rows", "next", "learned", "class", "records"}
  BY DEF WhatIfInv, ReplayInv
<1>2. CASE Bac!Observe
  <2>1. /\ run \in Bac!Sides /\ snap.next <= Len(snap.rows) /\ ~Bac!AtInstant
        /\ UNCHANGED <<db, events, run, checkpoint, was>>
        /\ snap' = [snap EXCEPT !.next = snap.next + 1, !.learned = Bac!Learned]
    BY <1>2 DEF Bac!Observe
  <2>2. /\ DOMAIN snap' = DOMAIN snap /\ snap'.rows = snap.rows /\ snap'.next = snap.next + 1
        /\ snap'.learned = Bac!Learned /\ snap'.records = snap.records \cup {}
    BY <1>1, <2>1
  <2>3. Questions({}) = {}
    BY DEF Questions
  <2>. QED
    BY <2>1, <2>2, <2>3, WhatIfAdvances
<1>3. ASSUME NEW offers \in [WhatIfCase.Keys -> WhatIfCase.Offers], NEW failed \in BOOLEAN,
             Bac!DecideAt(offers, failed)
      PROVE  WhatIfInv'
  <2>. DEFINE t == snap.rows[snap.next].at
              eligible == Bac!EligibleContainers(snap.rows[snap.next])
              scored == {k \in DOMAIN eligible : Bac!Future(k, t) # {}}
              D(k) == Bac!Decision(k, eligible[k], offers[k], failed, Bac!Learned, t)
              more == {D(k) : k \in scored}
  <2>1. /\ run \in Bac!Sides /\ snap.next <= Len(snap.rows) /\ Bac!AtInstant
        /\ UNCHANGED <<db, events, run, checkpoint, was>>
    BY <1>3, ZenonT(60) DEF Bac!DecideAt
  <2>2. \E class : snap' = [snap EXCEPT !.next = snap.next + 1, !.learned = Bac!Learned,
                                       !.class = class, !.records = snap.records \cup more]
    BY <1>3 DEF Bac!DecideAt
  <2>3. snap.next \in DOMAIN snap.rows /\ ReplayInv
    BY <2>1 DEF WhatIfInv, ReplayInv, ReadInv
  <2>4. \A k \in scored : BlindInv(D(k))
    BY <2>3, DecisionIsBlind
  <2>5. \A k : /\ Bac!Question(D(k)) = QuestionOf(events, snap.rows, snap.next, k)
               /\ Bac!Future(k, t) = FutureOf(snap.rows, snap.next, k)
    BY <2>3, DecisionIsAnswer
  <2>. HIDE DEF D
  <2>6. Questions(more) = {Bac!Question(D(k)) : k \in scored}
    BY DEF Questions
  <2>7. scored = {k \in DOMAIN eligible : FutureOf(snap.rows, snap.next, k) # {}}
    BY <2>5
  <2>. HIDE DEF scored
  <2>8. Questions(more) = {QuestionOf(events, snap.rows, snap.next, k) : k \in scored}
    BY <2>5, <2>6
  <2>9. Questions(more) = AskedAt(events, snap.rows, snap.next)
    BY <2>7, <2>8 DEF AskedAt
  <2>10. \A r \in more : BlindInv(r)
    BY <2>4
  <2>. HIDE DEF more
  <2>11. /\ DOMAIN snap' = DOMAIN snap /\ snap'.rows = snap.rows /\ snap'.next = snap.next + 1
         /\ snap'.learned = Bac!Learned /\ snap'.records = snap.records \cup more
    BY <1>1, <2>2
  <2>. QED
    BY <2>1, <2>9, <2>10, <2>11, WhatIfAdvances
<1>. QED
  BY <1>2, <1>3

\* A replay that ends was asked all that can be asked of what it read.
LEMMA WhatIfFinished == WhatIfInv /\ Bac!Finish => WhatIfInv'
<1>. SUFFICES ASSUME WhatIfInv, Bac!Finish PROVE WhatIfInv'
  OBVIOUS
<1>1. PICK instants :
        checkpoint' = [checkpoint EXCEPT ![run] = [records |-> snap.records, instants |-> instants]]
  BY DEF Bac!Finish
<1>2. /\ run \in Bac!Sides /\ snap.next > Len(snap.rows) /\ snap' = Bac!Idle
      /\ UNCHANGED <<db, events, was>>
      /\ run' = CASE run = "baseline" -> "between"
                 [] OTHER -> IF checkpoint.baseline.instants = 0 THEN "refused" ELSE "done"
  BY DEF Bac!Finish
<1>3. \/ run = "baseline" /\ run' = "between"
      \/ run = "candidate" /\ run' \in {"done", "refused"}
  BY <1>2 DEF Bac!Sides
<1>4. /\ DOMAIN checkpoint' = Bac!Sides /\ checkpoint'[run].records = snap.records
      /\ \A side \in Bac!Sides : side # run => checkpoint'[side] = checkpoint[side]
  BY <1>1, <1>2 DEF WhatIfInv, LedgersInv
<1>5. /\ DOMAIN snap' = {"rows", "next", "learned", "class", "records"}
      /\ snap'.rows = <<>> /\ snap'.next = 1 /\ snap'.learned = {} /\ snap'.records = {}
  BY <1>2 DEF Bac!Idle
<1>6. ReplayInv'
  <2>1. snap'.next - 1 = 0 /\ snap'.next \in Nat \ {0}
    BY <1>5
  <2>. QED
    BY <1>5, <2>1, NothingIsKnown DEF ReplayInv
<1>7. LedgersInv'
  <2>1. \A r \in Bac!Judged' : r \in Bac!Judged
    BY <1>3, <1>4, <1>5 DEF Bac!Judged, Bac!Sides
  <2>. QED
    BY <1>4, <2>1 DEF WhatIfInv, LedgersInv
<1>8. was => Answered(events, db, snap.records)
  <2>. SUFFICES ASSUME was PROVE Answered(events, db, snap.records)
    OBVIOUS
  <2>1. /\ snap.rows \in Readings(db)
        /\ Questions(snap.records) = AskedBefore(events, snap.rows, snap.next)
    BY <1>2 DEF WhatIfInv, StillInv
  <2>2. \A i \in Bac!DecisionInstants(snap.rows) : i < snap.next
    BY <1>2 DEF WhatIfInv, ReplayInv, ReadInv, Bac!DecisionInstants
  <2>3. AskedBefore(events, snap.rows, snap.next) = Asked(events, snap.rows)
    BY <2>2 DEF AskedBefore, Asked
  <2>. QED
    BY <2>1, <2>3 DEF Answered
<1>9. StillInv'
  <2>1. CASE run = "baseline"
    <3>1. run' = "between" /\ checkpoint'.baseline.records = snap.records
      BY <1>3, <1>4, <2>1
    <3>. QED
      BY <1>2, <1>8, <3>1 DEF StillInv, Bac!Sides
  <2>2. CASE run = "candidate"
    <3>1. /\ run' \in {"done", "refused"} /\ checkpoint'.candidate.records = snap.records
          /\ checkpoint'.baseline = checkpoint.baseline
      BY <1>3, <1>4, <2>2 DEF Bac!Sides
    <3>. QED
      BY <1>2, <1>8, <2>2, <3>1 DEF WhatIfInv, StillInv, Bac!Sides
  <2>. QED
    BY <1>3, <2>1, <2>2
<1>10. KeptInv'
  BY <1>2 DEF WhatIfInv, KeptInv
<1>. QED
  BY <1>2, <1>3, <1>6, <1>7, <1>9, <1>10 DEF WhatIfInv

LEMMA WhatIfNext == WhatIfInv /\ Bac!Next => WhatIfInv'
BY WhatIfAsked, WhatIfReplays, WhatIfFinished, WhatIfKept DEF Bac!Next

-----------------------------------------------------------------------------
(* ---- The machines together ---- *)

AdviceInv ==
  /\ which = "rds" => DatabaseInv
  /\ which = "ebs" => VolumeInv
  /\ which = "ecs" => ServiceInv
  /\ which = "fargate" => FargateInv
  /\ which = "backtest" => WhatIfInv

LEMMA AdviceInvInit == AdviceInit => AdviceInv
BY DatabaseInit, VolumeInit, ServiceInit, FargateInit, WhatIfInit DEF AdviceInit, AdviceInv

\* A step that changes nothing keeps what every machine keeps.
LEMMA Stutter == AdviceInv /\ UNCHANGED vars => AdviceInv'
<1>. SUFFICES ASSUME AdviceInv, UNCHANGED vars PROVE AdviceInv'
  OBVIOUS
<1>. USE DEF vars
<1>1. which = "rds" => DatabaseInv'
  BY DEF AdviceInv, DatabaseInv, AllocatedInv, HistoriesInv, ReportedInv
<1>2. which = "ebs" => VolumeInv'
  BY DEF AdviceInv, VolumeInv, AccountInv, CollectedInv, PlannedInv, ExecutedInv, LearnedInv, WholeInv,
         Ebs!NeverTooSoon, Tells
<1>3. which = "ecs" => ServiceInv'
  BY DEF AdviceInv, ServiceInv, Ecs!FreshAndSettled
<1>4. which = "fargate" => FargateInv'
  BY DEF AdviceInv, FargateInv, Far!RevertIsOffered
<1>5. which = "backtest" => WhatIfInv'
  BY DEF AdviceInv, WhatIfInv, KeptInv, ReplayInv, LedgersInv, StillInv, Bac!Judged
<1>. QED
  BY <1>1, <1>2, <1>3, <1>4, <1>5 DEF AdviceInv

LEMMA AdviceInvNext == AdviceInv /\ [AdviceNext]_vars => AdviceInv'
<1>. SUFFICES ASSUME AdviceInv, [AdviceNext]_vars PROVE AdviceInv'
  OBVIOUS
<1>1. CASE OnRDS(Rds!Next)
  BY <1>1, DatabaseNext DEF OnRDS, On, AdviceInv
<1>2. CASE OnEBS(Ebs!Next)
  BY <1>2, VolumeNext DEF OnEBS, On, AdviceInv
<1>3. CASE OnECS(Ecs!Next)
  BY <1>3, ServiceNext DEF OnECS, On, AdviceInv
<1>4. CASE OnFargate(Far!Next)
  BY <1>4, FargateNext DEF OnFargate, On, AdviceInv
<1>5. CASE OnBacktest(Bac!Next)
  BY <1>5, WhatIfNext DEF OnBacktest, On, AdviceInv
<1>6. CASE UNCHANGED vars
  BY <1>6, Stutter
<1>. QED
  BY <1>1, <1>2, <1>3, <1>4, <1>5, <1>6 DEF AdviceNext

\* Whatever the account, the cluster or the history, however it changes while a domain reads it,
\* and whatever a restart forgets: a growth of storage that is reported happened, a volume is not
\* planned for within its cooldown or while it is being modified, a task size rests on fresh
\* evidence of a service at rest, a size that killed a workload is taken back before anything else
\* is offered for it, and a replay decides on what was known by then, and asks both policies the same.
THEOREM AdviceStaysCurrent == AdviceSpec => []AdviceIsCurrent
<1>1. AdviceInv => AdviceIsCurrent
  <2>1. VolumeInv => Ebs!NeverTooSoon
    BY DEF VolumeInv
  <2>2. ServiceInv => Ecs!FreshAndSettled
    BY DEF ServiceInv
  <2>3. FargateInv => Far!RevertIsOffered
    BY DEF FargateInv
  <2>. QED
    BY <2>1, <2>2, <2>3, DatabaseGrowthHappened, WhatIfIsBlind, WhatIfIsSame
       DEF AdviceInv, AdviceIsCurrent
<1>. QED
  BY <1>1, AdviceInvInit, AdviceInvNext, PTL DEF AdviceSpec
===============================================================================
