--------------------------- MODULE StopStartProofs ---------------------------
(* Proofs about StopStart, for every set of instances, every bound and any failures. *)
EXTENDS StopStart, TLAPS

(* ---- The inductive invariant ---- *)

Calls == [pc : {"read", "drive", "act", "await", "rollback", "rb-start", "rb-await"},
          key : Keys, stage : Stages, visits : [Stages -> Nat]]

Lives == [state : {"running", "stopping", "stopped", "pending", "terminated"},
          type : {"from", "to", "other"}]

\* What the account, the ledgers and the call hold, visits uncounted.
HoldsInv ==
  /\ cloud \in [Instances -> Lives]
  /\ ledger \in [Keys -> Statuses] /\ disk \in [Keys -> Statuses]
  /\ call = Idle \/ call \in Calls

\* An instance that runs is not down; what is about to be called is in flight in both ledgers;
\* and a call that is done with an instance had seen it run.
DownInv ==
  /\ turned \subseteq down /\ down \subseteq Instances
  /\ \A i \in Instances : cloud[i].state = "running" => i \notin down
  /\ call.pc = "act" => /\ ledger[call.key] = "in-flight" /\ disk[call.key] = "in-flight"
                        /\ call.stage \in {"ready", "stopped", "modified"}
  /\ call.pc = "drive" /\ call.stage = "running" => call.key[1] \notin down

IInv == HoldsInv /\ DownInv /\ NeverForgotten

(* ---- Keys and stages ---- *)

\* A key is an instance with a direction, and a call at work has one.
LEMMA KeysAreOfInstances == \A k \in Keys : k[1] \in Instances
BY DEF Keys

\* An instance that is seen running, as either type, is not down.
LEMMA RunningIsUp ==
    ASSUME HoldsInv, DownInv, call \in Calls, stageOf(call.key) \in {"running", "ready"}
    PROVE  call.key[1] \notin down
<1>1. call.key[1] \in Instances /\ cloud[call.key[1]] \in Lives
  BY KeysAreOfInstances DEF Calls, HoldsInv
<1>2. cloud[call.key[1]].state = "running"
  <2>1. CASE cloud[call.key[1]].state = "running"
    BY <2>1
  <2>2. CASE cloud[call.key[1]].state = "stopped"
    BY <2>2 DEF stageOf
  <2>3. CASE cloud[call.key[1]].state = "stopping"
    BY <2>3 DEF stageOf
  <2>4. CASE cloud[call.key[1]].state = "pending"
    BY <2>4 DEF stageOf
  <2>5. CASE cloud[call.key[1]].state = "terminated"
    BY <2>5 DEF stageOf
  <2>. QED
    BY <1>1, <2>1, <2>2, <2>3, <2>4, <2>5 DEF Lives
<1>. QED
  BY <1>1, <1>2 DEF DownInv

\* A stage is one of the stages.
LEMMA StageType == \A k : stageOf(k) \in Stages
BY DEF stageOf, Stages

\* A status that is not settled makes its instance owed, and other keys keep owing theirs.
LEMMA OwedByStatus ==
    ASSUME NEW l \in [Keys -> Statuses], NEW k \in Keys, NEW s \in Statuses
    PROVE  /\ s \in {"open", "failed", "in-flight"} => Owed([l EXCEPT ![k] = s], k[1])
           /\ \A i : i # k[1] /\ Owed(l, i) => Owed([l EXCEPT ![k] = s], i)
BY DEF Owed, Unsettled, Settled, Terminal

(* ---- How a call ends ---- *)

\* A call returns: its instance is up, or the step stays on the books as unfinished, or it is
\* turned away.
LEMMA FinishKeeps ==
    ASSUME IInv, call \in Calls, NEW s \in Statuses, finish(s), UNCHANGED <<cloud, down, disk>>,
           \/ s \in {"failed", "in-flight"} /\ UNCHANGED turned
           \/ call.key[1] \notin down /\ UNCHANGED turned
           \/ Turn(call.key[1])
    PROVE  IInv'
<1>. DEFINE k == call.key
<1>1. k \in Keys /\ k[1] \in Instances
  BY KeysAreOfInstances DEF Calls
<1>2. ledger' = [ledger EXCEPT ![k] = s] /\ call' = Idle
  BY DEF finish
<1>3. HoldsInv'
  BY <1>1, <1>2 DEF IInv, HoldsInv
<1>4. turned' \subseteq down /\ turned \subseteq turned'
      /\ (s \in {"failed", "in-flight"} \/ k[1] \notin down \ turned')
  BY DEF Turn, IInv, DownInv
<1>5. DownInv'
  BY <1>2, <1>4 DEF IInv, DownInv, Idle
<1>6. NeverForgotten'
  <2>1. SUFFICES ASSUME NEW i \in down \ turned'
                 PROVE  Owed(disk, i) /\ Owed(ledger', i)
    BY <1>2 DEF NeverForgotten, Owed, Unsettled
  <2>2. i \in down \ turned
    BY <1>4, <2>1
  <2>3. Owed(disk, i)
    BY <2>2 DEF IInv, NeverForgotten
  <2>4. Owed(ledger', i)
    <3>1. CASE i = k[1]
      BY <1>1, <1>2, <1>4, <2>1, <3>1, OwedByStatus DEF IInv, HoldsInv
    <3>2. CASE i # k[1]
      <4>1. Owed(ledger, i)
        BY <2>2, <3>2 DEF IInv, NeverForgotten
      <4>. QED
        BY <1>1, <1>2, <3>2, <4>1, OwedByStatus DEF IInv, HoldsInv
    <3>. QED
      BY <3>1, <3>2
  <2>. QED
    BY <2>3, <2>4
<1>. QED
  BY <1>3, <1>5, <1>6 DEF IInv

\* A call goes on with the books and the account as they are.
LEMMA GoesOn ==
    ASSUME IInv, call \in Calls, call' \in Calls, call'.key = call.key,
           UNCHANGED <<cloud, ledger, disk, down, turned>>, call'.pc # "act",
           call'.pc = "drive" /\ call'.stage = "running" => call.key[1] \notin down
    PROVE  IInv'
<1>1. call # Idle /\ call' # Idle
  BY DEF Calls, Idle
<1>. QED
  BY <1>1 DEF IInv, HoldsInv, DownInv, NeverForgotten, Owed, Unsettled

\* The entry is written to disk with the whole ledger before anything is called.
LEMMA MutateKeeps ==
    ASSUME IInv, call \in Calls, NEW next \in Calls, next.key = call.key, mutate(next),
           next.pc # "drive", UNCHANGED world,
           next.pc = "act" => next.stage \in {"ready", "stopped", "modified"}
    PROVE  IInv'
<1>. DEFINE k == call.key
            noted == [ledger EXCEPT ![k] = "in-flight"]
<1>1. k \in Keys /\ k[1] \in Instances /\ "in-flight" \in Statuses /\ "failed" \in Statuses
  BY KeysAreOfInstances DEF Calls, Statuses
<1>2. CASE ledger' = noted /\ disk' = noted /\ call' = next
  <2>1. HoldsInv'
    BY <1>1, <1>2 DEF IInv, HoldsInv, world
  <2>2. DownInv'
    BY <1>1, <1>2 DEF IInv, HoldsInv, DownInv, world
  <2>3. NeverForgotten'
    <3>1. SUFFICES ASSUME NEW i \in down \ turned PROVE Owed(noted, i)
      <4>. HIDE DEF noted
      <4>. QED
        BY <1>2, <3>1 DEF NeverForgotten, Owed, Unsettled, world
    <3>2. CASE i = k[1]
      BY <1>1, <3>2, OwedByStatus DEF IInv, HoldsInv
    <3>3. CASE i # k[1]
      <4>1. Owed(ledger, i)
        BY <3>1, <3>3 DEF IInv, NeverForgotten
      <4>. QED
        BY <1>1, <3>3, <4>1, OwedByStatus DEF IInv, HoldsInv
    <3>. QED
      BY <3>2, <3>3
  <2>. QED
    BY <2>1, <2>2, <2>3 DEF IInv
<1>3. CASE finish("failed") /\ UNCHANGED disk
  BY <1>1, <1>3, FinishKeeps DEF world
<1>. QED
  BY <1>2, <1>3 DEF mutate

(* ---- The account ---- *)

\* What a call does to the account: only the stop of a running instance takes one down, and both
\* ledgers have its step in flight by then.
LEMMA EffectKeeps ==
    ASSUME IInv, call \in Calls, NEW op \in {"stop", "modify", "start"}, Effect(op),
           op = "stop" => disk[call.key] = "in-flight"
    PROVE  /\ cloud' \in [Instances -> Lives] /\ turned' = turned
           /\ turned \subseteq down' /\ down' \subseteq Instances /\ down' \subseteq down \cup {call.key[1]}
           /\ \A i \in Instances : cloud'[i].state = "running" => i \notin down'
           /\ \A i \in down' \ turned : Owed(disk, i)
<1>. DEFINE i == call.key[1]
            live == cloud[i]
            new == After(op, live, ToType(call.key))
<1>1. call.key \in Keys /\ i \in Instances /\ live \in Lives
  BY KeysAreOfInstances DEF Calls, IInv, HoldsInv
<1>2. cloud' = [cloud EXCEPT ![i] = new] /\ turned' = turned
      /\ down' = IF op = "stop" /\ live.state = "running" THEN down \cup {i} ELSE down
  BY DEF Effect
<1>3. ToType(call.key) \in {"from", "to", "other"}
  BY DEF ToType
<1>4. new \in Lives
  <2>1. \A s \in {"stopping", "pending"} : [live EXCEPT !.state = s] \in Lives
    BY <1>1 DEF Lives
  <2>2. [live EXCEPT !.type = ToType(call.key)] \in Lives
    BY <1>1, <1>3 DEF Lives
  <2>. QED
    BY <1>1, <2>1, <2>2 DEF After
<1>5. new.state = "running" => live.state = "running" /\ op # "stop"
  BY <1>1 DEF After, Lives
<1>6. cloud' \in [Instances -> Lives]
  BY <1>1, <1>2, <1>4 DEF IInv, HoldsInv
<1>7. \A j \in Instances : cloud'[j].state = "running" => j \notin down'
  <2>. HIDE DEF new
  <2>. QED
    BY <1>1, <1>2, <1>5 DEF IInv, HoldsInv, DownInv
<1>8. \A j \in down' \ turned : Owed(disk, j)
  <2>1. \A j \in down \ turned : Owed(disk, j)
    BY DEF IInv, NeverForgotten
  <2>2. op = "stop" => Owed(disk, i)
    BY <1>1 DEF Owed, Unsettled, Settled, Terminal
  <2>. QED
    BY <1>2, <2>1, <2>2
<1>9. turned \subseteq down' /\ down' \subseteq Instances /\ down' \subseteq down \cup {i}
  BY <1>1, <1>2 DEF IInv, DownInv
<1>. QED
  BY <1>2, <1>6, <1>7, <1>8, <1>9

\* The call that made it goes on, or fails.
LEMMA ActKeeps ==
    ASSUME IInv, call \in Calls, NEW op \in {"stop", "modify", "start"}, Effect(op) \/ UNCHANGED world,
           op = "stop" => disk[call.key] = "in-flight", UNCHANGED disk,
           \/ /\ call' \in Calls /\ call'.key = call.key /\ ledger' = ledger
              /\ call'.pc # "act" /\ ~(call'.pc = "drive" /\ call'.stage = "running")
           \/ finish("failed")
    PROVE  IInv'
<1>. DEFINE k == call.key
<1>1. k \in Keys /\ k[1] \in Instances /\ "failed" \in Statuses
  BY KeysAreOfInstances DEF Calls, Statuses
<1>2. /\ cloud' \in [Instances -> Lives] /\ turned' = turned
      /\ turned \subseteq down' /\ down' \subseteq Instances /\ down' \subseteq down \cup {k[1]}
      /\ \A i \in Instances : cloud'[i].state = "running" => i \notin down'
      /\ \A i \in down' \ turned : Owed(disk, i)
  <2>1. CASE Effect(op)
    BY <2>1, EffectKeeps
  <2>2. CASE UNCHANGED world
    BY <2>2 DEF world, IInv, HoldsInv, DownInv, NeverForgotten
  <2>. QED
    BY <2>1, <2>2
<1>3. \A i \in down' \ turned : i # k[1] => Owed(ledger, i)
  BY <1>2 DEF IInv, NeverForgotten
<1>4. CASE /\ call' \in Calls /\ call'.key = call.key /\ ledger' = ledger
           /\ call'.pc # "act" /\ ~(call'.pc = "drive" /\ call'.stage = "running")
  <2>1. call' # Idle
    BY <1>4 DEF Calls, Idle
  <2>2. HoldsInv' /\ DownInv'
    BY <1>2, <1>4 DEF IInv, HoldsInv, DownInv
  <2>3. NeverForgotten'
    BY <1>2, <1>3, <1>4, <2>1 DEF NeverForgotten, Owed, Unsettled
  <2>. QED
    BY <2>2, <2>3 DEF IInv
<1>5. CASE finish("failed")
  <2>1. call' = Idle /\ ledger' = [ledger EXCEPT ![k] = "failed"]
    BY <1>5 DEF finish
  <2>2. HoldsInv'
    BY <1>1, <1>2, <2>1 DEF IInv, HoldsInv
  <2>3. DownInv'
    BY <1>2, <2>1 DEF DownInv, Idle
  <2>4. \A i \in down' \ turned : Owed(ledger', i)
    BY <1>1, <1>3, <2>1, OwedByStatus DEF IInv, HoldsInv
  <2>5. NeverForgotten'
    BY <1>2, <2>4 DEF NeverForgotten, Owed, Unsettled
  <2>. QED
    BY <2>2, <2>3, <2>5 DEF IInv
<1>. QED
  BY <1>4, <1>5

(* ---- The invariant is inductive ---- *)

\* Nothing is down at the start.
LEMMA InitInv == Init => IInv
<1>. SUFFICES ASSUME Init PROVE IInv
  OBVIOUS
<1>1. HoldsInv
  BY DEF Init, HoldsInv, Lives, Statuses
<1>2. DownInv /\ NeverForgotten
  BY DEF Init, DownInv, NeverForgotten, Idle
<1>. QED
  BY <1>1, <1>2 DEF IInv

\* The steps of a call.
LEMMA CallStepKeeps == IInv /\ CallStep => IInv'
<1>. SUFFICES ASSUME IInv, CallStep PROVE IInv'
  OBVIOUS
<1>. USE DEF world, stable, At
<1>0. call \in Calls /\ HoldsInv /\ DownInv
  BY DEF CallStep, ReadFails, ReadRefuses, ReadNoop, ReadGated, ReadResumes, DriveEnds, DriveWaits,
     DriveMutates, ActSucceeds, ActErrs, PollTimeout, PollSettles, Rollback, RollbackStarts, RollbackEnds,
     IInv, HoldsInv, Idle
<1>1. {"failed", "in-flight", "refused", "no-op", "dry-run", "done", "rolled-back"} \subseteq Statuses
  BY DEF Statuses
<1>2. ASSUME NEW pc, NEW s, Goto(pc, s), pc \in {"drive", "rollback", "rb-await"}, s \in Stages
      PROVE  call' \in Calls /\ call'.key = call.key /\ call'.pc = pc /\ call'.stage = s
  BY <1>0, <1>2 DEF Goto, Calls
<1>3. CASE ReadFails
  BY <1>0, <1>1, <1>3, FinishKeeps DEF ReadFails
<1>4. CASE ReadRefuses
  BY <1>0, <1>1, <1>4, FinishKeeps DEF ReadRefuses
<1>5. CASE ReadNoop
  BY <1>0, <1>1, <1>5, FinishKeeps, RunningIsUp DEF ReadNoop
<1>6. CASE ReadGated
  <2>1. call.key[1] \notin down
    BY <1>0, <1>6, RunningIsUp DEF ReadGated
  <2>2. CASE finish("refused") \/ finish("dry-run")
    BY <1>0, <1>1, <1>6, <2>1, <2>2, FinishKeeps DEF ReadGated
  <2>3. CASE Goto("drive", "ready") /\ UNCHANGED ledger
    BY <1>0, <1>2, <1>6, <2>1, <2>3, GoesOn DEF ReadGated, Stages
  <2>. QED
    BY <1>6, <2>2, <2>3 DEF ReadGated
<1>7. CASE ReadResumes
  <2>1. CASE finish("dry-run") /\ Turn(call.key[1])
    BY <1>0, <1>1, <1>7, <2>1, FinishKeeps DEF ReadResumes
  <2>2. CASE Goto("drive", stageOf(call.key)) /\ UNCHANGED <<ledger, turned>>
    BY <1>0, <1>2, <1>7, <2>2, StageType, GoesOn DEF ReadResumes
  <2>. QED
    BY <1>7, <2>1, <2>2 DEF ReadResumes
<1>8. CASE DriveEnds
  <2>1. CASE finish("failed")
    BY <1>0, <1>1, <1>8, <2>1, FinishKeeps DEF DriveEnds
  <2>2. CASE call.stage = "running" /\ finish("done")
    BY <1>0, <1>1, <1>8, <2>2, FinishKeeps DEF DriveEnds, DownInv
  <2>. QED
    BY <1>8, <2>1, <2>2 DEF DriveEnds
<1>9. Seen \in Nat
  BY <1>0 DEF Seen, Calls
<1>10. CASE DriveWaits
  <2>1. call' \in Calls /\ call'.key = call.key /\ call'.pc = "await"
    BY <1>0, <1>9, <1>10 DEF DriveWaits, Calls
  <2>. QED
    BY <1>0, <1>10, <2>1, GoesOn DEF DriveWaits
<1>11. CASE DriveMutates
  <2>. DEFINE next == [call EXCEPT !.pc = "act", !.visits[call.stage] = Seen]
  <2>1. next \in Calls /\ next.key = call.key /\ next.pc = "act" /\ next.stage = call.stage
    BY <1>0, <1>9 DEF Calls
  <2>2. mutate(next) /\ UNCHANGED world /\ call.stage \in {"ready", "stopped", "modified"}
    BY <1>11 DEF DriveMutates
  <2>. HIDE DEF next
  <2>. QED
    BY <1>0, <2>1, <2>2, MutateKeeps
<1>12. CASE ActSucceeds \/ ActErrs
  <2>1. call.pc = "act" /\ disk[call.key] = "in-flight" /\ call.stage \in {"ready", "stopped", "modified"}
    BY <1>0, <1>12 DEF ActSucceeds, ActErrs, DownInv
  <2>2. Verb(call.stage) \in {"stop", "modify", "start"}
        /\ NextStage(call.stage) \in {"stopping", "modified", "starting"}
    BY <2>1 DEF Verb, NextStage
  <2>3. Effect(Verb(call.stage)) \/ UNCHANGED world
    BY <1>12 DEF ActSucceeds, ActErrs, Succeeds, Errs
  <2>4. CASE ActSucceeds
    <3>1. call' \in Calls /\ call'.key = call.key /\ call'.pc = "drive" /\ call'.stage # "running"
      BY <1>2, <2>2, <2>4 DEF ActSucceeds, Stages
    <3>. QED
      BY <1>0, <2>1, <2>2, <2>3, <2>4, <3>1, ActKeeps DEF ActSucceeds
  <2>5. CASE ActErrs /\ Goto("rollback", "stopped") /\ UNCHANGED ledger
    <3>1. call' \in Calls /\ call'.key = call.key /\ call'.pc = "rollback"
      BY <1>2, <2>5 DEF Stages
    <3>. QED
      BY <1>0, <2>1, <2>2, <2>3, <2>5, <3>1, ActKeeps DEF ActErrs
  <2>6. CASE ActErrs /\ finish("failed")
    BY <1>0, <2>1, <2>2, <2>3, <2>6, ActKeeps DEF ActErrs
  <2>. QED
    BY <1>12, <2>4, <2>5, <2>6 DEF ActErrs
<1>13. CASE PollTimeout
  BY <1>0, <1>1, <1>13, FinishKeeps DEF PollTimeout
<1>14. CASE PollSettles
  <2>1. call' \in Calls /\ call'.key = call.key /\ call'.pc = "drive" /\ call'.stage = stageOf(call.key)
    BY <1>2, <1>14, StageType DEF PollSettles
  <2>2. call'.stage = "running" => call.key[1] \notin down
    BY <1>0, <2>1, RunningIsUp
  <2>. QED
    BY <1>0, <1>14, <2>1, <2>2, GoesOn DEF PollSettles
<1>15. CASE Rollback
  <2>. DEFINE next == [call EXCEPT !.pc = "rb-start"]
  <2>1. next \in Calls /\ next.key = call.key /\ next.pc = "rb-start"
    BY <1>0 DEF Calls
  <2>2. mutate(next) /\ UNCHANGED world
    BY <1>15 DEF Rollback
  <2>. HIDE DEF next
  <2>. QED
    BY <1>0, <2>1, <2>2, MutateKeeps
<1>16. CASE RollbackStarts
  <2>1. Effect("start") \/ UNCHANGED world
    BY <1>16 DEF RollbackStarts, Succeeds, Errs
  <2>2. CASE Goto("rb-await", "stopped") /\ UNCHANGED ledger
    <3>1. call' \in Calls /\ call'.key = call.key /\ call'.pc = "rb-await"
      BY <1>2, <2>2 DEF Stages
    <3>. QED
      BY <1>0, <1>16, <2>1, <2>2, <3>1, ActKeeps DEF RollbackStarts
  <2>3. CASE finish("failed")
    BY <1>0, <1>16, <2>1, <2>3, ActKeeps DEF RollbackStarts
  <2>. QED
    BY <1>16, <2>2, <2>3 DEF RollbackStarts
<1>17. CASE RollbackEnds
  <2>. DEFINE s == CASE stageOf(call.key) = "ready"   -> "rolled-back"
                     [] stageOf(call.key) = "running" -> "done"
                     [] OTHER                         -> "failed"
  <2>1. s \in Statuses /\ (s = "failed" \/ stageOf(call.key) \in {"ready", "running"})
    BY <1>1
  <2>2. s = "failed" \/ call.key[1] \notin down
    <3>. HIDE DEF s
    <3>. QED
      BY <1>0, <2>1, RunningIsUp
  <2>3. finish(s) /\ UNCHANGED <<cloud, down, turned, disk>>
    BY <1>17 DEF RollbackEnds
  <2>. HIDE DEF s
  <2>. QED
    BY <1>0, <2>1, <2>2, <2>3, FinishKeeps
<1>. QED
  BY <1>3, <1>4, <1>5, <1>6, <1>7, <1>8, <1>10, <1>11, <1>12, <1>13, <1>14, <1>15, <1>16, <1>17 DEF CallStep

\* A call that starts, or is turned away, and what everybody else does.
LEMMA NextInv == IInv /\ [Next]_vars => IInv'
<1>. SUFFICES ASSUME IInv, [Next]_vars PROVE IInv'
  OBVIOUS
<1>. USE DEF world, stable, At
<1>0. HoldsInv /\ DownInv /\ NeverForgotten
  BY DEF IInv
<1>1. ASSUME NEW k \in Keys, TurnedAway(k) PROVE IInv'
  <2>1. /\ call = Idle /\ call' = Idle /\ UNCHANGED <<cloud, disk, down>>
        /\ ledger' = [ledger EXCEPT ![k] = "refused"] /\ Turn(k[1]) /\ "refused" \in Statuses
    BY <1>0, <1>1 DEF TurnedAway, HoldsInv, Calls, Idle, Statuses
  <2>2. turned' \subseteq down /\ turned \subseteq turned' /\ k[1] \notin down \ turned'
    BY <1>0, <2>1 DEF Turn, DownInv
  <2>3. HoldsInv' /\ DownInv'
    BY <1>0, <2>1, <2>2 DEF HoldsInv, DownInv, Idle
  <2>4. ASSUME NEW i \in down \ turned' PROVE Owed(disk, i) /\ Owed(ledger', i)
    <3>1. i # k[1] /\ Owed(disk, i) /\ Owed(ledger, i)
      BY <1>0, <2>1, <2>2, <2>4 DEF NeverForgotten
    <3>. QED
      BY <1>0, <2>1, <3>1, OwedByStatus DEF HoldsInv
  <2>5. NeverForgotten'
    BY <2>1, <2>4 DEF NeverForgotten, Owed, Unsettled
  <2>. QED
    BY <2>3, <2>5 DEF IInv
<1>2. ASSUME NEW k \in Keys, Begin(k) PROVE IInv'
  <2>1. call = Idle
    BY <1>0, <1>2 DEF Begin, HoldsInv, Calls
  <2>2. /\ call' = Busy(k) /\ UNCHANGED <<cloud, disk, down, turned>>
        /\ \/ ledger[k] = "none" /\ ledger' = [ledger EXCEPT ![k] = "open"]
           \/ ledger' = ledger
    BY <1>0, <1>2 DEF Begin, HoldsInv
  <2>3. Busy(k) \in Calls /\ Busy(k).pc = "read" /\ "open" \in Statuses
    BY DEF Busy, Calls, Stages, Statuses
  <2>4. HoldsInv' /\ DownInv'
    BY <1>0, <2>2, <2>3 DEF HoldsInv, DownInv
  <2>5. \A i \in down \ turned : Owed(disk, i) /\ Owed(ledger', i)
    BY <1>0, <2>1, <2>2, <2>3, OwedByStatus DEF NeverForgotten, HoldsInv
  <2>6. NeverForgotten'
    BY <2>2, <2>5 DEF NeverForgotten, Owed, Unsettled
  <2>. QED
    BY <2>4, <2>6 DEF IInv
<1>3. ASSUME NEW i \in Instances, Settles(i) PROVE IInv'
  <2>. DEFINE s == IF cloud[i].state = "stopping" THEN "stopped" ELSE "running"
  <2>1. /\ cloud' = [cloud EXCEPT ![i].state = s]
        /\ down' = IF s = "running" THEN down \ {i} ELSE down
        /\ turned' = IF s = "running" THEN turned \ {i} ELSE turned
        /\ UNCHANGED <<ledger, disk, call>>
    BY <1>3 DEF Settles
  <2>2. cloud' \in [Instances -> Lives] /\ cloud'[i].state = s
        /\ \A j \in Instances \ {i} : cloud'[j] = cloud[j]
    BY <1>0, <2>1 DEF HoldsInv, Lives
  <2>3. HoldsInv' /\ DownInv'
    <3>. HIDE DEF s
    <3>. QED
      BY <1>0, <2>1, <2>2 DEF HoldsInv, DownInv
  <2>4. NeverForgotten'
    <3>. HIDE DEF s
    <3>. QED
      BY <1>0, <2>1 DEF NeverForgotten, Owed, Unsettled
  <2>. QED
    BY <2>3, <2>4 DEF IInv
<1>4. ASSUME NEW i \in Instances, Outside(i) PROVE IInv'
  <2>1. cloud' \in [Instances -> Lives] /\ UNCHANGED <<ledger, disk, call, down, turned>>
        /\ \A j \in Instances : cloud'[j].state = "running" => cloud[j].state = "running"
    BY <1>0, <1>4 DEF Outside, HoldsInv, Lives
  <2>2. HoldsInv' /\ DownInv' /\ NeverForgotten'
    BY <1>0, <2>1 DEF HoldsInv, DownInv, NeverForgotten, Owed, Unsettled
  <2>. QED
    BY <2>2 DEF IInv
<1>5. CASE Crash
  <2>1. call' = Idle /\ ledger' = disk /\ UNCHANGED <<cloud, disk, down, turned>>
    BY <1>5 DEF Crash
  <2>2. HoldsInv' /\ DownInv' /\ NeverForgotten'
    BY <1>0, <2>1 DEF HoldsInv, DownInv, NeverForgotten, Owed, Unsettled, Idle
  <2>. QED
    BY <2>2 DEF IInv
<1>6. CASE Lapse \/ UNCHANGED vars
  <2>1. UNCHANGED <<cloud, ledger, disk, call, down, turned>>
    BY <1>6 DEF Lapse, vars
  <2>2. HoldsInv' /\ DownInv' /\ NeverForgotten'
    BY <1>0, <2>1 DEF HoldsInv, DownInv, NeverForgotten, Owed, Unsettled
  <2>. QED
    BY <2>2 DEF IInv
<1>. QED
  BY <1>1, <1>2, <1>3, <1>4, <1>5, <1>6, CallStepKeeps DEF Next

\* The rest of the type: a call never counts more visits than it may, and a fault is counted.
LEMMA InitType == MaxStageVisits \in Nat /\ MaxFaults \in Nat /\ Init => TypeOK
<1>. SUFFICES ASSUME MaxStageVisits \in Nat, MaxFaults \in Nat, Init PROVE TypeOK
  OBVIOUS
<1>1. HoldsInv /\ call = Idle /\ down = {} /\ turned = {}
  BY InitInv DEF IInv, Init
<1>2. mode \in Modes /\ lapsed \in BOOLEAN /\ faults = 0
  BY DEF Init
<1>. QED
  BY <1>1, <1>2 DEF TypeOK, HoldsInv, Lives

\* And no step takes more visits, or more faults, than the bounds.
LEMMA NextType ==
  MaxStageVisits \in Nat /\ MaxFaults \in Nat /\ IInv /\ TypeOK /\ [Next]_vars => TypeOK'
<1>. SUFFICES ASSUME MaxStageVisits \in Nat, MaxFaults \in Nat, IInv, TypeOK, [Next]_vars
              PROVE  TypeOK'
  OBVIOUS
<1>. DEFINE Within(c) == c = Idle \/ \A s \in Stages : c.visits[s] \in 0..MaxStageVisits
<1>. USE DEF world, stable, At
<1>1. HoldsInv' /\ DownInv'
  BY NextInv DEF IInv
<1>2. Within(call)
  BY DEF TypeOK
<1>3. CASE CallStep
  <2>1. call \in Calls
    BY <1>3 DEF CallStep, ReadFails, ReadRefuses, ReadNoop, ReadGated, ReadResumes, DriveEnds, DriveWaits,
       DriveMutates, ActSucceeds, ActErrs, PollTimeout, PollSettles, Rollback, RollbackStarts, RollbackEnds,
       IInv, HoldsInv, Idle
  <2>2. UNCHANGED <<mode, lapsed>> /\ (UNCHANGED faults \/ Fault)
    BY <1>3 DEF CallStep, ReadFails, ReadRefuses, ReadNoop, ReadGated, ReadResumes, DriveEnds, DriveWaits,
       DriveMutates, ActSucceeds, ActErrs, PollTimeout, PollSettles, Rollback, RollbackStarts, RollbackEnds,
       mutate, Succeeds, Errs
  <2>3. faults' \in 0..MaxFaults
    BY <2>2 DEF Fault, TypeOK
  <2>4. call' \in {Idle} \/ call'.visits = call.visits
        \/ (~Stuck /\ call'.visits = [call.visits EXCEPT ![call.stage] = Seen])
    <3>1. ASSUME NEW pc, NEW s, Goto(pc, s) PROVE call'.visits = call.visits
      BY <2>1, <3>1 DEF Goto, Calls
    <3>2. ASSUME NEW s, finish(s) PROVE call' = Idle
      BY <3>2 DEF finish
    <3>3. CASE DriveWaits
      BY <2>1, <3>3 DEF DriveWaits, Calls
    <3>4. CASE DriveMutates
      <4>1. ~Stuck /\ (call' = Idle \/ call' = [call EXCEPT !.pc = "act", !.visits[call.stage] = Seen])
        BY <3>4 DEF DriveMutates, mutate, finish
      <4>. QED
        BY <2>1, <4>1 DEF Calls
    <3>5. CASE Rollback
      <4>1. call' = Idle \/ call' = [call EXCEPT !.pc = "rb-start"]
        BY <3>5 DEF Rollback, mutate, finish
      <4>. QED
        BY <2>1, <4>1 DEF Calls
    <3>6. CASE ReadFails \/ ReadRefuses \/ ReadNoop \/ ReadGated \/ ReadResumes \/ DriveEnds
      <4>1. call' = Idle \/ \E s : Goto("drive", s)
        BY <3>2, <3>6 DEF ReadFails, ReadRefuses, ReadNoop, ReadGated, ReadResumes, DriveEnds
      <4>. QED
        BY <3>1, <4>1
    <3>7. CASE ActSucceeds \/ ActErrs \/ PollTimeout \/ PollSettles \/ RollbackStarts \/ RollbackEnds
      <4>1. call' = Idle \/ \E pc, s : Goto(pc, s)
        BY <3>2, <3>7 DEF ActSucceeds, ActErrs, PollTimeout, PollSettles, RollbackStarts, RollbackEnds
      <4>. QED
        BY <3>1, <4>1
    <3>. QED
      BY <1>3, <3>3, <3>4, <3>5, <3>6, <3>7 DEF CallStep
  <2>5. Within(call')
    BY <1>2, <2>1, <2>4 DEF Stuck, Seen, Calls, Idle
  <2>. QED
    BY <1>1, <2>2, <2>3, <2>5 DEF TypeOK, HoldsInv, DownInv, Calls, Lives
<1>4. CASE \E k \in Keys : TurnedAway(k) \/ Begin(k)
  <2>1. UNCHANGED <<mode, lapsed, faults>> /\ Within(call')
    BY <1>2, <1>4 DEF TurnedAway, Begin, Busy
  <2>. QED
    BY <1>1, <2>1 DEF TypeOK, HoldsInv, DownInv, Calls, Lives
<1>5. CASE \E i \in Instances : Settles(i) \/ Outside(i)
  <2>1. UNCHANGED <<mode, lapsed, call>> /\ (UNCHANGED faults \/ Fault)
    BY <1>5 DEF Settles, Outside
  <2>. QED
    BY <1>1, <1>2, <2>1 DEF TypeOK, HoldsInv, DownInv, Calls, Lives, Fault
<1>6. CASE Lapse \/ Crash \/ UNCHANGED vars
  <2>1. /\ mode' \in Modes /\ lapsed' \in BOOLEAN
        /\ call' \in {call, Idle} /\ (UNCHANGED faults \/ Fault)
    BY <1>6 DEF Lapse, Crash, vars, TypeOK
  <2>. QED
    BY <1>1, <1>2, <2>1 DEF TypeOK, HoldsInv, DownInv, Calls, Lives, Fault
<1>. QED
  BY <1>3, <1>4, <1>5, <1>6 DEF Next

\* Whatever calls fail, wherever the process dies and whoever else works on the account: an
\* instance that this actuator stopped is on disk as unfinished until it runs again.
THEOREM StoppedIsNeverForgotten == Spec => []NeverForgotten
<1>1. IInv => NeverForgotten
  BY DEF IInv
<1>. QED
  BY <1>1, InitInv, NextInv, PTL DEF Spec

==============================================================================
