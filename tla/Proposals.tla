----------------------------- MODULE Proposals -----------------------------
(***************************************************************************)
(* The life of a policy proposal (pkg/whatif): gated when it is filed,     *)
(* approved by a person who did not write it, reported as applied, or      *)
(* rejected, expired and in the end evicted.  The store of the records is  *)
(* memory; a process loads it from a file, changes it and writes it back   *)
(* whole (cmd/kilter/proposals.go, pkg/store/proposals.go), and may crash  *)
(* before it does.                                                         *)
(*                                                                         *)
(* A proposal is content-addressed: its id is the author and the spec.     *)
(***************************************************************************)
EXTENDS Naturals, FiniteSets

CONSTANTS Processes,   \* processes that work on one store file
          Actors,      \* identities; the same person under any kind is one
          Humans,      \* the actors NewApprover accepts
          Specs,       \* what is proposed: what the gate is going to find
          MaxRecords,  \* the store's cap
          TTL, MaxHour \* approval lifetime; bound on the clock

VARIABLES book,    \* the file: a record per id, or Absent
          hands,   \* the store each process has loaded, or Closed
          hour,    \* the clock
          landed   \* history: what MarkApplied let through

vars == <<book, hands, hour, landed>>

Ids == [author : Actors, spec : Specs]
Absent == [state |-> "absent"]
Closed == <<>>
States == {"gated", "rejected", "approved", "applied", "expired"}

\* transitions: the edges a record may take once it is filed.
Edges == {<<"gated", "approved">>, <<"gated", "rejected">>, <<"approved", "applied">>,
          <<"approved", "expired">>, <<"approved", "rejected">>}
Terminal(r) == r.state \in {"rejected", "applied", "expired"}

Init ==
  /\ book = [id \in Ids |-> Absent]
  /\ hands = [p \in Processes |-> Closed]
  /\ hour = 0
  /\ landed = {}

(***************************************************************************)
(* Decide: the dominance rules, in order.  A spec says how its candidate   *)
(* compares with the incumbent over the replayed window; a field is TRUE   *)
(* when the rule of that name holds, and the last three are not looked at  *)
(* once the scorecards are not admissible.                                 *)
(***************************************************************************)
Rules == {"wellFormed", "envelope", "identity", "admissible",
          "coverage", "notRefusalCollapse", "strictImprovement"}

Failed(spec) ==
  IF ~spec.wellFormed THEN {"wellFormed"}
  ELSE {r \in IF spec.admissible THEN Rules ELSE {"envelope", "identity", "admissible"} :
           ~spec[r]}
Passed(spec) == Failed(spec) = {}

(***************************************************************************)
(* The file.                                                               *)
(***************************************************************************)
\* What UnmarshalJSON accepts: a gated record that passed, and a binding by a
\* person other than the author under every approved, applied or expired one.
Sound(id, r) ==
  CASE r.state = "gated" -> Passed(id.spec)
    [] r.state \in {"approved", "applied", "expired"} ->
          Passed(id.spec) /\ r.by \in Humans /\ r.by # id.author
    [] OTHER -> TRUE

Load(p) ==
  /\ hands[p] = Closed
  /\ \A id \in Ids : Sound(id, book[id])
  /\ hands' = [hands EXCEPT ![p] = book]
  /\ UNCHANGED <<book, hour, landed>>

\* A temporary file renamed over the target: all of it or nothing.
Save(p) ==
  /\ hands[p] # Closed
  /\ book' = hands[p]
  /\ UNCHANGED <<hands, hour, landed>>

Exit(p) ==
  /\ hands[p] # Closed
  /\ hands' = [hands EXCEPT ![p] = Closed]
  /\ UNCHANGED <<book, hour, landed>>

(***************************************************************************)
(* The operations of a loaded store.                                       *)
(***************************************************************************)
Put(p, id, r) ==
  /\ hands' = [hands EXCEPT ![p][id] = r]
  /\ UNCHANGED <<book, hour>>

Held(p) == {id \in Ids : hands[p][id] # Absent}
Oldest(p, ids) == {id \in ids : \A o \in ids : hands[p][id].created <= hands[p][o].created}

\* A mutant: the oldest record of all makes room.
EvictableAny(p) == Oldest(p, Held(p))

Evictable(p) == Oldest(p, {id \in Held(p) : Terminal(hands[p][id])})

\* A mutant: what failed the gate is filed as waiting, too.
FiledAsGated(id) == [state |-> "gated", created |-> hour]

Filed(id) == [state |-> IF Passed(id.spec) THEN "gated" ELSE "rejected",
              created |-> hour]

\* Create: an id that is there is returned unchanged; a full store gives up
\* its oldest terminal record or refuses.
Create(p, id) ==
  /\ hands[p] # Closed /\ id \notin Held(p)
  /\ \/ /\ Cardinality(Held(p)) < MaxRecords
        /\ Put(p, id, Filed(id))
     \/ /\ Cardinality(Held(p)) >= MaxRecords
        /\ \E old \in Evictable(p) :
             hands' = [hands EXCEPT ![p] = [@ EXCEPT ![old] = Absent, ![id] = Filed(id)]]
        /\ UNCHANGED <<book, hour>>
  /\ UNCHANGED landed

Approve(p, actor, id) ==
  /\ hands[p] # Closed /\ id \in Held(p)
  /\ actor \in Humans /\ actor # id.author
  /\ Passed(id.spec)
  /\ hands[p][id].state = "gated"
  /\ Put(p, id, [state |-> "approved", created |-> hands[p][id].created,
                 by |-> actor, expires |-> hour + TTL])
  /\ UNCHANGED landed

\* Any actor may reject; the approval goes with it.
Reject(p, id) ==
  /\ hands[p] # Closed /\ id \in Held(p)
  /\ <<hands[p][id].state, "rejected">> \in Edges
  /\ Put(p, id, [state |-> "rejected", created |-> hands[p][id].created])
  /\ UNCHANGED landed

\* A mutant: an approval is good for the hour after it ran out.
LiveTooLong(r) == hour <= r.expires + 1

Live(r) == hour <= r.expires
Expired(r) == [r EXCEPT !.state = "expired"]

\* MarkApplied looks at the approval again, and expires it when it is too late.
MarkApplied(p, id) ==
  /\ hands[p] # Closed /\ id \in Held(p)
  /\ hands[p][id].state = "approved"
  /\ Sound(id, hands[p][id])
  /\ IF Live(hands[p][id])
     THEN /\ Put(p, id, [hands[p][id] EXCEPT !.state = "applied"])
          /\ landed' = landed \union
               {[id |-> id, by |-> hands[p][id].by, late |-> hour > hands[p][id].expires]}
     ELSE Put(p, id, Expired(hands[p][id])) /\ UNCHANGED landed

Sweep(p) ==
  /\ hands[p] # Closed
  /\ hands' = [hands EXCEPT ![p] = [id \in Ids |->
                 IF @[id].state = "approved" /\ ~Live(@[id]) THEN Expired(@[id]) ELSE @[id]]]
  /\ UNCHANGED <<book, hour, landed>>

Tick ==
  /\ hour < MaxHour
  /\ hour' = hour + 1
  /\ UNCHANGED <<book, hands, landed>>

Next ==
  \/ Tick
  \/ \E p \in Processes :
       \/ Load(p) \/ Save(p) \/ Exit(p) \/ Sweep(p)
       \/ \E id \in Ids :
            \/ Create(p, id) \/ Reject(p, id) \/ MarkApplied(p, id)
            \/ \E actor \in Actors : Approve(p, actor, id)

Spec == Init /\ [][Next]_vars

-----------------------------------------------------------------------------
\* Whatever the loads, saves, crashes and evictions in between, a change that
\* was let through as applied had passed the gate, was approved by a person who
\* is not its author, and was applied before that approval ran out
\* (store.go: "the only path to StateApplied runs through the gate and an
\* approval").
AppliedIsJustified ==
  \A l \in landed : Passed(l.id.spec) /\ l.by \in Humans /\ l.by # l.id.author /\ ~l.late

\* The file can always be loaded again: UnmarshalJSON re-checks every record and
\* refuses the whole file for one that is not sound, so no sequence of
\* operations, evictions and expiries may write such a record.
BookLoads == \A id \in Ids : Sound(id, book[id])

\* A proposal that waits for a person is never dropped to make room, and no
\* record of a loaded store leaves a terminal state except by being evicted.
KeepsPending ==
  \A p \in Processes, id \in Ids :
    hands[p] # Closed /\ hands'[p] # Closed /\ id \in Held(p) =>
      \/ hands'[p][id] = Absent /\ Terminal(hands[p][id])
      \/ hands'[p][id] # Absent
         /\ \/ hands'[p][id].state = hands[p][id].state
            \/ <<hands[p][id].state, hands'[p][id].state>> \in Edges
PendingIsKept == [][KeepsPending]_vars
=============================================================================
