-------------------------- MODULE AutoScalingProofs --------------------------
(* Proofs about AutoScaling, for every bound and any failures. *)
EXTENDS AutoScaling, TLAPS, FiniteSetTheorems, NaturalsInduction, WellFoundedInduction

(* ---- The inductive invariant ---- *)

\* What the bounds of an instance of the module have to be.
Bounds == MaxFaults \in Nat /\ MaxOutside \in Nat /\ MaxVersions \in Nat \ {0} /\ MaxRefreshes \in Nat \ {0}

Types == {"from", "to", "other"}
Refreshes == [status : {"active", "Successful", "RolledBack", "Failed"}, version : 1..MaxVersions]
Aiming == {"create", "modify", "start", "call-create", "call-modify", "call-start"}
Calls == [pc : {"read"}, key : Keys] \cup [pc : Aiming \cup {"await"}, key : Keys, target : 0..MaxVersions]

\* Every version that is named exists, and the call is one there is.
HoldsInv ==
  /\ Len(cloud.versions) <= MaxVersions /\ cloud.default \in DOMAIN cloud.versions
  /\ Len(cloud.refreshes) <= MaxRefreshes
  /\ \A r \in DOMAIN cloud.refreshes : cloud.refreshes[r].version \in DOMAIN cloud.versions
  /\ \A k \in Keys : cloud.token[k] # 0 => /\ cloud.token[k] \in DOMAIN cloud.versions
                                           /\ cloud.versions[cloud.token[k]] = ToType(k)
  /\ \A k \in Keys : ledger[k].prior \in {0} \cup DOMAIN cloud.versions
  /\ \A k \in Keys : disk[k].prior \in {0} \cup DOMAIN cloud.versions
  /\ call = Idle \/ call \in Calls

\* A call only points the group at, and only refreshes onto, what its step wants.
AimInv ==
  /\ call.pc \in {"modify", "call-modify"} => cloud.ref = "$Default"
  /\ call.pc \in Aiming \ {"create", "call-create"} =>
       call.target \in DOMAIN cloud.versions /\ cloud.versions[call.target] = ToType(call.key)
  /\ call.pc = "await" => cloud.refreshes # <<>>

\* Only the newest refresh can be active, what succeeded last is what the fleet runs, and a
\* refresh a step started is pinned to what that step wants.
RefreshInv ==
  /\ \A r \in DOMAIN cloud.refreshes : Active(r) => r = Len(cloud.refreshes)
  /\ cloud.refreshes # <<>> =>
       LET last == cloud.refreshes[Len(cloud.refreshes)]
       IN last.status = "Successful" => cloud.fleet = cloud.versions[last.version]
  /\ \A k \in Keys : \A r \in started[k] :
       r \in DOMAIN cloud.refreshes /\ cloud.versions[cloud.refreshes[r].version] = ToType(k)

\* While nobody else changes the template of a step, it has the version it made and the source
\* it pointed the group at, and a step about to change or refresh anything has refreshed nothing.
OnceInv ==
  \A k \in Keys \ touched :
    /\ cloud.token[k] \in {0, Len(cloud.versions)}
    /\ call # Idle /\ call.key = k =>
         /\ call.pc \in {"start", "call-start"} => cloud.versions[Source] = ToType(k)
         /\ call.pc \in Aiming => started[k] = {}
    /\ started[k] # {} =>
         /\ cloud.refreshes # <<>> /\ cloud.versions[Source] = ToType(k)
         /\ \E r \in started[k] : started[k] = {r}

\* A step that ended stays ended, and no call is for one.
BooksInv ==
  /\ \A k \in Keys : Terminal(disk[k]) => ledger[k].status = disk[k].status
  /\ call # Idle => ~Terminal(ledger[call.key])

IInv == TypeOK /\ HoldsInv /\ AimInv /\ RefreshInv /\ OnceInv /\ BooksInv
(* ---- Versions and entries ---- *)

Statuses == {"none", "open", "dry-run", "no-op", "done", "in-flight", "rolled-back", "refused", "failed"}

Clouds == [ref : {"$Default", "$Latest"}, versions : Seq(Types), default : 1..MaxVersions,
           refreshes : Seq(Refreshes), fleet : {"from", "to", "other", "mixed"},
           token : [Keys -> 0..MaxVersions]]

\* One more version, or refresh, leaves the others where they are.
LEMMA Appended ==
    ASSUME NEW S, NEW s \in Seq(S), NEW e \in S
    PROVE  /\ Append(s, e) \in Seq(S) /\ Len(Append(s, e)) = Len(s) + 1 /\ Append(s, e) # <<>>
           /\ DOMAIN s = 1..Len(s) /\ DOMAIN Append(s, e) = 1..(Len(s) + 1) /\ Len(s) \in Nat
           /\ Append(s, e)[Len(s) + 1] = e
           /\ \A i \in DOMAIN s : i \in DOMAIN Append(s, e) /\ Append(s, e)[i] = s[i]
OBVIOUS

\* What the invariant says of the group, and of the version its source is.
LEMMA CloudTypes ==
    ASSUME Bounds, IInv
    PROVE  /\ cloud \in Clouds /\ Len(cloud.versions) \in 1..MaxVersions
           /\ DOMAIN cloud.versions = 1..Len(cloud.versions)
           /\ DOMAIN cloud.refreshes = 1..Len(cloud.refreshes) /\ Len(cloud.refreshes) \in 0..MaxRefreshes
           /\ Source \in DOMAIN cloud.versions
<1>1. cloud \in Clouds
  BY DEF IInv, TypeOK, Clouds, Types, Refreshes
<1>2. Len(cloud.versions) <= MaxVersions /\ cloud.default \in DOMAIN cloud.versions
      /\ Len(cloud.refreshes) <= MaxRefreshes
  BY DEF IInv, HoldsInv
<1>3. cloud.versions \in Seq(Types) /\ cloud.refreshes \in Seq(Refreshes)
  BY <1>1 DEF Clouds
<1>. QED
  BY <1>1, <1>2, <1>3 DEF Source, Bounds

\* The entries of both ledgers, and what an entry may become.
LEMMA EntryTypes ==
    ASSUME IInv
    PROVE  /\ ledger \in [Keys -> Entry] /\ disk \in [Keys -> Entry]
           /\ \A e \in Entry : \A s \in Statuses :
                [e EXCEPT !.status = s] \in Entry /\ [e EXCEPT !.status = s].prior = e.prior
                /\ [e EXCEPT !.status = s].status = s
BY DEF IInv, TypeOK, Entry, Statuses

\* A fault that happens is one of those that may.
LEMMA FaultTypes ==
    ASSUME Bounds, IInv, UNCHANGED faults \/ Fault
    PROVE  faults' \in [own : 0..MaxFaults, outside : 0..MaxOutside]
BY DEF Fault, IInv, TypeOK, Bounds

(* ---- The invariant is inductive ---- *)

\* Nothing is started at the start.
LEMMA InitInv == Bounds /\ Init => IInv
<1>. SUFFICES ASSUME Bounds, Init PROVE IInv
  OBVIOUS
<1>. USE DEF Bounds, Keys, Idle
<1>0. /\ ledger = [k \in Keys |-> NoEntry] /\ disk = ledger /\ call = Idle /\ mode \in Modes
      /\ lapsed = FALSE /\ faults = [own |-> 0, outside |-> 0]
      /\ started = [k \in Keys |-> {}] /\ touched = {}
  BY DEF Init
<1>1. cloud \in Clouds /\ Len(cloud.versions) = 1 /\ Len(cloud.refreshes) \in {0, 1}
      /\ DOMAIN cloud.versions = {1} /\ cloud.versions[1] = "from" /\ cloud.fleet = "from"
      /\ (cloud.refreshes = <<>> \/ cloud.refreshes = <<[status |-> "Successful", version |-> 1]>>)
      /\ cloud.token = [k \in Keys |-> 0] /\ cloud.default = 1
  <2>1. /\ cloud \in [ref : {"$Default", "$Latest"}, versions : {<<"from">>}, default : {1},
                      refreshes : {<<>>, <<[status |-> "Successful", version |-> 1]>>},
                      fleet : {"from"}, token : {[k \in Keys |-> 0]}]
    BY DEF Init
  <2>2. /\ <<"from">> \in Seq(Types) /\ <<>> \in Seq(Refreshes)
        /\ <<[status |-> "Successful", version |-> 1]>> \in Seq(Refreshes)
        /\ [k \in Keys |-> 0] \in [Keys -> 0..MaxVersions] /\ 1 \in 1..MaxVersions
    BY DEF Types, Refreshes
  <2>3. cloud \in Clouds
    BY <2>1, <2>2 DEF Clouds
  <2>. QED
    BY <2>1, <2>3
<1>2. ledger \in [Keys -> Entry] /\ disk \in [Keys -> Entry]
      /\ \A k \in Keys : ledger[k] = NoEntry /\ disk[k] = NoEntry
  BY <1>0 DEF Entry, NoEntry
<1>3. TypeOK
  <2>1. started \in [Keys -> SUBSET (1..MaxRefreshes)] /\ touched \subseteq Keys
    BY <1>0
  <2>2. faults \in [own : 0..MaxFaults, outside : 0..MaxOutside] /\ mode \in Modes
    BY <1>0
  <2>3. lapsed \in BOOLEAN
    BY <1>0
  <2>. QED
    BY <1>1, <1>2, <2>1, <2>2, <2>3 DEF TypeOK, Clouds, Types, Refreshes
<1>4. \A r \in DOMAIN cloud.refreshes :
        r = 1 /\ cloud.refreshes[r].version = 1 /\ cloud.refreshes[r].status = "Successful"
  BY <1>1
<1>5. HoldsInv
  <2>1. \A k \in Keys : cloud.token[k] = 0 /\ ledger[k].prior = 0 /\ disk[k].prior = 0
    BY <1>1, <1>2 DEF NoEntry
  <2>2. MaxVersions \in Nat /\ MaxVersions >= 1 /\ MaxRefreshes \in Nat /\ MaxRefreshes >= 1
    OBVIOUS
  <2>3. Len(cloud.versions) <= MaxVersions
    BY <1>1, <2>2
  <2>4. Len(cloud.refreshes) <= MaxRefreshes
    <3>1. CASE Len(cloud.refreshes) = 0
      BY <2>2, <3>1
    <3>2. CASE Len(cloud.refreshes) = 1
      BY <2>2, <3>2
    <3>. QED
      BY <1>1, <3>1, <3>2
  <2>. QED
    BY <1>0, <1>1, <1>4, <2>1, <2>3, <2>4 DEF HoldsInv
<1>6. AimInv /\ BooksInv
  BY <1>0, <1>2 DEF AimInv, Aiming, BooksInv, NoEntry, Terminal
<1>7. RefreshInv
  <2>1. cloud.refreshes # <<>> => cloud.refreshes[Len(cloud.refreshes)].version = 1
    BY <1>1
  <2>2. \A k \in Keys : started[k] = {}
    BY <1>0
  <2>. QED
    BY <1>1, <1>4, <2>1, <2>2 DEF RefreshInv, Active
<1>8. OnceInv
  BY <1>0, <1>1 DEF OnceInv
<1>. QED
  BY <1>3, <1>5, <1>6, <1>7, <1>8 DEF IInv

\* A call returns, or an entry is turned away: the group is as it was.
LEMMA Returns ==
    ASSUME Bounds, IInv, UNCHANGED <<world, stable>>, UNCHANGED faults \/ Fault, call' = Idle,
           NEW k \in Keys, ~Terminal(ledger[k]), NEW e \in Entry,
           e.prior \in {0} \cup DOMAIN cloud.versions, ledger' = [ledger EXCEPT ![k] = e]
    PROVE  IInv'
<1>. USE DEF world, stable
<1>1. ledger' \in [Keys -> Entry] /\ \A j \in Keys : ledger'[j] = IF j = k THEN e ELSE ledger[j]
  BY EntryTypes
<1>2. faults' \in [own : 0..MaxFaults, outside : 0..MaxOutside]
  BY FaultTypes
<1>3. TypeOK'
  BY <1>1, <1>2 DEF IInv, TypeOK
<1>4. HoldsInv'
  BY <1>1 DEF IInv, HoldsInv
<1>5. AimInv' /\ RefreshInv' /\ OnceInv'
  BY DEF IInv, AimInv, RefreshInv, OnceInv, Active, Source, Idle, Aiming
<1>6. BooksInv'
  BY <1>1 DEF IInv, BooksInv, Terminal
<1>. QED
  BY <1>3, <1>4, <1>5, <1>6 DEF IInv

\* A call goes on with the group as it was, at something its step wants.
LEMMA GoesOn ==
    ASSUME Bounds, IInv, UNCHANGED <<world, mode, lapsed, faults>>,
           NEW k \in Keys, ~Terminal(ledger[k]), NEW e \in Entry, ~Terminal(e),
           e.prior \in {0} \cup DOMAIN cloud.versions, ledger' = [ledger EXCEPT ![k] = e],
           disk' = disk \/ disk' = ledger', call' \in Calls, call'.key = k, AimInv',
           k \in touched \/ (/\ call'.pc \in {"start", "call-start"} => cloud.versions[Source] = ToType(k)
                             /\ call'.pc \in Aiming => started[k] = {})
    PROVE  IInv'
<1>. USE DEF world
<1>1. ledger' \in [Keys -> Entry] /\ \A j \in Keys : ledger'[j] = IF j = k THEN e ELSE ledger[j]
  BY EntryTypes
<1>2. TypeOK'
  BY <1>1 DEF IInv, TypeOK
<1>3. HoldsInv'
  BY <1>1 DEF IInv, HoldsInv
<1>4. RefreshInv'
  BY DEF IInv, RefreshInv, Active
<1>5. call' # Idle
  BY DEF Calls, Idle, Aiming
<1>6. OnceInv'
  BY <1>5 DEF IInv, OnceInv, Source
<1>7. BooksInv'
  BY <1>1, <1>5 DEF IInv, BooksInv, Terminal
<1>. QED
  BY <1>2, <1>3, <1>4, <1>6, <1>7 DEF IInv

\* A call starts, or the approval has lapsed.
LEMMA BeginKeeps == Bounds /\ IInv /\ (\E k \in Keys : TurnedAway(k) \/ Begin(k)) => IInv'
<1>. SUFFICES ASSUME Bounds, IInv, NEW k \in Keys, TurnedAway(k) \/ Begin(k) PROVE IInv'
  OBVIOUS
<1>1. ledger[k] \in Entry /\ ledger[k].prior \in {0} \cup DOMAIN cloud.versions /\ ~Terminal(ledger[k])
  BY EntryTypes DEF IInv, HoldsInv, TurnedAway, Begin
<1>2. CASE TurnedAway(k)
  <2>. DEFINE e == [ledger[k] EXCEPT !.status = "refused"]
  <2>1. e \in Entry /\ e.prior = ledger[k].prior
    BY <1>1, EntryTypes DEF Statuses
  <2>2. UNCHANGED <<world, stable, faults, call>> /\ call.pc = "idle" /\ ledger' = [ledger EXCEPT ![k] = e]
    BY <1>2, EntryTypes DEF TurnedAway, At
  <2>3. call' = Idle
    BY <2>2 DEF IInv, HoldsInv, Calls, Aiming
  <2>. HIDE DEF e
  <2>. QED
    BY <1>1, <2>1, <2>2, <2>3, Returns
<1>3. CASE Begin(k)
  <2>. DEFINE e == [ledger[k] EXCEPT !.status = IF @ = "none" THEN "open" ELSE @]
  <2>1. e \in Entry /\ e.prior = ledger[k].prior /\ ~Terminal(e)
    BY <1>1 DEF Entry, Terminal
  <2>2. UNCHANGED <<world, stable, faults>> /\ ledger' = [ledger EXCEPT ![k] = e]
        /\ call' = [pc |-> "read", key |-> k]
    BY <1>3, EntryTypes DEF Begin
  <2>3. call' \in Calls /\ call'.key = k /\ call'.pc = "read"
    BY <2>2 DEF Calls
  <2>4. AimInv'
    BY <2>3 DEF AimInv, Aiming
  <2>. HIDE DEF e
  <2>. QED
    BY <1>1, <2>1, <2>2, <2>3, <2>4, GoesOn DEF stable, Aiming
<1>. QED
  BY <1>2, <1>3

\* The step of a call that is at work, and its entry.
LEMMA AtWork ==
    ASSUME IInv, call.pc # "idle"
    PROVE  /\ call \in Calls /\ call.key \in Keys /\ call # Idle
           /\ ledger[call.key] \in Entry /\ ~Terminal(ledger[call.key])
           /\ ledger[call.key].prior \in {0} \cup DOMAIN cloud.versions
<1>1. call \in Calls /\ call # Idle
  BY DEF IInv, HoldsInv, Idle
<1>2. call.key \in Keys
  BY <1>1 DEF Calls
<1>. QED
  BY <1>1, <1>2, EntryTypes DEF IInv, HoldsInv, BooksInv

\* A call that returns with a status leaves everything else.
LEMMA FinishKeeps ==
    ASSUME Bounds, IInv, call.pc # "idle", NEW s \in Statuses, finish(s),
           UNCHANGED <<world, stable>>, UNCHANGED faults \/ Fault
    PROVE  IInv'
<1>. DEFINE e == [ledger[call.key] EXCEPT !.status = s]
<1>1. e \in Entry /\ e.prior = ledger[call.key].prior
  BY AtWork, EntryTypes
<1>2. ledger' = [ledger EXCEPT ![call.key] = e] /\ call' = Idle
  BY AtWork, EntryTypes DEF finish
<1>. HIDE DEF e
<1>. QED
  BY <1>1, <1>2, AtWork, Returns

\* The default that is recorded is a version, and the status goes on top of it.
LEMMA RecordedTypes ==
    ASSUME Bounds, IInv, NEW k \in Keys
    PROVE  /\ Recorded(k)[k] \in Entry /\ Recorded(k)[k].prior \in {0} \cup DOMAIN cloud.versions
           /\ Recorded(k)[k].status = ledger[k].status
           /\ Recorded(k) = [ledger EXCEPT ![k] = Recorded(k)[k]]
           /\ \A s : [Recorded(k) EXCEPT ![k].status = s] = [ledger EXCEPT ![k] = [Recorded(k)[k] EXCEPT !.status = s]]
<1>1. ledger[k] \in Entry /\ ledger \in [Keys -> Entry] /\ ledger[k].prior \in {0} \cup DOMAIN cloud.versions
  BY EntryTypes DEF IInv, HoldsInv
<1>2. cloud.default \in 1..MaxVersions /\ cloud.default \in DOMAIN cloud.versions
  BY CloudTypes DEF Clouds, IInv, HoldsInv
<1>3. Recorded(k)[k] = [ledger[k] EXCEPT !.prior = IF @ = 0 THEN cloud.default ELSE @]
  BY <1>1 DEF Recorded
<1>4. Recorded(k)[k] \in Entry /\ Recorded(k)[k].prior \in {0} \cup DOMAIN cloud.versions
      /\ Recorded(k)[k].status = ledger[k].status
  BY <1>1, <1>2, <1>3 DEF Entry
<1>5. Recorded(k) = [ledger EXCEPT ![k] = Recorded(k)[k]]
  BY <1>1, <1>3 DEF Recorded
<1>6. \A s : [Recorded(k) EXCEPT ![k].status = s] = [ledger EXCEPT ![k] = [Recorded(k)[k] EXCEPT !.status = s]]
  BY <1>1, <1>5
<1>. QED
  BY <1>4, <1>5, <1>6

\* A read that ends the call records the default it saw.
LEMMA RecordsAndReturns ==
    ASSUME Bounds, IInv, call.pc = "read", NEW s \in Statuses, UNCHANGED <<world, stable, faults>>,
           ledger' = [Recorded(call.key) EXCEPT ![call.key].status = s], call' = Idle
    PROVE  IInv'
<1>. DEFINE e == [Recorded(call.key)[call.key] EXCEPT !.status = s]
<1>1. e \in Entry /\ e.prior = Recorded(call.key)[call.key].prior
  BY AtWork, RecordedTypes, EntryTypes
<1>2. ledger' = [ledger EXCEPT ![call.key] = e] /\ e.prior \in {0} \cup DOMAIN cloud.versions
  BY <1>1, AtWork, RecordedTypes
<1>. HIDE DEF e
<1>. QED
  BY <1>1, <1>2, AtWork, Returns

\* The reads that end a call.
LEMMA ReadsKeep == Bounds /\ IInv /\ (ReadFails \/ ReportRefresh \/ ReadStops) => IInv'
<1>. SUFFICES ASSUME Bounds, IInv, ReadFails \/ ReportRefresh \/ ReadStops PROVE IInv'
  OBVIOUS
<1>1. CASE ReadFails
  BY <1>1, FinishKeeps DEF ReadFails, At, Statuses
<1>2. CASE ReportRefresh
  <2>. DEFINE s == CASE cloud.refreshes[latestRefresh].status = "Successful" -> "no-op"
                     [] cloud.refreshes[latestRefresh].status = "RolledBack" -> "rolled-back"
                     [] OTHER -> "failed"
  <2>1. s \in Statuses
    BY DEF Statuses
  <2>2. call.pc = "read" /\ ledger' = [Recorded(call.key) EXCEPT ![call.key].status = s]
        /\ call' = Idle /\ UNCHANGED <<world, stable, faults>>
    BY <1>2 DEF ReportRefresh, Readable, At
  <2>. HIDE DEF s
  <2>. QED
    BY <2>1, <2>2, RecordsAndReturns
<1>3. CASE ReadStops
  BY <1>3, RecordsAndReturns DEF ReadStops, Readable, At, Statuses
<1>. QED
  BY <1>1, <1>2, <1>3

\* A set of numbers has a least one.
LEMMA Least ==
    ASSUME NEW S \in SUBSET Nat, S # {}
    PROVE  \E v \in S : \A w \in S : v <= w
<1>. DEFINE R == OpToRel(<, Nat)
<1>1. IsWellFoundedOn(R, Nat)
  BY NatLessThanWellFounded
<1>2. \A x, y \in Nat : x < y => <<x, y>> \in R
  BY DEF OpToRel
<1>. HIDE DEF R
<1>3. PICK v \in S : \A w \in S : ~(<<w, v>> \in R)
  <2>1. \E v \in S : \A w \in S : ~(<<w, v>> \in R)
    BY <1>1, WFMin
  <2>. QED
    BY <2>1
<1>4. ASSUME NEW w \in S PROVE v <= w
  <2>1. ~(w < v) /\ w \in Nat /\ v \in Nat
    BY <1>2, <1>3
  <2>. QED
    BY <2>1
<1>. QED
  BY <1>4

\* Looking for a version finds one that carries the type.
LEMMA FoundCarries ==
    ASSUME Bounds, IInv, NEW type, findVersionWithType(type) # 0
    PROVE  /\ findVersionWithType(type) \in DOMAIN cloud.versions /\ findVersionWithType(type) > Source
           /\ cloud.versions[findVersionWithType(type)] = type
<1>. DEFINE newer == {v \in DOMAIN cloud.versions : v > Source /\ cloud.versions[v] = type}
            least == CHOOSE v \in newer : \A w \in newer : v <= w
<1>1. newer # {} /\ findVersionWithType(type) = least
  BY DEF findVersionWithType
<1>2. newer \in SUBSET Nat
  BY CloudTypes
<1>3. \E v \in newer : \A w \in newer : v <= w
  <2>. HIDE DEF newer
  <2>. QED
    BY <1>1, <1>2, Least
<1>4. least \in newer
  BY <1>3
<1>. QED
  BY <1>1, <1>4

\* The stage of a group that is not refreshing and has refreshes is not one a step starts from.
LEMMA LatestIsNewest ==
    ASSUME Bounds, IInv
    PROVE  /\ latestRefresh = Len(cloud.refreshes)
           /\ latestRefresh # 0 => latestRefresh \in DOMAIN cloud.refreshes
<1>. DEFINE active == {r \in DOMAIN cloud.refreshes : Active(r)}
<1>1. \A r \in active : r = Len(cloud.refreshes)
  BY DEF IInv, RefreshInv
<1>2. DOMAIN cloud.refreshes = 1..Len(cloud.refreshes) /\ Len(cloud.refreshes) \in Nat
  BY CloudTypes
<1>3. CASE active = {}
  BY <1>2, <1>3 DEF latestRefresh
<1>4. CASE active # {}
  <2>1. active = {Len(cloud.refreshes)}
    BY <1>1, <1>4
  <2>2. (CHOOSE r \in active : \A q \in active : q <= r) = Len(cloud.refreshes)
    <3>. HIDE DEF active
    <3>. QED
      BY <1>2, <2>1
  <2>. QED
    BY <1>2, <1>4, <2>2 DEF latestRefresh
<1>. QED
  BY <1>3, <1>4

\* What a call goes on to is what its step still wants.
LEMMA ReadProceedsKeeps == Bounds /\ IInv /\ ReadProceeds => IInv'
<1>. SUFFICES ASSUME Bounds, IInv, ReadProceeds PROVE IInv'
  OBVIOUS
<1>. DEFINE k == call.key
            e == Recorded(k)[k]
            found == findVersionWithType(ToType(k))
<1>1. /\ call.pc = "read" /\ k \in Keys /\ ~Terminal(ledger[k]) /\ UNCHANGED <<world, stable, faults>>
      /\ asgStage(k) # "refreshed" /\ ledger' = Recorded(k)
  BY AtWork DEF ReadProceeds, Readable, At
<1>2. e \in Entry /\ e.prior \in {0} \cup DOMAIN cloud.versions /\ ~Terminal(e)
      /\ ledger' = [ledger EXCEPT ![k] = e]
  BY <1>1, RecordedTypes DEF Terminal
<1>3. /\ DOMAIN cloud.versions = 1..Len(cloud.versions) /\ Len(cloud.versions) \in 1..MaxVersions
      /\ Source \in DOMAIN cloud.versions /\ MaxVersions \in Nat
  BY CloudTypes DEF Bounds
<1>4. found # 0 => found \in DOMAIN cloud.versions /\ found > Source /\ cloud.versions[found] = ToType(k)
  BY FoundCarries
<1>5. Prior(k) # 0 => Prior(k) \in DOMAIN cloud.versions /\ cloud.versions[Prior(k)] = ToType(k)
                      /\ cloud.ref = "$Default"
  BY DEF Prior, IInv, HoldsInv, Keys
<1>6. PICK pc \in {"await", "start", "modify", "create"}, target \in {0} \cup DOMAIN cloud.versions :
        /\ call' = [pc |-> pc, key |-> k, target |-> target]
        /\ pc = "await" => asgStage(k) = "refreshing"
        /\ pc # "await" => asgStage(k) \in {"template-versioned", "template-ready"}
        /\ pc \in {"start", "modify"} => target # 0 /\ cloud.versions[target] = ToType(k)
        /\ pc = "start" => asgStage(k) = "template-versioned"
        /\ pc = "modify" => cloud.ref = "$Default"
  <2>1. asgStage(k) \in {"refreshing", "template-ready", "template-versioned"}
    BY <1>1 DEF asgStage
  <2>2. asgStage(k) = "template-versioned" => cloud.versions[Source] = ToType(k) /\ Source # 0
    BY <1>3 DEF asgStage
  <2>3. cloud.ref = "$Latest" => found = 0
    BY <1>3, <1>4 DEF Source
  <2>4. call' = IF asgStage(k) = "refreshing" THEN [pc |-> "await", key |-> k, target |-> found]
                ELSE IF asgStage(k) = "template-versioned"
                     THEN [pc |-> "start", key |-> k, target |-> IF found # 0 THEN found ELSE Source]
                ELSE IF Prior(k) # 0 THEN [pc |-> "modify", key |-> k, target |-> Prior(k)]
                ELSE IF found # 0 THEN [pc |-> IF cloud.ref = "$Latest" THEN "start" ELSE "modify",
                                        key |-> k, target |-> found]
                ELSE [pc |-> "create", key |-> k, target |-> 0]
    BY DEF ReadProceeds
  <2>5. cloud.ref \in {"$Default", "$Latest"}
    BY CloudTypes DEF Clouds
  <2>. HIDE DEF found
  <2>. QED
    BY <1>3, <1>4, <1>5, <2>1, <2>2, <2>3, <2>4, <2>5
<1>7. call' \in Calls /\ call'.key = k /\ call'.pc = pc /\ call'.target = target
  BY <1>1, <1>3, <1>6 DEF Calls, Aiming
<1>8. UNCHANGED <<cloud, started, touched>>
  BY <1>1 DEF world
<1>9. pc = "await" => cloud.refreshes # <<>>
  BY <1>6, LatestIsNewest, CloudTypes DEF asgStage
<1>10. AimInv'
  BY <1>3, <1>6, <1>7, <1>8, <1>9 DEF AimInv, Aiming
<1>11. k \in touched \/ (/\ pc = "start" => cloud.versions[Source] = ToType(k)
                         /\ pc \in Aiming => started[k] = {})
  <2>1. CASE k \in touched
    BY <2>1
  <2>2. CASE k \notin touched
    <3>1. started[k] # {} => cloud.refreshes # <<>> /\ cloud.versions[Source] = ToType(k)
      BY <1>1, <2>2 DEF IInv, OnceInv
    <3>2. asgStage(k) \in {"template-versioned", "template-ready"} => started[k] = {}
      BY <3>1, LatestIsNewest, CloudTypes DEF asgStage
    <3>3. asgStage(k) = "template-versioned" => cloud.versions[Source] = ToType(k)
      BY DEF asgStage
    <3>. QED
      BY <1>6, <3>2, <3>3 DEF Aiming
  <2>. QED
    BY <2>1, <2>2
<1>. HIDE DEF e, k
<1>. QED
  BY <1>1, <1>2, <1>6, <1>7, <1>8, <1>10, <1>11, GoesOn DEF stable

\* Each call is noted on disk before it is made.
LEMMA MutateKeeps == Bounds /\ IInv /\ Mutate => IInv'
<1>. SUFFICES ASSUME Bounds, IInv, Mutate PROVE IInv'
  OBVIOUS
<1>. DEFINE k == call.key
            e == [ledger[k] EXCEPT !.status = "in-flight"]
            noted == [ledger EXCEPT ![k].status = "in-flight"]
<1>1. call.pc \in {"create", "modify", "start"} /\ call.pc # "idle" /\ UNCHANGED <<world, mode, lapsed>>
  BY DEF Mutate
<1>2. call \in Calls /\ k \in Keys /\ ~Terminal(ledger[k]) /\ ledger[k].prior \in {0} \cup DOMAIN cloud.versions
  BY <1>1, AtWork
<1>3. e \in Entry /\ e.prior = ledger[k].prior /\ ~Terminal(e) /\ noted = [ledger EXCEPT ![k] = e]
  BY <1>2, EntryTypes DEF Statuses, Terminal
<1>4. CASE ledger' = noted /\ disk' = noted /\ call' = [call EXCEPT !.pc = Calling(@)] /\ UNCHANGED faults
  <2>1. Calling(call.pc) = CASE call.pc = "create" -> "call-create" [] call.pc = "modify" -> "call-modify"
                             [] call.pc = "start" -> "call-start"
    BY DEF Calling
  <2>2. /\ call' \in Calls /\ call'.key = k /\ call'.target = call.target
        /\ call'.pc = Calling(call.pc)
    BY <1>1, <1>2, <1>4, <2>1 DEF Calls, Aiming
  <2>3. AimInv'
    BY <1>1, <2>1, <2>2 DEF IInv, AimInv, Aiming, world
  <2>4. k \in touched \/ (/\ call'.pc = "call-start" => cloud.versions[Source] = ToType(k)
                          /\ started[k] = {})
    BY <1>1, <1>2, <2>1, <2>2, AtWork DEF IInv, OnceInv, Aiming
  <2>5. call'.pc # "start"
    BY <1>1, <2>1, <2>2
  <2>. HIDE DEF e, k
  <2>. QED
    BY <1>1, <1>2, <1>3, <1>4, <2>2, <2>3, <2>4, <2>5, GoesOn
<1>5. CASE Fault /\ finish("failed") /\ UNCHANGED disk
  BY <1>1, <1>5, FinishKeeps DEF stable, Statuses
<1>. QED
  BY <1>4, <1>5 DEF Mutate

\* A refresh that is not started, and one that has ended.
LEMMA StartFailsKeeps == Bounds /\ IInv /\ (StartFails \/ AwaitRefresh) => IInv'
<1>. SUFFICES ASSUME Bounds, IInv, StartFails \/ AwaitRefresh PROVE IInv'
  OBVIOUS
<1>1. CASE StartFails
  BY <1>1, FinishKeeps DEF StartFails, At, Statuses
<1>2. CASE AwaitRefresh
  <2>. DEFINE r == latestRefresh
              outcome == CASE cloud.refreshes[r].status = "active"     -> "in-flight"
                           [] cloud.refreshes[r].status = "Successful" -> "done"
                           [] cloud.refreshes[r].status = "RolledBack" -> "rolled-back"
                           [] OTHER                                    -> "failed"
              e == [ledger[call.key] EXCEPT !.status = outcome,
                      !.refresh = IF outcome = "in-flight" THEN @ ELSE r]
  <2>1. outcome \in Statuses
    BY DEF Statuses
  <2>2. r \in 0..MaxRefreshes
    BY LatestIsNewest, CloudTypes
  <2>3. call.pc # "idle" /\ ledger[call.key] \in Entry /\ call.key \in Keys /\ ~Terminal(ledger[call.key])
    BY <1>2, AtWork DEF AwaitRefresh, At
  <2>4. ledger' = [ledger EXCEPT ![call.key].status = outcome,
                     ![call.key].refresh = IF outcome = "in-flight" THEN @ ELSE r]
        /\ call' = Idle /\ UNCHANGED <<world, stable, faults>>
    BY <1>2 DEF AwaitRefresh
  <2>. HIDE DEF outcome, r
  <2>5. e \in Entry /\ e.prior = ledger[call.key].prior
    BY <2>1, <2>2, <2>3 DEF Entry, Statuses
  <2>6. ledger' = [ledger EXCEPT ![call.key] = e]
    BY <2>3, <2>4, EntryTypes
  <2>. HIDE DEF e
  <2>. QED
    BY <2>3, <2>4, <2>5, <2>6, AtWork, Returns
<1>. QED
  BY <1>1, <1>2

\* An approval lapses; a process that starts again has what was written.
LEMMA CrashKeeps == Bounds /\ IInv /\ (Lapse \/ Crash) => IInv'
<1>. SUFFICES ASSUME Bounds, IInv, Lapse \/ Crash PROVE IInv'
  OBVIOUS
<1>1. CASE Lapse
  BY <1>1 DEF Lapse, world, IInv, TypeOK, HoldsInv, AimInv, RefreshInv, OnceInv, BooksInv, Active, Source
<1>2. CASE Crash
  <2>1. ledger' = disk /\ call' = Idle /\ mode' \in Modes /\ UNCHANGED <<world, disk, lapsed>> /\ Fault
    BY <1>2 DEF Crash
  <2>2. faults' \in [own : 0..MaxFaults, outside : 0..MaxOutside]
    BY <2>1, FaultTypes
  <2>3. TypeOK' /\ HoldsInv'
    BY <2>1, <2>2 DEF IInv, TypeOK, HoldsInv, world
  <2>4. AimInv' /\ RefreshInv' /\ OnceInv' /\ BooksInv'
    BY <2>1 DEF IInv, AimInv, RefreshInv, OnceInv, BooksInv, Active, Source, Idle, Aiming, world
  <2>. QED
    BY <2>3, <2>4 DEF IInv
<1>. QED
  BY <1>1, <1>2

(* ---- What a call does to the group ---- *)

\* The call that did it goes on, or fails; the books keep who it is for.
LEMMA ActEnds ==
    ASSUME Bounds, IInv, call.pc # "idle", UNCHANGED stable, NEW n \in 0..MaxRefreshes,
           \/ /\ call' \in Calls /\ call'.key = call.key /\ UNCHANGED faults
              /\ ledger' = ledger \/ ledger' = [ledger EXCEPT ![call.key].refresh = n]
           \/ Fault /\ finish("failed")
    PROVE  /\ ledger' \in [Keys -> Entry] /\ \A j \in Keys : ledger'[j].prior = ledger[j].prior
           /\ faults' \in [own : 0..MaxFaults, outside : 0..MaxOutside] /\ BooksInv'
<1>. DEFINE k == call.key
<1>1. /\ k \in Keys /\ ledger[k] \in Entry /\ ~Terminal(ledger[k]) /\ call # Idle
      /\ ledger \in [Keys -> Entry]
  BY AtWork, EntryTypes
<1>2. faults' \in [own : 0..MaxFaults, outside : 0..MaxOutside]
  BY FaultTypes
<1>3. PICK e \in Entry : /\ ledger' = [ledger EXCEPT ![k] = e] /\ e.prior = ledger[k].prior
                         /\ call' = Idle \/ (~Terminal(e) /\ call'.key = k)
  <2>1. CASE ledger' = ledger /\ call'.key = call.key
    BY <1>1, <2>1
  <2>2. CASE ledger' = [ledger EXCEPT ![call.key].refresh = n] /\ call'.key = call.key
    <3>. DEFINE e == [ledger[k] EXCEPT !.refresh = n]
    <3>1. e \in Entry /\ e.prior = ledger[k].prior /\ e.status = ledger[k].status
      BY <1>1 DEF Entry
    <3>2. ledger' = [ledger EXCEPT ![k] = e]
      BY <1>1, <2>2
    <3>. HIDE DEF e
    <3>. QED
      BY <1>1, <2>2, <3>1, <3>2 DEF Terminal
  <2>3. CASE finish("failed")
    <3>. DEFINE e == [ledger[k] EXCEPT !.status = "failed"]
    <3>1. e \in Entry /\ e.prior = ledger[k].prior
      BY <1>1, EntryTypes DEF Statuses
    <3>2. ledger' = [ledger EXCEPT ![k] = e] /\ call' = Idle
      BY <1>1, <2>3 DEF finish
    <3>. HIDE DEF e
    <3>. QED
      BY <3>1, <3>2
  <2>. QED
    BY <2>1, <2>2, <2>3
<1>4. ledger' \in [Keys -> Entry] /\ \A j \in Keys : ledger'[j] = IF j = k THEN e ELSE ledger[j]
  BY <1>1, <1>3
<1>5. BooksInv'
  BY <1>1, <1>3, <1>4 DEF IInv, BooksInv, Terminal, stable
<1>. QED
  BY <1>2, <1>3, <1>4, <1>5

\* A version that is there stays, and so does what it launches.
Grown(old, new) ==
  /\ new \in Clouds /\ new.ref = old.ref /\ new.default = old.default
  /\ new.refreshes = old.refreshes /\ new.fleet = old.fleet
  /\ Len(new.versions) \in Len(old.versions)..MaxVersions /\ DOMAIN new.versions = 1..Len(new.versions)
  /\ \A v \in DOMAIN old.versions : v \in DOMAIN new.versions /\ new.versions[v] = old.versions[v]
  /\ \A k \in Keys : new.token[k] # old.token[k] =>
       new.token[k] \in DOMAIN new.versions /\ new.versions[new.token[k]] = ToType(k)

\* A group with more versions is one the invariant's parts about the group hold of.
LEMMA GrownKeeps ==
    ASSUME Bounds, IInv, Grown(cloud, cloud'), UNCHANGED <<started, disk>>,
           \A k \in Keys : ledger'[k].prior = ledger[k].prior,
           call' = Idle \/ call' \in Calls
    PROVE  HoldsInv' /\ RefreshInv'
<1>1. /\ DOMAIN cloud.versions = 1..Len(cloud.versions) /\ Len(cloud.versions) \in 1..MaxVersions
      /\ MaxVersions \in Nat
      /\ DOMAIN cloud.refreshes = 1..Len(cloud.refreshes)
  BY CloudTypes DEF Bounds
<1>2. Len(cloud'.versions) <= MaxVersions /\ cloud'.default \in DOMAIN cloud'.versions
      /\ cloud'.refreshes = cloud.refreshes /\ Len(cloud'.refreshes) <= MaxRefreshes
  BY <1>1 DEF Grown, IInv, HoldsInv
<1>3. \A r \in DOMAIN cloud.refreshes :
        /\ cloud.refreshes[r].version \in DOMAIN cloud'.versions
        /\ cloud'.versions[cloud.refreshes[r].version] = cloud.versions[cloud.refreshes[r].version]
  BY DEF Grown, IInv, HoldsInv
<1>4. \A k \in Keys : cloud'.token[k] # 0 => /\ cloud'.token[k] \in DOMAIN cloud'.versions
                                             /\ cloud'.versions[cloud'.token[k]] = ToType(k)
  BY DEF Grown, IInv, HoldsInv
<1>5. HoldsInv'
  BY <1>2, <1>3, <1>4 DEF IInv, HoldsInv, Grown
<1>6. RefreshInv'
  <2>1. \A r \in DOMAIN cloud'.refreshes : Active(r)' => r = Len(cloud'.refreshes)
    BY <1>2 DEF IInv, RefreshInv, Active
  <2>2. cloud'.refreshes # <<>> =>
          LET last == cloud'.refreshes[Len(cloud'.refreshes)]
          IN last.status = "Successful" => cloud'.fleet = cloud'.versions[last.version]
    <3>1. cloud.refreshes # <<>> => Len(cloud.refreshes) \in DOMAIN cloud.refreshes
      BY CloudTypes
    <3>. QED
      BY <1>2, <1>3, <3>1 DEF IInv, RefreshInv, Grown
  <2>3. \A k \in Keys : \A r \in started[k] :
          r \in DOMAIN cloud'.refreshes /\ cloud'.versions[cloud'.refreshes[r].version] = ToType(k)
    BY <1>2, <1>3 DEF IInv, RefreshInv
  <2>. QED
    BY <2>1, <2>2, <2>3 DEF RefreshInv
<1>. QED
  BY <1>5, <1>6

\* The version a client token asks for is the newest, or the one it asked for before.
LEMMA CreatedGrows ==
    ASSUME Bounds, IInv, NEW k \in Keys, Len(cloud.versions) < MaxVersions \/ cloud.token[k] # 0
    PROVE  /\ Grown(cloud, Created(k))
           /\ Created(k).token[k] \in DOMAIN Created(k).versions
           /\ Created(k).versions[Created(k).token[k]] = ToType(k)
           /\ Created(k) = cloud \/ Created(k).token[k] = Len(Created(k).versions)
<1>. DEFINE n == Len(cloud.versions)
<1>1. /\ cloud \in Clouds /\ n \in 1..MaxVersions /\ DOMAIN cloud.versions = 1..n /\ MaxVersions \in Nat
      /\ ToType(k) \in Types
  BY CloudTypes DEF Bounds, ToType, Types
<1>2. CASE cloud.token[k] # 0
  BY <1>1, <1>2 DEF Created, Grown, IInv, HoldsInv
<1>3. CASE cloud.token[k] = 0
  <2>. DEFINE s == Append(cloud.versions, ToType(k))
              tok == [cloud.token EXCEPT ![k] = n + 1]
  <2>1. Created(k) = [cloud EXCEPT !.versions = s, !.token = tok]
    BY <1>1, <1>3 DEF Created, Clouds
  <2>2. /\ s \in Seq(Types) /\ Len(s) = n + 1 /\ DOMAIN s = 1..(n + 1) /\ s[n + 1] = ToType(k)
        /\ \A v \in DOMAIN cloud.versions : v \in DOMAIN s /\ s[v] = cloud.versions[v]
    BY <1>1, Appended DEF Clouds
  <2>3. n + 1 \in 1..MaxVersions
    BY <1>1, <1>3
  <2>4. tok \in [Keys -> 0..MaxVersions] /\ tok[k] = n + 1 /\ \A j \in Keys \ {k} : tok[j] = cloud.token[j]
    BY <1>1, <2>3 DEF Clouds
  <2>. HIDE DEF s, tok
  <2>5. /\ Created(k) \in Clouds /\ Created(k).versions = s /\ Created(k).token = tok
        /\ Created(k).ref = cloud.ref /\ Created(k).default = cloud.default
        /\ Created(k).refreshes = cloud.refreshes /\ Created(k).fleet = cloud.fleet
    BY <1>1, <2>1, <2>2, <2>4 DEF Clouds
  <2>. QED
    BY <1>1, <2>2, <2>3, <2>4, <2>5 DEF Grown
<1>. QED
  BY <1>2, <1>3

\* A new version is the one the step wants, and spoils the other's.
LEMMA CreateKeeps == Bounds /\ IInv /\ Create => IInv'
<1>. SUFFICES ASSUME Bounds, IInv, Create PROVE IInv'
  OBVIOUS
<1>. DEFINE k == call.key
<1>1. /\ call.pc = "call-create" /\ call.pc # "idle" /\ call \in Calls /\ k \in Keys /\ call # Idle
      /\ UNCHANGED <<stable, started>> /\ touched' = touched \cup (Keys \ {k})
      /\ Len(cloud.versions) < MaxVersions \/ cloud.token[k] # 0
      /\ 0 \in 0..MaxRefreshes
  BY AtWork DEF Create, At, Bounds
<1>2. /\ Grown(cloud, Created(k))
      /\ Created(k).token[k] \in DOMAIN Created(k).versions
      /\ Created(k).versions[Created(k).token[k]] = ToType(k)
      /\ Created(k) = cloud \/ Created(k).token[k] = Len(Created(k).versions)
  BY <1>1, CreatedGrows
<1>3. Grown(cloud, cloud)
  BY CloudTypes DEF Grown, Bounds
<1>4. CASE /\ cloud' = Created(k)
           /\ call' = [call EXCEPT !.pc = IF cloud.ref = "$Latest" THEN "start" ELSE "modify",
                                   !.target = cloud'.token[k]]
           /\ UNCHANGED <<ledger, faults>>
  <2>1. cloud'.token[k] \in 0..MaxVersions
    BY <1>1, <1>2, <1>4 DEF Grown, Clouds
  <2>2. /\ call' \in Calls /\ call'.key = k /\ call'.target = cloud'.token[k]
        /\ call'.pc = IF cloud.ref = "$Latest" THEN "start" ELSE "modify"
    BY <1>1, <1>4, <2>1 DEF Calls, Aiming
  <2>3. ledger' \in [Keys -> Entry] /\ (\A j \in Keys : ledger'[j].prior = ledger[j].prior)
        /\ faults' \in [own : 0..MaxFaults, outside : 0..MaxOutside] /\ BooksInv'
    BY <1>1, <1>4, <2>2, ActEnds
  <2>4. HoldsInv' /\ RefreshInv'
    BY <1>1, <1>2, <1>4, <2>2, <2>3, GrownKeeps DEF stable
  <2>5. TypeOK'
    BY <1>1, <1>2, <1>4, <2>3 DEF IInv, TypeOK, Grown, Clouds, Types, Refreshes, stable
  <2>6. cloud.ref \in {"$Default", "$Latest"} /\ cloud'.ref = cloud.ref
    BY <1>2, <1>4, CloudTypes DEF Clouds, Grown
  <2>7. AimInv'
    BY <1>2, <1>4, <2>2, <2>6 DEF AimInv, Aiming
  <2>8. OnceInv'
    <3>1. SUFFICES ASSUME k \notin touched
                   PROVE  /\ cloud'.token[k] \in {0, Len(cloud'.versions)} /\ started[k] = {}
                          /\ call'.pc = "start" => cloud'.versions[Source'] = ToType(k)
      BY <1>1, <2>2 DEF OnceInv
    <3>2. started[k] = {} /\ cloud.token[k] \in {0, Len(cloud.versions)}
      BY <1>1, <3>1 DEF IInv, OnceInv, Aiming
    <3>3. cloud'.token[k] \in {0, Len(cloud'.versions)}
      BY <1>2, <1>4, <3>2
    <3>4. call'.pc = "start" => Source' = cloud'.token[k]
      <4>1. 0 \notin DOMAIN cloud'.versions
        BY <1>2, <1>4 DEF Grown
      <4>. QED
        BY <1>2, <1>4, <2>2, <2>6, <3>3, <4>1 DEF Source
    <3>. QED
      BY <1>2, <1>4, <3>2, <3>3, <3>4
  <2>. QED
    BY <2>3, <2>4, <2>5, <2>7, <2>8 DEF IInv
<1>5. CASE Fault /\ cloud' \in {cloud, Created(k)} /\ finish("failed")
  <2>1. ledger' \in [Keys -> Entry] /\ (\A j \in Keys : ledger'[j].prior = ledger[j].prior)
        /\ faults' \in [own : 0..MaxFaults, outside : 0..MaxOutside] /\ BooksInv'
    BY <1>1, <1>5, ActEnds
  <2>2. call' = Idle /\ Grown(cloud, cloud')
    BY <1>2, <1>3, <1>5 DEF finish
  <2>3. HoldsInv' /\ RefreshInv'
    BY <1>1, <2>1, <2>2, GrownKeeps DEF stable
  <2>4. TypeOK'
    BY <1>1, <2>1, <2>2 DEF IInv, TypeOK, Grown, Clouds, Types, Refreshes, stable
  <2>5. AimInv'
    BY <2>2 DEF AimInv, Idle, Aiming
  <2>6. OnceInv'
    <3>1. SUFFICES ASSUME k \notin touched
                   PROVE  cloud'.token[k] \in {0, Len(cloud'.versions)} /\ started[k] = {}
      BY <1>1, <2>2 DEF OnceInv
    <3>. QED
      BY <1>1, <1>2, <1>5, <3>1 DEF IInv, OnceInv, Aiming
  <2>. QED
    BY <2>1, <2>3, <2>4, <2>5, <2>6 DEF IInv
<1>. QED
  BY <1>4, <1>5 DEF Create

\* The default moves onto a version that carries what the step wants.
LEMMA ModifyKeeps == Bounds /\ IInv /\ Modify => IInv'
<1>. SUFFICES ASSUME Bounds, IInv, Modify PROVE IInv'
  OBVIOUS
<1>. DEFINE k == call.key
            v == call.target
<1>1. /\ call.pc = "call-modify" /\ call.pc # "idle" /\ call \in Calls /\ k \in Keys /\ call # Idle
      /\ UNCHANGED <<stable, started>> /\ touched' = touched \cup (Keys \ {k})
      /\ 0 \in 0..MaxRefreshes
  BY AtWork DEF Modify, At, Bounds
<1>2. v \in DOMAIN cloud.versions /\ cloud.versions[v] = ToType(k) /\ cloud.ref = "$Default"
  BY <1>1 DEF IInv, AimInv, Aiming
<1>3. v \in 1..MaxVersions /\ cloud \in Clouds
  BY <1>2, CloudTypes DEF Bounds
<1>4. PICK d \in {cloud.default, v} :
        /\ cloud' = [cloud EXCEPT !.default = d]
        /\ \/ /\ d = v /\ call' = [call EXCEPT !.pc = "start"]
              /\ UNCHANGED <<ledger, faults>>
           \/ Fault /\ finish("failed")
  <2>1. cloud = [cloud EXCEPT !.default = cloud.default]
    BY <1>3 DEF Clouds
  <2>. QED
    BY <2>1 DEF Modify, Repointed
<1>5. d \in DOMAIN cloud.versions /\ d \in 1..MaxVersions
  BY <1>2, <1>3, <1>4, CloudTypes DEF Clouds, IInv, HoldsInv
<1>6. /\ cloud' \in Clouds /\ cloud'.versions = cloud.versions /\ cloud'.refreshes = cloud.refreshes
      /\ cloud'.token = cloud.token /\ cloud'.fleet = cloud.fleet /\ cloud'.ref = cloud.ref /\ cloud'.default = d
  BY <1>3, <1>4, <1>5 DEF Clouds
<1>7. (/\ call' \in Calls /\ call'.key = k /\ call'.target = v /\ call'.pc = "start"
       /\ d = v /\ UNCHANGED <<ledger, faults>>)
      \/ (call' = Idle /\ Fault /\ finish("failed"))
  BY <1>1, <1>4 DEF Calls, Aiming, finish
<1>8. ledger' \in [Keys -> Entry] /\ (\A j \in Keys : ledger'[j].prior = ledger[j].prior)
      /\ faults' \in [own : 0..MaxFaults, outside : 0..MaxOutside] /\ BooksInv'
  BY <1>1, <1>7, ActEnds
<1>9. TypeOK'
  BY <1>1, <1>6, <1>8 DEF IInv, TypeOK, Clouds, Types, Refreshes, stable
<1>10. HoldsInv'
  BY <1>1, <1>5, <1>6, <1>7, <1>8 DEF IInv, HoldsInv, stable
<1>11. AimInv'
  BY <1>2, <1>6, <1>7 DEF AimInv, Idle, Aiming
<1>12. RefreshInv'
  BY <1>1, <1>6 DEF IInv, RefreshInv, Active
<1>13. OnceInv'
  <2>1. SUFFICES ASSUME k \notin touched
                 PROVE  /\ cloud'.token[k] \in {0, Len(cloud'.versions)} /\ started[k] = {}
                        /\ call' # Idle /\ call'.pc = "start" => cloud'.versions[Source'] = ToType(k)
    BY <1>1, <1>7 DEF OnceInv
  <2>2. started[k] = {} /\ cloud.token[k] \in {0, Len(cloud.versions)}
    BY <1>1, <2>1 DEF IInv, OnceInv, Aiming
  <2>3. Source' = d
    BY <1>2, <1>6 DEF Source
  <2>. QED
    BY <1>2, <1>6, <1>7, <2>2, <2>3
<1>. QED
  BY <1>8, <1>9, <1>10, <1>11, <1>12, <1>13 DEF IInv

\* A refresh that begins is the newest there is, and none was active.
LEMMA RefreshBegins ==
    ASSUME Bounds, IInv, NEW v \in DOMAIN cloud.versions, ~Occupied, Len(cloud.refreshes) < MaxRefreshes,
           cloud' = Refreshing(v)
    PROVE  LET n == Len(cloud.refreshes) + 1
           IN /\ cloud' \in Clouds /\ cloud'.versions = cloud.versions /\ cloud'.token = cloud.token
              /\ cloud'.fleet = cloud.fleet /\ cloud'.ref = cloud.ref /\ cloud'.default = cloud.default
              /\ Len(cloud'.refreshes) = n /\ DOMAIN cloud'.refreshes = 1..n /\ n \in 1..MaxRefreshes
              /\ cloud'.refreshes # <<>>
              /\ cloud'.refreshes[n] = [status |-> "active", version |-> v]
              /\ \A r \in DOMAIN cloud.refreshes :
                   /\ r \in DOMAIN cloud'.refreshes /\ cloud'.refreshes[r] = cloud.refreshes[r]
                   /\ cloud.refreshes[r].status # "active"
<1>. DEFINE s == Append(cloud.refreshes, [status |-> "active", version |-> v])
<1>1. /\ cloud \in Clouds /\ DOMAIN cloud.refreshes = 1..Len(cloud.refreshes)
      /\ Len(cloud.refreshes) \in 0..MaxRefreshes /\ MaxRefreshes \in Nat
      /\ v \in 1..MaxVersions
  BY CloudTypes DEF Bounds
<1>2. [status |-> "active", version |-> v] \in Refreshes /\ cloud.refreshes \in Seq(Refreshes)
  BY <1>1 DEF Refreshes, Clouds
<1>3. /\ s \in Seq(Refreshes) /\ Len(s) = Len(cloud.refreshes) + 1 /\ s # <<>>
      /\ DOMAIN s = 1..(Len(cloud.refreshes) + 1)
      /\ s[Len(cloud.refreshes) + 1] = [status |-> "active", version |-> v]
      /\ \A r \in DOMAIN cloud.refreshes : r \in DOMAIN s /\ s[r] = cloud.refreshes[r]
  BY <1>2, Appended
<1>4. cloud' = [cloud EXCEPT !.refreshes = s]
  BY DEF Refreshing
<1>. HIDE DEF s
<1>5. /\ cloud' \in Clouds /\ cloud'.versions = cloud.versions /\ cloud'.token = cloud.token
      /\ cloud'.fleet = cloud.fleet /\ cloud'.ref = cloud.ref /\ cloud'.default = cloud.default
      /\ cloud'.refreshes = s
  BY <1>1, <1>3, <1>4 DEF Clouds
<1>6. \A r \in DOMAIN cloud.refreshes : cloud.refreshes[r].status # "active"
  BY DEF Occupied, Active
<1>7. Len(cloud.refreshes) + 1 \in 1..MaxRefreshes
  BY <1>1
<1>. QED
  BY <1>3, <1>5, <1>6, <1>7

\* The parts of the invariant about the group, after a refresh began.
LEMMA RefreshBeginsKeeps ==
    ASSUME Bounds, IInv, NEW v \in DOMAIN cloud.versions, ~Occupied, Len(cloud.refreshes) < MaxRefreshes,
           cloud' = Refreshing(v), UNCHANGED disk,
           \A j \in Keys : ledger'[j].prior = ledger[j].prior, call' = Idle \/ call' \in Calls,
           \A k \in Keys : started'[k] \subseteq started[k] \cup {Len(cloud.refreshes) + 1},
           \A k \in Keys : started'[k] = started[k] \/ cloud.versions[v] = ToType(k)
    PROVE  HoldsInv' /\ RefreshInv'
<1>. DEFINE n == Len(cloud.refreshes) + 1
<1>1. /\ cloud'.versions = cloud.versions /\ cloud'.token = cloud.token
      /\ cloud'.fleet = cloud.fleet /\ cloud'.default = cloud.default
      /\ Len(cloud'.refreshes) = n /\ DOMAIN cloud'.refreshes = 1..n /\ n \in 1..MaxRefreshes
      /\ cloud'.refreshes # <<>>
      /\ cloud'.refreshes[n] = [status |-> "active", version |-> v]
      /\ \A r \in DOMAIN cloud.refreshes :
           /\ r \in DOMAIN cloud'.refreshes /\ cloud'.refreshes[r] = cloud.refreshes[r]
           /\ cloud.refreshes[r].status # "active"
  BY RefreshBegins
<1>2. DOMAIN cloud.refreshes = 1..Len(cloud.refreshes) /\ Len(cloud.refreshes) \in Nat /\ MaxRefreshes \in Nat
  BY CloudTypes DEF Bounds
<1>3. \A r \in DOMAIN cloud'.refreshes : r = n \/ r \in DOMAIN cloud.refreshes
  BY <1>1, <1>2
<1>4. HoldsInv'
  <2>1. \A r \in DOMAIN cloud'.refreshes : cloud'.refreshes[r].version \in DOMAIN cloud'.versions
    BY <1>1, <1>3 DEF IInv, HoldsInv
  <2>2. Len(cloud'.refreshes) <= MaxRefreshes
    BY <1>1, <1>2
  <2>. QED
    BY <1>1, <2>1, <2>2 DEF IInv, HoldsInv
<1>5. RefreshInv'
  <2>1. \A r \in DOMAIN cloud'.refreshes : Active(r)' => r = Len(cloud'.refreshes)
    BY <1>1, <1>3 DEF Active
  <2>2. cloud'.refreshes[Len(cloud'.refreshes)].status # "Successful"
    BY <1>1
  <2>3. ASSUME NEW k \in Keys, NEW r \in started'[k]
        PROVE  r \in DOMAIN cloud'.refreshes /\ cloud'.versions[cloud'.refreshes[r].version] = ToType(k)
    <3>1. CASE r \in started[k]
      BY <1>1, <3>1 DEF IInv, RefreshInv
    <3>2. CASE r \notin started[k]
      BY <1>1, <2>3, <3>2
    <3>. QED
      BY <3>1, <3>2
  <2>. QED
    BY <2>1, <2>2, <2>3 DEF RefreshInv
<1>. QED
  BY <1>4, <1>5

\* A step that refreshes the group has refreshed nothing before.
LEMMA StartRefreshKeeps == Bounds /\ IInv /\ StartRefresh => IInv'
<1>. SUFFICES ASSUME Bounds, IInv, StartRefresh PROVE IInv'
  OBVIOUS
<1>. DEFINE k == call.key
            v == call.target
            n == Len(cloud.refreshes) + 1
<1>1. /\ call.pc = "call-start" /\ call.pc # "idle" /\ call \in Calls /\ k \in Keys /\ call # Idle
      /\ UNCHANGED <<stable, touched>> /\ ~Occupied /\ Len(cloud.refreshes) < MaxRefreshes
      /\ cloud' = Refreshing(v)
  BY AtWork DEF StartRefresh, At
<1>2. v \in DOMAIN cloud.versions /\ cloud.versions[v] = ToType(k)
  BY <1>1 DEF IInv, AimInv, Aiming
<1>3. /\ cloud' \in Clouds /\ cloud'.versions = cloud.versions /\ cloud'.token = cloud.token
      /\ cloud'.ref = cloud.ref /\ cloud'.default = cloud.default
      /\ Len(cloud'.refreshes) = n /\ n \in 1..MaxRefreshes /\ cloud'.refreshes # <<>>
  BY <1>1, <1>2, RefreshBegins
<1>4. started' = [started EXCEPT ![k] = @ \cup {n}] /\ started \in [Keys -> SUBSET (1..MaxRefreshes)]
  BY <1>1, <1>3 DEF StartRefresh, IInv, TypeOK
<1>5. /\ started' \in [Keys -> SUBSET (1..MaxRefreshes)] /\ started'[k] = started[k] \cup {n}
      /\ \A j \in Keys \ {k} : started'[j] = started[j]
  BY <1>1, <1>3, <1>4
<1>6. n \in 0..MaxRefreshes
  BY <1>3
<1>7. (/\ call' \in Calls /\ call'.key = k /\ call'.pc = "await" /\ UNCHANGED faults
       /\ ledger' = [ledger EXCEPT ![k].refresh = n])
      \/ (call' = Idle /\ Fault /\ finish("failed"))
  <2>1. [call EXCEPT !.pc = "await"] \in Calls /\ [call EXCEPT !.pc = "await"].key = k
        /\ [call EXCEPT !.pc = "await"].pc = "await"
    BY <1>1 DEF Calls, Aiming
  <2>. QED
    BY <1>3, <2>1 DEF StartRefresh, finish
<1>8. ledger' \in [Keys -> Entry] /\ (\A j \in Keys : ledger'[j].prior = ledger[j].prior)
      /\ faults' \in [own : 0..MaxFaults, outside : 0..MaxOutside] /\ BooksInv'
  BY <1>1, <1>6, <1>7, ActEnds
<1>9. TypeOK'
  BY <1>1, <1>3, <1>5, <1>8 DEF IInv, TypeOK, Clouds, Types, Refreshes, stable
<1>10. HoldsInv' /\ RefreshInv'
  <2>1. \A j \in Keys : /\ started'[j] \subseteq started[j] \cup {Len(cloud.refreshes) + 1}
                        /\ started'[j] = started[j] \/ cloud.versions[v] = ToType(j)
    BY <1>2, <1>5
  <2>. QED
    BY <1>1, <1>2, <1>7, <1>8, <2>1, RefreshBeginsKeeps DEF stable
<1>11. AimInv'
  BY <1>3, <1>7 DEF AimInv, Idle, Aiming
<1>12. OnceInv'
  <2>1. ASSUME NEW j \in Keys \ touched
        PROVE  /\ cloud'.token[j] \in {0, Len(cloud'.versions)}
               /\ started'[j] # {} => /\ cloud'.versions[Source'] = ToType(j)
                                      /\ \E r \in started'[j] : started'[j] = {r}
    <3>1. Source' = Source
      BY <1>3 DEF Source
    <3>2. CASE j = k
      <4>1. started[k] = {} /\ cloud.versions[Source] = ToType(k) /\ cloud.token[k] \in {0, Len(cloud.versions)}
        BY <1>1, <2>1, <3>2 DEF IInv, OnceInv, Aiming
      <4>2. started'[k] = {n}
        BY <1>5, <4>1
      <4>. QED
        BY <1>3, <3>1, <3>2, <4>1, <4>2
    <3>3. CASE j # k
      <4>1. started'[j] = started[j]
        BY <1>5, <2>1, <3>3
      <4>. QED
        BY <1>3, <2>1, <3>1, <4>1 DEF IInv, OnceInv
    <3>. QED
      BY <3>2, <3>3
  <2>. QED
    BY <1>1, <1>3, <1>7, <2>1 DEF OnceInv, Aiming
<1>. QED
  BY <1>8, <1>9, <1>10, <1>11, <1>12 DEF IInv

\* A refresh that ends is the newest, and leaves the fleet on its version when it succeeds.
LEMMA RefreshEndsKeeps == Bounds /\ IInv /\ (\E r \in DOMAIN cloud.refreshes : RefreshEnds(r)) => IInv'
<1>. SUFFICES ASSUME Bounds, IInv, NEW r \in DOMAIN cloud.refreshes, RefreshEnds(r) PROVE IInv'
  OBVIOUS
<1>1. /\ UNCHANGED <<ledger, stable, call, faults, started, touched>> /\ Active(r)
      /\ cloud \in Clouds /\ r = Len(cloud.refreshes) /\ DOMAIN cloud.refreshes = 1..Len(cloud.refreshes)
  BY CloudTypes DEF RefreshEnds, IInv, RefreshInv
<1>2. PICK s \in {"Successful", "RolledBack", "Failed"} :
        cloud' = [cloud EXCEPT !.refreshes[r].status = s,
                    !.fleet = CASE s = "Successful" -> cloud.versions[cloud.refreshes[r].version]
                                [] s = "RolledBack" -> @
                                [] OTHER            -> "mixed"]
  BY DEF RefreshEnds
<1>. DEFINE q == [cloud.refreshes EXCEPT ![r] = [cloud.refreshes[r] EXCEPT !.status = s]]
            f == CASE s = "Successful" -> cloud.versions[cloud.refreshes[r].version]
                   [] s = "RolledBack" -> cloud.fleet
                   [] OTHER            -> "mixed"
<1>3. cloud.refreshes \in Seq(Refreshes) /\ cloud.refreshes[r] \in Refreshes
      /\ cloud.refreshes[r].version \in DOMAIN cloud.versions /\ cloud.versions \in Seq(Types)
  BY <1>1 DEF Clouds, IInv, HoldsInv
<1>4. /\ q \in Seq(Refreshes) /\ Len(q) = Len(cloud.refreshes) /\ DOMAIN q = DOMAIN cloud.refreshes
      /\ q[r].status = s /\ \A i \in DOMAIN q : q[i].version = cloud.refreshes[i].version
                                                /\ (i # r => q[i] = cloud.refreshes[i])
  <2>1. [cloud.refreshes[r] EXCEPT !.status = s] \in Refreshes
        /\ [cloud.refreshes[r] EXCEPT !.status = s].status = s
        /\ [cloud.refreshes[r] EXCEPT !.status = s].version = cloud.refreshes[r].version
    BY <1>2, <1>3 DEF Refreshes
  <2>. HIDE DEF Refreshes
  <2>. QED
    BY <1>1, <1>3, <2>1
<1>5. f \in {"from", "to", "other", "mixed"}
  <2>1. cloud.versions[cloud.refreshes[r].version] \in Types /\ cloud.fleet \in {"from", "to", "other", "mixed"}
    BY <1>1, <1>3 DEF Clouds
  <2>. QED
    BY <2>1 DEF Types
<1>6. cloud' = [cloud EXCEPT !.refreshes = q, !.fleet = f]
  BY <1>1, <1>2 DEF Clouds
<1>7. s = "Successful" => f = cloud.versions[cloud.refreshes[r].version]
  OBVIOUS
<1>. HIDE DEF q, f
<1>8. /\ cloud' \in Clouds /\ cloud'.refreshes = q /\ cloud'.fleet = f /\ cloud'.versions = cloud.versions
      /\ cloud'.token = cloud.token /\ cloud'.ref = cloud.ref /\ cloud'.default = cloud.default
  BY <1>1, <1>4, <1>5, <1>6 DEF Clouds
<1>9. TypeOK'
  BY <1>1, <1>8 DEF IInv, TypeOK, Clouds, Types, Refreshes, stable
<1>10. HoldsInv'
  BY <1>1, <1>4, <1>8 DEF IInv, HoldsInv, stable
<1>11. q # <<>>
  BY <1>1, <1>4
<1>12. AimInv'
  BY <1>1, <1>8, <1>11 DEF IInv, AimInv
<1>13. RefreshInv'
  <2>1. \A i \in DOMAIN cloud'.refreshes : Active(i)' => i = Len(cloud'.refreshes)
    BY <1>1, <1>2, <1>4, <1>8 DEF IInv, RefreshInv, Active
  <2>2. q[Len(q)].status = "Successful" => cloud'.fleet = cloud'.versions[q[Len(q)].version]
    BY <1>1, <1>2, <1>4, <1>7, <1>8
  <2>3. \A k \in Keys : \A i \in started[k] :
          i \in DOMAIN cloud'.refreshes /\ cloud'.versions[cloud'.refreshes[i].version] = ToType(k)
    BY <1>4, <1>8 DEF IInv, RefreshInv
  <2>. QED
    BY <1>1, <1>8, <2>1, <2>2, <2>3 DEF RefreshInv
<1>14. OnceInv'
  BY <1>1, <1>8, <1>11 DEF IInv, OnceInv, Source
<1>15. BooksInv'
  BY <1>1 DEF IInv, BooksInv, stable
<1>. QED
  BY <1>9, <1>10, <1>12, <1>13, <1>14, <1>15 DEF IInv

\* What somebody else adds spoils both steps' templates.
LEMMA OutsideKeeps == Bounds /\ IInv /\ Outside => IInv'
<1>. SUFFICES ASSUME Bounds, IInv, Outside PROVE IInv'
  OBVIOUS
<1>1. /\ UNCHANGED <<ledger, stable, call, started>> /\ touched' = Keys
      /\ faults.outside < MaxOutside /\ faults' = [faults EXCEPT !.outside = @ + 1]
  BY DEF Outside
<1>2. faults' \in [own : 0..MaxFaults, outside : 0..MaxOutside]
  <2>1. faults \in [own : 0..MaxFaults, outside : 0..MaxOutside]
    BY DEF IInv, TypeOK
  <2>2. faults.outside + 1 \in 0..MaxOutside
    BY <1>1, <2>1 DEF Bounds
  <2>. QED
    BY <1>1, <2>1, <2>2
<1>3. OnceInv' /\ BooksInv' /\ (call' = Idle \/ call' \in Calls)
  BY <1>1 DEF OnceInv, IInv, BooksInv, stable, HoldsInv
<1>4. CASE ~Occupied /\ Len(cloud.refreshes) < MaxRefreshes /\ cloud' = Refreshing(Source)
  <2>1. Source \in DOMAIN cloud.versions
    BY CloudTypes
  <2>2. cloud' \in Clouds /\ cloud'.versions = cloud.versions /\ cloud'.refreshes # <<>> /\ cloud'.ref = cloud.ref
    BY <1>4, <2>1, RefreshBegins
  <2>3. TypeOK'
    BY <1>1, <1>2, <2>2 DEF IInv, TypeOK, Clouds, Types, Refreshes, stable
  <2>4. AimInv'
    BY <1>1, <2>2 DEF IInv, AimInv
  <2>5. HoldsInv' /\ RefreshInv'
    BY <1>1, <1>3, <1>4, <2>1, RefreshBeginsKeeps DEF stable
  <2>. QED
    BY <1>3, <2>3, <2>4, <2>5 DEF IInv
<1>5. CASE /\ Len(cloud.versions) < MaxVersions
           /\ \E t \in {"from", "to", "other"} : cloud' = [cloud EXCEPT !.versions = Append(@, t)]
  <2>1. PICK t \in Types : cloud' = [cloud EXCEPT !.versions = Append(cloud.versions, t)]
    BY <1>5 DEF Types
  <2>. DEFINE s == Append(cloud.versions, t)
              n == Len(cloud.versions)
  <2>2. cloud \in Clouds /\ n \in 1..MaxVersions /\ DOMAIN cloud.versions = 1..n /\ MaxVersions \in Nat
    BY CloudTypes DEF Bounds
  <2>3. /\ s \in Seq(Types) /\ Len(s) = n + 1 /\ DOMAIN s = 1..(n + 1)
        /\ \A v \in DOMAIN cloud.versions : v \in DOMAIN s /\ s[v] = cloud.versions[v]
    BY <2>2, Appended DEF Clouds
  <2>4. n + 1 \in 1..MaxVersions
    BY <1>5, <2>2
  <2>. HIDE DEF s
  <2>5. /\ cloud' \in Clouds /\ cloud'.versions = s /\ cloud'.token = cloud.token
        /\ cloud'.ref = cloud.ref /\ cloud'.default = cloud.default
        /\ cloud'.refreshes = cloud.refreshes /\ cloud'.fleet = cloud.fleet
    BY <2>1, <2>2, <2>3 DEF Clouds, s
  <2>6. Grown(cloud, cloud')
    BY <2>2, <2>3, <2>4, <2>5 DEF Grown
  <2>7. HoldsInv' /\ RefreshInv'
    BY <1>1, <1>3, <2>6, GrownKeeps DEF stable
  <2>8. TypeOK'
    BY <1>1, <1>2, <2>5 DEF IInv, TypeOK, Clouds, Types, Refreshes, stable
  <2>9. AimInv'
    BY <1>1, <2>3, <2>5 DEF IInv, AimInv
  <2>. QED
    BY <1>3, <2>7, <2>8, <2>9 DEF IInv
<1>. QED
  BY <1>4, <1>5 DEF Outside

\* Every step keeps it.
LEMMA NextInv == Bounds /\ IInv /\ [Next]_vars => IInv'
<1>1. ASSUME IInv, UNCHANGED vars PROVE IInv'
  BY <1>1 DEF IInv, TypeOK, HoldsInv, AimInv, RefreshInv, OnceInv, BooksInv, Active, Source, vars
<1>. QED
  BY <1>1, BeginKeeps, ReadsKeep, ReadProceedsKeeps, MutateKeeps, CreateKeeps, ModifyKeeps, StartRefreshKeeps,
     StartFailsKeeps, RefreshEndsKeeps, OutsideKeeps, CrashKeeps
  DEF Next

(* ---- What it shows ---- *)

\* A step whose template nobody else changed has started one refresh at the most.
LEMMA InvChurnedOnce == Bounds /\ IInv => ChurnedOnce
<1>. SUFFICES ASSUME Bounds, IInv, NEW k \in Keys \ touched PROVE Cardinality(started[k]) <= 1
  BY DEF ChurnedOnce
<1>1. CASE started[k] = {}
  BY <1>1, FS_EmptySet
<1>2. CASE started[k] # {}
  <2>1. PICK r : started[k] = {r}
    BY <1>2 DEF IInv, OnceInv
  <2>2. Cardinality({r}) = 1
    BY FS_Singleton
  <2>. QED
    BY <2>1, <2>2
<1>. QED
  BY <1>1, <1>2

\* Updating one status leaves every other, and what it writes is what it reads.
LEMMA StatusUpdated ==
  ASSUME NEW f \in [Keys -> Entry], NEW key \in Keys, NEW s, NEW k \in Keys
  PROVE  [f EXCEPT ![key].status = s][k].status \in {f[k].status, s}
<1>1. CASE k = key
  BY <1>1 DEF Entry
<1>2. CASE k # key
  BY <1>2
<1>. QED
  BY <1>1, <1>2


\* A step reports done when it watches a refresh that succeeded, and only then.
LEMMA StepReportsMigrated == Bounds /\ IInv /\ [Next]_vars => ReportsMigrated
<1>. SUFFICES ASSUME Bounds, IInv, [Next]_vars, NEW k \in Keys, Reports(k, "done"),
                     ledger'[k].refresh \in started[k]
              PROVE  cloud.fleet = ToType(k)
  BY DEF ReportsMigrated
<1>1. /\ ledger'[k].status = "done" /\ ledger[k].status # "done" /\ call # Idle
      /\ ledger \in [Keys -> Entry]
  BY EntryTypes DEF Reports
<1>2. CASE AwaitRefresh
  <2>. DEFINE r == latestRefresh
  <2>1. call.pc # "idle" /\ call.key \in Keys /\ cloud.refreshes # <<>>
    BY <1>2, AtWork DEF AwaitRefresh, At, IInv, AimInv
  <2>2. r = Len(cloud.refreshes) /\ r \in DOMAIN cloud.refreshes
    BY <2>1, LatestIsNewest, CloudTypes
  <2>3. k = call.key /\ cloud.refreshes[r].status = "Successful" /\ ledger'[k].refresh = r
    BY <1>1, <1>2, <2>1 DEF AwaitRefresh
  <2>4. cloud.fleet = cloud.versions[cloud.refreshes[r].version]
    BY <2>1, <2>2, <2>3 DEF IInv, RefreshInv
  <2>5. cloud.versions[cloud.refreshes[r].version] = ToType(k)
    BY <2>3 DEF IInv, RefreshInv
  <2>. QED
    BY <2>4, <2>5
<1>3. CASE ~AwaitRefresh
  <2>0. call.pc # "idle" => call.key \in Keys
    BY AtWork
  <2>2. disk[k].status # "done"
    BY <1>1 DEF IInv, BooksInv, Terminal
  <2>. DEFINE Kept(s) == \E j \in Keys : ledger' = [ledger EXCEPT ![j].status = s]
  <2>3. ASSUME NEW s, s # "done", Kept(s)  PROVE ledger'[k].status # "done"
    <3>1. PICK j \in Keys : ledger' = [ledger EXCEPT ![j].status = s]
      BY <2>3
    <3>2. ledger'[k].status \in {ledger[k].status, s}
      BY <1>1, <3>1, StatusUpdated
    <3>. QED
      BY <1>1, <2>3, <3>2
  <2>. HIDE DEF Kept
  <2>4. ledger'[k].status # "done"
    <3>1. CASE \E j \in Keys : TurnedAway(j) \/ Begin(j)
      <4>1. PICK j \in Keys : TurnedAway(j) \/ Begin(j)
        BY <3>1
      <4>2. CASE TurnedAway(j)
        <5>1. Kept("refused")
          BY <4>2 DEF TurnedAway, Kept
        <5>. QED
          BY <2>3, <5>1
      <4>3. CASE Begin(j)
        <5>1. Kept(IF ledger[j].status = "none" THEN "open" ELSE ledger[j].status)
          BY <4>3 DEF Begin, Kept
        <5>2. ledger[j].status # "done"
          BY <4>3 DEF Begin, Terminal
        <5>. QED
          BY <2>3, <5>1, <5>2
      <4>. QED
        BY <4>1, <4>2, <4>3
    <3>2. CASE ReadFails \/ StartFails
      <4>1. Kept("failed") \/ Kept("refused")
        BY <2>0, <3>2 DEF ReadFails, StartFails, finish, At, Kept
      <4>. QED
        BY <2>3, <4>1
    <3>3. CASE Mutate
      <4>1. Kept("failed") \/ Kept("in-flight")
        BY <2>0, <3>3 DEF Mutate, finish, At, Kept
      <4>. QED
        BY <2>3, <4>1
    <3>4. CASE Create \/ Modify
      <4>1. Kept("failed") \/ ledger' = ledger
        BY <2>0, <3>4 DEF Create, Modify, finish, At, Kept
      <4>. QED
        BY <1>1, <2>3, <4>1
    <3>5. CASE StartRefresh
      <4>1. Kept("failed") \/ ledger' = [ledger EXCEPT ![call.key].refresh = Len(cloud'.refreshes)]
        BY <2>0, <3>5 DEF StartRefresh, finish, At, Kept
      <4>2. call.key \in Keys
        BY <2>0, <3>5 DEF StartRefresh, At
      <4>3. CASE ledger' = [ledger EXCEPT ![call.key].refresh = Len(cloud'.refreshes)]
        <5>. DEFINE n == Len(cloud'.refreshes)
        <5>1. [ledger EXCEPT ![call.key].refresh = n][k].status = ledger[k].status
          <6>. HIDE DEF n
          <6>. QED
            BY <1>1, <4>2 DEF Entry
        <5>. QED
          BY <1>1, <4>3, <5>1
      <4>. QED
        BY <2>3, <4>1, <4>3
    <3>6. CASE ReportRefresh \/ ReadStops \/ ReadProceeds
      <4>1. call.pc # "idle" /\ call.key \in Keys
        BY <2>0, <3>6 DEF ReportRefresh, ReadStops, ReadProceeds, Readable, At
      <4>. DEFINE R == Recorded(call.key)
      <4>2. R[k].status = ledger[k].status
        BY <1>1, <4>1, RecordedTypes DEF Recorded
      <4>3. R \in [Keys -> Entry]
        BY <1>1, <4>1, RecordedTypes
      <4>4. ledger' = R
            \/ \E s \in {"no-op", "rolled-back", "failed", "dry-run", "refused"} :
                 ledger' = [R EXCEPT ![call.key].status = s]
        BY <3>6 DEF ReportRefresh, ReadStops, ReadProceeds
      <4>. HIDE DEF R
      <4>5. CASE ledger' = R
        BY <1>1, <4>2, <4>5
      <4>6. ASSUME NEW s \in {"no-op", "rolled-back", "failed", "dry-run", "refused"},
                   ledger' = [R EXCEPT ![call.key].status = s]
            PROVE  ledger'[k].status # "done"
        <5>1. ledger'[k].status \in {R[k].status, s}
          BY <4>1, <4>3, <4>6, StatusUpdated
        <5>. QED
          BY <1>1, <4>2, <5>1
      <4>. QED
        BY <4>4, <4>5, <4>6
    <3>7. CASE Crash
      BY <2>2, <3>7 DEF Crash
    <3>8. CASE (\E j \in DOMAIN cloud.refreshes : RefreshEnds(j)) \/ Outside \/ Lapse \/ UNCHANGED vars
      BY <1>1, <3>8 DEF RefreshEnds, Outside, Lapse, vars
    <3>. QED
      BY <1>3, <3>1, <3>2, <3>3, <3>4, <3>5, <3>6, <3>7, <3>8 DEF Next
  <2>. QED
    BY <1>1, <2>4
<1>. QED
  BY <1>2, <1>3

==============================================================================
