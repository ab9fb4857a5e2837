------------------------ MODULE TemplateLaunchTheorems ------------------------
(***************************************************************************)
(* A launch has its effects at most once, and says what the host did, for   *)
(* every number of concurrent requests and checks and for any number of     *)
(* retries, reloads and crashes.                                            *)
(***************************************************************************)
EXTENDS TemplateLaunch, TLAPS

Phases == {None, "rejected", "preparing", "ready", "project-claimed", "project-unknown",
           "spawn-claimed", "indeterminate", "failed", "succeeded"}
RowType ==
    [phase : Phases,
     token : Nat, retryable : BOOLEAN, project : BOOLEAN, creation : BOOLEAN, projectClaim : Nat,
     spawnClaim : Nat, confirmation : {None, "lifecycle", "native-ack"}, thread : BOOLEAN,
     candidate : {None, "pending", "failed", "deleted"}]
FlightType ==
    [at : {"resolving", "creating", "resolving-again", "spawning"},
     generation : Nat, token : Nat, claim : Nat, absent : BOOLEAN, known : BOOLEAN]
ThreadStates == {None, "pending", "active", "failed", "deleted"}
CheckType == [at : {"project", "thread"}, token : Nat, found : ThreadStates \cup {"project"}]
EventType == [kind : ThreadStates \cup {"deleted-metadata"}, generation : Nat]
HostType == [project : BOOLEAN, thread : ThreadStates, admitted : BOOLEAN, creates : Nat, spawns : Nat]

RowOK == row \in RowType /\ removed \in BOOLEAN
CallsOK ==
    /\ flights \in [Runners -> {Idle} \cup FlightType]
    /\ checks \in [Checks -> {Idle} \cup CheckType]
    /\ inbox \subseteq EventType
    /\ plugin \in [generation : Nat, up : BOOLEAN]
HostOK == host \in HostType
TypeOK == RowOK /\ CallsOK /\ HostOK

\* The row r accounts for what the host h did.  Both claims leave their mark,
\* and no phase that a retry can leave from follows an open claim; a success
\* has its thread, admitted, and not removed unless acknowledged.
Accounts(r, h, gone) ==
    /\ r.phase # None => r.token > 0
    /\ h.creates = IF r.creation THEN 1 ELSE 0
    /\ h.spawns = IF r.spawnClaim = 0 THEN 0 ELSE 1
    /\ r.creation => r.project \/ r.phase \in ProjectPhases
    /\ r.spawnClaim # 0 => r.phase \in SpawnPhases \cup {"succeeded"}
    /\ r.phase = "succeeded" => r.thread /\ h.admitted /\ (gone => r.confirmation = "native-ack")
    /\ r.confirmation = "native-ack" => r.phase = "succeeded"

\* The owner of a row that is being prepared knows whether it has a project:
\* nobody else wrote it since, because every other writer takes the token.
OwnersKnow ==
    \A f \in Runners :
        flights[f].at = "resolving" =>
            /\ flights[f].token <= row.token
            /\ flights[f].token = row.token /\ row.phase = "preparing" => flights[f].known = row.project

\* Whatever tells of an active thread tells of an admitted one.
EvidenceAdmitted ==
    /\ host.thread = "active" => host.admitted
    /\ \A c \in Checks : checks[c].at = "thread" /\ checks[c].found = "active" => host.admitted
    /\ \A e \in inbox : e.kind = "active" => host.admitted

LaunchInv == TypeOK /\ Accounts(row, host, removed) /\ OwnersKnow /\ EvidenceAdmitted

\* How the row q may follow the row r: ownership only moves on, a preparation
\* starts with a new owner, and an acknowledgement stays.
Follows(r, q) ==
    /\ q.token >= r.token
    /\ q.token = r.token /\ q.phase = "preparing" => r.phase = "preparing" /\ q.project = r.project
    /\ r.confirmation = "native-ack" => q.phase = "succeeded" /\ q.confirmation = "native-ack"

USE DEF Before, ProjectPhases, SpawnPhases, Working, None

-----------------------------------------------------------------------------
(* Rows and calls.                                                          *)

\* A flight written leaves the others alone.
LEMMA FlightWritten ==
    ASSUME flights \in [Runners -> {Idle} \cup FlightType], NEW f \in Runners,
           NEW x \in {Idle} \cup FlightType, flights' = [flights EXCEPT ![f] = x]
    PROVE  /\ flights' \in [Runners -> {Idle} \cup FlightType]
           /\ flights'[f] = x
           /\ \A g \in Runners \ {f} : flights'[g] = flights[g]
OBVIOUS

\* No call begins with a step whose row follows the row before.
LEMMA OwnersStillKnow ==
    ASSUME TypeOK, TypeOK', OwnersKnow, Follows(row, row'),
           \A f \in Runners : flights'[f].at = "resolving" => flights'[f] = flights[f]
    PROVE  OwnersKnow'
<1> SUFFICES ASSUME NEW f \in Runners, flights'[f].at = "resolving"
             PROVE  /\ flights'[f].token <= row'.token
                    /\ flights'[f].token = row'.token /\ row'.phase = "preparing" => flights'[f].known = row'.project
  BY DEF OwnersKnow
<1>1. flights[f] \in FlightType /\ flights'[f] = flights[f]
  BY DEF TypeOK, CallsOK, Idle
<1>2. row.token \in Nat /\ row'.token \in Nat /\ flights[f].token \in Nat
  BY <1>1 DEF TypeOK, RowOK, RowType, FlightType
<1> QED BY <1>1, <1>2 DEF OwnersKnow, Follows

\* A step that writes the row and ends or moves a call.
LEMMA RowStep ==
    ASSUME LaunchInv, row' \in RowType, Follows(row, row'), Accounts(row', host, removed), CallsOK',
           UNCHANGED <<removed, host>>, EvidenceAdmitted',
           \A f \in Runners : flights'[f].at = "resolving" => flights'[f] = flights[f]
    PROVE  LaunchInv' /\ Follows(row, row')
<1>1. TypeOK /\ TypeOK'
  BY DEF LaunchInv, TypeOK, RowOK, HostOK
<1> QED BY <1>1, OwnersStillKnow DEF LaunchInv

\* The row of a launch that failed or became unknown.
LEMMA SettledRow ==
    ASSUME NEW r \in RowType, NEW phase \in {"failed", "project-unknown"}, NEW retryable \in BOOLEAN,
           NEW h, NEW gone, Accounts(r, h, gone),
           r.phase \in Before \/ (r.phase = "project-claimed" /\ phase = "project-unknown")
    PROVE  LET q == [r EXCEPT !.phase = phase, !.retryable = retryable]
           IN  q \in RowType /\ Follows(r, q) /\ Accounts(q, h, gone)
<1> DEFINE q == [r EXCEPT !.phase = phase, !.retryable = retryable]
<1>1. q \in RowType
  BY DEF RowType, Phases
<1>2. /\ q.phase = phase /\ q.token = r.token /\ q.project = r.project /\ q.creation = r.creation
      /\ q.spawnClaim = r.spawnClaim /\ q.confirmation = r.confirmation
  BY DEF RowType
<1>3. r.token \in Nat
  BY DEF RowType
<1> HIDE DEF q
<1>4. Follows(r, q) /\ Accounts(q, h, gone)
  BY <1>2, <1>3 DEF Follows, Accounts
<1> QED BY <1>1, <1>4 DEF q

\* A row whose spawn became unknown, or was revoked.
LEMMA UnknownRow ==
    ASSUME NEW r \in RowType, NEW q \in RowType, NEW h, NEW gone, Accounts(r, h, gone),
           r.phase \in SpawnPhases \/ (r.phase = "succeeded" /\ r.confirmation # "native-ack"),
           q.phase = "indeterminate", q.token \in {r.token, r.token + 1}, q.project = r.project,
           q.creation = r.creation, q.spawnClaim = r.spawnClaim, q.confirmation # "native-ack",
           NEW after
    PROVE  Follows(r, q) /\ Accounts(q, h, after)
<1>1. r.token \in Nat
  BY DEF RowType
<1> QED BY <1>1 DEF Follows, Accounts

\* A row whose spawn was confirmed.
LEMMA SucceededRow ==
    ASSUME NEW r \in RowType, NEW h, NEW gone, Accounts(r, h, gone), r.phase \in SpawnPhases,
           NEW evidence \in {"lifecycle", "native-ack"}, gone => evidence = "native-ack",
           NEW k, k.creates = h.creates, k.spawns = h.spawns, k.admitted
    PROVE  LET q == Succeeded(r, evidence)
           IN  q \in RowType /\ Follows(r, q) /\ Accounts(q, k, gone)
<1> DEFINE q == Succeeded(r, evidence)
<1>1. q \in RowType
  BY DEF RowType, Phases, Succeeded
<1>2. /\ q.phase = "succeeded" /\ q.token = r.token /\ q.project = r.project /\ q.creation = r.creation
      /\ q.spawnClaim = r.spawnClaim /\ q.confirmation = evidence /\ q.thread
  BY DEF RowType, Succeeded
<1>3. r.token \in Nat
  BY DEF RowType
<1> HIDE DEF q
<1>4. Follows(r, q) /\ Accounts(q, k, gone)
  BY <1>2, <1>3 DEF Follows, Accounts
<1> QED BY <1>1, <1>4 DEF q

\* completeEffect of a spawn, with a host that admitted the thread.
LEMMA SpawnCompletedRow ==
    ASSUME TypeOK, Accounts(row, host, removed), NEW claim,
           NEW evidence \in {"lifecycle", "native-ack"}, removed => evidence = "native-ack",
           NEW k, k.creates = host.creates, k.spawns = host.spawns, k.admitted
    PROVE  LET q == SpawnCompleted(claim, evidence)
           IN  q \in RowType /\ Follows(row, q) /\ Accounts(q, k, removed)
<1> DEFINE q == SpawnCompleted(claim, evidence)
<1>1. row \in RowType /\ row.token \in Nat
  BY DEF TypeOK, RowOK, RowType
<1>2. Follows(row, row) /\ Accounts(row, k, removed)
  BY <1>1 DEF Follows, Accounts
<1>3. CASE q = row
  BY <1>1, <1>2, <1>3
<1>4. CASE row.phase = "succeeded" /\ q = [row EXCEPT !.confirmation = "native-ack"]
  <2>1. q \in RowType
    BY <1>1, <1>4 DEF RowType
  <2>2. /\ q.phase = "succeeded" /\ q.token = row.token /\ q.project = row.project /\ q.creation = row.creation
        /\ q.spawnClaim = row.spawnClaim /\ q.confirmation = "native-ack" /\ q.thread = row.thread
    BY <1>1, <1>4 DEF RowType
  <2> HIDE DEF q
  <2>3. Follows(row, q) /\ Accounts(q, k, removed)
    BY <1>1, <1>4, <2>2 DEF Follows, Accounts
  <2> QED BY <2>1, <2>3 DEF q
<1>5. CASE row.phase \in SpawnPhases /\ q = Succeeded(row, evidence)
  BY <1>1, <1>5, SucceededRow
<1> QED BY <1>3, <1>4, <1>5 DEF SpawnCompleted

\* completeEffect of a project.
LEMMA ProjectCompletedRow ==
    ASSUME TypeOK, Accounts(row, host, removed), NEW claim, NEW token
    PROVE  LET q == ProjectCompleted(claim, token)
           IN  q \in RowType /\ Follows(row, q) /\ Accounts(q, host, removed)
<1> DEFINE phase == IF row.token = token THEN "ready" ELSE "failed"
           retryable == row.token # token
           q == [row EXCEPT !.project = TRUE, !.phase = phase, !.retryable = retryable]
<1>1. row \in RowType /\ row.token \in Nat
  BY DEF TypeOK, RowOK, RowType
<1>2. phase \in {"ready", "failed"} /\ retryable \in BOOLEAN
  OBVIOUS
<1> HIDE DEF phase, retryable
<1>3. q \in RowType
  BY <1>1, <1>2 DEF RowType, Phases
<1>4. /\ q.phase = phase /\ q.token = row.token /\ q.project /\ q.creation = row.creation
      /\ q.spawnClaim = row.spawnClaim /\ q.confirmation = row.confirmation
  BY <1>1 DEF RowType
<1> HIDE DEF q
<1>5. ASSUME row.phase \in ProjectPhases
      PROVE  Follows(row, q) /\ Accounts(q, host, removed)
  <2>1. row.spawnClaim = 0 /\ row.token > 0 /\ row.confirmation # "native-ack"
    BY <1>1, <1>5 DEF Accounts, RowType
  <2>2. q.phase # "preparing" /\ q.token = row.token
    BY <1>2, <1>4
  <2>3. Follows(row, q)
    BY <1>1, <2>1, <2>2 DEF Follows
  <2> QED BY <1>1, <1>2, <1>4, <2>1, <2>3 DEF Accounts
<1>6. Follows(row, row)
  BY <1>1 DEF Follows, Accounts
<1>7. ProjectCompleted(claim, token) = row \/ (row.phase \in ProjectPhases /\ ProjectCompleted(claim, token) = q)
  BY DEF ProjectCompleted, q, phase, retryable
<1> QED BY <1>1, <1>3, <1>5, <1>6, <1>7

\* A restart settles the row of an interrupted launch by what it had claimed.
LEMMA RecoveredRow ==
    ASSUME TypeOK, Accounts(row, host, removed)
    PROVE  LET q == recoverInterrupted(row)
           IN  q \in RowType /\ Follows(row, q) /\ Accounts(q, host, removed)
<1> DEFINE phase == CASE row.phase = "project-claimed" -> "project-unknown"
                      [] row.phase = "spawn-claimed" -> "indeterminate"
                      [] OTHER -> "failed"
           retryable == row.phase \in Before
           q == [Rotated(row) EXCEPT !.retryable = retryable, !.phase = phase]
<1>1. row \in RowType /\ row.token \in Nat
  BY DEF TypeOK, RowOK, RowType
<1>2. /\ phase \in {"project-unknown", "indeterminate", "failed"} /\ retryable \in BOOLEAN
      /\ row.phase = "project-claimed" => phase = "project-unknown"
      /\ row.phase = "spawn-claimed" => phase = "indeterminate"
  OBVIOUS
<1> HIDE DEF phase, retryable
<1>3. q \in RowType
  <2>1. Rotated(row) \in RowType
    BY <1>1 DEF RowType, Rotated
  <2> QED BY <1>2, <2>1 DEF RowType, Phases
<1>4. /\ q.phase = phase /\ q.token = row.token + 1 /\ q.project = row.project /\ q.creation = row.creation
      /\ q.spawnClaim = row.spawnClaim /\ q.confirmation = row.confirmation
  BY <1>1 DEF RowType, Rotated
<1> HIDE DEF q
<1>5. row.phase \in Working => Follows(row, q) /\ Accounts(q, host, removed)
  BY <1>1, <1>2, <1>4 DEF Follows, Accounts
<1>6. Follows(row, row)
  BY <1>1 DEF Follows, Accounts
<1>7. recoverInterrupted(row) = row \/ (row.phase \in Working /\ recoverInterrupted(row) = q)
  BY DEF recoverInterrupted, q, phase, retryable
<1> QED BY <1>1, <1>3, <1>5, <1>6, <1>7

-----------------------------------------------------------------------------
(* Every step keeps the invariant, and its row follows the row before.      *)

\* Before the first request nothing was done and nothing is claimed.
LEMMA InitHolds == Init => LaunchInv
<1> SUFFICES ASSUME Init PROVE LaunchInv
  OBVIOUS
<1>1. NoRow \in RowType
  BY DEF NoRow, RowType, Phases
<1>2. TypeOK
  BY <1>1 DEF Init, TypeOK, RowOK, CallsOK, HostOK, HostType, ThreadStates
<1>3. Accounts(row, host, removed)
  BY DEF Init, Accounts, NoRow
<1>4. OwnersKnow /\ EvidenceAdmitted
  BY DEF Init, OwnersKnow, EvidenceAdmitted, Idle
<1> QED BY <1>2, <1>3, <1>4 DEF LaunchInv

\* A request that takes the row: it is the new owner and has read the row.
LEMMA OwnerStarts ==
    ASSUME LaunchInv, NEW f \in Runners, row' \in RowType, row'.token = row.token + 1,
           row'.project = row.project, Accounts(row', host, removed), row.confirmation # "native-ack",
           Starts(f, row.token + 1), UNCHANGED <<removed, checks, inbox, plugin, host>>
    PROVE  LaunchInv' /\ Follows(row, row')
<1> DEFINE x == [at |-> "resolving", generation |-> plugin.generation, token |-> row.token + 1,
                 claim |-> 0, absent |-> ~host.project, known |-> row.project]
<1>1. row.token \in Nat /\ row.project \in BOOLEAN /\ plugin.generation \in Nat
  BY DEF LaunchInv, TypeOK, RowOK, CallsOK, RowType
<1>2. x \in FlightType /\ flights' = [flights EXCEPT ![f] = x]
  BY <1>1 DEF FlightType, Starts
<1>3. x.at = "resolving" /\ x.token = row.token + 1 /\ x.known = row.project
  OBVIOUS
<1> HIDE DEF x
<1>4. flights \in [Runners -> {Idle} \cup FlightType]
  BY DEF LaunchInv, TypeOK, CallsOK
<1>5. /\ flights' \in [Runners -> {Idle} \cup FlightType]
      /\ flights'[f] = x
      /\ \A g \in Runners \ {f} : flights'[g] = flights[g]
  BY <1>2, <1>4, FlightWritten
<1>6. TypeOK'
  BY <1>5 DEF LaunchInv, TypeOK, RowOK, CallsOK, HostOK
<1>7. OwnersKnow'
  <2> SUFFICES ASSUME NEW g \in Runners, flights'[g].at = "resolving"
               PROVE  /\ flights'[g].token <= row'.token
                      /\ flights'[g].token = row'.token /\ row'.phase = "preparing"
                           => flights'[g].known = row'.project
    BY DEF OwnersKnow
  <2>1. CASE g = f
    BY <1>1, <1>3, <1>5, <2>1
  <2>2. CASE g # f
    <3>1. flights'[g] = flights[g] /\ flights[g] \in FlightType
      BY <1>4, <1>5, <2>2 DEF Idle
    <3>2. flights[g].token \in Nat /\ flights[g].token <= row.token
      BY <3>1 DEF FlightType, LaunchInv, OwnersKnow
    <3> QED BY <1>1, <3>1, <3>2
  <2> QED BY <2>1, <2>2
<1>8. Follows(row, row')
  BY <1>1 DEF Follows
<1>9. EvidenceAdmitted'
  BY DEF LaunchInv, EvidenceAdmitted
<1> QED BY <1>6, <1>7, <1>8, <1>9 DEF LaunchInv

\* A new launch, and a retry of one, leave a row that accounts for what the host did.
LEMMA RequestsKeep ==
    ASSUME LaunchInv, NEW f \in Runners, LaunchNew(f) \/ LaunchAgain(f)
    PROVE  LaunchInv' /\ Follows(row, row')
<1>0. row \in RowType /\ row.token \in Nat /\ Accounts(row, host, removed)
  BY DEF LaunchInv, TypeOK, RowOK, RowType
<1>1. CASE LaunchNew(f)
  <2>1. /\ row = NoRow /\ row.phase = None /\ row.token = 0 /\ ~row.creation /\ ~row.project
        /\ row.spawnClaim = 0 /\ row.confirmation = None
    BY <1>1 DEF LaunchNew, NoRow
  <2>2. ASSUME NEW phase \in {"rejected", "preparing"}, row' = [row EXCEPT !.phase = phase, !.token = 1]
        PROVE  /\ row' \in RowType /\ row'.token = 1 /\ row'.project = row.project
               /\ Accounts(row', host, removed) /\ row'.phase = phase
    <3>1. row' \in RowType
      BY <1>0, <2>2 DEF RowType, Phases
    <3>2. /\ row'.phase = phase /\ row'.token = 1 /\ row'.project = row.project /\ row'.creation = row.creation
          /\ row'.spawnClaim = row.spawnClaim /\ row'.confirmation = row.confirmation
      BY <1>0, <2>2 DEF RowType
    <3> QED BY <1>0, <2>1, <3>1, <3>2 DEF Accounts
  <2>3. CASE row' = [NoRow EXCEPT !.phase = "rejected", !.token = 1] /\ UNCHANGED flights
    <3>1. row' \in RowType /\ Accounts(row', host, removed) /\ row'.token = 1 /\ row'.phase = "rejected"
      BY <2>1, <2>2, <2>3
    <3>2. Follows(row, row')
      BY <2>1, <3>1 DEF Follows
    <3>3. CallsOK' /\ EvidenceAdmitted'
      BY <1>1, <2>3 DEF LaunchNew, LaunchInv, TypeOK, CallsOK, EvidenceAdmitted
    <3> QED BY <1>1, <2>3, <3>1, <3>2, <3>3, RowStep DEF LaunchNew
  <2>4. CASE row' = [NoRow EXCEPT !.phase = "preparing", !.token = 1] /\ Starts(f, 1)
    <3>1. /\ row' \in RowType /\ row'.token = row.token + 1 /\ row'.project = row.project
          /\ Accounts(row', host, removed)
      BY <2>1, <2>2, <2>4
    <3>2. Starts(f, row.token + 1) /\ row.confirmation # "native-ack"
      BY <2>1, <2>4
    <3>3. UNCHANGED <<removed, checks, inbox, plugin, host>>
      BY <1>1 DEF LaunchNew
    <3> QED BY <3>1, <3>2, <3>3, OwnerStarts
  <2> QED BY <1>1, <2>3, <2>4 DEF LaunchNew
<1>2. CASE LaunchAgain(f)
  <2> DEFINE q == [Rotated(row) EXCEPT !.phase = "preparing", !.retryable = FALSE]
  <2>1. q \in RowType
    <3>1. Rotated(row) \in RowType
      BY <1>0 DEF RowType, Rotated
    <3> QED BY <3>1 DEF RowType, Phases
  <2>2. /\ q.phase = "preparing" /\ q.token = row.token + 1 /\ q.project = row.project
        /\ q.creation = row.creation /\ q.spawnClaim = row.spawnClaim /\ q.confirmation = row.confirmation
    BY <1>0 DEF RowType, Rotated
  <2> HIDE DEF q
  <2>3. row.phase = "failed" /\ row.confirmation # "native-ack" /\ row' = q
    BY <1>0, <1>2 DEF LaunchAgain, Accounts, q
  <2>4. Accounts(q, host, removed)
    BY <1>0, <2>2, <2>3 DEF Accounts
  <2>5. Starts(f, row.token + 1) /\ UNCHANGED <<removed, checks, inbox, plugin, host>>
    BY <1>2 DEF LaunchAgain
  <2> QED BY <2>1, <2>2, <2>3, <2>4, <2>5, OwnerStarts
<1> QED BY <1>1, <1>2

\* A call that returns, and one that goes to its next await.
LEMMA CallReturned ==
    ASSUME CallsOK, NEW f \in Runners, Returns(f), UNCHANGED <<checks, inbox, plugin>>
    PROVE  CallsOK' /\ \A g \in Runners : flights'[g].at = "resolving" => flights'[g] = flights[g]
<1>1. flights \in [Runners -> {Idle} \cup FlightType] /\ flights' = [flights EXCEPT ![f] = Idle]
  BY DEF CallsOK, Returns
<1>2. /\ flights' \in [Runners -> {Idle} \cup FlightType]
      /\ flights'[f] = Idle
      /\ \A g \in Runners \ {f} : flights'[g] = flights[g]
  BY <1>1, FlightWritten
<1> QED BY <1>2 DEF CallsOK, Idle

\* A call that goes on to its next await disturbs nothing else.
LEMMA CallMoved ==
    ASSUME CallsOK, NEW f \in Runners, flights[f].at # None, UNCHANGED <<checks, inbox, plugin>>,
           NEW at \in {"creating", "resolving-again", "spawning"}, NEW claim \in Nat,
           flights' = [flights EXCEPT ![f].at = at, ![f].claim = claim]
    PROVE  CallsOK' /\ \A g \in Runners : flights'[g].at = "resolving" => flights'[g] = flights[g]
<1> DEFINE x == [flights[f] EXCEPT !.at = at, !.claim = claim]
<1>1. flights \in [Runners -> {Idle} \cup FlightType] /\ flights[f] \in FlightType
  BY DEF CallsOK, Idle
<1>2. x \in FlightType /\ x.at = at
  BY <1>1 DEF FlightType
<1>3. flights' = [flights EXCEPT ![f] = x]
  BY <1>1
<1> HIDE DEF x
<1>4. /\ flights' \in [Runners -> {Idle} \cup FlightType]
      /\ flights'[f] = x
      /\ \A g \in Runners \ {f} : flights'[g] = flights[g]
  BY <1>1, <1>2, <1>3, FlightWritten
<1> QED BY <1>2, <1>4 DEF CallsOK

\* A step with an effect on the host that admits nothing new.
LEMMA EffectStep ==
    ASSUME LaunchInv, row' \in RowType, Follows(row, row'), HostOK', Accounts(row', host', removed), CallsOK',
           UNCHANGED <<removed, checks, inbox>>, host'.thread = host.thread, host.admitted => host'.admitted,
           \A f \in Runners : flights'[f].at = "resolving" => flights'[f] = flights[f]
    PROVE  LaunchInv' /\ Follows(row, row')
<1>1. TypeOK /\ TypeOK'
  BY DEF LaunchInv, TypeOK, RowOK
<1>2. EvidenceAdmitted'
  BY DEF LaunchInv, EvidenceAdmitted
<1> QED BY <1>1, <1>2, OwnersStillKnow DEF LaunchInv

\* The claim of a spawn, by the owner of a row that is being prepared.
LEMMA SpawnClaimed ==
    ASSUME LaunchInv, NEW f \in Runners, flights[f].at # None, ClaimSpawn(f),
           UNCHANGED <<removed, checks, inbox, plugin>>
    PROVE  LaunchInv' /\ Follows(row, row')
<1>0. /\ row \in RowType /\ row.token \in Nat /\ Accounts(row, host, removed)
      /\ CallsOK /\ host \in HostType
  BY DEF LaunchInv, TypeOK, RowOK, RowType, HostOK
<1>1. CASE Owned(flights[f].token, Before)
  <2> DEFINE q == [row EXCEPT !.phase = "spawn-claimed", !.spawnClaim = row.token, !.retryable = FALSE, !.project = TRUE]
             h == [host EXCEPT !.spawns = @ + 1]
  <2>1. q \in RowType /\ h \in HostType
    <3>1. q \in RowType
      BY <1>0 DEF RowType, Phases
    <3>2. h \in HostType
      BY <1>0 DEF HostType
    <3> QED BY <3>1, <3>2
  <2>2. /\ q.phase = "spawn-claimed" /\ q.token = row.token /\ q.project = TRUE
        /\ q.creation = row.creation /\ q.spawnClaim = row.token /\ q.confirmation = row.confirmation
        /\ h.creates = host.creates /\ h.spawns = host.spawns + 1 /\ h.thread = host.thread
        /\ h.admitted = host.admitted
    BY <1>0 DEF RowType, HostType
  <2>3. row' = q /\ host' = h /\ row.phase \in Before
    BY <1>1 DEF ClaimSpawn, Owned
  <2> HIDE DEF q, h
  <2>4. row.token > 0 /\ row.spawnClaim = 0 /\ host.spawns = 0 /\ row.confirmation # "native-ack"
    BY <1>0, <2>3 DEF Accounts
  <2>5. Follows(row, q) /\ Accounts(q, h, removed)
    <3>1. Follows(row, q)
      BY <1>0, <2>2, <2>4 DEF Follows
    <3>2. h.creates = IF q.creation THEN 1 ELSE 0
      BY <1>0, <2>2 DEF Accounts
    <3>3. h.spawns = 1 /\ q.spawnClaim # 0
      BY <1>0, <2>2, <2>4
    <3> QED BY <2>2, <2>4, <3>1, <3>2, <3>3 DEF Accounts
  <2>6. flights' = [flights EXCEPT ![f].at = "spawning", ![f].claim = row.token]
    BY <1>1 DEF ClaimSpawn
  <2>7. CallsOK' /\ \A g \in Runners : flights'[g].at = "resolving" => flights'[g] = flights[g]
    BY <1>0, <2>6, CallMoved
  <2> QED BY <2>1, <2>2, <2>3, <2>5, <2>7, EffectStep DEF HostOK
<1>2. CASE ~Owned(flights[f].token, Before)
  <2>1. Returns(f) /\ UNCHANGED <<row, host>>
    BY <1>2 DEF ClaimSpawn
  <2>2. CallsOK' /\ \A g \in Runners : flights'[g].at = "resolving" => flights'[g] = flights[g]
    BY <1>0, <2>1, CallReturned
  <2>3. Follows(row, row)
    BY <1>0 DEF Follows, Accounts
  <2> QED BY <1>0, <2>1, <2>2, <2>3, EffectStep DEF HostOK
<1> QED BY <1>1, <1>2

\* The claim of a project, by an owner that knows of none: none was claimed.
LEMMA ProjectClaimed ==
    ASSUME LaunchInv, NEW f \in Runners, flights[f].at = "resolving", ~flights[f].known,
           Owned(flights[f].token, {"preparing"}), ClaimProject(f), UNCHANGED <<removed, checks, inbox, plugin>>
    PROVE  LaunchInv' /\ Follows(row, row')
<1>0. /\ row \in RowType /\ row.token \in Nat /\ Accounts(row, host, removed)
      /\ CallsOK /\ host \in HostType
  BY DEF LaunchInv, TypeOK, RowOK, RowType, HostOK
<1> DEFINE q == [row EXCEPT !.phase = "project-claimed", !.creation = TRUE, !.projectClaim = row.token]
           h == [host EXCEPT !.creates = @ + 1]
<1>1. q \in RowType /\ h \in HostType
  <2>1. q \in RowType
    BY <1>0 DEF RowType, Phases
  <2>2. h \in HostType
    BY <1>0 DEF HostType
  <2> QED BY <2>1, <2>2
<1>2. /\ q.phase = "project-claimed" /\ q.token = row.token /\ q.project = row.project
      /\ q.creation = TRUE /\ q.spawnClaim = row.spawnClaim /\ q.confirmation = row.confirmation
      /\ h.creates = host.creates + 1 /\ h.spawns = host.spawns /\ h.thread = host.thread
      /\ h.admitted = host.admitted
  BY <1>0 DEF RowType, HostType
<1>3. /\ row' = q /\ host' = h /\ row.phase = "preparing"
      /\ flights' = [flights EXCEPT ![f].at = "creating", ![f].claim = row.token]
  BY DEF ClaimProject, Owned
<1> HIDE DEF q, h
<1>4. row.token > 0 /\ row.spawnClaim = 0 /\ row.confirmation # "native-ack"
  BY <1>0, <1>3 DEF Accounts
<1>5. ~row.project
  BY <1>3 DEF LaunchInv, OwnersKnow, Owned
<1>6. ~row.creation /\ host.creates = 0
  BY <1>0, <1>3, <1>5 DEF Accounts
<1>7. Follows(row, q) /\ Accounts(q, h, removed)
  <2>1. Follows(row, q)
    BY <1>0, <1>2, <1>4 DEF Follows
  <2>2. h.creates = 1
    BY <1>2, <1>6
  <2>3. h.spawns = 0
    BY <1>0, <1>2, <1>4 DEF Accounts
  <2> QED BY <1>2, <1>4, <2>1, <2>2, <2>3 DEF Accounts
<1>8. CallsOK' /\ \A g \in Runners : flights'[g].at = "resolving" => flights'[g] = flights[g]
  BY <1>0, <1>3, CallMoved
<1> QED BY <1>1, <1>2, <1>3, <1>7, <1>8, EffectStep DEF HostOK

\* A call that settles a row of its own, and leaves every other row.
LEMMA SettlesKeep ==
    ASSUME LaunchInv, NEW f \in Runners, Returns(f), UNCHANGED <<removed, checks, inbox, plugin, host>>,
           row' \in RowType, Follows(row, row'), Accounts(row', host, removed)
    PROVE  LaunchInv' /\ Follows(row, row')
<1>1. CallsOK' /\ \A g \in Runners : flights'[g].at = "resolving" => flights'[g] = flights[g]
  BY CallReturned DEF LaunchInv, TypeOK
<1>2. HostOK'
  BY DEF LaunchInv, TypeOK, HostOK
<1> QED BY <1>1, <1>2, EffectStep

\* A preparation that fails keeps the invariant, whoever owns the row by then.
LEMMA PreparationKeeps ==
    ASSUME LaunchInv, NEW f \in Runners, PreparationFails(f) \/ ProjectThrows(f)
    PROVE  LaunchInv' /\ Follows(row, row')
<1>0. row \in RowType /\ row.token \in Nat /\ Accounts(row, host, removed)
  BY DEF LaunchInv, TypeOK, RowOK, RowType
<1>1. Follows(row, row)
  BY <1>0 DEF Follows, Accounts
<1>2. Returns(f) /\ UNCHANGED <<removed, checks, inbox, plugin, host>>
  BY DEF PreparationFails, ProjectThrows
<1>3. \/ row' = row
      \/ row.phase \in Before /\ row' = [row EXCEPT !.phase = "failed", !.retryable = TRUE]
      \/ row.phase = "project-claimed" /\ row' = [row EXCEPT !.phase = "project-unknown", !.retryable = FALSE]
  BY DEF PreparationFails, ProjectThrows, Owned
<1>4. row' \in RowType /\ Follows(row, row') /\ Accounts(row', host, removed)
  <2>1. CASE row' = row
    BY <1>0, <1>1, <2>1
  <2>2. CASE row.phase \in Before /\ row' = [row EXCEPT !.phase = "failed", !.retryable = TRUE]
    BY <1>0, <2>2, SettledRow
  <2>3. CASE row.phase = "project-claimed" /\ row' = [row EXCEPT !.phase = "project-unknown", !.retryable = FALSE]
    BY <1>0, <2>3, SettledRow
  <2> QED BY <1>3, <2>1, <2>2, <2>3
<1> QED BY <1>2, <1>4, SettlesKeep

\* The look-up of the target keeps the invariant, found or not.
LEMMA TargetKeeps ==
    ASSUME LaunchInv, NEW f \in Runners, TargetResolved(f) \/ ResolvedAgain(f)
    PROVE  LaunchInv' /\ Follows(row, row')
<1>0. row \in RowType /\ row.token \in Nat /\ Accounts(row, host, removed)
  BY DEF LaunchInv, TypeOK, RowOK, RowType
<1>1. flights[f].at \in {"resolving", "resolving-again"} /\ UNCHANGED <<removed, checks, inbox, plugin>>
  BY DEF TargetResolved, ResolvedAgain
<1>2. CASE ClaimSpawn(f)
  BY <1>1, <1>2, SpawnClaimed
<1>3. CASE /\ flights[f].at = "resolving" /\ ~flights[f].known /\ Owned(flights[f].token, {"preparing"})
           /\ ClaimProject(f)
  BY <1>1, <1>3, ProjectClaimed
<1>4. CASE Returns(f) /\ UNCHANGED <<row, host>>
  <2>1. Follows(row, row)
    BY <1>0 DEF Follows, Accounts
  <2> QED BY <1>0, <1>1, <1>4, <2>1, SettlesKeep
<1>5. CASE TargetResolved(f)
  <2> PICK found \in BOOLEAN :
        /\ (flights[f].known \/ ~flights[f].absent) => found
        /\ IF ~found /\ Owned(flights[f].token, {"preparing"}) THEN ClaimProject(f)
           ELSE IF found /\ Owned(flights[f].token, {"preparing"}) THEN ClaimSpawn(f)
           ELSE Returns(f) /\ UNCHANGED <<row, host>>
    BY <1>5 DEF TargetResolved
  <2>1. flights[f].at = "resolving"
    BY <1>5 DEF TargetResolved
  <2> QED BY <1>2, <1>3, <1>4, <2>1
<1> QED BY <1>2, <1>5 DEF ResolvedAgain

\* So does creating the project, when its answer is lost as well.
LEMMA ProjectKeeps ==
    ASSUME LaunchInv, NEW f \in Runners, ProjectAnswers(f)
    PROVE  LaunchInv' /\ Follows(row, row')
<1> DEFINE done == ProjectCompleted(flights[f].claim, flights[f].token)
           q == [done EXCEPT !.phase = "failed", !.retryable = TRUE]
<1>0. row \in RowType /\ row.token \in Nat /\ Accounts(row, host, removed)
  BY DEF LaunchInv, TypeOK, RowOK, RowType
<1>1. done \in RowType /\ done.token \in Nat /\ Follows(row, done) /\ Accounts(done, host, removed)
  <2>1. done \in RowType /\ Follows(row, done) /\ Accounts(done, host, removed)
    BY ProjectCompletedRow DEF LaunchInv
  <2> QED BY <2>1 DEF RowType
<1>2. UNCHANGED <<removed, checks, inbox, plugin, host>> /\ flights[f].at = "creating"
  BY DEF ProjectAnswers
<1>3. CASE row' = done /\ flights' = [flights EXCEPT ![f].at = "resolving-again"]
  <2> DEFINE x == [flights[f] EXCEPT !.at = "resolving-again"]
  <2>1. flights \in [Runners -> {Idle} \cup FlightType] /\ flights[f] \in FlightType
    BY <1>2 DEF LaunchInv, TypeOK, CallsOK, Idle
  <2>2. x \in FlightType /\ x.at = "resolving-again"
    BY <2>1 DEF FlightType
  <2>3. flights' = [flights EXCEPT ![f] = x]
    BY <1>3
  <2> HIDE DEF x
  <2>4. /\ flights' \in [Runners -> {Idle} \cup FlightType]
        /\ flights'[f] = x
        /\ \A g \in Runners \ {f} : flights'[g] = flights[g]
    BY <2>1, <2>2, <2>3, FlightWritten
  <2>5. CallsOK' /\ HostOK' /\ \A g \in Runners : flights'[g].at = "resolving" => flights'[g] = flights[g]
    BY <1>2, <2>2, <2>4 DEF LaunchInv, TypeOK, CallsOK, HostOK
  <2> HIDE DEF done
  <2> QED BY <1>1, <1>2, <1>3, <2>5, EffectStep
<1>4. CASE Returns(f) /\ row' = done
  BY <1>1, <1>2, <1>4, SettlesKeep
<1>5. CASE Returns(f) /\ done.phase \in Before /\ row' = q
  <2> HIDE DEF done
  <2>1. q \in RowType /\ Follows(done, q) /\ Accounts(q, host, removed)
    BY <1>1, <1>5, SettledRow
  <2>2. q.phase = "failed" /\ q.token = done.token
    BY <1>1 DEF RowType
  <2> HIDE DEF q
  <2>3. Follows(row, q)
    BY <1>0, <1>1, <2>1, <2>2 DEF Follows
  <2> QED BY <1>2, <1>5, <2>1, <2>3, SettlesKeep
<1> QED BY <1>3, <1>4, <1>5 DEF ProjectAnswers

\* So does spawning the thread, when its answer is lost as well.
LEMMA SpawnKeeps ==
    ASSUME LaunchInv, NEW f \in Runners, SpawnAnswers(f) \/ SpawnThrows(f)
    PROVE  LaunchInv' /\ Follows(row, row')
<1>0. row \in RowType /\ row.token \in Nat /\ Accounts(row, host, removed) /\ host \in HostType
  BY DEF LaunchInv, TypeOK, RowOK, RowType, HostOK
<1>1. CASE SpawnAnswers(f)
  <2> DEFINE h == [host EXCEPT !.admitted = TRUE]
  <2>1. h \in HostType
    BY <1>0 DEF HostType
  <2>2. h.creates = host.creates /\ h.spawns = host.spawns /\ h.thread = host.thread /\ h.admitted
    BY <1>0 DEF HostType
  <2>3. host' = h /\ Returns(f) /\ UNCHANGED <<removed, checks, inbox, plugin>>
    BY <1>1 DEF SpawnAnswers
  <2> HIDE DEF h
  <2>4. row' = SpawnCompleted(flights[f].claim, "native-ack")
    BY <1>1 DEF SpawnAnswers
  <2>5. row' \in RowType /\ Follows(row, row') /\ Accounts(row', h, removed)
    BY <2>2, <2>4, SpawnCompletedRow DEF LaunchInv
  <2>6. CallsOK' /\ \A g \in Runners : flights'[g].at = "resolving" => flights'[g] = flights[g]
    BY <2>3, CallReturned DEF LaunchInv, TypeOK
  <2> QED BY <2>1, <2>2, <2>3, <2>5, <2>6, EffectStep DEF HostOK
<1>2. CASE SpawnThrows(f)
  <2> DEFINE c == IF row.candidate # None THEN row.candidate ELSE IF row.thread THEN "failed" ELSE None
             q == [row EXCEPT !.phase = "indeterminate", !.confirmation = None, !.thread = FALSE,
                              !.retryable = FALSE, !.candidate = c]
  <2>1. c \in {None, "pending", "failed", "deleted"}
    BY <1>0 DEF RowType
  <2>2. /\ Returns(f) /\ UNCHANGED <<removed, checks, inbox, plugin, host>>
        /\ \/ row' = row
           \/ /\ row' = q
              /\ row.phase \in SpawnPhases \/ (row.phase = "succeeded" /\ row.confirmation # "native-ack")
    BY <1>0, <1>2 DEF SpawnThrows, rejectSpawn, RowType
  <2> HIDE DEF c
  <2>3. q \in RowType
    BY <1>0, <2>1 DEF RowType, Phases
  <2>4. /\ q.phase = "indeterminate" /\ q.token = row.token /\ q.project = row.project /\ q.confirmation = None
        /\ q.creation = row.creation /\ q.spawnClaim = row.spawnClaim
    BY <1>0 DEF RowType
  <2> HIDE DEF q
  <2>5. CASE row' = row
    <3>1. Follows(row, row)
      BY <1>0 DEF Follows, Accounts
    <3> QED BY <1>0, <2>2, <2>5, <3>1, SettlesKeep
  <2>6. CASE /\ row' = q
             /\ row.phase \in SpawnPhases \/ (row.phase = "succeeded" /\ row.confirmation # "native-ack")
    <3>1. Follows(row, q) /\ Accounts(q, host, removed)
      BY <1>0, <2>3, <2>4, <2>6, UnknownRow
    <3> QED BY <2>2, <2>3, <2>6, <3>1, SettlesKeep
  <2> QED BY <2>2, <2>5, <2>6
<1> QED BY <1>1, <1>2

\* A check that is over.
LEMMA CheckEnds ==
    ASSUME LaunchInv, NEW c \in Checks, checks' = [checks EXCEPT ![c] = Idle],
           UNCHANGED <<removed, flights, inbox, plugin, host>>,
           row' \in RowType, Follows(row, row'), Accounts(row', host, removed)
    PROVE  LaunchInv' /\ Follows(row, row')
<1>1. CallsOK'
  BY DEF LaunchInv, TypeOK, CallsOK
<1>2. EvidenceAdmitted'
  BY DEF LaunchInv, TypeOK, CallsOK, EvidenceAdmitted, Idle
<1> QED BY <1>1, <1>2, RowStep

\* So do the reconciling checks of a project or a thread.
LEMMA ChecksKeep ==
    ASSUME LaunchInv, NEW c \in Checks,
           CheckAsks(c) \/ CheckFindsProject(c) \/ CheckFindsThread(c) \/ CheckThrows(c)
    PROVE  LaunchInv' /\ Follows(row, row')
<1>0. /\ row \in RowType /\ row.token \in Nat /\ Accounts(row, host, removed) /\ host \in HostType
      /\ removed \in BOOLEAN /\ checks \in [Checks -> {Idle} \cup CheckType]
  BY DEF LaunchInv, TypeOK, RowOK, RowType, HostOK, CallsOK
<1>1. Follows(row, row)
  BY <1>0 DEF Follows, Accounts
<1>2. CASE CheckAsks(c)
  <2>1. PICK at \in {"project", "thread"}, found \in ThreadStates \cup {"project"} :
            /\ checks' = [checks EXCEPT ![c] = [at |-> at, token |-> row.token, found |-> found]]
            /\ at = "thread" => found = host.thread
    BY <1>0, <1>2 DEF CheckAsks, HostType
  <2>2. [at |-> at, token |-> row.token, found |-> found] \in CheckType
    BY <1>0 DEF CheckType
  <2>3. UNCHANGED <<row, removed, flights, inbox, plugin, host>>
    BY <1>2 DEF CheckAsks
  <2>4. CallsOK'
    BY <1>0, <2>1, <2>2, <2>3 DEF LaunchInv, TypeOK, CallsOK
  <2>5. EvidenceAdmitted'
    <3>1. ASSUME NEW d \in Checks, checks'[d].at = "thread", checks'[d].found = "active"
          PROVE  host.admitted
      <4>1. CASE d = c
        BY <1>0, <2>1, <3>1, <4>1 DEF LaunchInv, EvidenceAdmitted
      <4>2. CASE d # c
        BY <1>0, <2>1, <3>1, <4>2 DEF LaunchInv, EvidenceAdmitted
      <4> QED BY <4>1, <4>2
    <3> QED BY <2>3, <3>1 DEF LaunchInv, EvidenceAdmitted
  <2> QED BY <1>0, <1>1, <2>3, <2>4, <2>5, RowStep
<1>3. CASE CheckFindsProject(c)
  <2> DEFINE q == [Rotated(row) EXCEPT !.phase = "failed", !.project = TRUE, !.retryable = TRUE]
  <2>1. Rotated(row) \in RowType
    BY <1>0 DEF RowType, Rotated
  <2>2. q \in RowType
    BY <2>1 DEF RowType, Phases
  <2>3. /\ q.phase = "failed" /\ q.token = row.token + 1 /\ q.project = TRUE /\ q.confirmation = row.confirmation
        /\ q.creation = row.creation /\ q.spawnClaim = row.spawnClaim
    BY <1>0 DEF RowType, Rotated
  <2>4. /\ row' = row \/ (row' = q /\ row.phase \in ProjectPhases)
        /\ checks' = [checks EXCEPT ![c] = Idle] /\ UNCHANGED <<removed, flights, inbox, plugin, host>>
    BY <1>3 DEF CheckFindsProject, Owned
  <2> HIDE DEF q
  <2>5. ASSUME row.phase \in ProjectPhases PROVE Follows(row, q) /\ Accounts(q, host, removed)
    <3>1. row.spawnClaim = 0 /\ row.confirmation # "native-ack"
      BY <1>0, <2>5 DEF Accounts
    <3>2. Follows(row, q)
      BY <1>0, <2>3, <3>1 DEF Follows
    <3> QED BY <1>0, <2>3, <3>1, <3>2 DEF Accounts
  <2> QED BY <1>0, <1>1, <2>2, <2>4, <2>5, CheckEnds
<1>4. CASE CheckFindsThread(c)
  <2> DEFINE found == checks[c].found
             ok == ConfirmedByCheck(found)
             phase == IF ok THEN "succeeded" ELSE "indeterminate"
             conf == IF found = "active" THEN "lifecycle" ELSE row.confirmation
             cand == IF found \in {"pending", "failed"} THEN found ELSE row.candidate
             q == [row EXCEPT !.phase = phase, !.confirmation = conf, !.thread = ok, !.retryable = FALSE,
                              !.candidate = cand]
  <2>1. /\ ok \in BOOLEAN /\ phase \in {"succeeded", "indeterminate"}
        /\ conf \in {None, "lifecycle", "native-ack"} /\ cand \in {None, "pending", "failed", "deleted"}
        /\ ok => phase = "succeeded" /\ conf = "lifecycle" /\ ~removed
        /\ ~ok => phase = "indeterminate"
        /\ conf \in {"lifecycle", row.confirmation}
    BY <1>0 DEF ConfirmedByCheck, RowType
  <2>2. /\ row' = row \/ (row' = q /\ row.phase \in SpawnPhases)
        /\ checks[c].at = "thread"
        /\ checks' = [checks EXCEPT ![c] = Idle] /\ UNCHANGED <<removed, flights, inbox, plugin, host>>
    BY <1>4 DEF CheckFindsThread, Owned
  <2>3. ok => host.admitted
    BY <2>2 DEF ConfirmedByCheck, LaunchInv, EvidenceAdmitted
  <2> HIDE DEF ok, phase, conf, cand
  <2>4. q \in RowType
    BY <1>0, <2>1 DEF RowType, Phases
  <2>5. /\ q.phase = phase /\ q.token = row.token /\ q.project = row.project /\ q.confirmation = conf
        /\ q.creation = row.creation /\ q.spawnClaim = row.spawnClaim /\ q.thread = ok
    BY <1>0 DEF RowType
  <2> HIDE DEF q
  <2>6. ASSUME row.phase \in SpawnPhases PROVE Follows(row, q) /\ Accounts(q, host, removed)
    <3>1. row.confirmation # "native-ack" /\ conf # "native-ack"
      BY <1>0, <2>1, <2>6 DEF Accounts
    <3>2. Follows(row, q)
      BY <1>0, <2>1, <2>5, <3>1 DEF Follows
    <3>3. CASE ok
      BY <1>0, <2>1, <2>3, <2>5, <2>6, <3>1, <3>2, <3>3 DEF Accounts
    <3>4. CASE ~ok
      BY <1>0, <2>1, <2>4, <2>5, <2>6, <3>1, <3>2, <3>4, UnknownRow
    <3> QED BY <2>1, <3>3, <3>4, <3>2
  <2> QED BY <1>0, <1>1, <2>2, <2>4, <2>6, CheckEnds
<1>5. CASE CheckThrows(c)
  <2> DEFINE q == [row EXCEPT !.phase = "indeterminate", !.retryable = FALSE]
  <2>1. q \in RowType
    BY <1>0 DEF RowType, Phases
  <2>2. /\ q.phase = "indeterminate" /\ q.token = row.token /\ q.project = row.project
        /\ q.confirmation = row.confirmation /\ q.creation = row.creation /\ q.spawnClaim = row.spawnClaim
    BY <1>0 DEF RowType
  <2>3. /\ row' = row \/ (row' = q /\ row.phase \in SpawnPhases)
        /\ checks' = [checks EXCEPT ![c] = Idle] /\ UNCHANGED <<removed, flights, inbox, plugin, host>>
    BY <1>5 DEF CheckThrows, Owned
  <2> HIDE DEF q
  <2>4. ASSUME row.phase \in SpawnPhases PROVE Follows(row, q) /\ Accounts(q, host, removed)
    <3>1. row.confirmation # "native-ack"
      BY <1>0, <2>4 DEF Accounts
    <3> QED BY <1>0, <2>1, <2>2, <2>4, <3>1, UnknownRow
  <2> QED BY <1>0, <1>1, <2>1, <2>3, <2>4, CheckEnds
<1> QED BY <1>2, <1>3, <1>4, <1>5

\* A lifecycle event that is handled; a removal may mark the thread removed.
LEMMA EventHandled ==
    ASSUME LaunchInv, inbox' \subseteq EventType, \A e \in inbox' : e.kind = "active" => e \in inbox,
           UNCHANGED <<flights, checks, plugin, host>>, removed' \in BOOLEAN,
           row' \in RowType, Follows(row, row'), Accounts(row', host, removed')
    PROVE  LaunchInv' /\ Follows(row, row')
<1>1. TypeOK /\ TypeOK'
  BY DEF LaunchInv, TypeOK, RowOK, CallsOK, HostOK
<1>2. EvidenceAdmitted'
  BY DEF LaunchInv, EvidenceAdmitted
<1> QED BY <1>1, <1>2, OwnersStillKnow DEF LaunchInv

\* So do the events of the host, in any order and after any delay.
LEMMA ReceiptKeeps ==
    ASSUME LaunchInv, NEW e \in inbox, observeNativeReceipt(e)
    PROVE  LaunchInv' /\ Follows(row, row')
<1>0. /\ row \in RowType /\ row.token \in Nat /\ Accounts(row, host, removed) /\ inbox \subseteq EventType
      /\ removed \in BOOLEAN
  BY DEF LaunchInv, TypeOK, RowOK, RowType, CallsOK
<1>1. Follows(row, row)
  BY <1>0 DEF Follows, Accounts
<1> DEFINE q == [row EXCEPT !.phase = "indeterminate", !.thread = FALSE, !.candidate = e.kind, !.retryable = FALSE]
<1>2. /\ e.kind \in {"pending", "active", "failed"}
      /\ inbox' = inbox \ {e} /\ UNCHANGED <<removed, flights, checks, plugin, host>>
      /\ \/ row' = row
         \/ e.kind = "active" /\ ~removed /\ row' = SpawnCompleted(row.spawnClaim, "lifecycle")
         \/ e.kind \in {"pending", "failed"} /\ row.phase \in SpawnPhases /\ row' = q
  BY DEF observeNativeReceipt, Evidence
<1>3. row' \in RowType /\ Follows(row, row') /\ Accounts(row', host, removed)
  <2>1. CASE row' = row
    BY <1>0, <1>1, <2>1
  <2>2. CASE e.kind = "active" /\ ~removed /\ row' = SpawnCompleted(row.spawnClaim, "lifecycle")
    <3>1. host.admitted
      BY <2>2 DEF LaunchInv, EvidenceAdmitted
    <3> QED BY <2>2, <3>1, SpawnCompletedRow DEF LaunchInv
  <2>3. CASE e.kind \in {"pending", "failed"} /\ row.phase \in SpawnPhases /\ row' = q
    <3>1. q \in RowType
      BY <1>0, <2>3 DEF RowType, Phases
    <3>2. /\ q.phase = "indeterminate" /\ q.token = row.token /\ q.project = row.project
          /\ q.confirmation = row.confirmation /\ q.creation = row.creation /\ q.spawnClaim = row.spawnClaim
      BY <1>0 DEF RowType
    <3>3. row.confirmation # "native-ack"
      BY <1>0, <2>3 DEF Accounts
    <3> HIDE DEF q
    <3> QED BY <1>0, <2>3, <3>1, <3>2, <3>3, UnknownRow
  <2> QED BY <1>2, <2>1, <2>2, <2>3
<1> QED BY <1>0, <1>2, <1>3, EventHandled

\* A success that is not acknowledged has its thread, so that the removal finds
\* and revokes it also while the metadata is not known.
LEMMA RemovalKeeps ==
    ASSUME LaunchInv, NEW e \in inbox, observeNativeRemoval(e)
    PROVE  LaunchInv' /\ Follows(row, row')
<1>0. row \in RowType /\ row.token \in Nat /\ Accounts(row, host, removed) /\ inbox \subseteq EventType
  BY DEF LaunchInv, TypeOK, RowOK, RowType, CallsOK
<1> DEFINE q == [Rotated(row) EXCEPT !.phase = "indeterminate", !.confirmation = None, !.thread = FALSE,
                                     !.candidate = "deleted", !.retryable = FALSE]
           known == e.kind = "deleted-metadata" \/ row.thread \/ row.candidate # None
           again == [e EXCEPT !.kind = "deleted-metadata"]
<1>1. Rotated(row) \in RowType
  BY <1>0 DEF RowType, Rotated
<1>2. q \in RowType
  BY <1>1 DEF RowType, Phases
<1>3. /\ q.phase = "indeterminate" /\ q.token = row.token + 1 /\ q.project = row.project
      /\ q.confirmation = None /\ q.creation = row.creation /\ q.spawnClaim = row.spawnClaim
  BY <1>0 DEF RowType, Rotated
<1> HIDE DEF q
<1>4. again \in EventType /\ again.kind = "deleted-metadata"
  BY <1>0 DEF EventType
<1>5. /\ row' = IF known /\ Revocable(row) THEN q ELSE row
      /\ removed' = TRUE /\ UNCHANGED <<flights, checks, plugin, host>>
      /\ inbox' \subseteq (inbox \ {e}) \cup {again}
  BY DEF observeNativeRemoval, q
<1>6. inbox' \subseteq EventType /\ \A d \in inbox' : d.kind = "active" => d \in inbox
  BY <1>0, <1>4, <1>5
<1>7. CASE known /\ Revocable(row)
  <2>1. row.phase \in SpawnPhases \/ (row.phase = "succeeded" /\ row.confirmation # "native-ack")
    BY <1>7, <1>0 DEF Revocable, Accounts
  <2>2. Follows(row, q) /\ Accounts(q, host, TRUE)
    BY <1>0, <1>2, <1>3, <2>1, UnknownRow
  <2> QED BY <1>2, <1>5, <1>6, <1>7, <2>2, EventHandled
<1>8. CASE ~(known /\ Revocable(row))
  <2>1. row.phase = "succeeded" => row.confirmation = "native-ack"
    BY <1>0, <1>8 DEF Accounts, Revocable
  <2>2. Follows(row, row) /\ Accounts(row, host, TRUE)
    BY <1>0, <2>1 DEF Follows, Accounts
  <2> QED BY <1>0, <1>5, <1>6, <1>8, <2>2, EventHandled
<1> QED BY <1>7, <1>8

\* Reloads, crashes and what the host does by itself.
LEMMA SurroundingsKeep ==
    ASSUME LaunchInv,
           (\E e \in inbox : EventIsLost(e)) \/ Dispose \/ Crash \/ Start \/ ProjectAppears \/ ThreadMoves
    PROVE  LaunchInv' /\ Follows(row, row')
<1>0. /\ row \in RowType /\ row.token \in Nat /\ Accounts(row, host, removed) /\ inbox \subseteq EventType
      /\ host \in HostType /\ plugin \in [generation : Nat, up : BOOLEAN] /\ removed \in BOOLEAN
  BY DEF LaunchInv, TypeOK, RowOK, RowType, CallsOK, HostOK
<1>1. Follows(row, row)
  BY <1>0 DEF Follows, Accounts
<1>2. ASSUME NEW e \in inbox, EventIsLost(e) PROVE LaunchInv' /\ Follows(row, row')
  BY <1>0, <1>1, <1>2, EventHandled DEF EventIsLost
<1>3. CASE Dispose
  <2>1. CallsOK' /\ EvidenceAdmitted'
    BY <1>0, <1>3 DEF Dispose, LaunchInv, TypeOK, CallsOK, EvidenceAdmitted
  <2> QED BY <1>0, <1>1, <1>3, <2>1, RowStep DEF Dispose
<1>4. CASE Crash
  <2>1. CallsOK'
    BY <1>0, <1>4 DEF Crash, CallsOK
  <2>2. EvidenceAdmitted'
    BY <1>4 DEF Crash, LaunchInv, EvidenceAdmitted, Idle
  <2>3. \A f \in Runners : flights'[f].at # "resolving"
    BY <1>4 DEF Crash, Idle
  <2> QED BY <1>0, <1>1, <1>4, <2>1, <2>2, <2>3, RowStep DEF Crash
<1>5. CASE Start
  <2>1. CallsOK' /\ EvidenceAdmitted'
    BY <1>0, <1>5 DEF Start, LaunchInv, TypeOK, CallsOK, EvidenceAdmitted
  <2>2. row' \in RowType /\ Follows(row, row') /\ Accounts(row', host, removed)
    BY <1>5, RecoveredRow DEF Start, LaunchInv
  <2> QED BY <1>5, <2>1, <2>2, RowStep DEF Start
<1>6. CASE ProjectAppears
  <2> DEFINE h == [host EXCEPT !.project = TRUE]
  <2>1. /\ h \in HostType /\ h.creates = host.creates /\ h.spawns = host.spawns
        /\ h.thread = host.thread /\ h.admitted = host.admitted
    BY <1>0 DEF HostType
  <2>2. host' = h /\ UNCHANGED <<row, removed, flights, checks, inbox, plugin>>
    BY <1>6 DEF ProjectAppears
  <2> HIDE DEF h
  <2>3. Accounts(row, h, removed)
    BY <1>0, <2>1 DEF Accounts
  <2>4. CallsOK'
    BY <2>2 DEF LaunchInv, TypeOK, CallsOK
  <2> QED BY <1>0, <1>1, <2>1, <2>2, <2>3, <2>4, EffectStep DEF HostOK
<1>7. CASE ThreadMoves
  <2> PICK to \in {"pending", "active", "failed", "deleted"} :
        /\ host' = [host EXCEPT !.thread = to, !.admitted = @ \/ to = "active"]
        /\ inbox' = IF plugin.up THEN inbox \cup {[kind |-> to, generation |-> plugin.generation]} ELSE inbox
    BY <1>7 DEF ThreadMoves
  <2> DEFINE a == host.admitted \/ to = "active"
             h == [host EXCEPT !.thread = to, !.admitted = a]
             e == [kind |-> to, generation |-> plugin.generation]
  <2>1. a \in BOOLEAN /\ (host.admitted => a) /\ (to = "active" => a) /\ host' = h
    BY <1>0 DEF HostType
  <2> HIDE DEF a
  <2>2. /\ h \in HostType /\ h.creates = host.creates /\ h.spawns = host.spawns
        /\ h.thread = to /\ h.admitted = a
    BY <1>0, <2>1 DEF HostType, ThreadStates
  <2> HIDE DEF h
  <2>3. e \in EventType /\ e.kind = to
    BY <1>0 DEF EventType, ThreadStates
  <2>4. inbox' \subseteq inbox \cup {e} /\ UNCHANGED <<row, removed, flights, checks, plugin>>
    BY <1>7 DEF ThreadMoves
  <2> HIDE DEF e
  <2>5. Accounts(row, h, removed)
    BY <1>0, <2>1, <2>2 DEF Accounts
  <2>6. TypeOK /\ TypeOK'
    BY <1>0, <2>1, <2>2, <2>3, <2>4 DEF LaunchInv, TypeOK, RowOK, CallsOK, HostOK
  <2>7. EvidenceAdmitted'
    BY <2>1, <2>2, <2>3, <2>4 DEF LaunchInv, EvidenceAdmitted
  <2> QED BY <1>1, <2>1, <2>4, <2>5, <2>6, <2>7, OwnersStillKnow DEF LaunchInv
<1> QED BY <1>2, <1>3, <1>4, <1>5, <1>6, <1>7

\* Every step keeps the invariant, and the row follows the one before it.
LEMMA NextKeeps == LaunchInv /\ [Next]_vars => LaunchInv' /\ Follows(row, row')
<1> SUFFICES ASSUME LaunchInv, [Next]_vars PROVE LaunchInv' /\ Follows(row, row')
  OBVIOUS
<1>1. CASE UNCHANGED vars
  <2>1. Follows(row, row)
    BY DEF LaunchInv, Accounts, Follows, TypeOK, RowOK, RowType
  <2>2. LaunchInv'
    BY <1>1 DEF vars, LaunchInv, TypeOK, RowOK, CallsOK, HostOK, Accounts, OwnersKnow, EvidenceAdmitted
  <2> QED BY <1>1, <2>1, <2>2 DEF vars
<1>2. ASSUME NEW f \in Runners, LaunchNew(f) \/ LaunchAgain(f) \/ Continues(f)
      PROVE  LaunchInv' /\ Follows(row, row')
  BY <1>2, RequestsKeep, PreparationKeeps, TargetKeeps, ProjectKeeps, SpawnKeeps DEF Continues
<1>3. ASSUME NEW c \in Checks, CheckAsks(c) \/ CheckFindsProject(c) \/ CheckFindsThread(c) \/ CheckThrows(c)
      PROVE  LaunchInv' /\ Follows(row, row')
  BY <1>3, ChecksKeep
<1>4. ASSUME NEW e \in inbox, observeNativeReceipt(e) \/ observeNativeRemoval(e) \/ EventIsLost(e)
      PROVE  LaunchInv' /\ Follows(row, row')
  BY <1>4, ReceiptKeeps, RemovalKeeps, SurroundingsKeep
<1> QED BY <1>1, <1>2, <1>3, <1>4, SurroundingsKeep DEF Next

-----------------------------------------------------------------------------
(* Results.                                                                 *)

\* Every reachable state accounts for what the host did.
THEOREM LaunchInvariant == Spec => []LaunchInv
BY InitHolds, NextKeeps, PTL DEF Spec

\* The host is asked for one project and one thread at most: for any number of
\* requests, retries, checks, reloads and crashes of one launch.
THEOREM LaunchEffectsOnce == Spec => []EffectsAtMostOnce
<1>1. LaunchInv => EffectsAtMostOnce
  BY DEF LaunchInv, Accounts, EffectsAtMostOnce
<1> QED BY <1>1, LaunchInvariant, PTL

\* A launch shown as succeeded has a thread the host admitted.
THEOREM LaunchSuccessIsReal == Spec => []SuccessWasAdmitted
<1>1. LaunchInv => SuccessWasAdmitted
  BY DEF LaunchInv, Accounts, SuccessWasAdmitted
<1> QED BY <1>1, LaunchInvariant, PTL

\* A success that only lifecycle evidence supports does not outlive its thread.
THEOREM LaunchSuccessIsWithdrawn == Spec => []NoSuccessAfterRemoval
<1>1. LaunchInv => NoSuccessAfterRemoval
  BY DEF LaunchInv, Accounts, NoSuccessAfterRemoval
<1> QED BY <1>1, LaunchInvariant, PTL

\* No event, check, refusal or restart takes an acknowledged launch back.
THEOREM LaunchAcknowledgedForGood == Spec => AcknowledgedIsFinal
<1>1. LaunchInv /\ [Next]_vars =>
        [row.confirmation = "native-ack" => row'.phase = "succeeded" /\ row'.confirmation = "native-ack"]_vars
  BY NextKeeps DEF Follows
<1> QED BY <1>1, LaunchInvariant, PTL DEF Spec, AcknowledgedIsFinal
=============================================================================
