---------------------------- MODULE TemplateLaunch ----------------------------
(***************************************************************************)
(* new-thread-templates: one launch and its journal row.  A launch resolves *)
(* its target, may create a project and spawns a thread: two effects of the *)
(* host that can be answered, refused, lost or answered late.  The row is   *)
(* claimed before each effect, and a token fences every continuation that   *)
(* is no longer the owner.  Requests for the same operation, status checks, *)
(* lifecycle events, reloads of the plugin and crashes interleave at every  *)
(* await; a transaction of the journal is one step.                         *)
(*                                                                         *)
(* The operation's template wants a new project, so that both effects take  *)
(* part.  Only one thread can exist while the model is right, and a second  *)
(* spawn shows in the number of calls.                                      *)
(***************************************************************************)
EXTENDS Integers, FiniteSets

CONSTANTS
    Runners,        \* launch() calls that may be under way at once
    Checks,         \* status() calls that may be under way at once
    MaxGenerations, \* bound on starts of the plugin
    MaxTokens       \* bound on the owners of the row, by which retries are bounded

ASSUME LaunchAssumption == MaxGenerations \in Nat \ {0} /\ MaxTokens \in Nat \ {0}

VARIABLES
    row,        \* the row of template_launches
    removed,    \* the thread is in template_removed_threads
    flights,    \* launch() calls, each at the await it is suspended in
    checks,     \* status() calls, suspended with what the host told them
    inbox,      \* lifecycle events on their way, or suspended for metadata
    plugin,     \* the generation of the factory, and whether it is active
    host        \* what the host did: calls received, the project, the thread

vars == <<row, removed, flights, checks, inbox, plugin, host>>

None == "none"
Idle == [at |-> None]

Before == {"preparing", "ready"}
ProjectPhases == {"project-claimed", "project-unknown"}
SpawnPhases == {"spawn-claimed", "indeterminate"}
Working == Before \cup {"project-claimed", "spawn-claimed"}

NoRow ==
    [phase |-> None, token |-> 0, retryable |-> FALSE, project |-> FALSE, creation |-> FALSE,
     projectClaim |-> 0, spawnClaim |-> 0, confirmation |-> None, thread |-> FALSE, candidate |-> None]

\* this.active of the generation a call belongs to
Active(g) == plugin.up /\ plugin.generation = g

\* transition(): only the owner of the row, and only from the phases given
Owned(token, from) == row.token = token /\ row.phase \in from
Rotated(r) == [r EXCEPT !.token = @ + 1]

-----------------------------------------------------------------------------
(* Effects and their receipts                                               *)

\* Mutant: what a crash interrupted is offered for retry, whatever it had claimed.
recoverInterruptedAll(r) ==
    IF r.phase \in Working
    THEN [Rotated(r) EXCEPT !.phase = "failed", !.retryable = TRUE]
    ELSE r

\* Mutant: a launch that had its project is not recovered.
recoverInterruptedFirst(r) ==
    IF r.phase \in Working \ {"ready"}
    THEN [Rotated(r) EXCEPT !.retryable = r.phase = "preparing",
             !.phase = CASE r.phase = "project-claimed" -> "project-unknown"
                         [] r.phase = "spawn-claimed" -> "indeterminate"
                         [] OTHER -> "failed"]
    ELSE r

recoverInterrupted(r) ==
    IF r.phase \in Working
    THEN [Rotated(r) EXCEPT !.retryable = r.phase \in Before,
             !.phase = CASE r.phase = "project-claimed" -> "project-unknown"
                         [] r.phase = "spawn-claimed" -> "indeterminate"
                         [] OTHER -> "failed"]
    ELSE r

Succeeded(r, evidence) ==
    [r EXCEPT !.phase = "succeeded", !.confirmation = evidence, !.thread = TRUE, !.candidate = None, !.retryable = FALSE]

\* completeEffect, 'spawn'
SpawnCompleted(claim, evidence) ==
    IF row.spawnClaim # claim THEN row
    ELSE IF row.phase = "succeeded" /\ evidence = "native-ack" THEN [row EXCEPT !.confirmation = "native-ack"]
    ELSE IF row.phase \in SpawnPhases THEN Succeeded(row, evidence) ELSE row

\* completeEffect, 'project': a receipt that comes after the owner was replaced
\* is kept and does not let the launch go on.
ProjectCompleted(claim, token) ==
    IF row.projectClaim # claim \/ row.phase \notin ProjectPhases THEN row
    ELSE [row EXCEPT !.project = TRUE, !.phase = IF row.token = token THEN "ready" ELSE "failed", !.retryable = row.token # token]

rejectSpawn(claim) ==
    IF row.spawnClaim # claim \/ row.confirmation = "native-ack" \/ row.phase \notin SpawnPhases \cup {"succeeded"} THEN row
    ELSE [row EXCEPT !.phase = "indeterminate", !.confirmation = None, !.thread = FALSE, !.retryable = FALSE,
                     !.candidate = IF @ # None THEN @ ELSE IF row.thread THEN "failed" ELSE None]

-----------------------------------------------------------------------------
(* launch()                                                                 *)

Starts(f, token) ==
    flights' = [flights EXCEPT ![f] = [at |-> "resolving", generation |-> plugin.generation, token |-> token,
                                       claim |-> 0, absent |-> ~host.project, known |-> row.project]]

\* The first request: the row is inserted, rejected or preparing.
LaunchNew(f) ==
    /\ flights[f] = Idle /\ plugin.up /\ row = NoRow
    /\ \/ row' = [NoRow EXCEPT !.phase = "rejected", !.token = 1] /\ UNCHANGED flights
       \/ row' = [NoRow EXCEPT !.phase = "preparing", !.token = 1] /\ Starts(f, 1)
    /\ UNCHANGED <<removed, checks, inbox, plugin, host>>

\* The same operation again: resume() takes over a failure that can be retried.
LaunchAgain(f) ==
    /\ flights[f] = Idle /\ plugin.up
    /\ row.phase = "failed" /\ row.retryable /\ row.token < MaxTokens
    /\ row' = [Rotated(row) EXCEPT !.phase = "preparing", !.retryable = FALSE]
    /\ Starts(f, row.token + 1)
    /\ UNCHANGED <<removed, checks, inbox, plugin, host>>

Returns(f) == flights' = [flights EXCEPT ![f] = Idle]

\* The catch of launch(): an error before an effect may be retried.
PreparationFails(f) ==
    /\ flights[f].at \in {"resolving", "resolving-again"}
    /\ row' = IF Owned(flights[f].token, Before)
              THEN [row EXCEPT !.phase = "failed", !.retryable = TRUE] ELSE row
    /\ Returns(f)
    /\ UNCHANGED <<removed, checks, inbox, plugin, host>>

\* A claim is a new number in the row, taken in the transaction that precedes
\* the call of the host.
ClaimProject(f) ==
    /\ row' = [row EXCEPT !.phase = "project-claimed", !.creation = TRUE, !.projectClaim = row.token]
    /\ flights' = [flights EXCEPT ![f].at = "creating", ![f].claim = row.token]
    /\ host' = [host EXCEPT !.creates = @ + 1]

ClaimSpawn(f) ==
    IF Owned(flights[f].token, Before)
    THEN /\ row' = [row EXCEPT !.phase = "spawn-claimed", !.spawnClaim = row.token, !.retryable = FALSE, !.project = TRUE]
         /\ flights' = [flights EXCEPT ![f].at = "spawning", ![f].claim = row.token]
         /\ host' = [host EXCEPT !.spawns = @ + 1]
    ELSE Returns(f) /\ UNCHANGED <<row, host>>

\* The target is resolved.  The project is looked up while launch() awaits, so
\* what was found may be what was there at any time since.
TargetResolved(f) ==
    /\ flights[f].at = "resolving" /\ Active(flights[f].generation)
    /\ \E found \in BOOLEAN :
        /\ (flights[f].known \/ ~flights[f].absent) => found
        /\ found => flights[f].known \/ host.project
        /\ IF ~found /\ Owned(flights[f].token, {"preparing"}) THEN ClaimProject(f)
           ELSE IF found /\ Owned(flights[f].token, {"preparing"}) THEN ClaimSpawn(f)
           ELSE Returns(f) /\ UNCHANGED <<row, host>>
    /\ UNCHANGED <<removed, checks, inbox, plugin>>

\* createProject answers.  The receipt is recorded whoever asks; then the target
\* is resolved again, unless the generation has ended.
ProjectAnswers(f) ==
    /\ flights[f].at = "creating" /\ host.project
    /\ LET done == ProjectCompleted(flights[f].claim, flights[f].token)
       IN IF Active(flights[f].generation)
          THEN row' = done /\ flights' = [flights EXCEPT ![f].at = "resolving-again"]
          ELSE /\ row' = IF done.token = flights[f].token /\ done.phase \in Before
                         THEN [done EXCEPT !.phase = "failed", !.retryable = TRUE] ELSE done
               /\ Returns(f)
    /\ UNCHANGED <<removed, checks, inbox, plugin, host>>

ProjectThrows(f) ==
    /\ flights[f].at = "creating"
    /\ row' = IF Owned(flights[f].token, {"project-claimed"})
              THEN [row EXCEPT !.phase = "project-unknown", !.retryable = FALSE] ELSE row
    /\ Returns(f)
    /\ UNCHANGED <<removed, checks, inbox, plugin, host>>

ResolvedAgain(f) ==
    /\ flights[f].at = "resolving-again" /\ Active(flights[f].generation)
    /\ ClaimSpawn(f)
    /\ UNCHANGED <<removed, checks, inbox, plugin>>

SpawnAnswers(f) ==
    /\ flights[f].at = "spawning" /\ host.thread # None
    /\ row' = SpawnCompleted(flights[f].claim, "native-ack")
    /\ host' = [host EXCEPT !.admitted = TRUE]
    /\ Returns(f)
    /\ UNCHANGED <<removed, checks, inbox, plugin>>

SpawnThrows(f) ==
    /\ flights[f].at = "spawning"
    /\ row' = rejectSpawn(flights[f].claim)
    /\ Returns(f)
    /\ UNCHANGED <<removed, checks, inbox, plugin, host>>

-----------------------------------------------------------------------------
(* status()                                                                 *)

\* The host is asked for a receipt of the effect that is claimed or unknown.
CheckAsks(c) ==
    /\ checks[c] = Idle /\ plugin.up
    /\ row.phase \in ProjectPhases \cup SpawnPhases /\ row.candidate # "deleted"
    /\ \/ row.phase \in ProjectPhases /\ row.creation /\ host.project
          /\ checks' = [checks EXCEPT ![c] = [at |-> "project", token |-> row.token, found |-> "project"]]
       \/ row.phase \in SpawnPhases
          /\ checks' = [checks EXCEPT ![c] = [at |-> "thread", token |-> row.token, found |-> host.thread]]
    /\ UNCHANGED <<row, removed, flights, inbox, plugin, host>>

\* A project found takes the launch from its owner: it may be retried.
CheckFindsProject(c) ==
    /\ checks[c].at = "project"
    /\ row' = IF Owned(checks[c].token, ProjectPhases)
              THEN [Rotated(row) EXCEPT !.phase = "failed", !.project = TRUE, !.retryable = TRUE] ELSE row
    /\ checks' = [checks EXCEPT ![c] = Idle]
    /\ UNCHANGED <<removed, flights, inbox, plugin, host>>

\* Mutant: a removal seen while the check was under way is not looked up.
ConfirmedByCheckAlways(found) == found = "active"

ConfirmedByCheck(found) == found = "active" /\ ~removed

\* findThread: an active thread confirms; a pending or failed one is a
\* candidate; a deleted one is not listed.
CheckFindsThread(c) ==
    /\ checks[c].at = "thread"
    /\ LET found == checks[c].found
           next == [row EXCEPT !.phase = IF ConfirmedByCheck(found) THEN "succeeded" ELSE "indeterminate",
                               !.confirmation = IF found = "active" THEN "lifecycle" ELSE @,
                               !.thread = ConfirmedByCheck(found), !.retryable = FALSE,
                               !.candidate = IF found \in {"pending", "failed"} THEN found ELSE @]
       IN row' = IF Owned(checks[c].token, SpawnPhases) THEN next ELSE row
    /\ checks' = [checks EXCEPT ![c] = Idle]
    /\ UNCHANGED <<removed, flights, inbox, plugin, host>>

\* The receipt could not be read.
CheckThrows(c) ==
    /\ checks[c] # Idle
    /\ row' = IF checks[c].at = "thread" /\ Owned(checks[c].token, SpawnPhases)
              THEN [row EXCEPT !.phase = "indeterminate", !.retryable = FALSE] ELSE row
    /\ checks' = [checks EXCEPT ![c] = Idle]
    /\ UNCHANGED <<removed, flights, inbox, plugin, host>>

-----------------------------------------------------------------------------
(* Lifecycle events                                                         *)

\* Mutant: the event that a thread was created counts as its admission.
EvidenceEager(e) == IF e \in {"pending", "active"} THEN "accepted" ELSE e

\* what the handler makes of the thread in the event
Evidence(e) == IF e = "active" THEN "accepted" ELSE e

observeNativeReceipt(e) ==
    /\ e.kind \in {"pending", "active", "failed"} /\ Active(e.generation)
    /\ row' = IF row.spawnClaim = 0 \/ removed \/ row.phase \notin SpawnPhases THEN row
              ELSE IF Evidence(e.kind) = "accepted" THEN SpawnCompleted(row.spawnClaim, "lifecycle")
              ELSE [row EXCEPT !.phase = "indeterminate", !.thread = FALSE, !.candidate = e.kind, !.retryable = FALSE]
    /\ inbox' = inbox \ {e}
    /\ UNCHANGED <<removed, flights, checks, plugin, host>>

\* Mutant: an acknowledged launch is taken back when its thread is deleted.
RevocableAlways(r) == r.phase \in SpawnPhases \cup {"succeeded"}

Revocable(r) == r.confirmation # "native-ack" /\ r.phase \in SpawnPhases \cup {"succeeded"}

\* observeNativeRemoval, before and after the metadata is read: without it the
\* row is found by its thread or candidate.
observeNativeRemoval(e) ==
    /\ e.kind \in {"deleted", "deleted-metadata"} /\ Active(e.generation)
    /\ LET known == e.kind = "deleted-metadata" \/ row.thread \/ row.candidate # None
       IN row' = IF known /\ Revocable(row)
                 THEN [Rotated(row) EXCEPT !.phase = "indeterminate", !.confirmation = None, !.thread = FALSE,
                                           !.candidate = "deleted", !.retryable = FALSE]
                 ELSE row
    /\ removed' = TRUE
    /\ inbox' = (inbox \ {e}) \cup (IF e.kind = "deleted" THEN {[e EXCEPT !.kind = "deleted-metadata"]} ELSE {})
    /\ UNCHANGED <<flights, checks, plugin, host>>

\* The metadata is unavailable, or the generation has ended meanwhile.
EventIsLost(e) ==
    /\ e.kind = "deleted" => ~Active(e.generation)
    /\ inbox' = inbox \ {e}
    /\ UNCHANGED <<row, removed, flights, checks, plugin, host>>

-----------------------------------------------------------------------------
(* The plugin and the host                                                  *)

\* onDispose: continuations live on, and find the generation ended.
Dispose ==
    /\ plugin.up /\ plugin.generation < MaxGenerations
    /\ plugin' = [plugin EXCEPT !.up = FALSE]
    /\ UNCHANGED <<row, removed, flights, checks, inbox, host>>

Crash ==
    /\ plugin.up /\ plugin.generation < MaxGenerations
    /\ plugin' = [plugin EXCEPT !.up = FALSE]
    /\ flights' = [f \in Runners |-> Idle]
    /\ checks' = [c \in Checks |-> Idle]
    /\ inbox' = {}
    /\ UNCHANGED <<row, removed, host>>

\* The factory: LaunchService recovers the journal first.
Start ==
    /\ ~plugin.up
    /\ plugin' = [generation |-> plugin.generation + 1, up |-> TRUE]
    /\ row' = recoverInterrupted(row)
    /\ UNCHANGED <<removed, flights, checks, inbox, host>>

\* projects.create takes effect, or somebody else makes a project of the source.
ProjectAppears ==
    /\ ~host.project
    /\ host' = [host EXCEPT !.project = TRUE]
    /\ UNCHANGED <<row, removed, flights, checks, inbox, plugin>>

\* threads.spawn takes effect, perhaps after its caller gave up; the thread is
\* provisional, then active, and may fail or be deleted.  The active plugin is
\* told of each step, and again when it becomes idle or is archived.
ThreadMoves ==
    /\ host.spawns > 0
    /\ \E to \in {"pending", "active", "failed", "deleted"} :
        /\ <<host.thread, to>> \in {<<None, "pending">>, <<"pending", "active">>, <<"pending", "failed">>,
                                   <<"pending", "deleted">>, <<"active", "active">>, <<"active", "failed">>, <<"active", "deleted">>, <<"failed", "deleted">>}
        /\ host' = [host EXCEPT !.thread = to, !.admitted = @ \/ to = "active"]
        /\ inbox' = IF plugin.up THEN inbox \cup {[kind |-> to, generation |-> plugin.generation]} ELSE inbox
    /\ UNCHANGED <<row, removed, flights, checks, plugin>>

-----------------------------------------------------------------------------
Init ==
    /\ row = NoRow /\ removed = FALSE /\ inbox = {}
    /\ flights = [f \in Runners |-> Idle]
    /\ checks = [c \in Checks |-> Idle]
    /\ plugin = [generation |-> 1, up |-> TRUE]
    /\ host = [project |-> FALSE, thread |-> None, admitted |-> FALSE, creates |-> 0, spawns |-> 0]

\* A suspended call goes on: the host answers it, or it fails.
Continues(f) ==
    \/ PreparationFails(f) \/ TargetResolved(f) \/ ProjectAnswers(f) \/ ProjectThrows(f)
    \/ ResolvedAgain(f) \/ SpawnAnswers(f) \/ SpawnThrows(f)

Next ==
    \/ \E f \in Runners : LaunchNew(f) \/ LaunchAgain(f) \/ Continues(f)
    \/ \E c \in Checks : CheckAsks(c) \/ CheckFindsProject(c) \/ CheckFindsThread(c) \/ CheckThrows(c)
    \/ \E e \in inbox : observeNativeReceipt(e) \/ observeNativeRemoval(e) \/ EventIsLost(e)
    \/ Dispose \/ Crash \/ Start \/ ProjectAppears \/ ThreadMoves

Spec == Init /\ [][Next]_vars

\* The host answers or refuses every call, and starts the plugin again.
FairSpec == Spec /\ \A f \in Runners : WF_vars(Continues(f)) /\ WF_vars(Start)

-----------------------------------------------------------------------------
(* Properties                                                               *)

\* However often the operation is requested, checked, interrupted and retried,
\* the host is asked for one project and one thread at most.
EffectsAtMostOnce == host.creates <= 1 /\ host.spawns <= 1

\* A launch shown as succeeded has a thread that the host admitted: it was seen
\* active or its spawn was acknowledged.  A provisional thread is not enough.
SuccessWasAdmitted == row.phase = "succeeded" => host.admitted

\* A success that rests on lifecycle evidence is withdrawn with its thread, in
\* whatever order the evidence and the removal are observed.
NoSuccessAfterRemoval == row.phase = "succeeded" /\ removed => row.confirmation = "native-ack"

\* An acknowledged launch stays succeeded: no event, check, refusal or restart
\* takes it back.
AcknowledgedIsFinal ==
    [][row.confirmation = "native-ack" => row'.phase = "succeeded" /\ row'.confirmation = "native-ack"]_vars

\* No launch stays at work for ever: it succeeds, fails or becomes unknown, also
\* when its generation ended under it.
LaunchSettles == row.phase \in Working ~> row.phase \notin Working
=============================================================================
