# Verification of bb-community-plugins

This directory holds TLA+ models of the concurrent and durable parts of the
plugin repository, the TLC configurations that check them on small instances,
and TLAPS proofs of their most important properties for every instance.

## 1. Inventory

The repository is a collection of plugins for the bb host and of libraries they
share. A plugin's server half runs in one JavaScript process: callbacks run one
at a time and interleave at every `await`; a plugin keeps durable state in
SQLite and may be killed and restarted by the host at any time.

| component | state it keeps | operations | hard behaviour |
|---|---|---|---|
| `bb-subscribe-to-anything` engine (`engine.ts`) | none of its own beyond busy sets | create, cancel, recover, tick, step, observer dispositions (install, wait, report, fail) | every operation is cut by awaits; tool calls, ticks, steps and cancels race on one row; crashes |
| – store (`store.ts`, `contracts.ts`) | subscription rows; findings outbox | save, putFinding, page queries (LIMIT 100) | snapshots held across awaits, bounded pages |
| – host ports and tools (`server.ts`) | pending spawn promises | launch, wake, send, withdraw, stop, authorize | timeouts racing late answers |
| – collector protocol (`collector.ts`) | task and result on the row | poll, submit, run | late, failed, superseded results |
| – classifier (`classifier.ts`) | – | classify | raw and projected baselines |
| – worker, mailbox (`mailbox.ts`, `runner.ts`) | files | exchange of requests and replies | lost, repeated, late messages |
| `restart-resume` | attempts with leases | reconcile, retry, manual resume | crash between send and mark, three callers on one thread |
| `machine-monitor` fleet coordinator | targets, lanes, concurrency gate, fleet store | tick, reconcile, sample, time out, cancel | slots held by timed out calls, workers replaced unseen |
| `analytics` retained stages (`store.ts`) | stages, facts, candidate epoch, accounting row | append, fail, resume, bind, freeze, pin, seal, rebuild | chunked transactions, repeated and delayed requests |
| `new-thread-templates` launch | journal rows with claims and an owner token | launch, status, receipts, removal, recovery | two external effects of unknown outcome |
| `figma`, `sentry` remote connection | token bundle, generation, transport, queue | sign-in, renewal, request, recovery, disconnect | fenced writes, renewal during calls |
| `sticky-notes` save queue | confirmed content, promise chain | enqueue, updateConfirmed | server updates between queued saves |
| other plugins and packages | settings, caches | rendering, projection, parsing | none of this kind; see `PROJECT.json` |

What makes each correct, for the components with a protocol:

* **subscriptions**: one observer per subscription; one end, told once; no open
  subscription forgotten; reports only on the newest evidence of the recipe in
  force; findings sent at most once and not after a cancel; observers of closed
  subscriptions stopped; everything with a lifetime closes.
* **restart-resume**: an interruption is resumed at most once, by one caller at a
  time, and an attempt is sent or skipped eventually.
* **fleet coordinator**: stored history follows the workers and never goes back,
  the scheduler never falls asleep, core samples are never starved.
* **retained stages**: a sealed epoch certifies exactly its members, each at the
  end of its collection; the accounting is exact; repeats change nothing.
* **template launch**: one project and one thread at most per operation; success
  rests on an admitted thread; no launch stays at work for ever.
* **remote connection**: a disconnect forgets for good, a grant and a callback are
  used once, transports are neither leaked nor cut by a renewal.
* **save queue**: the confirmed content is always one the server confirmed.

The hazards behind these, each with its source line, are listed in
`PROJECT.json`.

## 2. Plan

Done, in this order: the subscriptions (`SubscriptionRecord`,
`SubscriptionEngine`, `SubscriptionProperties`, `MCSubscription` and three theorem
modules), `RestartResume`, `FleetCoordinator` with `MCFleet`, `CandidateLedger` and
`RetainedStages` with `MCRetained`, `TemplateLaunch`, `McpRemote` with `MCRemote`,
and the proofs of section 6.

Next:

1. `SubscriptionContract`: what an owner is promised, as an abstract
   specification of `SubscriptionEngine`.
2. `CollectorMailbox` (the collector's worker and its file mailbox),
   `NativeTimers` (`trigger` requests), `SaveQueue` (sticky notes), and the inbox
   assignment that follows a template launch.

## 3. The subscription modules and the code

`SubscriptionRecord` is the row of one observation subscription and every
update the code makes of it, as functions from the row read to the row saved
(`Concluded` is `finding()`, `Cancelled` the first half of `cancel()`,
`Thrown` the catch of `tick()`, `Bound` the resolution of the spawn promise,
`Recovered` `recover()`, `Installed`/`Waiting`/`Reported` the dispositions,
`classify`/`Classified` the end of a collection). `SubscriptionEngine` holds the
state machine. One action is one JavaScript callback, the code from one `await`
to the next:

| code | actions |
|---|---|
| `create`, `cancel` (also CLI, UI, archive and delete events) | `create`, `cancel`, `CancelStopped` |
| `authorize` and the observer's tools | `authorize`, `install`, `wait`, `report`, `fail` |
| `Collectors.poll`, `submit` | `poll`, `submit` |
| `step()`, first await to the next | `StepFindsNothing`, `StepOwnerClosed`, `StepExpires`, `StepOutOfTurns`, `StepLaunches`, `StepObserverTimedOut`, `StepWakes`, `StepCollects`, `StepStopped` |
| `ports.launch` and step()'s catch | `LaunchRefused`, `RequestSpawn`, `SpawnResolves`, `SpawnRejects`, `LaunchTimesOut` |
| `ports.wake` | `WakeAccepted`, `WakeUncertain` |
| `ports.run`, `ports.classify` | `AssignTask`, `PortThrows`, `CollectAborts`, `CollectReturns`, `CollectTimesOut`, `CollectionDone`, `ClassificationDone` |
| `tick()` | `TickBegins`, `TickWithdraws`, `TickStops`, (dispatch inside `EnterDispatch`), `TickPicks`, `TickOwnerAway`, `TickSends`, `TickSent`, `TickSendFails` |
| process death and `recover()` | `recover` |
| host and time (external) | `HostSpawns`, `Dispatched`, `TimePasses` |

State: `rec` and `fnd` are the two SQLite tables and survive `recover`; `step`,
`tick`, `stopping` and `spawn` are what callbacks keep across an await and are
lost; `live`, `halted`, `queued` are the host's; `handed`, `spawns`, `attempts`,
`crashes` are history that only properties and bounds read (`attempts` also
numbers the collections, as the random task ids do).

Abstractions: one owner thread; of the five retained runs the last one, which
is all `wait` and `report` read; outputs are a value at the projected path, or
"garbled"; time is a small integer; heartbeats, texts, settings and abort
signals are left out (an aborted call is one that throws); a `LIMIT` query
without an order returns any page of that size, and the cancel query, which
orders by newest, also any; `ports.withdraw` lists and deletes in one action;
`MaxActive` stands for both active limits. Shutting down in an orderly way is
not an action of its own: it leaves fewer interrupted callbacks than the crash.
A raw baseline may equal the scalar compared with it only when the whole output
is that scalar, so a comparison with a raw baseline may also come out different
for the same value.

## 4. The other modules and the code

**`RestartResume`** (`plugins/restart-resume`). State: the host's event log, thread
status and archive; the attempts table; every `resumeThread` call at the await it
is suspended in, every unanswered `threads.send`, the reconciliation pass and the
retry loop. `ReconcileBegins`..`ReconcileEnds` are `reconcileRecentThreads` and its
queueing; `RetryScans`, `RetryNext` the retry loop; `ReadThread`, `ReadEvents`,
`ReadFails`, `ResumeEnds`, `ResumeSettlesRow`, `ResumeClaims`, `SendResolves`,
`SendRejects` the pieces of `resumeThread`; `claim`, `markSent`, `markRetry`,
`recordSent`, `markSkipped`, `dueThreadIds` the store. A restart of the plugin keeps
the table. A reload aborts what the loops of the former instance are reading, while
its manual calls, the calls that have their answers and its sends go on and may still
claim; after a crash nothing of it goes on but the requests already handed to the
host. A listing of the threads that fails (`ReconcileFails`) ends the reconciliation
and starts the retry loop. Times count down, so that only differences matter. `MaxLog` bounds the events of a
thread, `MaxEvents` those that are not the plugin's. `late` is a history variable no
action reads: the threads for which a retry delay went by (`TimePasses`) while a call
was between the host's answer to `events.list` and its claim, or over a request
handed to the host by a process that died.

**`FleetCoordinator`** (`plugins/machine-monitor`). A tick lists the hosts,
reconciles targets and launches due lanes; a lane's task is at most one call on the
wire, and a timed out call stays in quarantine with its slot. Workers are numbered,
so "older" is a comparison. The store is abstracted to the sessions behind the
newest row of each lane and the registered machines. `Passed` is the loop of
`tickWork` over targets and lanes, which has no await; `Cancelled` is what
`invalidateLifecycle` does to a task under way. Failures are those of the code: a
reconciliation breaks off at a listed host whose `registerMachine` throws after its
target was made or its lifecycle ended (`Reconciled`), and the lanes of that target
run although the store has no row of the machine; a write is refused by
`requireMachine` or because it contradicts an earlier row (`Writes`); the upsert of a
description throws after the session was adopted; `directories()` and the listing
fail; a failure that is an AbortError is not booked (`LaneFails`, `ListFails`).

**`RetainedStages`** (`plugins/analytics/store.ts`). Each operation is one
transaction. `held` is a request read from an earlier state, which may be executed
at any time and again; everybody else acts on what they have just read. A digest is
the sequence it is computed from. The keys of a thread's rows start at `Span` times
its number, so that a rebuild scans each table by key in chunks. `CandidateLedger` is the abstract specification:
members are chosen, the set is closed, each member is observed once after its
collection ended, the seal certifies exactly the observations, and nothing observed
changes. `RefinesLedger` (`INSTANCE CandidateLedger WITH ...`) maps the chunked
freeze and seal, their cursors and replays to stutters. In the repository the
retained stages are reached from the store and its tests; callers of the candidate
operations are taken to be any sequence of requests.

**`TemplateLaunch`** (`plugins/new-thread-templates`). The journal row of one
operation whose template wants a new project. `LaunchNew`, `LaunchAgain`,
`TargetResolved`, `ProjectAnswers`, `ResolvedAgain`, `SpawnAnswers` and the failures
are `launch()` from await to await; `CheckAsks`, `CheckFinds*`, `CheckThrows` are
`status()`; `observeNativeReceipt`, `observeNativeRemoval` the lifecycle handlers;
`Start` is the constructor with `recoverInterrupted`. A claim is named by the owner
token that took it. A dispose leaves continuations alive, a crash does not. The host
creates project and thread at any time after it was asked, also when the caller
was told of a failure.

**`McpRemote`** (`plugins/figma/mcp/remote.ts`; `plugins/sentry/mcp/remote.ts` has
the same control, only addresses, scopes, texts and the checks of client credentials
differ). `tail` is the promise chain of `serialize()`, the first record being the
operation under way; `OperationFenced` is `check(epoch)`. A write of the store is two
steps, so that a disconnect may fall between its beginning and its effect. `past` is
history for the properties.

## 5. Runs

The first four and the two that expect a violation use `MCSubscription`. Durations
are `Interval = 1`, `ReviewWindow = 2`, `RetryDelay = 1`; the clock stops at
`MaxClock` 2, enough for a lifetime and a review window to end, with tick, step and
tool call on either side of the end. `PageLimit = 0` in the lifecycle runs makes
every outbox page empty: findings are committed and never picked up, which leaves
deliveries, withdrawals and stop retries to the outbox run and the product of both
unexplored.

| run | instance | shows |
|---|---|---|
| `outbox` | one subscription, no recipes, both modes, a crash, a cancel in flight; fair | `TypeOK`, `WithdrawalOwed`, `StopOwed`, `InterruptedSendsAreUncertain`, `DeliveryAdvances`, `SentOnceUnlessCancelled`, `EventuallyStopped`, `EventuallyHandled` |
| `until` | one subscription, two recipe kinds, lifetime 2, a crash, two turns; fair | `SingleLaunch`, `NothingStrands`, `ToldOnce`, `TerminalIsFinal`, `EventuallyCloses` |
| `changes` | one subscription to changes, two recipes one after the other, a crash | `EvidenceIsLatest`, `BaselineIsCurrent`, `PublishedEvidence` |
| `capacity` | three symmetric subscriptions, two slots, two active places | `WithinLimits` |
| `restart_resume` | one thread, up to three restarts of the host in one recovery window, a failed call, an edited message, a reload or crash; fair | `ExclusiveSend`, `ResumedOnce`, `SentIsTrue`, `RetrySettles` |
| `fleet_sessions` | one host, two workers, core and directory lanes, one edge | `NeverAsleep`, `OneWorkerPerBatch`, `WritesForHeldTarget`, `NothingStaleRecorded` |
| `fleet_slots` | one host, two workers, describe, core and memory lanes on two slots, transports that hang; fair | `CoreStarts`, `NothingStaleRecorded` |
| `retained_stages` | two threads of two pages, a database with or without old rows, one held request | `FrozenCoversMembers`, `TotalsExact`, `OneHistory`, `RefinesLedger` |
| `template_launch` | two requests, one status check, two generations, three retries; fair | `EffectsAtMostOnce`, `SuccessWasAdmitted`, `NoSuccessAfterRemoval`, `AcknowledgedIsFinal`, `LaunchSettles` |
| `mcp_remote` | two borrowers, two sign-in pages, two tokens, one disconnect or restart | `DisconnectForgets`, `GrantIsCurrent`, `CallbackUsedOnce`, `TransportsOwned` |

Why the bounds are enough. One subscription suffices for the per-subscription
properties because actions of different subscriptions share only the slots, the
active limit and the pages; `capacity` is the run where those are contended. A crash
bound of one lets every pair of steps be cut once; recovery of a recovered state is
the same function. `restart_resume` has three callers on one thread (threads share
only the retry page) and three events beside the plugin's own, so that an
interruption may be superseded. Its one recovery window (`MaxEras` 1) leaves the
filter of `ReconcileResumes` by window, and `EventPage` above `MaxLog` leaves a page
that is cut, to the theorems, which hold for every value of these constants.
`fleet_sessions` needs two workers for an answer to be old and two directories for
a batch to be mixed; an edge is a host event, a change of the host directory, of the
settings or a realtime event. `fleet_slots` has no edges. One edge does not reach the
removal and re-enrolment of a host, and no run has the inventory lane or the memory
lane with edges: for those, and for more hosts, `NothingStaleRecorded` is shown by
`FleetNothingStale` alone. `CoreStarts` is checked with one host, where the lanes that
compete for slots are those of that host. `retained_stages` has chunks of two rows over three and more
rows, so a scan is cut; its third page exceeds the page budget. `template_launch`
lets every owner be replaced by a check, a reload or a removal and then retried;
the bound on tokens is never what stops a first retry. In `mcp_remote` one token can
be renewed while both borrowers call, and the one sign-in repeated; `MaxGenerations`
2 allows one disconnect or restart, the theorems any number.

`CHECK_DEADLOCK FALSE` stands where the bounds let the system come to rest with
nothing left to do; the subscription runs check deadlock.

**Fairness.** Subscriptions (`Fairness`): the background supervisor calls `tick()` every
second, and every port call of a step settles, because `bounded()`,
`AbortSignal.timeout` or the collection's own deadline rejects it; so each
suspended callback resumes (weak fairness of the tick, of each step, wake,
launch and collection). A crash ends them all, and is bounded. Owner, observer
and collector are under no fairness: they may do nothing. Two host assumptions
are strong fairness: an observer that is asked to stop again and again is
stopped at some time, and an owner that is asked for again and again is
reachable at some time. Without them no retry can succeed.

`RestartResume`: the service loop goes on and every host call of it is answered
or fails, whichever call is answered first; time goes by while a row waits; manual
requests, the host's own events and edits are under no fairness.
`FleetCoordinator`: timers fire, ticks end and calls time out, because each has its
own deadline. Transports of timed out calls need not settle, with one exception:
`CoreStarts` assumes it of the core lane's own transports (`FairSpec`). The code does
not guarantee that: a core call that timed out keeps its lane until its transport
settles (`fleet-coordinator.ts:284`, `675`), so a core transport that hangs for ever
ends the sampling of its host. `TemplateLaunch`: the
host answers or refuses each call, and starts the plugin again after it ended.

**Disagreements with the documentation.** Two runs expect a violation; the
findings in `PROJECT.json` quote the documents.

* `bound_observer`: a launch that times out after its observer bound itself
  takes the assignment away (`uncertain`).
* `repeated_truth`: after a crash between result and classification, `wait()`
  takes a raw baseline, and the unchanged value is then a candidate change.

**What `ResumedOnce` leaves out.** `resumeThread` reads the event log, and claims with
what it read, without a bound on the time between and without reading again
(`restart-resume/server.ts:143`-`256`). A caller may read the log; another caller's
send is accepted by the host but rejected to the plugin; the retry delay makes the
row due; and the first caller, who does not know of that request, claims and sends
a second one. The same happens when a request of a process that died is accepted only
after the lease of its row ran out. `ResumedOnce` therefore speaks of the threads
outside `late` only: those for which no retry delay went by over such a reading or
such a request. The words of the setting, "is resumed once" (`server.ts:23`-`24`), are
stronger than what the code ensures. `ExclusiveSend`, `SentIsTrue` and `RetrySettles`
need no such condition.

Three further gaps were seen while modelling and are recorded with their hazards
only: `report()` leaves the baseline of a salvaged `json_changes` run alone;
`recover()` looks for interrupted sends in one page of 100 findings; a fleet
description answered before the first core sample keeps the directory lane from
being brought forward.

## 6. Proofs

Proved by TLAPS for every value of the constants: any number of subscriptions,
threads, callers, requests and rows, every limit, duration and bound, under the
named assumptions of each module. Every inductive invariant was first checked by
TLC on the instance of its run.

### Subscriptions

Assumptions: `DurationAssumption`, `LimitAssumption`, `RequestAssumption`
(durations positive, limits natural, modes and kinds among the code's).

* `SubscriptionTheorems`: `TypeCorrect`. `TypeOK` is inductive as it stands: that
  a suspended `tick()` refers only to findings in the outbox is part of it, because
  its later writes would otherwise be undefined. Each update of a row is shown to
  yield a row and to treat state, launch, observer and `stop_pending` as named.
* `SubscriptionTheorems`, second part: `Lifecycle`, and from its invariant
  `LaunchedOnce`, `StopIsOwed`, `ClosedForGood`. `SingleLaunch` alone is not
  inductive: nothing in it prevents a step from asking for a spawn twice.
  `LaunchLedger` adds that a row without launch intent was never launched, that a
  step about to launch has recorded the intent and not asked yet, and that only
  requests made are awaited. Most actions are *orderly* (they leave the launch alone
  and close properly); `create`, `authorize`, `StepLaunches`, `RequestSpawn` and
  `SpawnResolves` are treated apart.
* `SubscriptionOutboxTheorems`: `OutboxInvariant`, then `DeliveriesAdvance`,
  `SendsOnce`, `ConclusionToldOnce`. A suspended `tick()` writes back copies it
  read before its awaits; `OutboxInv` says what each copy has become by then
  (`TickInv`), that a pending finding was never handed over, and that a subscription
  has exactly one conclusion once its state says so. Outside `tick()` every action
  does one of three things to the outbox: nothing, file one finding, or cancel those
  of one subscription. `InterruptedSends` and `WithdrawalsOwed` rest on queries that
  read one page, so they carry the hypothesis that the rows fit on it: `RecoverFits`,
  `CancelFits`. Without it they fail, which is the 100-row gap of section 5.
* `SubscriptionEvidenceTheorems`: `EvidenceInvariant`, then `LatestEvidence`,
  `CurrentBaseline`, `PublishesNewest`, `NoneStranded`, `LimitsHold`. `EvidenceInv`
  ties the row of an open subscription to the collections begun for it
  (`Evidence`), its state to the fields that make it move on (`Scheduled`), and the
  row to the step suspended for it (`Attended`). None of these is preserved alone:
  a step that resumes writes what it read, and only `Attended` says that this is
  still the recipe in force.

### The other components

* `RestartResumeTheorems` (`TimingAssumption`, `BoundsAssumption`):
  `ResumeInvariant`, `ResumeSendsAlone`, `ResumeAtMostOnce`, `ResumeSentIsTrue`.
  That an interruption is resumed once cannot be seen from the log alone.
  `ResumeInv` says that the row of every send under way is finished or held under a
  lease that runs (`SendsHeld`), and, of the threads outside `late`, that a call
  deciding on what it read holds no attempt that got its request since
  (`ReadsHeld`). So `ResumeAtMostOnce` is conditional: it says nothing of a thread in
  `late` (section 5). Nothing in the specification keeps a thread out of `late`: time
  may pass at every step. The newest event of a kind is found by a minimal
  counterexample over the event numbers.
* `TemplateLaunchTheorems` (`LaunchAssumption`): `LaunchInvariant`,
  `LaunchEffectsOnce`, `LaunchSuccessIsReal`, `LaunchSuccessIsWithdrawn`,
  `LaunchAcknowledgedForGood`. `Accounts` makes the row account for what the host was
  asked: both claims leave their mark and no phase a retry can leave from follows an
  open claim. `OwnersKnow` is needed because a continuation decides from what it read
  before its await: nobody else wrote since, as every other writer takes the token.
* `McpRemoteTheorems` (`RemoteAssumption`): `ManagerInvariant`,
  `RemoteDisconnectForgets`, `RemoteGrantIsCurrent`, `RemoteCallbackUsedOnce`,
  `RemoteTransportsOwned`. `ManagerInv` describes the serialized queue: only its first
  operation has begun, generations rise along it, each borrower awaits its own
  operation (`QueueInv`), and what an operation is about to save is of a sign-in after
  the last disconnect (`GrantInv`). `TransportInv` adds who holds each transport.
* `RetainedStagesTheorems` (`StagesAssumption`): `StagesInvariant`,
  `StagesOneHistory`, `StagesFrozenCovers`, `StagesTotalsExact` and
  `StagesImplementLedger`, the refinement of `CandidateLedger`. `StagesInv` says that
  each rolling digest covers the members up to its cursor and that the seal has passed
  pinned members only; the refinement maps each step to a step or a stutter from it.
  `AcctInv` says that a rebuild has counted the rows up to its cursor, table by table,
  and that a ready account has counted all; each write adds the rows it inserts, which
  rests on distinct keys (`RowsDiffer`) and on the cardinality of disjoint unions.
* `FleetTheorems` (`FleetAssumption`): `FleetInvariant`, `FleetTypes`,
  `FleetNeverAsleep`, `FleetBatchesWhole`, `FleetWritesForHeldTarget` and
  `FleetNothingStale`. The history alone says nothing of the
  answers still to come. `FleetInv` relates each task to the target of its machine
  (`TaskFits`, `TargetFits`): a live task is of the lifecycle that is there, and while
  that has no session, or the task is the core lane's, its answer is of no older worker
  than the newest core sample; no two tasks hold one lane (`OnePerLane`), so that a core
  sample is never overtaken by another one. That a target is registered is no part of
  it: a reconciliation that breaks off leaves targets the store has refused, and the
  same relations hold of those. `Awake` adds that a wake before
  `finishTick` is remembered. The launches of a tick are the recursive function
  `Passed`; that it exists, and that each of its steps keeps the invariant, is shown
  by a minimal counterexample over the number of launches. The bounds `MaxWorkers` and
  `MaxEdges` are constants like any other: the theorems hold for every `MaxWorkers` above zero and every `MaxEdges`.

### Only model-checked

Liveness under fairness (`EventuallyStopped`, `EventuallyHandled`, `EventuallyCloses`,
`RetrySettles`, `CoreStarts`, `LaunchSettles`), which is out of the prover's reach, and
what the two violation runs show. Everything else that a passing run checks is proved,
`WithdrawalOwed` and `InterruptedSendsAreUncertain` under the hypothesis that the rows
fit on a page.

## 7. Not modelled

Native timers, the collector's worker and mailbox, the user interfaces, and the
other plugins and packages; `PROJECT.json` gives the reason for each. Of the
modelled plugins:

* analytics: extraction from host events, turns, timing references and timestamp
  revisions inside a page, sizes in bytes, the facts in use, snapshots and charts;
* machine-monitor: retention, retries of failed invalidations, timelines, caches.
  SQLite itself does not fail in the model. In the code the upsert of the local server
  (`fleet-coordinator.ts:499`) is outside the `try` of the reconciliation, so an error
  there ends the tick before `arm` and no timer is left, an exception to
  `NeverAsleep`; and `noteWorkerExit` records its failure without a catch (`396`), so
  for a target the store has refused that promise is rejected unhandled;
* new-thread-templates: drafts and publication, samples, personal drafts, the
  resolution of a target, the inbox assignment;
* figma and sentry: client registration, changes of the client settings (the server
  disconnects on them), status texts, catalog listeners, the desktop mirror, tools;
* bb-subscribe-to-anything: fairness of dispatch among subscriptions of unreachable
  owners, and the 100-row limit of `cancel()`.

Most of the repository's lines are rendering, parsing, arithmetic over recorded
events and documentation, where a state machine would only repeat the code.
