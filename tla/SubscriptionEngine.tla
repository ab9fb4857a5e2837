------------------------- MODULE SubscriptionEngine -------------------------
(***************************************************************************)
(* The subscription service of the bb-subscribe-to-anything plugin: its    *)
(* durable records and finding outbox (store.ts), the engine that moves    *)
(* them (engine.ts), the ports to the host and the observer's and the      *)
(* collector's calls (server.ts, collector.ts).                            *)
(*                                                                         *)
(* JavaScript runs one callback at a time, so every action below is one    *)
(* callback: the code from one await to the next.  What a callback keeps   *)
(* across an await (a `now`, a generation, a snapshot of a row) is kept in *)
(* `step` and `tick`, and may be stale when the callback resumes.          *)
(*                                                                         *)
(* Observation subscriptions are modelled; native timers (`trigger`        *)
(* requests) are not.  Time is a small integer clock.                      *)
(***************************************************************************)
EXTENDS SubscriptionRecord, FiniteSets

CONSTANTS
    Subs,          \* subscription ids
    Modes,         \* subset of {"until", "changes"}: requested modes
    Kinds,         \* evaluation kinds observers install
    Lifetimes,     \* requested lifetimes, 0 for none
    MaxTurns,      \* observer turn budget (20)
    MaxRepairs,    \* recipe revision budget (5)
    MaxTasks,      \* concurrent checks (4)
    PageLimit,     \* LIMIT of the outbox queries (100)
    MaxActive,     \* active subscription limit (100; 20 of one owner)
    MaxClock,      \* bound: the clock stops here
    MaxCrashes,    \* bound: restarts of the plugin
    MaxCalls       \* bound: cancel calls awaiting a stop at the same time

ASSUME LimitAssumption ==
    /\ MaxTurns \in Nat /\ MaxRepairs \in Nat /\ MaxTasks \in Nat
    /\ PageLimit \in Nat /\ MaxActive \in Nat
    /\ MaxClock \in Nat /\ MaxCrashes \in Nat /\ MaxCalls \in Nat
ASSUME RequestAssumption ==
    /\ Lifetimes \subseteq Nat
    /\ Modes \subseteq {"until", "changes"}
    /\ Kinds \subseteq {"json_equals", "json_changes", "semantic"}

VARIABLES
    clock,
    (* SQLite: survives a crash *)
    rec,       \* subscriptions: a record per id
    fnd,       \* findings: key <<id, occurrence, ordinal>> -> finding
    (* the plugin process: lost in a crash *)
    step,      \* per subscription, its step() between two awaits
    tick,      \* the supervisor's tick() between two awaits
    stopping,  \* per subscription, cancel() calls awaiting ports.stop
    spawn,     \* ids with a spawn request whose promise is unsettled
    (* the host, and history the properties refer to *)
    live,      \* ids whose observer thread exists on the host
    halted,    \* ids whose observer thread was asked to stop
    queued,    \* keys of notifications in the owner's queue
    handed,    \* keys of findings some send call was made for
    spawns,    \* per subscription, spawn requests made
    attempts,  \* per subscription, collections begun; also their ids
    crashes

durable  == <<rec, fnd>>
volatile == <<step, tick, stopping, spawn>>
host     == <<live, halted, queued, handed>>
history  == <<spawns, attempts, crashes>>
vars     == <<clock, rec, fnd, step, tick, stopping, spawn,
              live, halted, queued, handed, spawns, attempts, crashes>>

-----------------------------------------------------------------------------
(* The store.                                                              *)

Keys == Subs \X {"attention", "expiry", "budget", "observer-timeout",
                "failed", "run"} \X Nat
FindingType ==
    [delivery : {"pending", "sending", "accepted", "uncertain", "cancelled"},
     withdraw_pending : BOOLEAN]
Pending == [delivery |-> "pending", withdraw_pending |-> FALSE]

Active   == {s \in Subs : rec[s].state \notin Terminals \cup {"absent"}}
findings == {k \in DOMAIN fnd : fnd[k].delivery \in {"pending", "sending"}}
withdrawals == {k \in DOMAIN fnd : fnd[k].withdraw_pending}
cleanups    == {s \in Subs : rec[s].stop_pending}
\* A SELECT ... LIMIT without an order: some page of the rows.
Pages(rows) ==
    IF Cardinality(rows) <= PageLimit THEN {rows}
    ELSE {page \in SUBSET rows : Cardinality(page) = PageLimit}

save(s, r) == rec' = [rec EXCEPT ![s] = r]

\* hasOccurrence + putFinding: (subscription, occurrence) is unique.
WithFinding(key) ==
    IF key \in DOMAIN fnd THEN fnd
    ELSE [k \in DOMAIN fnd \cup {key} |-> IF k = key THEN Pending ELSE fnd[k]]

attention(s) == fnd' = WithFinding(<<s, "attention", 0>>)

finding(s, r, outcome, occurrence, ordinal) ==
    /\ save(s, Concluded(r, outcome, clock))
    /\ fnd' = WithFinding(<<s, occurrence, ordinal>>)

\* Mutant: the findings of a cancelled subscription are deleted.
CancelDeletesFindings(s) ==
    fnd' = [k \in {l \in DOMAIN fnd : l[1] # s} |-> fnd[k]]
\* cancel(): waiting findings are dropped, accepted ones marked for
\* withdrawal, in the page of the subscription's findings that is read (the
\* newest in the code, any here).
CancelFindings(s) ==
    \E page \in Pages({k \in DOMAIN fnd : k[1] = s}) :
        fnd' = [k \in DOMAIN fnd |->
                  IF k \notin page THEN fnd[k]
                  ELSE [delivery |-> IF fnd[k].delivery = "pending"
                                     THEN "cancelled" ELSE fnd[k].delivery,
                        withdraw_pending |-> \/ fnd[k].withdraw_pending
                                             \/ fnd[k].delivery = "accepted"]]

-----------------------------------------------------------------------------
(* The process: where step() and tick() stand between two awaits.          *)

Idle == [pc |-> "idle", now |-> 0, generation |-> 0,
         run |-> NoRun, baseline |-> NoBaseline]
StepType ==
    [pc : {"idle", "owner", "cancel", "stop", "launch", "spawn", "wake",
           "authority", "collect", "recheck", "classify"},
     now : Nat, generation : Nat, run : RunType, baseline : BaselineType]
Busy == {s \in Subs : step[s].pc # "idle"}
\* Mutant: the checks of earlier ticks are not counted.
RoomPerTick == MaxTasks
Room == MaxTasks - Cardinality(Busy)

NoKey    == <<"none", "none", 0>>
TickIdle == [pc |-> "idle", now |-> 0, todo |-> {}, stops |-> {}, cur |-> NoKey]
TickType ==
    [pc : {"idle", "withdraw", "cleanup", "deliver", "owner", "send"},
     now : Nat, todo : SUBSET Keys, stops : SUBSET Subs,
     cur : Keys \cup {NoKey}]

-----------------------------------------------------------------------------
(* Requests of the owner thread.                                           *)

create(s) ==
    /\ rec[s].state = "absent"
    /\ Cardinality(Active) < MaxActive
    /\ \E m \in Modes, life \in Lifetimes :
          /\ m = "until" => life # 0
          /\ save(s, [Absent EXCEPT
                        !.state = "preparing", !.mode = m,
                        !.expires_at = IF life = 0 THEN 0 ELSE clock + life,
                        !.next_at = clock])
    /\ UNCHANGED <<clock, fnd, volatile, host, history>>

\* subscription_cancel, the CLI, the UI and the archive/delete events.
cancel(s) ==
    /\ rec[s].state # "absent"
    /\ stopping[s] < MaxCalls
    /\ save(s, Cancelled(rec[s]))
    /\ CancelFindings(s)
    /\ stopping' = IF rec[s].observer
                   THEN [stopping EXCEPT ![s] = @ + 1] ELSE stopping
    /\ UNCHANGED <<clock, step, tick, spawn, host, history>>

\* cancel() resumes: ports.stop resolved or threw.
CancelStopped(s) ==
    /\ stopping[s] > 0
    /\ stopping' = [stopping EXCEPT ![s] = @ - 1]
    /\ \/ /\ save(s, [rec[s] EXCEPT !.stop_pending = FALSE])
          /\ halted' = halted \cup {s}
       \/ UNCHANGED <<rec, halted>>
    /\ UNCHANGED <<clock, fnd, step, tick, spawn, live, queued, handed, history>>

-----------------------------------------------------------------------------
(* Tools of the observer thread.                                           *)

\* authorize(): an observer that runs before its spawn response is known
\* binds itself to the launch intent.
authorize(s) ==
    /\ s \in live /\ s \in Active
    /\ ~rec[s].observer /\ rec[s].launch = "intent"
    /\ save(s, [rec[s] EXCEPT !.observer = TRUE, !.launch = "confirmed",
                              !.state = "preparing",
                              !.review_due = clock + ReviewWindow])
    /\ UNCHANGED <<clock, fnd, volatile, host, history>>

\* engine.observer(): the assignment an observer's call acts on.
observer(s, states) ==
    /\ s \in live /\ s \in Active /\ rec[s].observer
    /\ rec[s].state \in states
    /\ ~Expired(rec[s], clock)

install(s) ==
    /\ observer(s, DispositionDue)
    /\ rec[s].repairs < MaxRepairs
    /\ \E kind \in Kinds :
          /\ kind = "json_changes" => rec[s].mode = "changes"
          /\ kind = "json_equals" => rec[s].mode # "changes"
          /\ save(s, Installed(rec[s], kind, clock))
    /\ UNCHANGED <<clock, fnd, volatile, host, history>>

wait(s) ==
    /\ observer(s, DispositionDue)
    /\ rec[s].recipe # "none"
    /\ save(s, Waiting(rec[s], clock))
    /\ UNCHANGED <<clock, fnd, volatile, host, history>>

report(s) ==
    /\ observer(s, DispositionDue)
    /\ Reportable(rec[s])
    /\ finding(s, Reported(rec[s]), "matched", "run", rec[s].run.id)
    /\ UNCHANGED <<clock, volatile, host, history>>

\* subscription_fail also ends a check whose collector never started.
fail(s) ==
    /\ \/ observer(s, DispositionDue)
       \/ /\ observer(s, {"watching", "running"})
          /\ rec[s].recipe # "none" /\ ~rec[s].worker
    /\ finding(s, rec[s], "failed", "failed", rec[s].generation)
    /\ UNCHANGED <<clock, volatile, host, history>>

-----------------------------------------------------------------------------
(* The provider-launched collector's calls.                                *)

poll(s) ==
    LET r == rec[s]
    IN  /\ r.recipe # "none" /\ r.observer
        /\ ~terminal(r.state) /\ ~Expired(r, clock)
        /\ save(s, [r EXCEPT !.worker = TRUE,
                             !.task.claimed = @ \/ ( /\ r.state = "running"
                                                     /\ r.task.id # 0
                                                     /\ ~Sealed(r.task) )])
        /\ UNCHANGED <<clock, fnd, volatile, host, history>>

\* A first submission seals the task; replays of it change nothing.
submit(s) ==
    LET r == rec[s]
    IN  /\ r.task.claimed /\ ~Sealed(r.task)
        /\ r.state = "running" /\ ~Expired(r, clock)
        /\ \E ok \in BOOLEAN, out \in Outputs :
              /\ ~ok => out = "garbled"
              /\ save(s, [r EXCEPT !.task.result =
                                     Run(r.task.id, r.generation, ok, out)])
        /\ UNCHANGED <<clock, fnd, volatile, host, history>>

-----------------------------------------------------------------------------
(* step(): one check of one subscription, from await to await.             *)

At(s, pcs)  == step[s].pc \in pcs
\* Awaits after which no local of step() is used again, and those after which.
Await(s, pc) == step' = [step EXCEPT ![s] = [Idle EXCEPT !.pc = pc]]
Goto(s, pc)  == step' = [step EXCEPT ![s].pc = pc]
Return(s)   == step' = [step EXCEPT ![s] = Idle]

\* step() resumes from its first await with the owner's status and rereads
\* the row; what follows runs to the next await.
Resumed(s)   == At(s, {"owner"}) /\ ~terminal(rec[s].state)
Unexpired(s) == Resumed(s) /\ ~Expired(rec[s], step[s].now)

\* Closed meanwhile; or the owner is offline; or nothing is due any more.
StepFindsNothing(s) ==
    /\ At(s, {"owner"})
    /\ terminal(rec[s].state) \/ Unexpired(s)
    /\ Return(s)
    /\ UNCHANGED <<clock, durable, tick, stopping, spawn, host, history>>

StepOwnerClosed(s) ==
    /\ Resumed(s)
    /\ save(s, Cancelled(rec[s]))
    /\ CancelFindings(s)
    /\ IF rec[s].observer THEN Await(s, "cancel") ELSE Return(s)
    /\ UNCHANGED <<clock, tick, stopping, spawn, host, history>>

StepExpires(s) ==
    /\ Resumed(s) /\ Expired(rec[s], step[s].now)
    /\ finding(s, rec[s], "expired", "expiry", 0)
    /\ IF rec[s].observer THEN Await(s, "stop") ELSE Return(s)
    /\ UNCHANGED <<clock, tick, stopping, spawn, host, history>>

StepOutOfTurns(s) ==
    LET r == rec[s]
    IN  /\ Unexpired(s) /\ ~Overdue(r, step[s].now)
        /\ NeedsLaunch(r) \/ NeedsWake(r)
        /\ r.observer_turns >= MaxTurns
        /\ finding(s, r, "failed", "budget", 0)
        /\ Return(s)
        /\ UNCHANGED <<clock, tick, stopping, spawn, host, history>>

StepLaunches(s) ==
    LET r == rec[s]
    IN  /\ Unexpired(s) /\ NeedsLaunch(r) /\ r.observer_turns < MaxTurns
        /\ save(s, [r EXCEPT !.launch = "intent", !.observer_turns = @ + 1])
        /\ Await(s, "launch")
        /\ UNCHANGED <<clock, fnd, tick, stopping, spawn, host, history>>

StepObserverTimedOut(s) ==
    /\ Unexpired(s) /\ Overdue(rec[s], step[s].now)
    /\ finding(s, rec[s], "failed", "observer-timeout", 0)
    /\ IF rec[s].observer THEN Await(s, "stop") ELSE Return(s)
    /\ UNCHANGED <<clock, tick, stopping, spawn, host, history>>

StepWakes(s) ==
    LET r == rec[s]
    IN  /\ Unexpired(s) /\ NeedsWake(r) /\ ~Overdue(r, step[s].now)
        /\ r.observer_turns < MaxTurns
        /\ save(s, [r EXCEPT !.review_wake = "sending",
                             !.observer_turns = @ + 1,
                             !.review_due = step[s].now + ReviewWindow])
        /\ Await(s, "wake")
        /\ UNCHANGED <<clock, fnd, tick, stopping, spawn, host, history>>

\* Mutant: the task of the previous collection stays on the row.
StepCollectsAgain(s) ==
    LET r == rec[s]
    IN  /\ Unexpired(s) /\ NeedsRun(r, step[s].now)
        /\ save(s, [r EXCEPT !.state = "running", !.report_blocked = TRUE])
        /\ attempts' = [attempts EXCEPT ![s] = @ + 1]
        /\ step' = [step EXCEPT ![s].pc = "authority",
                                ![s].generation = r.generation,
                                ![s].baseline = r.baseline]
        /\ UNCHANGED <<clock, fnd, tick, stopping, spawn, host, spawns, crashes>>
StepCollects(s) ==
    LET r == rec[s]
    IN  /\ Unexpired(s) /\ NeedsRun(r, step[s].now)
        /\ save(s, [r EXCEPT !.state = "running", !.report_blocked = TRUE,
                             !.task = NoTask])
        /\ attempts' = [attempts EXCEPT ![s] = @ + 1]
        /\ step' = [step EXCEPT ![s].pc = "authority",
                                ![s].generation = r.generation,
                                ![s].baseline = r.baseline]
        /\ UNCHANGED <<clock, fnd, tick, stopping, spawn, host, spawns, crashes>>

\* The awaits that only end a step: a stop after a terminal finding, and
\* the stop inside cancel().
StepStopped(s) ==
    /\ At(s, {"stop", "cancel"})
    /\ \/ /\ halted' = halted \cup {s}
          /\ IF At(s, {"cancel"})
             THEN save(s, [rec[s] EXCEPT !.stop_pending = FALSE])
             ELSE UNCHANGED rec
       \/ UNCHANGED <<rec, halted>>
    /\ Return(s)
    /\ UNCHANGED <<clock, fnd, tick, stopping, spawn, live, queued, handed, history>>

-----------------------------------------------------------------------------
(* step(): the launch of the observer.                                     *)

\* Mutant: the catch does not reread whether the row is closed.
LaunchUncertainAlways(s) ==
    /\ save(s, [rec[s] EXCEPT !.state = "uncertain"])
    /\ attention(s)
    /\ Return(s)
\* ports.launch threw: step()'s catch, on the row as it now is.
LaunchUncertain(s) ==
    /\ IF terminal(rec[s].state) THEN UNCHANGED durable
       ELSE /\ save(s, [rec[s] EXCEPT !.state = "uncertain"])
            /\ attention(s)
    /\ Return(s)

LaunchRefused(s) ==
    /\ At(s, {"launch"})
    /\ LaunchUncertain(s)
    /\ UNCHANGED <<clock, tick, stopping, spawn, host, history>>

RequestSpawn(s) ==
    /\ At(s, {"launch"})
    /\ spawn' = spawn \cup {s}
    /\ spawns' = [spawns EXCEPT ![s] = @ + 1]
    /\ Await(s, "spawn")
    /\ UNCHANGED <<clock, durable, tick, stopping, host, attempts, crashes>>

\* The host creates the observer thread, whether or not the service still
\* waits for the answer.
HostSpawns(s) ==
    /\ spawns[s] > 0 /\ s \notin live
    /\ live' = live \cup {s}
    /\ UNCHANGED <<clock, durable, volatile, halted, queued, handed, history>>

SpawnResolves(s) ==
    /\ s \in spawn /\ s \in live
    /\ spawn' = spawn \ {s}
    /\ save(s, Bound(rec[s], clock))
    /\ IF ~At(s, {"spawn"}) THEN UNCHANGED step      \* the launch timed out
       ELSE IF terminal(rec[s].state) THEN Await(s, "stop")
       ELSE Return(s)
    /\ UNCHANGED <<clock, fnd, tick, stopping, host, history>>

SpawnRejects(s) ==
    /\ s \in spawn
    /\ spawn' = spawn \ {s}
    /\ IF At(s, {"spawn"}) THEN LaunchUncertain(s) ELSE UNCHANGED <<durable, step>>
    /\ UNCHANGED <<clock, tick, stopping, host, history>>

LaunchTimesOut(s) ==
    /\ At(s, {"spawn"})
    /\ LaunchUncertain(s)
    /\ UNCHANGED <<clock, tick, stopping, spawn, host, history>>

-----------------------------------------------------------------------------
(* step(): the review wake.                                                *)

WakeAccepted(s) ==
    LET r == rec[s]
    IN  /\ At(s, {"wake"})
        /\ IF r.state = "reviewing" /\ r.review_wake = "sending"
           THEN save(s, [r EXCEPT !.review_wake = "accepted"])
           ELSE UNCHANGED rec
        /\ Return(s)
        /\ UNCHANGED <<clock, fnd, tick, stopping, spawn, host, history>>

WakeUncertain(s) ==
    /\ At(s, {"wake"})
    /\ IF rec[s].state = "reviewing"
       THEN save(s, [rec[s] EXCEPT !.review_wake = "uncertain"])
       ELSE UNCHANGED rec
    /\ Return(s)
    /\ UNCHANGED <<clock, fnd, tick, stopping, spawn, host, history>>

-----------------------------------------------------------------------------
(* step(): collection and classification.                                  *)

\* Mutant: only the generation of the row is compared.
WithdrawnByGeneration(s) == rec[s].generation # step[s].generation
\* The row no longer belongs to the collection this step began.
Withdrawn(s) ==
    rec[s].generation # step[s].generation \/ rec[s].state # "running"

StepThrows(s) ==
    /\ save(s, Thrown(rec[s], step[s].now))
    /\ Return(s)
    /\ UNCHANGED <<clock, fnd, tick, stopping, spawn, host, history>>

\* An authority check or the settings read rejected.
PortThrows(s) ==
    /\ At(s, {"authority", "recheck", "classify"})
    /\ StepThrows(s)

\* Collectors.run(): the task is assigned on the row as it is now.
AssignTask(s) ==
    /\ At(s, {"authority"})
    /\ save(s, [rec[s] EXCEPT !.task = [NoTask EXCEPT !.id = attempts[s]]])
    /\ Goto(s, "collect")
    /\ UNCHANGED <<clock, fnd, tick, stopping, spawn, host, history>>

CollectAborts(s) ==
    /\ At(s, {"collect"})
    /\ Expired(rec[s], clock) \/ Withdrawn(s)
    /\ StepThrows(s)

CollectReturns(s) ==
    /\ At(s, {"collect"})
    /\ ~Expired(rec[s], clock) /\ ~Withdrawn(s)
    /\ Sealed(rec[s].task)
    /\ step' = [step EXCEPT ![s].pc = "recheck", ![s].run = rec[s].task.result]
    /\ UNCHANGED <<clock, durable, tick, stopping, spawn, host, history>>

\* No evidence by the deadline, or no heartbeat: a failed run is sealed.
CollectTimesOut(s) ==
    LET failed == Run(rec[s].task.id, step[s].generation, FALSE, "garbled")
    IN  /\ At(s, {"collect"})
        /\ ~Expired(rec[s], clock) /\ ~Withdrawn(s)
        /\ ~Sealed(rec[s].task)
        /\ save(s, [rec[s] EXCEPT !.task.result = failed])
        /\ step' = [step EXCEPT ![s].pc = "recheck", ![s].run = failed]
        /\ UNCHANGED <<clock, fnd, tick, stopping, spawn, host, history>>

\* The checks step() repeats after each await of a collection.
Discarded(s) ==
    /\ Withdrawn(s)
    /\ Return(s)
    /\ UNCHANGED <<clock, durable, tick, stopping, spawn, host, history>>
ExpiredMeanwhile(s) ==
    /\ ~Withdrawn(s) /\ Expired(rec[s], clock)
    /\ finding(s, rec[s], "expired", "expiry", 0)
    /\ Return(s)
    /\ UNCHANGED <<clock, tick, stopping, spawn, host, history>>

CollectionDone(s) ==
    /\ At(s, {"recheck"})
    /\ \/ Discarded(s)
       \/ ExpiredMeanwhile(s)
       \/ /\ ~Withdrawn(s) /\ ~Expired(rec[s], clock)
          /\ Goto(s, "classify")
          /\ UNCHANGED <<clock, durable, tick, stopping, spawn, host, history>>

ClassificationDone(s) ==
    /\ At(s, {"classify"})
    /\ \/ Discarded(s)
       \/ ExpiredMeanwhile(s)
       \/ /\ ~Withdrawn(s) /\ ~Expired(rec[s], clock)
          /\ \E d \in classify(rec[s], step[s].baseline, step[s].run) :
                save(s, Classified(rec[s], step[s].run, d, clock))
          /\ Return(s)
          /\ UNCHANGED <<clock, fnd, tick, stopping, spawn, host, history>>

-----------------------------------------------------------------------------
(* tick(): withdrawals, cleanups, dispatch, deliveries, one after another. *)

InTick(pc) == tick.pc = pc
Delivering(page) ==
    IF page = {} THEN TickIdle
    ELSE [TickIdle EXCEPT !.pc = "deliver", !.todo = page]

\* An empty page is passed over without an await, so a tick enters the first
\* of its phases that has work, in this order, in one callback.  The rows a
\* phase has just written are in none of the queries of the phases after it.
\* A step begins for every due subscription without one, while there are
\* fewer than MaxTasks; then the outbox is read.
EnterDispatch(now) ==
    LET due == {s \in Active \ Busy : Due(rec[s], now)}
    IN  /\ \E begun \in SUBSET due :
              /\ \/ begun = due /\ Cardinality(due) <= Room
                 \/ Cardinality(due) > Room /\ Cardinality(begun) = Room
              /\ step' = [s \in Subs |->
                            IF s \in begun
                            THEN [Idle EXCEPT !.pc = "owner", !.now = now]
                            ELSE step[s]]
        /\ \E page \in Pages(findings) :
              tick' = Delivering({k \in page : fnd[k].delivery = "pending"})

EnterCleanup(now) ==
    \E page \in Pages(cleanups) :
        IF page = {} THEN EnterDispatch(now)
        ELSE /\ tick' = [TickIdle EXCEPT !.pc = "cleanup", !.now = now,
                                         !.stops = page]
             /\ UNCHANGED step

TickBegins ==
    /\ InTick("idle")
    /\ \E page \in Pages(withdrawals) :
          IF page = {} THEN EnterCleanup(clock)
          ELSE /\ tick' = [TickIdle EXCEPT !.pc = "withdraw", !.now = clock,
                                           !.todo = page]
               /\ UNCHANGED step
    /\ UNCHANGED <<clock, durable, stopping, spawn, host, history>>

\* ports.withdraw of one finding, from the page read at the tick's start.
\* Its delete may take effect although the call timed out.
TickWithdraws(k) ==
    /\ InTick("withdraw") /\ k \in tick.todo
    /\ \/ /\ k \in queued
          /\ queued' = queued \ {k}
          /\ \/ fnd' = [fnd EXCEPT ![k] = [delivery |-> "cancelled",
                                          withdraw_pending |-> FALSE]]
             \/ UNCHANGED fnd
       \/ /\ k \notin queued
          /\ fnd' = [fnd EXCEPT ![k] = [delivery |-> "accepted",
                                       withdraw_pending |-> FALSE]]
          /\ UNCHANGED queued
       \/ UNCHANGED <<fnd, queued>>
    /\ IF tick.todo = {k} THEN EnterCleanup(tick.now)
       ELSE /\ tick' = [tick EXCEPT !.todo = @ \ {k}]
            /\ UNCHANGED step
    /\ UNCHANGED <<clock, rec, stopping, spawn, live, halted, handed, history>>

TickStops(s) ==
    /\ InTick("cleanup") /\ s \in tick.stops
    /\ \/ /\ halted' = halted \cup {s}
          /\ save(s, [rec[s] EXCEPT !.stop_pending = FALSE])
       \/ UNCHANGED <<rec, halted>>
    /\ IF tick.stops = {s} THEN EnterDispatch(tick.now)
       ELSE /\ tick' = [tick EXCEPT !.stops = @ \ {s}]
            /\ UNCHANGED step
    /\ UNCHANGED <<clock, fnd, stopping, spawn, live, queued, handed, history>>

\* The next finding of the page, as it was when the page was read.
TickPicks(k) ==
    /\ InTick("deliver") /\ k \in tick.todo
    /\ IF rec[k[1]].state = "cancelled" \/ rec[k[1]].notifications_cancelled
       THEN /\ fnd' = [fnd EXCEPT ![k] = [Pending EXCEPT !.delivery = "cancelled"]]
            /\ tick' = Delivering(tick.todo \ {k})
       ELSE /\ tick' = [tick EXCEPT !.todo = @ \ {k}, !.cur = k, !.pc = "owner"]
            /\ UNCHANGED fnd
    /\ UNCHANGED <<clock, rec, step, stopping, spawn, host, history>>

\* The owner's status is known: skip, or recheck cancellation and send.
TickOwnerAway ==
    /\ InTick("owner")
    /\ tick' = Delivering(tick.todo)
    /\ UNCHANGED <<clock, durable, step, stopping, spawn, host, history>>

\* Mutant: cancellation is not rechecked after the owner read.
TickSendsUnchecked ==
    LET k == tick.cur
    IN  /\ InTick("owner")
        /\ fnd' = [fnd EXCEPT ![k] = [Pending EXCEPT !.delivery = "sending"]]
        /\ tick' = [tick EXCEPT !.pc = "send"]
        /\ handed' = handed \cup {k}
        /\ UNCHANGED <<clock, rec, step, stopping, spawn, live, halted, queued, history>>
TickSends ==
    LET k == tick.cur
    IN  /\ InTick("owner")
        /\ IF rec[k[1]].notifications_cancelled
           THEN /\ fnd' = [fnd EXCEPT ![k] = [Pending EXCEPT !.delivery = "cancelled"]]
                /\ tick' = Delivering(tick.todo)
                /\ UNCHANGED handed
           ELSE /\ fnd' = [fnd EXCEPT ![k] = [Pending EXCEPT !.delivery = "sending"]]
                /\ tick' = [tick EXCEPT !.pc = "send"]
                /\ handed' = handed \cup {k}
        /\ UNCHANGED <<clock, rec, step, stopping, spawn, live, halted, queued, history>>

\* Mutant: cancellation is not rechecked after the send.
TickSentUnchecked ==
    /\ InTick("send")
    /\ fnd' = [fnd EXCEPT ![tick.cur] = [Pending EXCEPT !.delivery = "accepted"]]
    /\ queued' \in {queued, queued \cup {tick.cur}}
    /\ tick' = Delivering(tick.todo)
    /\ UNCHANGED <<clock, rec, step, stopping, spawn, live, halted, handed, history>>
\* ports.send resolved; a steered or idle owner takes the message at once.
TickSent ==
    LET k == tick.cur
    IN  /\ InTick("send")
        /\ fnd' = [fnd EXCEPT ![k] =
                     [delivery |-> "accepted",
                      withdraw_pending |-> rec[k[1]].notifications_cancelled]]
        /\ queued' \in {queued, queued \cup {k}}
        /\ tick' = Delivering(tick.todo)
        /\ UNCHANGED <<clock, rec, step, stopping, spawn, live, halted, handed, history>>

\* ports.send threw or timed out; the message may have been accepted.
TickSendFails ==
    LET k == tick.cur
    IN  /\ InTick("send")
        /\ fnd' = [fnd EXCEPT ![k] = [Pending EXCEPT !.delivery = "uncertain"]]
        /\ queued' \in {queued, queued \cup {k}}
        /\ tick' = Delivering(tick.todo)
        /\ UNCHANGED <<clock, rec, step, stopping, spawn, live, halted, handed, history>>

-----------------------------------------------------------------------------
(* The environment.                                                        *)

TimePasses ==
    /\ clock < MaxClock
    /\ clock' = clock + 1
    /\ UNCHANGED <<durable, volatile, host, history>>

\* The owner's queue hands a message to its agent.
Dispatched(k) ==
    /\ k \in queued
    /\ queued' = queued \ {k}
    /\ UNCHANGED <<clock, durable, volatile, live, halted, handed, history>>

\* Mutants: recover() overlooks the interrupted send, or queues it again.
RecoveredFindingKept(f) == f
RecoveredFindingRetried(f) ==
    IF f.delivery = "sending" THEN [f EXCEPT !.delivery = "pending"] ELSE f
RecoveredFinding(f) ==
    IF f.delivery = "sending" THEN [f EXCEPT !.delivery = "uncertain"] ELSE f

\* The plugin process dies anywhere and restarts: recover() runs first, on
\* every active record and on the first page of the outbox.
recover ==
    /\ crashes < MaxCrashes
    /\ crashes' = crashes + 1
    /\ rec' = [s \in Subs |-> IF s \in Active THEN Recovered(rec[s], clock) ELSE rec[s]]
    /\ LET lost == {<<s, "attention", 0>> :
                      s \in {t \in Active : rec[t].launch = "intent"}}
       IN  \E page \in Pages(findings \cup (lost \ DOMAIN fnd)) :
             fnd' = [k \in DOMAIN fnd \cup lost |->
                       IF k \notin DOMAIN fnd THEN Pending
                       ELSE IF k \in page THEN RecoveredFinding(fnd[k])
                       ELSE fnd[k]]
    /\ step' = [s \in Subs |-> Idle]
    /\ tick' = TickIdle
    /\ stopping' = [s \in Subs |-> 0]
    /\ spawn' = {}
    /\ UNCHANGED <<clock, host, spawns, attempts>>

-----------------------------------------------------------------------------
Init ==
    /\ clock = 0
    /\ rec = [s \in Subs |-> Absent]
    /\ fnd = [k \in {} |-> Pending]
    /\ step = [s \in Subs |-> Idle]
    /\ tick = TickIdle
    /\ stopping = [s \in Subs |-> 0]
    /\ spawn = {}
    /\ live = {} /\ halted = {} /\ queued = {} /\ handed = {}
    /\ spawns = [s \in Subs |-> 0]
    /\ attempts = [s \in Subs |-> 0]
    /\ crashes = 0

Owner(s)     == create(s) \/ cancel(s) \/ CancelStopped(s)
Observer(s)  == authorize(s) \/ install(s) \/ wait(s) \/ report(s) \/ fail(s)
Collector(s) == poll(s) \/ submit(s)
Check(s) ==
    \/ StepFindsNothing(s) \/ StepOwnerClosed(s) \/ StepExpires(s)
    \/ StepOutOfTurns(s) \/ StepLaunches(s) \/ StepObserverTimedOut(s)
    \/ StepWakes(s) \/ StepCollects(s) \/ StepStopped(s)
Launch(s) ==
    \/ LaunchRefused(s) \/ RequestSpawn(s) \/ LaunchTimesOut(s)
    \/ SpawnResolves(s) \/ SpawnRejects(s) \/ HostSpawns(s)
Wake(s) == WakeAccepted(s) \/ WakeUncertain(s)
Collection(s) ==
    \/ PortThrows(s) \/ AssignTask(s) \/ CollectAborts(s)
    \/ CollectReturns(s) \/ CollectTimesOut(s)
    \/ CollectionDone(s) \/ ClassificationDone(s)
Sweep ==
    \/ TickBegins
    \/ (\E k \in tick.todo : TickWithdraws(k))
    \/ (\E s \in tick.stops : TickStops(s))
Delivery ==
    \/ (\E k \in tick.todo : TickPicks(k)) \/ TickOwnerAway \/ TickSends
    \/ TickSent \/ TickSendFails
Environment ==
    TimePasses \/ (\E k \in queued : Dispatched(k)) \/ recover

Next ==
    \/ \E s \in Subs : Owner(s) \/ Observer(s) \/ Collector(s) \/ Check(s)
                        \/ Launch(s) \/ Wake(s) \/ Collection(s)
    \/ Sweep \/ Delivery \/ Environment

Spec == Init /\ [][Next]_vars
=============================================================================
