--------------------------- MODULE FleetCoordinator ---------------------------
(***************************************************************************)
(* machine-monitor: the scheduler that samples the local server and the     *)
(* enrolled hosts (fleet-coordinator.ts) and the rows it writes             *)
(* (fleet-store.ts).                                                        *)
(*                                                                         *)
(* A tick reconciles the targets with the host directory and launches every *)
(* due lane that gets a slot of the gate.  A lane is a task: it calls the   *)
(* host's worker, and the call is answered, fails, times out or is          *)
(* cancelled.  The worker of a host may be replaced at any time; a worker   *)
(* is its session number.  Clocks are abstracted: a deadline is due or it   *)
(* is not, and time makes it due.                                           *)
(***************************************************************************)
EXTENDS Integers, Sequences, FiniteSets, FiniteSetsExt, Functions

CONSTANTS
    Local,              \* LOCAL_BB_SERVER_MACHINE_ID
    Hosts,              \* ids of the enrolled hosts
    Scheduled,          \* the <<machine, lane>> pairs of this instance, in launch order
    GlobalConcurrency,  \* FLEET_GLOBAL_CONCURRENCY
    CoreReserved,       \* FLEET_CORE_RESERVED_SLOTS
    Directories,        \* how many directories a batch measures
    MaxWorkers,         \* bound: workers a host goes through
    MaxEdges            \* bound: directory changes, host events and settings changes

None == 0
Machines == Hosts \cup {Local}
Lanes == {"describe", "core", "directory", "memory", "inventory"}
Listings == {"connected", "disconnected", "ephemeral", "conflict", "absent"}
LanesOf(m) == {l \in Lanes : <<m, l>> \in Range(Scheduled)}

ASSUME FleetAssumption ==
    /\ GlobalConcurrency \in Nat /\ CoreReserved \in 1..GlobalConcurrency
    /\ Directories \in Nat \ {0} /\ MaxWorkers \in Nat \ {0}
    /\ Local \notin Hosts
    /\ Scheduled \in Seq(Machines \X Lanes)
    /\ \A h \in Hosts : "core" \in LanesOf(h)

VARIABLES
    worker,         \* per machine: the session of its running worker
    directory,      \* per host: what hosts.list says of it
    target,         \* targets: per machine its TargetState, or none
    tasks,          \* the lane tasks that hold a slot of the gate
    tick,           \* tickPromise: idle, listing, listed, passing or ending
    listed,         \* the answer of listEnrolledHosts the reconciliation works on
    timer,          \* a timer is armed
    queued,         \* a tick is queued as a microtask
    wakePending, reconcileDue, promptHostIds,
    registered,     \* the store: connection of each registered machine
    history,        \* the store: sessions behind the newest row of each lane
    stopping,       \* the controller is aborted
    edges

world == <<worker, directory, edges>>
sched == <<tick, listed, timer, queued, wakePending, reconcileDue, promptHostIds>>
store == <<registered, history>>
vars == <<world, sched, store, target, tasks, stopping>>

NoTarget == [conn |-> "none"]
NoHistory == [l \in Lanes |-> {}]
NoListing == [h \in Hosts |-> "absent"]

\* A TargetState: `inc` tells the object from an earlier one of the same host.
Target(m, conn, ts) ==
    [conn |-> conn, session |-> None,
     inc  |-> IF \E t \in ts : t.m = m THEN 1 + Max({t.inc : t \in {u \in ts : u.m = m}}) ELSE 0,
     lane |-> [l \in LanesOf(m) |-> [due |-> TRUE, prompt |-> FALSE, session |-> None]]]

\* laneState.active, and the task that holds the lane.
Holds(t, m, x, l) == t.m = m /\ t.inc = x.inc /\ t.lane = l
\* Mutant: the lane is free as soon as the host has answered.
ActiveUnanswered(ts, m, x, l) == \E t \in ts : Holds(t, m, x, l) /\ t.from = None

Active(ts, m, x, l) == \E t \in ts : Holds(t, m, x, l)

Init ==
    /\ worker = [m \in Machines |-> 1]
    /\ directory \in [Hosts -> {"connected", "disconnected"}]
    /\ target = [m \in Machines |-> NoTarget]
    /\ tasks = {}
    /\ tick = "idle" /\ listed = NoListing /\ timer = FALSE /\ queued = TRUE
    /\ wakePending = FALSE /\ reconcileDue = TRUE /\ promptHostIds = {}
    /\ registered = [m \in Machines |-> "none"]
    /\ history = [m \in Machines |-> NoHistory]
    /\ stopping = FALSE
    /\ edges = 0

-----------------------------------------------------------------------------
(* Lanes                                                                    *)

\* promptLane: a running lane remembers the prompt.
promptLane(x, m, ts, ls) ==
    [x EXCEPT !.lane = [l \in DOMAIN @ |->
        IF l \notin ls THEN @[l]
        ELSE IF Active(ts, m, x, l) THEN [@[l] EXCEPT !.prompt = TRUE]
        ELSE [@[l] EXCEPT !.due = TRUE]]]

schedulePrompt(x, m, ts) == promptLane(x, m, ts, Lanes)

\* invalidateLifecycle, on the target; cancelCalls is what it does to the tasks.
invalidateLifecycle(x, m, ts) ==
    [x EXCEPT !.session = None,
              !.lane = [l \in DOMAIN @ |->
                  [@[l] EXCEPT !.session = None, !.due = x.lane[l].due \/ ~Active(ts, m, x, l)]]]

\* A task of the lifecycle that ends: a call under way is cancelled, one already
\* answered is told by `live` that it is of the past.
Cancelled(t, x) ==
    IF t.inc = x.inc
    THEN [t EXCEPT !.live = FALSE, !.phase = IF @ = "asking" THEN "rejected" ELSE @] ELSE t

cancelCalls(m, x, ts) == {IF t.m = m THEN Cancelled(t, x) ELSE t : t \in ts}

\* Mutant: every lane competes for the same slots.
tryAcquireAny(lane, ts) == Cardinality(ts) < GlobalConcurrency

\* FleetConcurrencyGate.tryAcquire
tryAcquire(lane, ts) ==
    /\ Cardinality(ts) < GlobalConcurrency
    /\ lane = "core" \/ Cardinality({t \in ts : t.lane # "core"}) < GlobalConcurrency - CoreReserved

\* launch, and the tick's conditions on the lane.
launchable(x, l) ==
    /\ x.conn \notin {"none", "disconnected"}
    /\ x.lane[l].due
    /\ l = "inventory" => x.session # None /\ "memory" \in DOMAIN x.lane /\ x.lane["memory"].session = x.session

launch(acc, ml) ==
    LET m == ml[1]  l == ml[2]  x == acc.target[m]
        task == [m |-> m, inc |-> x.inc, lane |-> l, live |-> TRUE, hung |-> FALSE,
                 phase |-> IF l = "directory" THEN "starting" ELSE "asking",
                 from |-> None, batch |-> None, left |-> Directories, seen |-> {}]
    IN CASE x.conn = "none" -> acc
         [] x.conn # "none" /\ (~launchable(x, l) \/ Active(acc.tasks, m, x, l)) -> acc
         [] OTHER -> IF tryAcquire(l, acc.tasks) THEN [acc EXCEPT !.tasks = @ \cup {task}]
                     ELSE [acc EXCEPT !.target[m].lane[l].due = FALSE]

-----------------------------------------------------------------------------
(* The tick                                                                 *)

\* wake: a tick under way runs once more, otherwise one is queued.
wake ==
    /\ timer' = FALSE
    /\ IF tick # "idle" THEN wakePending' = TRUE /\ UNCHANGED queued
       ELSE queued' = TRUE /\ UNCHANGED wakePending
    /\ UNCHANGED <<tick, listed>>

\* tickWork up to the call of listEnrolledHosts; the local target always exists.
TickBegins ==
    /\ ~stopping /\ tick = "idle" /\ (queued \/ timer)
    /\ IF queued THEN queued' = FALSE /\ UNCHANGED timer ELSE timer' = FALSE /\ UNCHANGED queued
    /\ IF reconcileDue
       THEN /\ tick' = "listing"
            /\ target' = [target EXCEPT ![Local] = IF @ = NoTarget THEN Target(Local, "local", tasks) ELSE @]
            /\ registered' = [registered EXCEPT ![Local] = "local"]
       ELSE tick' = "passing" /\ UNCHANGED <<target, registered>>
    /\ UNCHANGED <<world, listed, wakePending, reconcileDue, promptHostIds, history, tasks, stopping>>

ListAnswers ==
    /\ tick = "listing" /\ ~stopping
    /\ tick' = "listed" /\ listed' = directory
    /\ UNCHANGED <<world, timer, queued, wakePending, reconcileDue, promptHostIds, store, target, tasks, stopping>>

\* The listing fails: another one follows after the backoff, or at once when
\* the failure is an AbortError.
ListFails ==
    /\ tick = "listing" /\ ~stopping
    /\ tick' = "passing" /\ reconcileDue' \in {FALSE, reconcileDue}
    /\ UNCHANGED <<world, listed, timer, queued, wakePending, promptHostIds, store, target, tasks, stopping>>

\* What a reconciliation makes of one host's target.
Gone(h) == listed[h] \in {"conflict", "ephemeral"}
Retained(h) == listed[h] = "absent" /\ registered[h] # "none"
\* Mutant: a dropped target forgets to cancel its lanes.
BoundaryOnDisconnect(h) ==
    target[h] # NoTarget /\ target[h].conn = "connected" /\ (listed[h] = "disconnected" \/ Retained(h))

\* a boundary: the target is dropped, or a connected host is connected no more
Boundary(h) ==
    /\ target[h] # NoTarget
    /\ Gone(h) \/ (target[h].conn = "connected" /\ (listed[h] = "disconnected" \/ Retained(h)))
\* promptHostIds.delete is only reached when the host was connected before
Reprompted(h) == listed[h] = "connected" /\ target[h].conn = "connected" /\ h \in promptHostIds

\* What the directory says of the connection of a listed host; a retained one has none.
Connection(h) == IF listed[h] = "connected" THEN "connected" ELSE "disconnected"

\* `stored`: the upsert of the host went through, and the prompts behind it ran.
ReconciledTarget(h, stored) ==
    LET old == target[h]
        kept == IF old = NoTarget THEN Target(h, "disconnected", tasks)
                ELSE IF Boundary(h) THEN invalidateLifecycle(old, h, tasks) ELSE old
        placed == [kept EXCEPT !.conn = Connection(h)]
    IN CASE Gone(h) -> NoTarget
         [] ~Gone(h) /\ stored /\ listed[h] = "connected" /\ (old.conn # "connected" \/ Reprompted(h)) ->
              schedulePrompt(placed, h, tasks)
         [] OTHER -> placed

\* The hosts a reconciliation gets to: those that are gone, the hosts `done`,
\* and those in `bad`, where registerMachine throws once the target is placed.
Reconciled(done, bad) ==
    LET reached == {h \in Hosts : Gone(h)} \cup done \cup bad
    IN /\ target' = [m \in Machines |-> IF m \in reached THEN ReconciledTarget(m, m \in done) ELSE target[m]]
       /\ tasks' = {IF t.m \in reached /\ Boundary(t.m) THEN Cancelled(t, target[t.m]) ELSE t : t \in tasks}
       /\ promptHostIds' = {h \in promptHostIds : ~Gone(h) /\ ~(h \in done /\ Reprompted(h))}
       /\ registered' = [m \in Machines |->
              IF m \in done THEN Connection(m)
              ELSE IF m \in Hosts /\ listed[m] = "ephemeral" THEN "none" ELSE registered[m]]

\* reconcileWork from the answer on.  All is well, or a listed host is refused
\* by the store (a full registry, a label out of range) after some others: the
\* rest of the list and the retained hosts wait for the next reconciliation.
Reconcile ==
    /\ tick = "listed" /\ ~stopping
    /\ LET present == {h \in Hosts : listed[h] \in {"connected", "disconnected"}}
       IN \/ Reconciled(present \cup {h \in Hosts : Retained(h)}, {})
          \/ \E bad \in present : \E done \in SUBSET (present \ {bad}) : Reconciled(done, {bad})
    /\ history' = [m \in Machines |-> IF m \in Hosts /\ listed[m] = "ephemeral" THEN NoHistory ELSE history[m]]
    /\ reconcileDue' = FALSE
    /\ tick' = "passing" /\ listed' = NoListing
    /\ UNCHANGED <<world, timer, queued, wakePending, stopping>>

\* The targets and tasks after the first i launches of a tick.
Passed[i \in 0..Len(Scheduled)] ==
    IF i = 0 THEN [target |-> target, tasks |-> tasks] ELSE launch(Passed[i - 1], Scheduled[i])

\* The launches of a tick, and arm.
Pass ==
    /\ tick = "passing" /\ ~stopping
    /\ target' = Passed[Len(Scheduled)].target /\ tasks' = Passed[Len(Scheduled)].tasks
    /\ tick' = "ending" /\ timer' = TRUE
    /\ UNCHANGED <<world, listed, queued, wakePending, reconcileDue, promptHostIds, store, stopping>>

\* Mutant: a wake after arm is forgotten, and its timer is cleared.
finishTickForgetful ==
    /\ tick = "ending" /\ ~stopping
    /\ tick' = "idle" /\ wakePending' = FALSE
    /\ UNCHANGED <<world, listed, timer, queued, reconcileDue, promptHostIds, store, target, tasks, stopping>>

\* finishTick: a wake during the tick runs another one.
finishTick ==
    /\ tick = "ending" /\ ~stopping
    /\ tick' = "idle" /\ wakePending' = FALSE
    /\ timer' = (timer /\ ~wakePending)
    /\ queued' = (queued \/ wakePending)
    /\ UNCHANGED <<world, listed, reconcileDue, promptHostIds, store, target, tasks, stopping>>

\* Time makes a lane, or the next reconciliation, due.  The deadline of a lane
\* is looked at only while the lane is free.
LaneComesDue(m, l) ==
    /\ target[m] # NoTarget /\ ~target[m].lane[l].due /\ ~Active(tasks, m, target[m], l)
    /\ target' = [target EXCEPT ![m].lane[l].due = TRUE]
    /\ UNCHANGED <<world, sched, store, tasks, stopping>>

ReconcileComesDue ==
    /\ ~reconcileDue /\ tick = "idle" /\ reconcileDue' = TRUE
    /\ UNCHANGED <<world, tick, listed, timer, queued, wakePending, promptHostIds, store, target, tasks, stopping>>

-----------------------------------------------------------------------------
(* A lane's task                                                            *)

Replace(t, u) == tasks' = (tasks \ {t}) \cup {u}

\* The worker computes its answer; the answer is under way.
HostAnswers(t) ==
    /\ t.phase = "asking" /\ t.from = None
    /\ Replace(t, [t EXCEPT !.from = worker[t.m]])
    /\ UNCHANGED <<world, sched, store, target, stopping>>

\* The call resolves with the answer; the task has not yet gone on.
CallResolves(t) ==
    /\ t.phase = "asking" /\ t.from # None
    /\ Replace(t, [t EXCEPT !.phase = "settled"])
    /\ UNCHANGED <<world, sched, store, target, stopping>>

\* callWithTimeout rejects: the host refused, or the deadline passed and the
\* transport may still be running.  The directories of a batch may fail to load.
CallRejects(t) ==
    /\ t.phase \in {"starting", "asking"}
    /\ \E late \in {FALSE, t.phase = "asking"} : Replace(t, [t EXCEPT !.phase = "rejected", !.from = None, !.hung = late])
    /\ UNCHANGED <<world, sched, store, target, stopping>>

\* Release of the slot: the lane is free, a remembered prompt makes it due.
Released(x, t) ==
    IF x = NoTarget \/ x.inc # t.inc THEN x
    ELSE [x EXCEPT !.lane[t.lane].due = @ \/ x.lane[t.lane].prompt, !.lane[t.lane].prompt = FALSE]

\* The end of a task: the slot stays taken while a timed out transport runs.
Ends(t, x) ==
    IF t.hung /\ ~stopping
    THEN /\ Replace(t, [t EXCEPT !.phase = "quarantined", !.from = None, !.batch = None, !.seen = {}, !.left = Directories])
         /\ target' = [target EXCEPT ![t.m] = x]
         /\ UNCHANGED sched
    ELSE /\ tasks' = tasks \ {t}
         /\ target' = [target EXCEPT ![t.m] = Released(x, t)]
         /\ IF stopping THEN UNCHANGED sched ELSE wake /\ UNCHANGED <<reconcileDue, promptHostIds>>

\* The transport of a timed out call settles at last.
TransportSettles(t) ==
    /\ t.phase = "quarantined"
    /\ tasks' = tasks \ {t}
    /\ target' = [target EXCEPT ![t.m] = Released(target[t.m], t)]
    /\ IF stopping THEN UNCHANGED sched ELSE wake /\ UNCHANGED <<reconcileDue, promptHostIds>>
    /\ UNCHANGED <<world, store, stopping>>

\* current(state, epoch)
Current(t) == t.live /\ ~stopping

\* scheduleNext, and the backoff of recordFailure: the next deadline lies ahead
scheduleNext(x, l) == [x EXCEPT !.lane[l].due = FALSE]

\* runLane's catch: a current task books the failure and backs off, unless the
\* failure is an AbortError; a task of the past does neither.
LaneFails(t) ==
    /\ t.phase = "rejected"
    /\ \E booked \in {FALSE, Current(t)} :
         Ends(t, IF booked THEN scheduleNext(target[t.m], t.lane) ELSE target[t.m])
    /\ UNCHANGED <<world, store, stopping>>

\* A task that is not current any more ends without a trace.
LaneIsPast(t) ==
    /\ t.phase \in {"settled", "starting"} /\ ~Current(t)
    /\ Ends(t, target[t.m])
    /\ UNCHANGED <<world, store, stopping>>

\* A write the store takes, or refuses: it knows no row of the machine
\* (requireMachine), or the row contradicts an earlier one.  A refused write is
\* a failure of the lane; what the target had learnt stays.
Writes(m) == {w \in BOOLEAN : w => registered[m] # "none"}

\* collectDescription: it never replaces a session already accepted.
DescriptionArrives(t) ==
    /\ t.phase = "settled" /\ Current(t) /\ t.lane = "describe"
    /\ LET x == target[t.m]
           adopted == [x EXCEPT !.session = t.from]
       IN \/ /\ x.session \notin {None, t.from}
             /\ Ends(t, scheduleNext(x, "describe")) /\ UNCHANGED registered
          \/ /\ x.session \in {None, t.from}
             /\ Ends(t, scheduleNext(promptLane(adopted, t.m, tasks, {"inventory"}), "describe"))
             /\ registered' = [registered EXCEPT ![t.m] = x.conn]
          \/ /\ x.session \in {None, t.from}   \* the upsert throws
             /\ Ends(t, scheduleNext(adopted, "describe")) /\ UNCHANGED registered
    /\ UNCHANGED <<world, history, stopping>>

\* collectCore: a core sample of another session is a new worker.
CoreArrives(t) ==
    /\ t.phase = "settled" /\ Current(t) /\ t.lane = "core"
    /\ \E fresh \in BOOLEAN, written \in Writes(t.m) :
        LET x == target[t.m]
            repeat == x.lane["core"].session = t.from /\ ~fresh
            accepted == [x EXCEPT !.session = t.from, !.lane["core"].session = t.from]
        IN /\ Ends(t, scheduleNext(IF repeat THEN x
                            ELSE IF x.session # t.from
                            THEN promptLane(accepted, t.m, tasks, {"directory", "memory", "inventory"})
                            ELSE accepted, "core"))
           /\ history' = [history EXCEPT ![t.m]["core"] = IF repeat \/ ~written THEN @ ELSE {t.from}]
    /\ UNCHANGED <<world, registered, stopping>>

\* Mutant: a detail of any worker is accepted.
acceptSecondaryAny(x, l, from, fresh) == x.session # None /\ ~(x.lane[l].session = from /\ ~fresh)

\* acceptSecondary: details never establish a session.
acceptSecondary(x, l, from, fresh) ==
    x.session # None /\ x.session = from /\ ~(x.lane[l].session = from /\ ~fresh)

\* collectMemory and collectInventory
DetailArrives(t) ==
    /\ t.phase = "settled" /\ Current(t) /\ t.lane \in {"memory", "inventory"}
    /\ \E fresh \in BOOLEAN, written \in Writes(t.m) :
        LET x == target[t.m]
            ok == IF t.lane = "memory" THEN acceptSecondary(x, "memory", t.from, fresh) ELSE t.from = x.session
        IN /\ Ends(t, scheduleNext(IF ok /\ t.lane = "memory" THEN [x EXCEPT !.lane["memory"].session = t.from] ELSE x, t.lane))
           /\ history' = [history EXCEPT ![t.m][t.lane] = IF ok /\ written THEN {t.from} ELSE @]
    /\ UNCHANGED <<world, registered, stopping>>

\* collectDirectories: the batch is bound to the session it starts in.
BatchBegins(t) ==
    /\ t.phase = "starting" /\ Current(t)
    /\ LET x == target[t.m]
       IN IF x.session = None THEN Ends(t, scheduleNext(x, "directory"))
          ELSE Replace(t, [t EXCEPT !.phase = "asking", !.batch = x.session]) /\ UNCHANGED <<target, sched>>
    /\ UNCHANGED <<world, store, stopping>>

\* Mutant: only the session the target has now is compared.
batchHoldsLoose(t, x, fresh) == x.session = t.batch /\ fresh

\* a result belongs to its batch
batchHolds(t, x, fresh) == x.session = t.batch /\ t.from = t.batch /\ fresh

DirectoryArrives(t) ==
    /\ t.phase = "settled" /\ Current(t) /\ t.lane = "directory"
    /\ \E fresh, available \in BOOLEAN, written \in Writes(t.m) :
        LET x == target[t.m]
            seen == IF available THEN t.seen \cup {t.from} ELSE t.seen
        IN IF ~batchHolds(t, x, fresh)
           THEN Ends(t, scheduleNext(x, "directory")) /\ UNCHANGED history
           ELSE IF t.left > 1
           THEN /\ Replace(t, [t EXCEPT !.phase = "asking", !.from = None, !.left = @ - 1, !.seen = seen])
                /\ UNCHANGED <<target, sched, history>>
           ELSE /\ Ends(t, scheduleNext([x EXCEPT !.lane["directory"].session = t.batch], "directory"))
                /\ history' = [history EXCEPT ![t.m]["directory"] = IF seen = {} \/ ~written THEN @ ELSE seen]
    /\ UNCHANGED <<world, registered, stopping>>

-----------------------------------------------------------------------------
(* Events                                                                   *)

Edge == edges < MaxEdges /\ edges' = edges + 1 /\ ~stopping

\* A worker is replaced and nobody is told yet.
WorkerReplaced(h) ==
    /\ worker[h] < MaxWorkers
    /\ worker' = [worker EXCEPT ![h] = @ + 1]
    /\ UNCHANGED <<directory, edges, sched, store, target, tasks, stopping>>

DirectoryChanges(h) ==
    /\ Edge
    /\ \E s \in Listings \ {directory[h]} : directory' = [directory EXCEPT ![h] = s]
    /\ UNCHANGED <<worker, sched, store, target, tasks, stopping>>

\* requestReconcile
requestReconcile == reconcileDue' = TRUE /\ wake

noteHostConnected(h) ==
    /\ Edge
    /\ promptHostIds' = promptHostIds \cup {h}
    /\ IF target[h] = NoTarget THEN UNCHANGED <<target, tasks>>
       ELSE /\ target' = [target EXCEPT ![h] = invalidateLifecycle(target[h], h, tasks)]
            /\ tasks' = cancelCalls(h, target[h], tasks)
    /\ requestReconcile
    /\ UNCHANGED <<worker, directory, store, stopping>>

noteWorkerExit(h) ==
    /\ Edge /\ target[h] # NoTarget
    /\ target' = [target EXCEPT ![h] = scheduleNext(invalidateLifecycle(target[h], h, tasks), "core")]
    /\ tasks' = cancelCalls(h, target[h], tasks)
    /\ UNCHANGED <<worker, directory, sched, store, stopping>>

\* settingsChanged prompts the machines the store knows.
settingsChanged ==
    /\ Edge
    /\ target' = [m \in Machines |->
           IF registered[m] # "none" /\ target[m].conn \notin {"none", "disconnected"}
           THEN promptLane(target[m], m, tasks, Lanes \ {"inventory"}) ELSE target[m]]
    /\ requestReconcile
    /\ UNCHANGED <<worker, directory, promptHostIds, store, tasks, stopping>>

\* A realtime event without a host: requestReconcile alone.
RealtimeRecovers ==
    /\ Edge /\ requestReconcile
    /\ UNCHANGED <<worker, directory, promptHostIds, store, target, tasks, stopping>>

\* stop: the controller aborts every call; no tick follows.
Stop ==
    /\ ~stopping /\ stopping' = TRUE
    /\ tasks' = {IF t.phase = "asking" THEN [t EXCEPT !.phase = "rejected"] ELSE t : t \in tasks}
    /\ tick' = "idle" /\ listed' = NoListing /\ timer' = FALSE /\ queued' = FALSE /\ wakePending' = FALSE
    /\ UNCHANGED <<world, reconcileDue, promptHostIds, store, target>>

Continues(t) ==
    LaneFails(t) \/ LaneIsPast(t) \/ DescriptionArrives(t) \/ CoreArrives(t)
    \/ DetailArrives(t) \/ BatchBegins(t) \/ DirectoryArrives(t)

TaskStep(t) == HostAnswers(t) \/ CallResolves(t) \/ CallRejects(t) \/ TransportSettles(t) \/ Continues(t)

Ticks == TickBegins \/ ListAnswers \/ ListFails \/ Reconcile \/ Pass \/ finishTick

Next ==
    \/ Ticks
    \/ ReconcileComesDue
    \/ \E m \in Machines : \E l \in LanesOf(m) : LaneComesDue(m, l)
    \/ \E t \in tasks : TaskStep(t)
    \/ \E h \in Hosts : WorkerReplaced(h) \/ DirectoryChanges(h) \/ noteHostConnected(h) \/ noteWorkerExit(h)
    \/ settingsChanged \/ RealtimeRecovers \/ Stop

\* Timers fire, answered calls go on, every call meets its deadline, and a
\* core transport settles in the end.  Nothing is asked of other transports.
Fairness ==
    /\ WF_vars(Ticks)
    /\ \A m \in Machines : \A l \in LanesOf(m) : WF_vars(LaneComesDue(m, l))
    /\ \A m \in Machines : \A l \in LanesOf(m) :
         WF_vars(\E t \in tasks : t.m = m /\ t.lane = l /\ (CallResolves(t) \/ CallRejects(t) \/ Continues(t)))
    /\ \A m \in Machines :
         WF_vars(\E t \in tasks : t.m = m /\ t.lane = "core" /\ TransportSettles(t))

Spec == Init /\ [][Next]_vars
FairSpec == Spec /\ Fairness

-----------------------------------------------------------------------------
(* Properties                                                               *)

Sessions == 0..MaxWorkers

\* Every variable keeps its type.
TypeOK ==
    /\ \A m \in Machines : target[m] = NoTarget \/ target[m].session \in Sessions
    /\ \A t \in tasks : /\ t.m \in Machines /\ t.lane \in LanesOf(t.m) /\ t.from \in Sessions
                         /\ t.phase \in {"starting", "asking", "settled", "rejected", "quarantined"}
    /\ tick \in {"idle", "listing", "listed", "passing", "ending"}
    /\ promptHostIds \subseteq Hosts

\* Whatever wakes, timers and ticks overlap, the running coordinator always
\* has its next tick ahead: in tick, wake, arm and finishTick no order of
\* events leaves it without a timer and without a queued tick.
NeverAsleep == ~stopping /\ tick = "idle" => timer \/ queued

\* No row recorded for a machine is of a worker older than its newest core
\* sample: the core history never returns to an earlier worker, and no detail
\* of an old worker is added to the samples of the new one, although answers
\* cross exits, reconnects, removals and each other (collectCore,
\* acceptSecondary, collectDirectories, collectInventory, invalidateLifecycle).
NothingStaleRecorded ==
    [][\A m \in Machines : \A l \in Lanes :
         history'[m][l] # history[m][l] =>
             \A s \in history'[m][l], core \in history[m]["core"] : s >= core]_vars

\* A directory batch is written whole from one worker: "no mixed-session
\* prefix is ever committed" (collectDirectories).
OneWorkerPerBatch == \A m \in Machines : Cardinality(history[m]["directory"]) <= 1

\* A task that may still write works for the target the coordinator holds for
\* its machine, not for one that was dropped or made anew meanwhile (conflict,
\* removal, re-enrolment): current() in the lanes, invalidateLifecycle in
\* reconcileWork, also when a reconciliation breaks off half way.
WritesForHeldTarget ==
    \A t \in tasks : Current(t) => target[t.m] # NoTarget /\ target[t.m].inc = t.inc

\* Whatever transports of other lanes hang for ever, the core lane of a
\* connected host is sampled again and again (FLEET_CORE_RESERVED_SLOTS).
CoreStarts ==
    \A h \in Hosts :
        target[h].conn = "connected" ~>
            \/ target[h].conn # "connected" \/ stopping
            \/ \E t \in tasks : Holds(t, h, target[h], "core") /\ t.phase # "quarantined"
=============================================================================
