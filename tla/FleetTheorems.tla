----------------------------- MODULE FleetTheorems -----------------------------
(***************************************************************************)
(* The safety properties of the fleet coordinator, proved from one         *)
(* inductive invariant.  It says what a task that holds a lane, the target *)
(* of its machine and the newest core sample stored for the machine have   *)
(* to do with each other: a live task belongs to the target that is there, *)
(* and while the target has no session, or the task is the core lane's,    *)
(* its answer is of no older worker than the newest core sample.           *)
(***************************************************************************)
EXTENDS FleetCoordinator, FiniteSetTheorems, WellFoundedInduction, TLAPS

Connections == {"local", "connected", "disconnected"}

IsTarget(x) ==
    \/ x = NoTarget
    \/ /\ DOMAIN x = {"conn", "session", "inc", "lane"}
       /\ x.conn \in Connections /\ x.session \in Sessions

IsTask(t) ==
    /\ DOMAIN t = {"m", "inc", "lane", "live", "hung", "phase", "from", "batch", "left", "seen"}
    /\ t.m \in Machines /\ t.lane \in LanesOf(t.m) /\ t.from \in Sessions
    /\ t.phase \in {"starting", "asking", "settled", "rejected", "quarantined"}

\* The session of a target is not older than the newest core sample.
TargetFits(x, core) ==
    x # NoTarget /\ x.session # None => \A s \in core : s <= x.session

\* A task of the machine with target x, whose running worker is w.
TaskFits(t, x, core, w) ==
    /\ t.from <= w
    /\ t.live => x # NoTarget /\ x.inc = t.inc
    /\ t.phase = "settled" => t.from # None
    /\ t.seen \subseteq {t.batch} /\ (t.phase = "starting" => t.seen = {})
    /\ t.live /\ t.from # None /\ (t.lane = "core" \/ x.session = None) => \A s \in core : s <= t.from

\* No two tasks hold one lane of one target.
OnePerLane(ts) ==
    \A t, u \in ts : t.m = u.m /\ t.inc = u.inc /\ t.lane = u.lane => t = u

\* Targets tg and tasks ts fit each other and what is stored.
Fit(tg, ts) ==
    /\ DOMAIN tg = Machines
    /\ \A m \in Machines : IsTarget(tg[m]) /\ TargetFits(tg[m], history[m]["core"])
    /\ \A t \in ts : IsTask(t) /\ TaskFits(t, tg[t.m], history[t.m]["core"], worker[t.m])
    /\ OnePerLane(ts)

\* What is stored, and the workers.
Stored ==
    /\ worker \in [Machines -> 1..MaxWorkers]
    /\ registered \in [Machines -> Connections \cup {"none"}]
    /\ history \in [Machines -> [Lanes -> SUBSET Sessions]]
    /\ \A m \in Machines : \A s \in history[m]["core"] : s <= worker[m]
    /\ \A m \in Machines : \A l \in {"core", "directory"} : \A a, b \in history[m][l] : a = b

\* The scheduler has its next tick ahead, in the last part of a tick too.
Awake ==
    /\ tick \in {"idle", "listing", "listed", "passing", "ending"} /\ promptHostIds \subseteq Hosts
    /\ ~stopping /\ tick = "idle" => timer \/ queued
    /\ ~stopping /\ tick = "ending" => timer \/ wakePending

\* The inductive invariant.
FleetInv == Stored /\ Awake /\ Fit(target, tasks)

-----------------------------------------------------------------------------
(* What the operators on lanes do to a target.                              *)

\* y is x, up to its lanes and its connection.
Like(x, y) ==
    /\ IsTarget(x) /\ IsTarget(y) /\ (y = NoTarget <=> x = NoTarget)
    /\ y.inc = x.inc /\ y.session = x.session

\* A target is told from none by its connection.
LEMMA TargetShape ==
    ASSUME NEW x, IsTarget(x), x # NoTarget
    PROVE  /\ DOMAIN x = {"conn", "session", "inc", "lane"}
           /\ x.conn \in Connections /\ x.session \in Sessions
           /\ x.conn # "none"
BY DEF IsTarget, Connections

\* Whatever has the shape of a target and a connection is one.
LEMMA TargetMade ==
    ASSUME NEW x, DOMAIN x = {"conn", "session", "inc", "lane"},
           x.conn \in Connections, x.session \in Sessions
    PROVE  IsTarget(x) /\ x # NoTarget
<1>1. NoTarget.conn = "none"
  BY DEF NoTarget
<1> QED BY <1>1 DEF IsTarget, Connections

\* Prompting lanes leaves the lifecycle alone.
LEMMA PromptLike ==
    ASSUME NEW x, NEW m, NEW ts, NEW ls, IsTarget(x), x # NoTarget
    PROVE  Like(x, promptLane(x, m, ts, ls))
<1> DEFINE y == promptLane(x, m, ts, ls)
<1>1. /\ DOMAIN y = {"conn", "session", "inc", "lane"} /\ y.conn = x.conn
      /\ y.session = x.session /\ y.inc = x.inc
  BY TargetShape DEF promptLane
<1> HIDE DEF y
<1>2. IsTarget(y) /\ y # NoTarget
  BY <1>1, TargetShape, TargetMade
<1> QED BY <1>1, <1>2 DEF Like, y

\* So does setting the next deadline.
LEMMA ScheduleLike ==
    ASSUME NEW x, NEW l, IsTarget(x), x # NoTarget
    PROVE  Like(x, scheduleNext(x, l))
<1> DEFINE y == scheduleNext(x, l)
<1>1. /\ DOMAIN y = {"conn", "session", "inc", "lane"} /\ y.conn = x.conn
      /\ y.session = x.session /\ y.inc = x.inc
  BY TargetShape DEF scheduleNext
<1> HIDE DEF y
<1>2. IsTarget(y) /\ y # NoTarget
  BY <1>1, TargetShape, TargetMade
<1> QED BY <1>1, <1>2 DEF Like, y

\* So does the release of a lane.
LEMMA ReleasedLike ==
    ASSUME NEW x, NEW t, IsTarget(x)
    PROVE  Like(x, Released(x, t))
<1> DEFINE y == Released(x, t)
<1>1. CASE x = NoTarget \/ x.inc # t.inc
  BY <1>1 DEF Released, Like
<1>2. CASE ~(x = NoTarget \/ x.inc # t.inc)
  <2>1. /\ DOMAIN y = {"conn", "session", "inc", "lane"} /\ y.conn = x.conn
        /\ y.session = x.session /\ y.inc = x.inc
    BY <1>2, TargetShape DEF Released
  <2> HIDE DEF y
  <2>2. IsTarget(y) /\ y # NoTarget
    BY <1>2, <2>1, TargetShape, TargetMade
  <2> QED BY <1>2, <2>1, <2>2 DEF Like, y
<1> QED BY <1>1, <1>2

\* Another connection, or another accepted session, makes another target of
\* the same lifecycle.
LEMMA PlacedTarget ==
    ASSUME NEW x, NEW c \in Connections, IsTarget(x), x # NoTarget
    PROVE  LET y == [x EXCEPT !.conn = c]
           IN Like(x, y) /\ y.conn = c
<1> DEFINE y == [x EXCEPT !.conn = c]
<1>1. /\ DOMAIN y = {"conn", "session", "inc", "lane"} /\ y.conn = c
      /\ y.session = x.session /\ y.inc = x.inc
  BY TargetShape
<1> HIDE DEF y
<1>2. IsTarget(y) /\ y # NoTarget
  BY <1>1, TargetShape, TargetMade
<1> QED BY <1>1, <1>2 DEF Like, y

LEMMA AcceptedTarget ==
    ASSUME NEW x, NEW s \in Sessions, NEW l, IsTarget(x), x # NoTarget
    PROVE  LET y == [x EXCEPT !.session = s]
               v == [x EXCEPT !.lane[l].session = s]
           IN /\ IsTarget(y) /\ y # NoTarget /\ y.inc = x.inc /\ y.session = s
              /\ Like(x, v)
<1> DEFINE y == [x EXCEPT !.session = s]
           v == [x EXCEPT !.lane[l].session = s]
<1>1. /\ DOMAIN y = {"conn", "session", "inc", "lane"} /\ y.conn = x.conn
      /\ y.session = s /\ y.inc = x.inc
  BY TargetShape
<1>2. /\ DOMAIN v = {"conn", "session", "inc", "lane"} /\ v.conn = x.conn
      /\ v.session = x.session /\ v.inc = x.inc
  BY TargetShape
<1> HIDE DEF y, v
<1>3. IsTarget(y) /\ y # NoTarget /\ IsTarget(v) /\ v # NoTarget
  BY <1>1, <1>2, TargetShape, TargetMade
<1> QED BY <1>1, <1>2, <1>3 DEF Like, y, v

\* The end of a lifecycle forgets the session.
LEMMA InvalidatedTarget ==
    ASSUME NEW x, NEW m, NEW ts, IsTarget(x), x # NoTarget
    PROVE  LET y == invalidateLifecycle(x, m, ts)
           IN IsTarget(y) /\ y # NoTarget /\ y.inc = x.inc /\ y.session = None
<1> DEFINE y == invalidateLifecycle(x, m, ts)
<1>1. /\ DOMAIN y = {"conn", "session", "inc", "lane"} /\ y.conn = x.conn
      /\ y.session = None /\ y.inc = x.inc
  BY TargetShape DEF invalidateLifecycle
<1>2. None \in Sessions
  BY FleetAssumption DEF Sessions, None
<1> HIDE DEF y
<1>3. IsTarget(y) /\ y # NoTarget
  BY <1>1, <1>2, TargetShape, TargetMade
<1> QED BY <1>1, <1>3 DEF y

\* A new target has no session.
LEMMA NewTarget ==
    ASSUME NEW m, NEW c \in Connections, NEW ts
    PROVE  LET y == Target(m, c, ts)
           IN IsTarget(y) /\ y # NoTarget /\ y.session = None
<1> DEFINE y == Target(m, c, ts)
<1>1. DOMAIN y = {"conn", "session", "inc", "lane"} /\ y.conn = c /\ y.session = None
  BY DEF Target
<1>2. None \in Sessions
  BY FleetAssumption DEF Sessions, None
<1> HIDE DEF y
<1>3. IsTarget(y) /\ y # NoTarget
  BY <1>1, <1>2, TargetMade
<1> QED BY <1>1, <1>3 DEF y

-----------------------------------------------------------------------------
(* Steps of one task.                                                       *)

\* What a step of task t may do to the target of its machine, which becomes y,
\* and to the rows stored.
Answered(t, y) ==
    LET x == target[t.m]
        core == history[t.m]["core"]
    IN /\ IsTarget(y) /\ y.inc = x.inc /\ (y = NoTarget <=> x = NoTarget)
       /\ worker' = worker /\ Stored'
       /\ \A m \in Machines \ {t.m} : history'[m]["core"] = history[m]["core"]
       /\ history'[t.m]["core"] = core \/ (t.live /\ t.lane = "core")
       /\ y.session = None => x.session = None /\ history'[t.m]["core"] = core
       /\ y # NoTarget /\ y.session # None => \A s \in history'[t.m]["core"] : s <= y.session

\* What the task that goes on as u has to be.
Continued(t, u) ==
    /\ u.m = t.m /\ u.inc = t.inc /\ u.lane = t.lane /\ IsTask(u)
    /\ TaskFits(u, target'[t.m], history'[t.m]["core"], worker[t.m])

\* A step of one task keeps targets and tasks fitting: the other tasks of the
\* machine are of other lanes, or of the past.
LEMMA TaskMoves ==
    ASSUME Fit(target, tasks), NEW t \in tasks, NEW y, NEW u, Answered(t, y),
           DOMAIN target' = Machines, Like(y, target'[t.m]),
           \A m \in Machines \ {t.m} : target'[m] = target[m],
           \A v \in tasks' : v \in tasks \ {t} \/ v = u,
           u \in tasks' => Continued(t, u)
    PROVE  Fit(target, tasks)'
<1>1. t.m \in Machines /\ IsTask(t)
  BY DEF Fit, IsTask
<1>2. ASSUME NEW m \in Machines
      PROVE  IsTarget(target'[m]) /\ TargetFits(target'[m], history'[m]["core"])
  <2>1. CASE m # t.m
    BY <1>2, <2>1 DEF Fit, TargetFits, Answered
  <2>2. CASE m = t.m
    <3>1. IsTarget(target[m]) /\ TargetFits(target[m], history[m]["core"])
      BY <1>2 DEF Fit
    <3> QED BY <2>2, <3>1 DEF Like, Answered, TargetFits
  <2> QED BY <2>1, <2>2
<1>3. ASSUME NEW v \in tasks'
      PROVE  IsTask(v) /\ TaskFits(v, target'[v.m], history'[v.m]["core"], worker'[v.m])
  <2>1. CASE v = u
    BY <1>3, <2>1 DEF Continued, Answered
  <2>2. CASE v \in tasks \ {t}
    <3>1. /\ IsTask(v) /\ v.m \in Machines
          /\ TaskFits(v, target[v.m], history[v.m]["core"], worker[v.m])
          /\ ~(v.m = t.m /\ v.inc = t.inc /\ v.lane = t.lane)
      BY <2>2 DEF Fit, OnePerLane, IsTask
    <3>2. CASE v.m # t.m
      BY <3>1, <3>2 DEF Answered
    <3>3. CASE v.m = t.m
      <4>1. /\ target'[t.m].inc = target[t.m].inc
            /\ target'[t.m] = NoTarget <=> target[t.m] = NoTarget
            /\ target'[t.m].session = y.session
        BY DEF Like, Answered
      <4>2. CASE history'[t.m]["core"] = history[t.m]["core"]
        BY <3>1, <3>3, <4>1, <4>2 DEF Answered, TaskFits
      <4>3. CASE history'[t.m]["core"] # history[t.m]["core"]
        <5>1. t.live /\ t.lane = "core" /\ y.session # None
          BY <4>3 DEF Answered
        <5>2. target[t.m].inc = t.inc
          BY <5>1 DEF Fit, TaskFits
        <5>3. v.live => v.lane # "core"
          BY <3>1, <3>3, <5>1, <5>2 DEF TaskFits
        <5> QED BY <3>1, <3>3, <4>1, <5>1, <5>3 DEF Answered, TaskFits
      <4> QED BY <4>2, <4>3
    <3> QED BY <3>2, <3>3
  <2> QED BY <1>3, <2>1, <2>2
<1>4. OnePerLane(tasks')
  <2> SUFFICES ASSUME NEW v \in tasks', NEW w \in tasks',
                      v.m = w.m, v.inc = w.inc, v.lane = w.lane
               PROVE  v = w
    BY DEF OnePerLane
  <2> QED BY DEF Continued, Fit, OnePerLane
<1> QED BY <1>2, <1>3, <1>4 DEF Fit

\* A wake, or a step that leaves the scheduler alone, keeps a tick ahead.
LEMMA AwakeKeeps ==
    ASSUME Awake, UNCHANGED stopping,
           (wake /\ UNCHANGED <<reconcileDue, promptHostIds>>) \/ UNCHANGED sched
    PROVE  Awake'
BY DEF Awake, wake, sched

\* Nothing is written.
LEMMA StoredKeeps ==
    ASSUME Stored, UNCHANGED <<worker, store>>
    PROVE  Stored'
BY DEF Stored, store

\* The end of a task keeps the invariant.
LEMMA EndKeeps ==
    ASSUME FleetInv, NEW t \in tasks, NEW y, Answered(t, y), Ends(t, y), UNCHANGED stopping
    PROVE  FleetInv'
<1>1. t.m \in Machines /\ DOMAIN target = Machines /\ IsTask(t)
      /\ TaskFits(t, target[t.m], history[t.m]["core"], worker[t.m])
  BY DEF FleetInv, Fit, IsTask
<1>2. Stored' /\ IsTarget(y) /\ y.inc = target[t.m].inc /\ (y = NoTarget <=> target[t.m] = NoTarget)
  BY DEF Answered
<1>3. Awake'
  BY AwakeKeeps DEF Ends, FleetInv
<1>4. CASE t.hung /\ ~stopping
  <2> DEFINE u == [t EXCEPT !.phase = "quarantined", !.from = None, !.batch = None, !.seen = {},
                            !.left = Directories]
  <2>1. tasks' = (tasks \ {t}) \cup {u} /\ target' = [target EXCEPT ![t.m] = y]
    BY <1>4 DEF Ends, Replace
  <2>2. /\ DOMAIN u = DOMAIN t /\ u.m = t.m /\ u.inc = t.inc /\ u.lane = t.lane /\ u.live = t.live
        /\ u.phase = "quarantined" /\ u.from = None /\ u.seen = {}
    BY <1>1 DEF IsTask
  <2> HIDE DEF u
  <2>3. worker[t.m] \in Nat /\ None \in Sessions /\ None = 0
    BY <1>1, FleetAssumption DEF FleetInv, Stored, Sessions, None
  <2>4. IsTask(u) /\ TaskFits(u, y, history'[t.m]["core"], worker[t.m])
    BY <1>1, <1>2, <2>2, <2>3 DEF IsTask, TaskFits
  <2>5. Like(y, target'[t.m]) /\ target'[t.m] = y /\ DOMAIN target' = Machines
        /\ \A m \in Machines \ {t.m} : target'[m] = target[m]
    BY <1>1, <1>2, <2>1 DEF Like
  <2>6. Continued(t, u)
    BY <2>2, <2>4, <2>5 DEF Continued
  <2> QED BY <1>2, <1>3, <2>1, <2>5, <2>6, TaskMoves DEF FleetInv
<1>5. CASE ~(t.hung /\ ~stopping)
  <2>1. tasks' = tasks \ {t} /\ target' = [target EXCEPT ![t.m] = Released(y, t)]
    BY <1>5 DEF Ends
  <2>2. Like(y, target'[t.m]) /\ DOMAIN target' = Machines
        /\ \A m \in Machines \ {t.m} : target'[m] = target[m]
    BY <1>1, <1>2, <2>1, ReleasedLike
  <2>3. \A v \in tasks' : v \in tasks \ {t} \/ v = t
    BY <2>1
  <2>4. t \notin tasks'
    BY <2>1
  <2> QED BY <1>2, <1>3, <2>2, <2>3, <2>4, TaskMoves DEF FleetInv
<1> QED BY <1>4, <1>5

\* A step that writes nothing and leaves the target alone.
LEMMA AnswersNothing ==
    ASSUME FleetInv, NEW t \in tasks, UNCHANGED <<worker, store>>
    PROVE  Answered(t, target[t.m])
<1>1. t.m \in Machines
  BY DEF FleetInv, Fit, IsTask
<1>2. IsTarget(target[t.m]) /\ TargetFits(target[t.m], history[t.m]["core"])
  BY <1>1 DEF FleetInv, Fit
<1> QED BY <1>1, <1>2, StoredKeeps DEF Answered, TargetFits, FleetInv, store

\* A task that goes on and touches nothing else keeps the invariant.
LEMMA ReplaceKeeps ==
    ASSUME FleetInv, NEW t \in tasks, NEW u, Replace(t, u),
           UNCHANGED <<worker, store, target, sched, stopping>>,
           u.m = t.m, u.inc = t.inc, u.lane = t.lane, IsTask(u),
           TaskFits(u, target[t.m], history[t.m]["core"], worker[t.m])
    PROVE  FleetInv'
<1>1. t.m \in Machines /\ DOMAIN target = Machines
  BY DEF FleetInv, Fit, IsTask
<1>2. Like(target[t.m], target'[t.m])
  BY <1>1 DEF FleetInv, Fit, Like
<1>3. Continued(t, u)
  BY DEF Continued, store
<1>4. Fit(target, tasks)'
  BY <1>1, <1>2, <1>3, AnswersNothing, TaskMoves DEF FleetInv, Replace
<1> QED BY <1>4, AwakeKeeps, StoredKeeps DEF FleetInv

\* What the invariant says of one task.
LEMMA TaskShape ==
    ASSUME FleetInv, NEW t \in tasks
    PROVE  /\ IsTask(t) /\ t.m \in Machines
           /\ TaskFits(t, target[t.m], history[t.m]["core"], worker[t.m])
           /\ worker[t.m] \in Nat /\ worker[t.m] \in Sessions
           /\ \A s \in history[t.m]["core"] : s \in Nat /\ s <= worker[t.m]
           /\ history[t.m]["core"] \subseteq Sessions
           /\ t.from \in Nat /\ None = 0 /\ None \in Sessions
<1>1. IsTask(t) /\ t.m \in Machines
  BY DEF FleetInv, Fit, IsTask
<1>2. worker[t.m] \in 1..MaxWorkers /\ "core" \in Lanes
  BY <1>1 DEF FleetInv, Stored, Lanes
<1>3. history[t.m]["core"] \subseteq Sessions
  BY <1>1, <1>2 DEF FleetInv, Stored
<1>4. TaskFits(t, target[t.m], history[t.m]["core"], worker[t.m])
  BY DEF FleetInv, Fit
<1> QED BY <1>1, <1>2, <1>3, <1>4, FleetAssumption DEF FleetInv, Stored, Sessions, IsTask, None

\* The answer is of the worker that runs, and no core sample is of a later one.
LEMMA HostAnswersKeeps ==
    ASSUME FleetInv, NEW t \in tasks, HostAnswers(t)
    PROVE  FleetInv'
<1> DEFINE u == [t EXCEPT !.from = worker[t.m]]
<1>1. Replace(t, u) /\ UNCHANGED <<worker, store, target, sched, stopping>> /\ t.phase = "asking"
  BY DEF HostAnswers, world
<1>2. /\ DOMAIN u = DOMAIN t /\ u.m = t.m /\ u.inc = t.inc /\ u.lane = t.lane /\ u.live = t.live
      /\ u.phase = t.phase /\ u.from = worker[t.m] /\ u.seen = t.seen /\ u.batch = t.batch
  BY TaskShape DEF IsTask
<1> HIDE DEF u
<1>3. IsTask(u)
  BY <1>2, TaskShape DEF IsTask
<1>4. TaskFits(u, target[t.m], history[t.m]["core"], worker[t.m])
  BY <1>1, <1>2, TaskShape DEF TaskFits
<1> QED BY <1>1, <1>2, <1>3, <1>4, ReplaceKeeps

LEMMA CallResolvesKeeps ==
    ASSUME FleetInv, NEW t \in tasks, CallResolves(t)
    PROVE  FleetInv'
<1> DEFINE u == [t EXCEPT !.phase = "settled"]
<1>1. Replace(t, u) /\ UNCHANGED <<worker, store, target, sched, stopping>> /\ t.from # None
  BY DEF CallResolves, world
<1>2. /\ DOMAIN u = DOMAIN t /\ u.m = t.m /\ u.inc = t.inc /\ u.lane = t.lane /\ u.live = t.live
      /\ u.phase = "settled" /\ u.from = t.from /\ u.seen = t.seen /\ u.batch = t.batch
  BY TaskShape DEF IsTask
<1> HIDE DEF u
<1>3. IsTask(u)
  BY <1>2, TaskShape DEF IsTask
<1>4. TaskFits(u, target[t.m], history[t.m]["core"], worker[t.m])
  BY <1>1, <1>2, TaskShape DEF TaskFits
<1> QED BY <1>1, <1>2, <1>3, <1>4, ReplaceKeeps

LEMMA CallRejectsKeeps ==
    ASSUME FleetInv, NEW t \in tasks, CallRejects(t)
    PROVE  FleetInv'
<1>1. PICK late \in {FALSE, t.phase = "asking"} : Replace(t, [t EXCEPT !.phase = "rejected", !.from = None, !.hung = late])
  BY DEF CallRejects
<1> DEFINE u == [t EXCEPT !.phase = "rejected", !.from = None, !.hung = late]
<1>2. Replace(t, u) /\ UNCHANGED <<worker, store, target, sched, stopping>>
  BY <1>1 DEF CallRejects, world
<1>3. /\ DOMAIN u = DOMAIN t /\ u.m = t.m /\ u.inc = t.inc /\ u.lane = t.lane /\ u.live = t.live
      /\ u.phase = "rejected" /\ u.from = None /\ u.seen = t.seen /\ u.batch = t.batch
  BY TaskShape DEF IsTask
<1> HIDE DEF u
<1>4. IsTask(u)
  BY <1>3, TaskShape DEF IsTask
<1>5. TaskFits(u, target[t.m], history[t.m]["core"], worker[t.m])
  BY <1>3, TaskShape DEF TaskFits
<1> QED BY <1>2, <1>3, <1>4, <1>5, ReplaceKeeps

\* A task that is current finds the target it was launched for.
LEMMA CurrentTarget ==
    ASSUME FleetInv, NEW t \in tasks, Current(t)
    PROVE  /\ IsTarget(target[t.m]) /\ target[t.m] # NoTarget /\ target[t.m].inc = t.inc
           /\ target[t.m].session # None => \A s \in history[t.m]["core"] : s <= target[t.m].session
<1>1. target[t.m] # NoTarget /\ target[t.m].inc = t.inc
  BY TaskShape DEF Current, TaskFits
<1> QED BY <1>1, TaskShape DEF FleetInv, Fit, TargetFits

\* A step that writes nothing and leaves the target's lifecycle alone.
LEMMA AnswersAlike ==
    ASSUME FleetInv, NEW t \in tasks, UNCHANGED <<worker, store>>, NEW y, Like(target[t.m], y)
    PROVE  Answered(t, y)
BY AnswersNothing DEF Answered, Like

LEMMA LikeItself ==
    ASSUME NEW x, IsTarget(x)
    PROVE  Like(x, x)
BY DEF Like

\* A transport that settles frees its lane.
LEMMA TransportSettlesKeeps ==
    ASSUME FleetInv, NEW t \in tasks, TransportSettles(t)
    PROVE  FleetInv'
<1>1. /\ tasks' = tasks \ {t} /\ target' = [target EXCEPT ![t.m] = Released(target[t.m], t)]
      /\ UNCHANGED <<worker, store, stopping>>
  BY DEF TransportSettles, world
<1>2. t.m \in Machines /\ DOMAIN target = Machines /\ IsTarget(target[t.m])
  BY TaskShape DEF FleetInv, Fit
<1>3. Like(target[t.m], target'[t.m]) /\ DOMAIN target' = Machines
      /\ \A m \in Machines \ {t.m} : target'[m] = target[m]
  BY <1>1, <1>2, ReleasedLike
<1>4. (\A v \in tasks' : v \in tasks \ {t} \/ v = t) /\ t \notin tasks'
  BY <1>1
<1>5. Fit(target, tasks)'
  BY <1>1, <1>3, <1>4, AnswersNothing, TaskMoves DEF FleetInv
<1>6. Awake'
  BY <1>1, AwakeKeeps DEF TransportSettles, FleetInv
<1> QED BY <1>1, <1>5, <1>6, StoredKeeps DEF FleetInv

LEMMA LaneFailsKeeps ==
    ASSUME FleetInv, NEW t \in tasks, LaneFails(t)
    PROVE  FleetInv'
<1>1. PICK booked \in {FALSE, Current(t)} :
        Ends(t, IF booked THEN scheduleNext(target[t.m], t.lane) ELSE target[t.m])
  BY DEF LaneFails
<1> DEFINE x == target[t.m]
           y == IF booked THEN scheduleNext(x, t.lane) ELSE x
<1>2. IsTarget(x)
  BY TaskShape DEF FleetInv, Fit
<1>3. Like(x, y)
  BY <1>1, <1>2, CurrentTarget, ScheduleLike, LikeItself
<1>4. Ends(t, y) /\ UNCHANGED <<worker, store, stopping>>
  BY <1>1 DEF LaneFails, world
<1> HIDE DEF y
<1> QED BY <1>3, <1>4, AnswersAlike, EndKeeps

LEMMA LaneIsPastKeeps ==
    ASSUME FleetInv, NEW t \in tasks, LaneIsPast(t)
    PROVE  FleetInv'
<1>1. Ends(t, target[t.m]) /\ UNCHANGED <<worker, store, stopping>>
  BY DEF LaneIsPast, world
<1> QED BY <1>1, AnswersNothing, EndKeeps

LEMMA BatchBeginsKeeps ==
    ASSUME FleetInv, NEW t \in tasks, BatchBegins(t)
    PROVE  FleetInv'
<1> DEFINE x == target[t.m]
<1>1. UNCHANGED <<worker, store, stopping>> /\ t.phase = "starting" /\ Current(t)
  BY DEF BatchBegins, world
<1>2. IsTarget(x) /\ x # NoTarget
  BY <1>1, CurrentTarget
<1>3. CASE x.session = None
  <2>1. Ends(t, scheduleNext(x, "directory"))
    BY <1>3 DEF BatchBegins
  <2> QED BY <1>1, <1>2, <2>1, ScheduleLike, AnswersAlike, EndKeeps
<1>4. CASE x.session # None
  <2> DEFINE u == [t EXCEPT !.phase = "asking", !.batch = x.session]
  <2>1. Replace(t, u) /\ UNCHANGED <<target, sched>>
    BY <1>4 DEF BatchBegins
  <2>2. /\ DOMAIN u = DOMAIN t /\ u.m = t.m /\ u.inc = t.inc /\ u.lane = t.lane /\ u.live = t.live
        /\ u.phase = "asking" /\ u.from = t.from /\ u.seen = t.seen
    BY TaskShape DEF IsTask
  <2> HIDE DEF u
  <2>3. IsTask(u)
    BY <2>2, TaskShape DEF IsTask
  <2>4. TaskFits(u, target[t.m], history[t.m]["core"], worker[t.m])
    BY <1>1, <2>2, TaskShape DEF TaskFits
  <2> QED BY <1>1, <2>1, <2>2, <2>3, <2>4, ReplaceKeeps
<1> QED BY <1>3, <1>4

\* A description sets the session of a target that has none; its answer is
\* of no older worker than the newest core sample.
LEMMA DescriptionArrivesKeeps ==
    ASSUME FleetInv, NEW t \in tasks, DescriptionArrives(t)
    PROVE  FleetInv'
<1> DEFINE x == target[t.m]
           adopted == [x EXCEPT !.session = t.from]
           prompted == promptLane(adopted, t.m, tasks, {"inventory"})
<1>1. /\ UNCHANGED <<worker, history, stopping>> /\ Current(t) /\ t.phase = "settled"
      /\ UNCHANGED registered \/ registered' = [registered EXCEPT ![t.m] = x.conn]
      /\ \/ x.session \notin {None, t.from} /\ Ends(t, scheduleNext(x, "describe"))
         \/ /\ x.session \in {None, t.from}
            /\ Ends(t, scheduleNext(prompted, "describe")) \/ Ends(t, scheduleNext(adopted, "describe"))
  BY DEF DescriptionArrives, world
<1>2. IsTarget(x) /\ x # NoTarget /\ t.m \in Machines /\ t.from \in Sessions /\ t.from # None
  BY <1>1, CurrentTarget, TaskShape DEF IsTask, TaskFits
<1>3. x.conn \in Connections /\ x.conn # "none"
  BY <1>2, TargetShape
<1>4. Stored'
  BY <1>1, <1>2, <1>3 DEF FleetInv, Stored
<1>5. IsTarget(adopted) /\ adopted # NoTarget /\ adopted.inc = x.inc /\ adopted.session = t.from
  BY <1>2, AcceptedTarget
<1>6. IsTarget(prompted) /\ prompted # NoTarget /\ prompted.inc = x.inc /\ prompted.session = t.from
  <2> HIDE DEF adopted
  <2> QED BY <1>5, PromptLike DEF Like
<1> HIDE DEF adopted, prompted
<1>7. CASE x.session \notin {None, t.from}
  <2> DEFINE y == scheduleNext(x, "describe")
  <2>1. IsTarget(y) /\ y # NoTarget /\ y.inc = x.inc /\ y.session = x.session
    BY <1>2, ScheduleLike DEF Like
  <2>2. Ends(t, y)
    BY <1>1, <1>7
  <2> HIDE DEF y
  <2>3. \A s \in history'[t.m]["core"] : s <= y.session
    BY <1>1, <1>7, <2>1, CurrentTarget
  <2>4. Answered(t, y)
    BY <1>1, <1>2, <1>4, <1>7, <2>1, <2>3 DEF Answered
  <2> QED BY <1>1, <2>2, <2>4, EndKeeps
<1>8. CASE x.session \in {None, t.from}
  <2>1. PICK given \in {prompted, adopted} : Ends(t, scheduleNext(given, "describe"))
    BY <1>1, <1>8
  <2> DEFINE y == scheduleNext(given, "describe")
  <2>2. IsTarget(y) /\ y # NoTarget /\ y.inc = x.inc /\ y.session = t.from
    BY <1>5, <1>6, ScheduleLike DEF Like
  <2> HIDE DEF y
  <2>3. x.session = None => \A s \in history[t.m]["core"] : s <= t.from
    BY <1>1, <1>2, TaskShape DEF TaskFits, Current
  <2>4. \A s \in history'[t.m]["core"] : s <= y.session
    BY <1>1, <1>2, <1>8, <2>2, <2>3, CurrentTarget
  <2>5. Answered(t, y)
    BY <1>1, <1>2, <1>4, <2>2, <2>4 DEF Answered
  <2> QED BY <1>1, <2>1, <2>5, EndKeeps DEF y
<1> QED BY <1>7, <1>8

\* A core sample sets the session, and is of no older worker than the newest
\* one stored; no other core call of the target is under way.
LEMMA CoreArrivesKeeps ==
    ASSUME FleetInv, NEW t \in tasks, CoreArrives(t)
    PROVE  /\ FleetInv'
           /\ \A m \in Machines \ {t.m} : history'[m] = history[m]
           /\ \A s \in history'[t.m]["core"], old \in history[t.m]["core"] : s >= old
           /\ \A l \in Lanes \ {"core"} : history'[t.m][l] = history[t.m][l]
<1> DEFINE x == target[t.m]
           accepted == [x EXCEPT !.session = t.from, !.lane["core"].session = t.from]
           prompted == promptLane(accepted, t.m, tasks, {"directory", "memory", "inventory"})
           repeats(fresh) == x.lane["core"].session = t.from /\ ~fresh
           next(fresh) == IF repeats(fresh) THEN x ELSE IF x.session # t.from THEN prompted ELSE accepted
           kept(fresh, written) == repeats(fresh) \/ ~written
<1>1. /\ UNCHANGED <<worker, registered, stopping>> /\ Current(t) /\ t.phase = "settled" /\ t.lane = "core"
      /\ \E fresh \in BOOLEAN, written \in BOOLEAN :
           /\ Ends(t, scheduleNext(next(fresh), "core"))
           /\ history' = [history EXCEPT ![t.m]["core"] = IF kept(fresh, written) THEN @ ELSE {t.from}]
  BY DEF CoreArrives, world, Writes
<1>2. IsTarget(x) /\ x # NoTarget /\ t.m \in Machines /\ t.from \in Sessions /\ t.from # None
  BY <1>1, CurrentTarget, TaskShape DEF IsTask, TaskFits
<1>3. /\ IsTarget(accepted) /\ accepted # NoTarget /\ accepted.inc = x.inc /\ accepted.session = t.from
      /\ IsTarget(prompted) /\ prompted # NoTarget /\ prompted.inc = x.inc /\ prompted.session = t.from
  <2>1. IsTarget(accepted) /\ accepted # NoTarget /\ accepted.inc = x.inc /\ accepted.session = t.from
    <3>1. /\ DOMAIN accepted = {"conn", "session", "inc", "lane"} /\ accepted.conn = x.conn
          /\ accepted.session = t.from /\ accepted.inc = x.inc
      BY <1>2, TargetShape
    <3> HIDE DEF accepted
    <3> QED BY <1>2, <3>1, TargetShape, TargetMade
  <2> HIDE DEF accepted
  <2> QED BY <2>1, PromptLike DEF Like
<1> HIDE DEF accepted, prompted
<1>4. \A s \in history[t.m]["core"] : s <= t.from /\ s \in Nat
  BY <1>1, <1>2, TaskShape DEF TaskFits, Current
<1>5. PICK fresh \in BOOLEAN, written \in BOOLEAN :
           /\ Ends(t, scheduleNext(next(fresh), "core"))
           /\ history' = [history EXCEPT ![t.m]["core"] = IF kept(fresh, written) THEN @ ELSE {t.from}]
  BY <1>1
<1> DEFINE y == scheduleNext(next(fresh), "core")
<1> HIDE DEF repeats
<1>6. /\ IsTarget(next(fresh)) /\ next(fresh) # NoTarget /\ next(fresh).inc = x.inc
      /\ next(fresh).session = IF repeats(fresh) THEN x.session ELSE t.from
  BY <1>2, <1>3
<1>6a. repeats(fresh) => kept(fresh, written)
  OBVIOUS
<1> HIDE DEF next, kept
<1>7. /\ IsTarget(y) /\ y # NoTarget /\ y.inc = x.inc
      /\ y.session = IF repeats(fresh) THEN x.session ELSE t.from
  BY <1>6, ScheduleLike DEF Like
<1>8. history \in [Machines -> [Lanes -> SUBSET Sessions]] /\ "core" \in Lanes
  BY DEF FleetInv, Stored, Lanes
<1>9. /\ \A m \in Machines \ {t.m} : history'[m] = history[m]
      /\ \A l \in Lanes \ {"core"} : history'[t.m][l] = history[t.m][l]
      /\ history'[t.m]["core"] = IF kept(fresh, written) THEN history[t.m]["core"] ELSE {t.from}
      /\ history' \in [Machines -> [Lanes -> SUBSET Sessions]]
  BY <1>2, <1>5, <1>8
<1>10. t.from <= worker[t.m] /\ t.from \in Nat
  BY TaskShape DEF TaskFits
<1>11. Stored'
  <2>1. \A m \in Machines : \A s \in history'[m]["core"] : s <= worker'[m]
    BY <1>1, <1>9, <1>10 DEF FleetInv, Stored
  <2>2. \A m \in Machines : history'[m]["directory"] = history[m]["directory"]
    BY <1>9 DEF Lanes
  <2> QED BY <1>1, <1>9, <2>1, <2>2 DEF FleetInv, Stored
<1>12. Answered(t, y)
  <2>1. y.session = None => x.session = None /\ history'[t.m]["core"] = history[t.m]["core"]
    BY <1>2, <1>6a, <1>7, <1>9
  <2>2. y.session # None => \A s \in history'[t.m]["core"] : s <= y.session
    <3> HIDE DEF y
    <3>1. CASE repeats(fresh)
      BY <1>1, <1>7, <1>9, <1>6a, <3>1, CurrentTarget
    <3>2. CASE ~repeats(fresh)
      BY <1>4, <1>7, <1>9, <1>10, <3>2
    <3> QED BY <3>1, <3>2
  <2> HIDE DEF y
  <2> QED BY <1>1, <1>2, <1>7, <1>9, <1>11, <2>1, <2>2 DEF Answered, Current
<1>13. FleetInv'
  BY <1>1, <1>5, <1>12, EndKeeps
<1>14. \A s \in history'[t.m]["core"], old \in history[t.m]["core"] : s >= old
  <2>1. CASE kept(fresh, written)
    <3> SUFFICES ASSUME NEW s \in history[t.m]["core"],
                        NEW old \in history[t.m]["core"]
                 PROVE  s >= old
      BY <1>9, <2>1
    <3>1. s = old /\ s \in Nat
      BY <1>2, <1>4 DEF FleetInv, Stored
    <3> QED BY <3>1
  <2>2. CASE ~kept(fresh, written)
    BY <1>4, <1>9, <1>10, <2>2
  <2> QED BY <2>1, <2>2
<1> QED BY <1>9, <1>13, <1>14

\* A step that writes details writes none older than the newest core sample.
FreshDetails ==
    /\ \A m \in Machines : history'[m]["core"] = history[m]["core"]
    /\ \A m \in Machines : \A l \in Lanes \ {"core"} :
         history'[m][l] # history[m][l] =>
             \A s \in history'[m][l], core \in history[m]["core"] : s >= core

\* Rows of a detail are written, of the session the target has.
LEMMA DetailWritten ==
    ASSUME FleetInv, NEW t \in tasks, NEW l \in Lanes \ {"core"}, NEW S \in SUBSET Sessions,
           Current(t), target[t.m].session # None, \A s \in S : s = target[t.m].session,
           history' = [history EXCEPT ![t.m][l] = S], UNCHANGED <<worker, registered>>
    PROVE  Stored' /\ FreshDetails
<1>1. t.m \in Machines /\ "core" \in Lanes /\ "directory" \in Lanes
  BY TaskShape DEF Lanes
<1>2. history \in [Machines -> [Lanes -> SUBSET Sessions]]
  BY DEF FleetInv, Stored
<1>3. /\ history' \in [Machines -> [Lanes -> SUBSET Sessions]]
      /\ \A m \in Machines, k \in Lanes :
           history'[m][k] = IF m = t.m /\ k = l THEN S ELSE history[m][k]
  BY <1>1, <1>2
<1>4. Stored'
  <2>1. \A m \in Machines : \A s \in history'[m]["core"] : s <= worker'[m]
    BY <1>1, <1>3 DEF FleetInv, Stored
  <2>2. ASSUME NEW m \in Machines, NEW k \in {"core", "directory"},
               NEW a \in history'[m][k], NEW b \in history'[m][k]
        PROVE  a = b
    BY <1>1, <1>3, <2>2 DEF FleetInv, Stored
  <2> QED BY <1>3, <2>1, <2>2 DEF FleetInv, Stored
<1>5. \A s \in S, core \in history[t.m]["core"] : s >= core
  BY CurrentTarget, TaskShape DEF Sessions
<1> QED BY <1>1, <1>3, <1>4, <1>5 DEF FreshDetails

\* A step that leaves the history alone.
LEMMA NothingWritten ==
    ASSUME UNCHANGED history
    PROVE  FreshDetails
BY DEF FreshDetails

\* A step of a current detail task that leaves the lifecycle alone.
LEMMA DetailAnswered ==
    ASSUME FleetInv, NEW t \in tasks, NEW y, Current(t), Like(target[t.m], y),
           Stored', FreshDetails, UNCHANGED <<worker, registered>>
    PROVE  Answered(t, y)
<1>1. t.m \in Machines
  BY TaskShape
<1> QED BY <1>1, CurrentTarget DEF Answered, Like, FreshDetails

\* Memory and inventory rows are those of the session the target has.
LEMMA DetailArrivesKeeps ==
    ASSUME FleetInv, NEW t \in tasks, DetailArrives(t)
    PROVE  FleetInv' /\ FreshDetails
<1> DEFINE x == target[t.m]
           ok(fresh) == IF t.lane = "memory" THEN acceptSecondary(x, "memory", t.from, fresh)
                        ELSE t.from = x.session
           v == [x EXCEPT !.lane["memory"].session = t.from]
           kept(fresh) == IF ok(fresh) /\ t.lane = "memory" THEN v ELSE x
<1>1. /\ UNCHANGED <<worker, registered, stopping>> /\ Current(t) /\ t.phase = "settled"
      /\ t.lane \in Lanes \ {"core"}
      /\ \E fresh \in BOOLEAN, written \in BOOLEAN :
           /\ Ends(t, scheduleNext(kept(fresh), t.lane))
           /\ history' = [history EXCEPT ![t.m][t.lane] = IF ok(fresh) /\ written THEN {t.from} ELSE @]
  BY DEF DetailArrives, world, Lanes, Writes
<1>2. IsTarget(x) /\ x # NoTarget /\ t.m \in Machines /\ t.from \in Sessions /\ t.from # None
  BY <1>1, CurrentTarget, TaskShape DEF IsTask, TaskFits
<1>3. Like(x, v)
  <2>1. /\ DOMAIN v = {"conn", "session", "inc", "lane"} /\ v.conn = x.conn
        /\ v.session = x.session /\ v.inc = x.inc
    BY <1>2, TargetShape
  <2> HIDE DEF v
  <2> QED BY <1>2, <2>1, TargetShape, TargetMade DEF Like
<1> HIDE DEF v
<1>4. PICK fresh \in BOOLEAN, written \in BOOLEAN :
           /\ Ends(t, scheduleNext(kept(fresh), t.lane))
           /\ history' = [history EXCEPT ![t.m][t.lane] = IF ok(fresh) /\ written THEN {t.from} ELSE @]
  BY <1>1
<1>5. ok(fresh) => x.session = t.from
  BY DEF acceptSecondary
<1> HIDE DEF ok
<1>6. Like(x, kept(fresh)) /\ kept(fresh) # NoTarget
  BY <1>2, <1>3, LikeItself DEF Like
<1>7. Stored' /\ FreshDetails
  <2>1. CASE ok(fresh) /\ written
    <3>1. history' = [history EXCEPT ![t.m][t.lane] = {t.from}]
      BY <1>4, <2>1
    <3>2. {t.from} \in SUBSET Sessions /\ \A s \in {t.from} : s = target[t.m].session
      BY <1>2, <1>5, <2>1
    <3> QED BY <1>1, <1>2, <1>5, <2>1, <3>1, <3>2, DetailWritten
  <2>2. CASE ~(ok(fresh) /\ written)
    <3>1. history' = history
      <4>1. history \in [Machines -> [Lanes -> SUBSET Sessions]]
        BY DEF FleetInv, Stored
      <4> QED BY <1>1, <1>2, <1>4, <2>2, <4>1
    <3> QED BY <1>1, <3>1, StoredKeeps, NothingWritten DEF FleetInv, store
  <2> QED BY <2>1, <2>2
<1>8. Like(x, scheduleNext(kept(fresh), t.lane))
  <2> HIDE DEF kept
  <2> QED BY <1>6, ScheduleLike DEF Like
<1>9. Answered(t, scheduleNext(kept(fresh), t.lane))
  BY <1>1, <1>7, <1>8, DetailAnswered
<1> QED BY <1>1, <1>4, <1>7, <1>9, EndKeeps

\* A directory batch is written whole, from the session it began in.
LEMMA DirectoryArrivesKeeps ==
    ASSUME FleetInv, NEW t \in tasks, DirectoryArrives(t)
    PROVE  FleetInv' /\ FreshDetails
<1> DEFINE x == target[t.m]
           seen(available) == IF available THEN t.seen \cup {t.from} ELSE t.seen
           v == [x EXCEPT !.lane["directory"].session = t.batch]
           u(available) == [t EXCEPT !.phase = "asking", !.from = None, !.left = @ - 1, !.seen = seen(available)]
<1>1. /\ UNCHANGED <<worker, registered, stopping>> /\ Current(t) /\ t.phase = "settled"
      /\ t.lane = "directory" /\ "directory" \in Lanes \ {"core"}
  BY DEF DirectoryArrives, world, Lanes
<1>2. IsTarget(x) /\ x # NoTarget /\ t.m \in Machines /\ t.from \in Sessions /\ t.from # None
      /\ t.seen \subseteq {t.batch}
  BY <1>1, CurrentTarget, TaskShape DEF IsTask, TaskFits
<1>3. Like(x, v)
  <2>1. /\ DOMAIN v = {"conn", "session", "inc", "lane"} /\ v.conn = x.conn
        /\ v.session = x.session /\ v.inc = x.inc
    BY <1>2, TargetShape
  <2> HIDE DEF v
  <2> QED BY <1>2, <2>1, TargetShape, TargetMade DEF Like
<1>4. PICK fresh \in BOOLEAN, available \in BOOLEAN, written \in BOOLEAN :
        IF ~batchHolds(t, x, fresh)
        THEN Ends(t, scheduleNext(x, "directory")) /\ UNCHANGED history
        ELSE IF t.left > 1
        THEN Replace(t, u(available)) /\ UNCHANGED <<target, sched, history>>
        ELSE /\ Ends(t, scheduleNext(v, "directory"))
             /\ history' = [history EXCEPT ![t.m]["directory"] =
                              IF seen(available) = {} \/ ~written THEN @ ELSE seen(available)]
  BY DEF DirectoryArrives, Writes
<1> HIDE DEF v
<1>5. CASE ~batchHolds(t, x, fresh)
  <2>1. Ends(t, scheduleNext(x, "directory")) /\ UNCHANGED history
    BY <1>4, <1>5
  <2>2. Answered(t, scheduleNext(x, "directory"))
    BY <1>1, <1>2, <2>1, ScheduleLike, AnswersAlike DEF store
  <2> QED BY <1>1, <2>1, <2>2, EndKeeps, NothingWritten
<1>6. CASE batchHolds(t, x, fresh)
  <2>1. x.session = t.batch /\ t.from = t.batch
    BY <1>6 DEF batchHolds
  <2>2. seen(available) \subseteq {t.batch}
    BY <1>2, <2>1
  <2> HIDE DEF seen
  <2>3. CASE t.left > 1
    <3>1. Replace(t, u(available)) /\ UNCHANGED <<target, sched, history>>
      BY <1>4, <1>6, <2>3
    <3>2. /\ DOMAIN u(available) = DOMAIN t /\ u(available).m = t.m /\ u(available).inc = t.inc
          /\ u(available).lane = t.lane /\ u(available).live = t.live /\ u(available).phase = "asking"
          /\ u(available).from = None /\ u(available).seen = seen(available) /\ u(available).batch = t.batch
      BY TaskShape DEF IsTask
    <3> HIDE DEF u
    <3>3. IsTask(u(available))
      BY <3>2, TaskShape DEF IsTask
    <3>4. TaskFits(u(available), target[t.m], history[t.m]["core"], worker[t.m])
      BY <2>2, <3>2, TaskShape DEF TaskFits
    <3>5. FleetInv'
      BY <1>1, <3>1, <3>2, <3>3, <3>4, ReplaceKeeps DEF store
    <3> QED BY <3>1, <3>5, NothingWritten
  <2>4. CASE ~(t.left > 1)
    <3> DEFINE y == scheduleNext(v, "directory")
    <3>1. /\ Ends(t, y)
          /\ history' = [history EXCEPT ![t.m]["directory"] =
                           IF seen(available) = {} \/ ~written THEN @ ELSE seen(available)]
      BY <1>4, <1>6, <2>4
    <3>2. Like(x, y)
      BY <1>2, <1>3, ScheduleLike DEF Like
    <3>3. Stored' /\ FreshDetails
      <4>1. CASE seen(available) = {} \/ ~written
        <5>1. history' = history
          <6>1. history \in [Machines -> [Lanes -> SUBSET Sessions]]
            BY DEF FleetInv, Stored
          <6> QED BY <1>1, <1>2, <3>1, <4>1, <6>1
        <5> QED BY <1>1, <5>1, StoredKeeps, NothingWritten DEF FleetInv, store
      <4>2. CASE ~(seen(available) = {} \/ ~written)
        <5>1. history' = [history EXCEPT ![t.m]["directory"] = seen(available)]
          BY <3>1, <4>2
        <5>2. seen(available) \in SUBSET Sessions /\ \A s \in seen(available) : s = target[t.m].session
          BY <1>2, <2>1, <2>2
        <5> QED BY <1>1, <1>2, <2>1, <5>1, <5>2, DetailWritten
      <4> QED BY <4>1, <4>2
    <3> HIDE DEF y
    <3>4. Answered(t, y)
      BY <1>1, <3>2, <3>3, DetailAnswered
    <3> QED BY <1>1, <3>1, <3>3, <3>4, EndKeeps
  <2> QED BY <2>3, <2>4
<1> QED BY <1>5, <1>6

-----------------------------------------------------------------------------
(* Steps that end lifecycles.                                               *)

\* A cancelled task is the same task, of the past.
LEMMA CancelledTask ==
    ASSUME NEW t, NEW x, IsTask(t)
    PROVE  LET u == Cancelled(t, x)
           IN /\ IsTask(u) /\ u.m = t.m /\ u.inc = t.inc /\ u.lane = t.lane
              /\ u.from = t.from /\ u.seen = t.seen /\ u.batch = t.batch
              /\ u.phase = t.phase \/ u.phase = "rejected"
              /\ t.inc = x.inc => ~u.live
              /\ t.inc # x.inc => u = t
<1> DEFINE u == Cancelled(t, x)
<1>1. CASE t.inc = x.inc
  <2>1. /\ DOMAIN u = DOMAIN t /\ u.m = t.m /\ u.inc = t.inc /\ u.lane = t.lane
        /\ u.from = t.from /\ u.seen = t.seen /\ u.batch = t.batch /\ u.live = FALSE
        /\ u.phase = IF t.phase = "asking" THEN "rejected" ELSE t.phase
    BY <1>1 DEF IsTask, Cancelled
  <2> HIDE DEF u
  <2>2. IsTask(u)
    BY <2>1 DEF IsTask
  <2> QED BY <1>1, <2>1, <2>2 DEF u
<1>2. CASE t.inc # x.inc
  BY <1>2 DEF Cancelled
<1> QED BY <1>1, <1>2

\* Lifecycles end on the machines B, and their tasks are cancelled; the other
\* targets keep their lifecycle, and at most learn a session.
LEMMA CancelFits ==
    ASSUME FleetInv, NEW B \in SUBSET Machines, UNCHANGED worker, DOMAIN target' = Machines,
           \A u \in tasks' : \E t \in tasks : u = IF t.m \in B THEN Cancelled(t, target[t.m]) ELSE t,
           \A m \in Machines : IsTarget(target'[m]) /\ TargetFits(target'[m], history'[m]["core"]),
           \A m \in Machines \ B : target[m] # NoTarget =>
               /\ target'[m] # NoTarget /\ target'[m].inc = target[m].inc
               /\ target'[m].session = None => target[m].session = None
               /\ history'[m]["core"] = history[m]["core"]
    PROVE  Fit(target, tasks)'
<1> DEFINE become(t) == IF t.m \in B THEN Cancelled(t, target[t.m]) ELSE t
<1>1. ASSUME NEW t \in tasks
      PROVE  LET u == become(t)
             IN /\ IsTask(u) /\ u.m = t.m /\ u.inc = t.inc /\ u.lane = t.lane
                /\ u.from = t.from /\ u.seen = t.seen /\ u.batch = t.batch
                /\ u.phase = t.phase \/ u.phase = "rejected"
                /\ u.live => t.live /\ t.m \notin B
  <2>1. CASE t.m \in B
    <3>1. t.live => t.inc = target[t.m].inc
      BY <1>1, TaskShape DEF TaskFits
    <3> QED BY <1>1, <2>1, <3>1, TaskShape, CancelledTask
  <2>2. CASE t.m \notin B
    BY <1>1, <2>2, TaskShape
  <2> QED BY <2>1, <2>2
<1>2. \A u \in tasks' : \E t \in tasks : u = become(t)
  OBVIOUS
<1> HIDE DEF become
<1>3. ASSUME NEW u \in tasks'
      PROVE  IsTask(u) /\ TaskFits(u, target'[u.m], history'[u.m]["core"], worker'[u.m])
  <2>1. PICK t \in tasks : u = become(t)
    BY <1>2, <1>3
  <2>2. IsTask(t) /\ t.m \in Machines /\ TaskFits(t, target[t.m], history[t.m]["core"], worker[t.m])
    BY TaskShape
  <2>3. /\ IsTask(u) /\ u.m = t.m /\ u.inc = t.inc /\ u.lane = t.lane
        /\ u.from = t.from /\ u.seen = t.seen /\ u.batch = t.batch
        /\ u.phase = t.phase \/ u.phase = "rejected"
        /\ u.live => t.live /\ t.m \notin B
    BY <1>1, <2>1
  <2>4. u.live => target'[t.m] # NoTarget /\ target'[t.m].inc = t.inc
                  /\ (target'[t.m].session = None => target[t.m].session = None)
                  /\ history'[t.m]["core"] = history[t.m]["core"]
    BY <2>2, <2>3 DEF TaskFits
  <2> QED BY <2>2, <2>3, <2>4 DEF TaskFits
<1>4. OnePerLane(tasks')
  <2> SUFFICES ASSUME NEW v \in tasks', NEW w \in tasks',
                      v.m = w.m, v.inc = w.inc, v.lane = w.lane
               PROVE  v = w
    BY DEF OnePerLane
  <2>1. PICK t \in tasks : v = become(t)
    BY <1>2
  <2>2. PICK s \in tasks : w = become(s)
    BY <1>2
  <2>3. t.m = s.m /\ t.inc = s.inc /\ t.lane = s.lane
    BY <1>1, <2>1, <2>2
  <2>4. t = s
    BY <2>3 DEF FleetInv, Fit, OnePerLane
  <2> QED BY <2>1, <2>2, <2>4
<1> QED BY <1>3, <1>4 DEF Fit

\* What the invariant says of one target.
LEMMA HostTarget ==
    ASSUME FleetInv, NEW m \in Machines
    PROVE  IsTarget(target[m]) /\ TargetFits(target[m], history[m]["core"])
           /\ DOMAIN target = Machines
BY DEF FleetInv, Fit

\* A host that connects again, or exits, starts a new lifecycle.
LEMMA InvalidateFits ==
    ASSUME FleetInv, NEW h \in Hosts, target[h] # NoTarget, NEW y,
           IsTarget(y), y # NoTarget, y.session = None,
           target' = [target EXCEPT ![h] = y], tasks' = cancelCalls(h, target[h], tasks),
           UNCHANGED <<worker, store>>
    PROVE  Fit(target, tasks)'
<1>1. h \in Machines /\ {h} \in SUBSET Machines
  BY DEF Machines
<1>2. DOMAIN target' = Machines /\ target'[h] = y /\ \A m \in Machines \ {h} : target'[m] = target[m]
  BY <1>1, HostTarget
<1>3. \A m \in Machines : IsTarget(target'[m]) /\ TargetFits(target'[m], history'[m]["core"])
  BY <1>1, <1>2, HostTarget DEF TargetFits, store
<1>4. \A u \in tasks' : \E t \in tasks : u = IF t.m \in {h} THEN Cancelled(t, target[t.m]) ELSE t
  BY DEF cancelCalls
<1> QED BY <1>1, <1>2, <1>3, <1>4, CancelFits DEF store

\* Targets and tasks that stay as they are.
LEMMA FitKeeps ==
    ASSUME FleetInv, UNCHANGED <<worker, store, target, tasks>>
    PROVE  Fit(target, tasks)'
BY DEF FleetInv, Fit, store

\* A later worker runs; nothing the coordinator has is of a later one still.
LEMMA WorkerReplacedKeeps ==
    ASSUME FleetInv, NEW h \in Hosts, WorkerReplaced(h)
    PROVE  FleetInv' /\ UNCHANGED history
<1>1. /\ h \in Machines /\ worker' = [worker EXCEPT ![h] = @ + 1] /\ worker[h] < MaxWorkers
      /\ UNCHANGED <<sched, store, target, tasks, stopping>>
  BY DEF WorkerReplaced, Machines
<1>2. worker \in [Machines -> 1..MaxWorkers] /\ MaxWorkers \in Nat
  BY FleetAssumption DEF FleetInv, Stored
<1>3. worker' \in [Machines -> 1..MaxWorkers] /\ \A m \in Machines : worker[m] <= worker'[m]
  BY <1>1, <1>2
<1>4. \A m \in Machines : \A s \in history[m]["core"] : s <= worker'[m]
  <2> SUFFICES ASSUME NEW m \in Machines, NEW s \in history[m]["core"]
               PROVE  s <= worker'[m]
    OBVIOUS
  <2>1. "core" \in Lanes
    BY DEF Lanes
  <2>2. s \in Nat /\ s <= worker[m]
    BY <2>1 DEF FleetInv, Stored, Sessions
  <2> QED BY <1>2, <1>3, <2>2
<1>5. Stored'
  BY <1>1, <1>3, <1>4 DEF FleetInv, Stored, store
<1>6. ASSUME NEW t \in tasks
      PROVE  TaskFits(t, target[t.m], history[t.m]["core"], worker'[t.m])
  <2>1. t.from <= worker'[t.m]
    BY <1>2, <1>3, TaskShape DEF TaskFits
  <2> QED BY <2>1, TaskShape DEF TaskFits
<1>7. Fit(target, tasks)'
  BY <1>1, <1>6 DEF FleetInv, Fit, store
<1> QED BY <1>1, <1>5, <1>7, AwakeKeeps DEF FleetInv, store

\* A wake that asks for a reconciliation keeps a tick ahead.
LEMMA RequestKeeps ==
    ASSUME Awake, requestReconcile, UNCHANGED stopping, promptHostIds' \subseteq Hosts
    PROVE  Awake'
BY DEF Awake, requestReconcile, wake

LEMMA NoteHostConnectedKeeps ==
    ASSUME FleetInv, NEW h \in Hosts, noteHostConnected(h)
    PROVE  FleetInv' /\ UNCHANGED history
<1>1. UNCHANGED <<worker, store, stopping>> /\ requestReconcile /\ promptHostIds' = promptHostIds \cup {h}
  BY DEF noteHostConnected
<1>2. Awake'
  BY <1>1, RequestKeeps DEF FleetInv, Awake
<1>3. CASE target[h] = NoTarget
  BY <1>1, <1>2, <1>3, FitKeeps, StoredKeeps DEF noteHostConnected, FleetInv, store
<1>4. CASE target[h] # NoTarget
  <2> DEFINE y == invalidateLifecycle(target[h], h, tasks)
  <2>1. target' = [target EXCEPT ![h] = y] /\ tasks' = cancelCalls(h, target[h], tasks)
    BY <1>4 DEF noteHostConnected
  <2>2. IsTarget(y) /\ y # NoTarget /\ y.session = None
    BY <1>4, HostTarget, InvalidatedTarget DEF Machines
  <2> HIDE DEF y
  <2> QED BY <1>1, <1>2, <1>4, <2>1, <2>2, InvalidateFits, StoredKeeps DEF FleetInv, store
<1> QED BY <1>3, <1>4

LEMMA NoteWorkerExitKeeps ==
    ASSUME FleetInv, NEW h \in Hosts, noteWorkerExit(h)
    PROVE  FleetInv' /\ UNCHANGED history
<1> DEFINE x == invalidateLifecycle(target[h], h, tasks)
           y == scheduleNext(x, "core")
<1>1. /\ UNCHANGED <<worker, sched, store, stopping>> /\ target[h] # NoTarget
      /\ target' = [target EXCEPT ![h] = y] /\ tasks' = cancelCalls(h, target[h], tasks)
  BY DEF noteWorkerExit
<1>2. IsTarget(x) /\ x # NoTarget /\ x.session = None
  BY <1>1, HostTarget, InvalidatedTarget DEF Machines
<1>3. IsTarget(y) /\ y # NoTarget /\ y.session = None
  <2> HIDE DEF x
  <2> QED BY <1>2, ScheduleLike DEF Like
<1> HIDE DEF y
<1> QED BY <1>1, <1>3, AwakeKeeps, InvalidateFits, StoredKeeps DEF FleetInv, store

\* Every target keeps its lifecycle and every task goes on.
LEMMA AlikeFits ==
    ASSUME FleetInv, UNCHANGED <<worker, store, tasks>>, DOMAIN target' = Machines,
           \A m \in Machines : Like(target[m], target'[m])
    PROVE  Fit(target, tasks)'
<1>1. {} \in SUBSET Machines
  OBVIOUS
<1>2. \A m \in Machines : IsTarget(target'[m]) /\ TargetFits(target'[m], history'[m]["core"])
  BY HostTarget DEF Like, TargetFits, store
<1>3. \A u \in tasks' : \E t \in tasks : u = IF t.m \in {} THEN Cancelled(t, target[t.m]) ELSE t
  OBVIOUS
<1> QED BY <1>1, <1>2, <1>3, CancelFits DEF Like, store

LEMMA SettingsChangedKeeps ==
    ASSUME FleetInv, settingsChanged
    PROVE  FleetInv' /\ UNCHANGED history
<1>1. /\ UNCHANGED <<worker, promptHostIds, store, tasks, stopping>> /\ requestReconcile
      /\ target' = [m \in Machines |->
             IF registered[m] # "none" /\ target[m].conn \notin {"none", "disconnected"}
             THEN promptLane(target[m], m, tasks, Lanes \ {"inventory"}) ELSE target[m]]
  BY DEF settingsChanged
<1>2. ASSUME NEW m \in Machines
      PROVE  Like(target[m], target'[m])
  <2>1. IsTarget(target[m])
    BY HostTarget
  <2>2. target[m].conn \notin {"none", "disconnected"} => target[m] # NoTarget
    BY DEF NoTarget
  <2> QED BY <1>1, <2>1, <2>2, PromptLike, LikeItself
<1>3. DOMAIN target' = Machines
  BY <1>1
<1> QED BY <1>1, <1>2, <1>3, AlikeFits, RequestKeeps, StoredKeeps DEF FleetInv, Awake, store

LEMMA LaneComesDueKeeps ==
    ASSUME FleetInv, NEW m \in Machines, NEW l, LaneComesDue(m, l)
    PROVE  FleetInv' /\ UNCHANGED history
<1> DEFINE y == [target[m] EXCEPT !.lane[l].due = TRUE]
<1>1. /\ UNCHANGED <<worker, sched, store, tasks, stopping>> /\ target[m] # NoTarget
      /\ target' = [target EXCEPT ![m] = y]
  BY DEF LaneComesDue, world
<1>2. Like(target[m], y)
  <2>1. IsTarget(target[m])
    BY HostTarget
  <2>2. /\ DOMAIN y = {"conn", "session", "inc", "lane"} /\ y.conn = target[m].conn
        /\ y.session = target[m].session /\ y.inc = target[m].inc
    BY <1>1, <2>1, TargetShape
  <2> HIDE DEF y
  <2> QED BY <1>1, <2>1, <2>2, TargetShape, TargetMade DEF Like
<1> HIDE DEF y
<1>3. DOMAIN target' = Machines /\ \A k \in Machines : Like(target[k], target'[k])
  BY <1>1, <1>2, HostTarget, LikeItself
<1> QED BY <1>1, <1>3, AlikeFits, AwakeKeeps, StoredKeeps DEF FleetInv, store

\* Steps of the scheduler alone.
LEMMA SchedulerKeeps ==
    ASSUME FleetInv, ListAnswers \/ ListFails \/ finishTick \/ ReconcileComesDue
    PROVE  FleetInv' /\ UNCHANGED history
<1>1. UNCHANGED <<worker, store, target, tasks>>
  BY DEF ListAnswers, ListFails, finishTick, ReconcileComesDue, world
<1>2. Awake'
  BY DEF FleetInv, Awake, ListAnswers, ListFails, finishTick, ReconcileComesDue
<1> QED BY <1>1, <1>2, FitKeeps, StoredKeeps DEF FleetInv, store

\* Edges that reach the coordinator as a wake, or not at all.
LEMMA EdgesKeep ==
    ASSUME FleetInv, (\E h \in Hosts : DirectoryChanges(h)) \/ RealtimeRecovers
    PROVE  FleetInv' /\ UNCHANGED history
<1>1. UNCHANGED <<worker, store, target, tasks, stopping, promptHostIds>>
  BY DEF DirectoryChanges, RealtimeRecovers, sched
<1>2. Awake'
  BY <1>1, AwakeKeeps, RequestKeeps DEF DirectoryChanges, RealtimeRecovers, FleetInv, Awake
<1> QED BY <1>1, <1>2, FitKeeps, StoredKeeps DEF FleetInv, store

\* The local target is made once and registered with every reconciliation.
LEMMA TickBeginsKeeps ==
    ASSUME FleetInv, TickBegins
    PROVE  FleetInv' /\ UNCHANGED history
<1>1. UNCHANGED <<worker, history, tasks, stopping, promptHostIds>> /\ ~stopping
  BY DEF TickBegins, world
<1>2. Awake'
  BY <1>1 DEF FleetInv, Awake, TickBegins
<1>3. CASE ~reconcileDue
  BY <1>1, <1>2, <1>3, FitKeeps, StoredKeeps DEF TickBegins, FleetInv, store
<1>4. CASE reconcileDue
  <2> DEFINE made == Target(Local, "local", tasks)
             y == IF target[Local] = NoTarget THEN made ELSE target[Local]
  <2>1. target' = [target EXCEPT ![Local] = y] /\ registered' = [registered EXCEPT ![Local] = "local"]
    BY <1>4 DEF TickBegins
  <2>2. Local \in Machines /\ "local" \in Connections
    BY DEF Machines, Connections
  <2>3. IsTarget(made) /\ made # NoTarget /\ made.session = None
    BY <2>2, NewTarget
  <2> HIDE DEF made
  <2>4. IsTarget(y) /\ y # NoTarget /\ (target[Local] # NoTarget => y = target[Local])
        /\ (target[Local] = NoTarget => y.session = None)
    BY <2>2, <2>3, HostTarget
  <2> HIDE DEF y
  <2>5. registered' \in [Machines -> Connections \cup {"none"}]
    BY <2>1, <2>2 DEF FleetInv, Stored
  <2>6. Stored'
    BY <1>1, <2>5 DEF FleetInv, Stored
  <2>7. DOMAIN target' = Machines /\ target'[Local] = y
        /\ \A m \in Machines \ {Local} : target'[m] = target[m]
    BY <2>1, <2>2, HostTarget
  <2>8. \A m \in Machines : IsTarget(target'[m]) /\ TargetFits(target'[m], history'[m]["core"])
    BY <1>1, <2>4, <2>5, <2>7, HostTarget DEF TargetFits
  <2>9. \A u \in tasks' : \E t \in tasks : u = IF t.m \in {} THEN Cancelled(t, target[t.m]) ELSE t
    BY <1>1
  <2>10. {} \in SUBSET Machines
    OBVIOUS
  <2>11. \A m \in Machines \ {} : target[m] # NoTarget =>
             /\ target'[m] # NoTarget /\ target'[m].inc = target[m].inc
             /\ target'[m].session = None => target[m].session = None
             /\ history'[m]["core"] = history[m]["core"]
    BY <1>1, <2>4, <2>7
  <2>12. Fit(target, tasks)'
    BY <1>1, <2>7, <2>8, <2>9, <2>10, <2>11, CancelFits
  <2> QED BY <1>1, <1>2, <2>6, <2>12 DEF FleetInv
<1> QED BY <1>3, <1>4

\* The shutdown rejects the calls under way.
LEMMA StopKeeps ==
    ASSUME FleetInv, Stop
    PROVE  FleetInv' /\ UNCHANGED history
<1> DEFINE become(t) == IF t.phase = "asking" THEN [t EXCEPT !.phase = "rejected"] ELSE t
<1>1. UNCHANGED <<worker, store, target, promptHostIds>> /\ stopping' = TRUE /\ tick' = "idle"
      /\ tasks' = {become(t) : t \in tasks}
  BY DEF Stop, world
<1>2. Awake'
  BY <1>1 DEF FleetInv, Awake
<1>3. ASSUME NEW t \in tasks
      PROVE  LET u == become(t)
             IN /\ IsTask(u) /\ u.m = t.m /\ u.inc = t.inc /\ u.lane = t.lane
                /\ TaskFits(u, target[t.m], history[t.m]["core"], worker[t.m])
  <2>1. CASE t.phase = "asking"
    <3> DEFINE u == become(t)
    <3>1. /\ DOMAIN u = DOMAIN t /\ u.m = t.m /\ u.inc = t.inc /\ u.lane = t.lane /\ u.live = t.live
          /\ u.phase = "rejected" /\ u.from = t.from /\ u.seen = t.seen /\ u.batch = t.batch
      BY <1>3, <2>1, TaskShape DEF IsTask
    <3> HIDE DEF u
    <3>2. IsTask(u) /\ TaskFits(u, target[t.m], history[t.m]["core"], worker[t.m])
      BY <1>3, <3>1, TaskShape DEF IsTask, TaskFits
    <3> QED BY <3>1, <3>2 DEF u
  <2>2. CASE t.phase # "asking"
    BY <1>3, <2>2, TaskShape
  <2> QED BY <2>1, <2>2
<1>4. \A u \in tasks' : \E t \in tasks : u = become(t)
  BY <1>1
<1> HIDE DEF become
<1>5. ASSUME NEW u \in tasks'
      PROVE  IsTask(u) /\ TaskFits(u, target'[u.m], history'[u.m]["core"], worker'[u.m])
  BY <1>1, <1>3, <1>4 DEF store
<1>6. OnePerLane(tasks')
  <2> SUFFICES ASSUME NEW v \in tasks', NEW w \in tasks',
                      v.m = w.m, v.inc = w.inc, v.lane = w.lane
               PROVE  v = w
    BY DEF OnePerLane
  <2>1. PICK t \in tasks : v = become(t)
    BY <1>4
  <2>2. PICK s \in tasks : w = become(s)
    BY <1>4
  <2>3. t.m = s.m /\ t.inc = s.inc /\ t.lane = s.lane
    BY <1>3, <2>1, <2>2
  <2>4. t = s
    BY <2>3 DEF FleetInv, Fit, OnePerLane
  <2> QED BY <2>1, <2>2, <2>4
<1>7. Fit(target, tasks)'
  BY <1>1, <1>5, <1>6 DEF FleetInv, Fit, store
<1> QED BY <1>1, <1>2, <1>7, StoredKeeps DEF FleetInv, store

\* The target of a host that is not gone: one without session when its
\* lifecycle begins or ends here, and the one there was otherwise.
LEMMA ReconciledPresent ==
    ASSUME FleetInv, NEW h \in Hosts, ~Gone(h), NEW stored \in BOOLEAN, NEW y,
           y = ReconciledTarget(h, stored)
    PROVE  /\ IsTarget(y) /\ y # NoTarget
           /\ target[h] = NoTarget \/ Boundary(h) => y.session = None
           /\ target[h] # NoTarget /\ ~Boundary(h) => y.inc = target[h].inc /\ y.session = target[h].session
<1> DEFINE old == target[h]
           made == Target(h, "disconnected", tasks)
           ended == invalidateLifecycle(old, h, tasks)
           kept == IF old = NoTarget THEN made ELSE IF Boundary(h) THEN ended ELSE old
           placed == [kept EXCEPT !.conn = Connection(h)]
<1>1. h \in Machines /\ IsTarget(old)
  BY HostTarget DEF Machines
<1>2. Connection(h) \in Connections /\ "disconnected" \in Connections
  BY DEF Connections, Connection
<1>3. IsTarget(made) /\ made # NoTarget /\ made.session = None
  BY <1>2, NewTarget
<1>4. old # NoTarget => IsTarget(ended) /\ ended # NoTarget /\ ended.session = None
  BY <1>1, InvalidatedTarget
<1>5. y = promptLane(placed, h, tasks, Lanes) \/ y = placed
  BY DEF ReconciledTarget, schedulePrompt
<1> HIDE DEF made, ended
<1>6. /\ IsTarget(kept) /\ kept # NoTarget
      /\ old = NoTarget \/ Boundary(h) => kept.session = None
      /\ old # NoTarget /\ ~Boundary(h) => kept = old
  BY <1>1, <1>3, <1>4
<1> HIDE DEF kept
<1>7. Like(kept, placed)
  BY <1>2, <1>6, PlacedTarget
<1> HIDE DEF placed
<1>8. Like(kept, y)
  BY <1>5, <1>6, <1>7, PromptLike DEF Like
<1> QED BY <1>6, <1>8 DEF Like

\* A reconciliation keeps the invariant, wherever it breaks off: the tasks of
\* each lifecycle it ends are cancelled, and the hosts it does not get to stay
\* as they are.
LEMMA ReconcileKeeps ==
    ASSUME FleetInv, Reconcile
    PROVE  /\ FleetInv'
           /\ \A m \in Machines : history'[m] = history[m] \/ history'[m] = NoHistory
<1>0. PICK done \in SUBSET Hosts, bad \in SUBSET Hosts : Reconciled(done, bad)
  BY DEF Reconcile
<1> DEFINE reached == {h \in Hosts : Gone(h)} \cup done \cup bad
           B == {h \in reached : Boundary(h)}
<1>1. /\ UNCHANGED <<worker, stopping>> /\ tick' = "passing" /\ promptHostIds' \subseteq Hosts
      /\ target' = [m \in Machines |-> IF m \in reached THEN ReconciledTarget(m, m \in done) ELSE target[m]]
      /\ tasks' = {IF t.m \in reached /\ Boundary(t.m) THEN Cancelled(t, target[t.m]) ELSE t : t \in tasks}
  BY <1>0 DEF Reconcile, Reconciled, world, FleetInv, Awake
<1>2. registered' = [m \in Machines |->
              IF m \in done THEN Connection(m)
              ELSE IF m \in Hosts /\ listed[m] = "ephemeral" THEN "none" ELSE registered[m]]
      /\ history' = [m \in Machines |-> IF m \in Hosts /\ listed[m] = "ephemeral" THEN NoHistory ELSE history[m]]
  BY <1>0 DEF Reconcile, Reconciled
<1>3. Hosts \subseteq Machines /\ reached \subseteq Hosts
  BY DEF Machines
<1>4. Awake'
  BY <1>1 DEF FleetInv, Awake
<1>5. \A m \in Machines :
        history'[m] = IF m \in Hosts /\ listed[m] = "ephemeral" THEN NoHistory ELSE history[m]
  BY <1>2
<1>6. Stored'
  <2>1. registered' \in [Machines -> Connections \cup {"none"}]
    <3>1. \A m \in Machines : Connection(m) \in Connections
      BY DEF Connections, Connection
    <3>2. \A m \in Machines : registered[m] \in Connections \cup {"none"}
      BY DEF FleetInv, Stored
    <3> QED BY <1>2, <3>1, <3>2
  <2>2. NoHistory \in [Lanes -> SUBSET Sessions] /\ \A l \in Lanes : NoHistory[l] = {}
    BY DEF NoHistory
  <2>3. history' \in [Machines -> [Lanes -> SUBSET Sessions]]
    BY <1>2, <2>2 DEF FleetInv, Stored
  <2>4. "core" \in Lanes /\ "directory" \in Lanes
    BY DEF Lanes
  <2>5. \A m \in Machines, l \in {"core", "directory"} : history'[m][l] = {} \/ history'[m][l] = history[m][l]
    BY <1>5, <2>2, <2>4
  <2>6. \A m \in Machines : \A s \in history'[m]["core"] : s <= worker'[m]
    BY <1>1, <2>5 DEF FleetInv, Stored
  <2>7. \A m \in Machines : \A l \in {"core", "directory"} : \A a, b \in history'[m][l] : a = b
    <3> SUFFICES ASSUME NEW m \in Machines, NEW l \in {"core", "directory"},
                        NEW a \in history'[m][l], NEW b \in history'[m][l]
                 PROVE  a = b
      OBVIOUS
    <3>1. history'[m][l] = history[m][l]
      BY <2>5
    <3> QED BY <3>1 DEF FleetInv, Stored
  <2> QED BY <1>1, <2>1, <2>3, <2>6, <2>7 DEF FleetInv, Stored
<1>7. ASSUME NEW m \in Machines
      PROVE  /\ IsTarget(target'[m]) /\ TargetFits(target'[m], history'[m]["core"])
             /\ m \notin B /\ target[m] # NoTarget =>
                  /\ target'[m] # NoTarget /\ target'[m].inc = target[m].inc
                  /\ target'[m].session = None => target[m].session = None
                  /\ history'[m]["core"] = history[m]["core"]
  <2>1. IsTarget(target[m]) /\ TargetFits(target[m], history[m]["core"])
    BY <1>7, HostTarget
  <2>2. CASE m \notin reached
    <3>1. target'[m] = target[m] /\ ~(m \in Hosts /\ listed[m] = "ephemeral")
      BY <1>1, <1>7, <2>2 DEF Gone
    <3>2. history'[m] = history[m]
      BY <1>5, <1>7, <3>1
    <3> QED BY <2>1, <3>1, <3>2
  <2>3. CASE m \in reached /\ Gone(m)
    <3>1. target'[m] = NoTarget
      <4>1. target'[m] = ReconciledTarget(m, m \in done)
        BY <1>1, <1>7, <2>3
      <4> QED BY <2>3, <4>1 DEF ReconciledTarget
    <3>2. m \notin B => target[m] = NoTarget
      BY <2>3 DEF Boundary
    <3> QED BY <3>1, <3>2 DEF IsTarget, TargetFits
  <2>4. CASE m \in reached /\ ~Gone(m)
    <3>1. m \in Hosts /\ listed[m] # "ephemeral"
      BY <1>3, <2>4 DEF Gone
    <3>2. target'[m] = ReconciledTarget(m, m \in done) /\ (m \in done) \in BOOLEAN
      BY <1>1, <1>7, <2>4
    <3>3. history'[m] = history[m]
      BY <1>5, <1>7, <3>1
    <3>4. /\ IsTarget(target'[m]) /\ target'[m] # NoTarget
          /\ target[m] = NoTarget \/ Boundary(m) => target'[m].session = None
          /\ target[m] # NoTarget /\ ~Boundary(m) =>
               target'[m].inc = target[m].inc /\ target'[m].session = target[m].session
      BY <2>4, <3>1, <3>2, ReconciledPresent
    <3>5. m \in B <=> Boundary(m)
      BY <2>4
    <3> HIDE DEF B
    <3> QED BY <2>1, <3>3, <3>4, <3>5 DEF TargetFits
  <2> QED BY <2>2, <2>3, <2>4
<1>8. B \in SUBSET Machines /\ DOMAIN target' = Machines
  BY <1>1, <1>3
<1>9. \A u \in tasks' : \E t \in tasks : u = IF t.m \in B THEN Cancelled(t, target[t.m]) ELSE t
  BY <1>1
<1> HIDE DEF B
<1>10. Fit(target, tasks)'
  BY <1>1, <1>7, <1>8, <1>9, CancelFits
<1> QED BY <1>4, <1>5, <1>6, <1>10 DEF FleetInv

-----------------------------------------------------------------------------
(* The launches of a tick.                                                  *)

\* Targets and tasks after some launches.
Launched(acc) == DOMAIN acc = {"target", "tasks"} /\ Fit(acc.target, acc.tasks)

\* A new task has no answer yet, and no task held its lane.
LEMMA TaskAdded ==
    ASSUME Stored, NEW tg, NEW ts, Fit(tg, ts), NEW m \in Machines, NEW l \in LanesOf(m),
           tg[m].conn # "none", ~Active(ts, m, tg[m], l), NEW task,
           task = [m |-> m, inc |-> tg[m].inc, lane |-> l, live |-> TRUE, hung |-> FALSE,
                   phase |-> IF l = "directory" THEN "starting" ELSE "asking",
                   from |-> None, batch |-> None, left |-> Directories, seen |-> {}]
    PROVE  Fit(tg, ts \cup {task})
<1>1. tg[m] # NoTarget
  BY DEF NoTarget
<1>2. worker[m] \in Nat /\ None = 0 /\ None \in Sessions
  BY FleetAssumption DEF Stored, Sessions, None
<1>3. /\ DOMAIN task = {"m", "inc", "lane", "live", "hung", "phase", "from", "batch", "left", "seen"}
      /\ task.m = m /\ task.inc = tg[m].inc /\ task.lane = l /\ task.from = None /\ task.seen = {}
      /\ task.phase = "starting" \/ task.phase = "asking"
  OBVIOUS
<1>4. IsTask(task)
  BY <1>2, <1>3 DEF IsTask
<1>5. TaskFits(task, tg[m], history[m]["core"], worker[m])
  BY <1>1, <1>2, <1>3 DEF TaskFits
<1>6. \A t \in ts : ~(t.m = task.m /\ t.inc = task.inc /\ t.lane = task.lane)
  BY <1>3 DEF Active, Holds
<1>7. OnePerLane(ts \cup {task})
  <2> SUFFICES ASSUME NEW t \in ts \cup {task}, NEW u \in ts \cup {task},
                      t.m = u.m, t.inc = u.inc, t.lane = u.lane
               PROVE  t = u
    BY DEF OnePerLane
  <2>1. CASE t \in ts /\ u \in ts
    BY <2>1 DEF Fit, OnePerLane
  <2>2. CASE t = task /\ u \in ts
    BY <1>6, <2>2, Zenon
  <2>3. CASE t \in ts /\ u = task
    BY <1>6, <2>3, Zenon
  <2>4. CASE t = task /\ u = task
    BY <2>4, Zenon
  <2> QED BY <2>1, <2>2, <2>3, <2>4
<1> QED BY <1>3, <1>4, <1>5, <1>7 DEF Fit

\* Another due time of a lane changes nothing that has to fit.
LEMMA DueFits ==
    ASSUME NEW tg, NEW ts, Fit(tg, ts), NEW m \in Machines, NEW y, Like(tg[m], y)
    PROVE  Fit([tg EXCEPT ![m] = y], ts)
<1> DEFINE ng == [tg EXCEPT ![m] = y]
<1>1. DOMAIN ng = Machines /\ ng[m] = y /\ \A k \in Machines \ {m} : ng[k] = tg[k]
  BY DEF Fit
<1> HIDE DEF ng
<1>2. ASSUME NEW k \in Machines
      PROVE  IsTarget(ng[k]) /\ TargetFits(ng[k], history[k]["core"])
  BY <1>1 DEF Fit, Like, TargetFits
<1>3. ASSUME NEW t \in ts
      PROVE  IsTask(t) /\ TaskFits(t, ng[t.m], history[t.m]["core"], worker[t.m])
  <2>1. IsTask(t) /\ t.m \in Machines /\ TaskFits(t, tg[t.m], history[t.m]["core"], worker[t.m])
    BY DEF Fit, IsTask
  <2> QED BY <1>1, <2>1 DEF Like, TaskFits
<1> QED BY <1>1, <1>2, <1>3 DEF Fit, ng

\* A launch keeps targets and tasks fitting.
LEMMA LaunchKeeps ==
    ASSUME Stored, NEW acc, Launched(acc), NEW ml, ml[1] \in Machines, ml[2] \in LanesOf(ml[1])
    PROVE  Launched(launch(acc, ml))
<1> DEFINE m == ml[1]
           l == ml[2]
           x == acc.target[m]
           task == [m |-> m, inc |-> x.inc, lane |-> l, live |-> TRUE, hung |-> FALSE,
                    phase |-> IF l = "directory" THEN "starting" ELSE "asking",
                    from |-> None, batch |-> None, left |-> Directories, seen |-> {}]
           y == [x EXCEPT !.lane[l].due = FALSE]
           more == [acc EXCEPT !.tasks = @ \cup {task}]
           later == [acc EXCEPT !.target[m].lane[l].due = FALSE]
<1>1. \/ launch(acc, ml) = acc
      \/ x.conn # "none" /\ ~Active(acc.tasks, m, x, l) /\ launch(acc, ml) \in {more, later}
  BY DEF launch
<1>2. CASE launch(acc, ml) = acc
  BY <1>2
<1>3. CASE x.conn # "none" /\ ~Active(acc.tasks, m, x, l) /\ launch(acc, ml) = more
  <2>1. DOMAIN more = {"target", "tasks"} /\ more.target = acc.target /\ more.tasks = acc.tasks \cup {task}
    BY DEF Launched
  <2> HIDE DEF more
  <2>2. Fit(acc.target, acc.tasks \cup {task})
    BY <1>3, TaskAdded DEF Launched
  <2> QED BY <1>3, <2>1, <2>2 DEF Launched
<1>4. CASE x.conn # "none" /\ launch(acc, ml) = later
  <2>1. DOMAIN later = {"target", "tasks"} /\ later.tasks = acc.tasks
        /\ later.target = [acc.target EXCEPT ![m] = y]
    BY DEF Launched
  <2> HIDE DEF later
  <2>2. IsTarget(x) /\ x # NoTarget
    BY <1>4 DEF Launched, Fit, NoTarget
  <2>3. /\ DOMAIN y = {"conn", "session", "inc", "lane"} /\ y.conn = x.conn
        /\ y.session = x.session /\ y.inc = x.inc
    BY <2>2, TargetShape
  <2> HIDE DEF y
  <2>4. Like(x, y)
    BY <2>2, <2>3, TargetShape, TargetMade DEF Like
  <2>5. Fit([acc.target EXCEPT ![m] = y], acc.tasks)
    BY <2>4, DueFits DEF Launched
  <2> QED BY <1>4, <2>1, <2>5 DEF Launched
<1> QED BY <1>1, <1>2, <1>3, <1>4

\* The recursive function of the launches exists: a longest run of launches
\* without one would have a predecessor that has one.
LEMMA PassedDefined ==
    /\ Passed[0] = [target |-> target, tasks |-> tasks]
    /\ \A i \in 1..Len(Scheduled) : Passed[i] = launch(Passed[i - 1], Scheduled[i])
<1> DEFINE start == [target |-> target, tasks |-> tasks]
           Runs(g, n) == g = [i \in 0..n |-> IF i = 0 THEN start ELSE launch(g[i - 1], Scheduled[i])]
           Bad == {n \in Nat : ~\E g : Runs(g, n)}
<1> HIDE DEF start
<1>1. Len(Scheduled) \in Nat
  BY FleetAssumption
<1>2. Bad = {}
  <2>1. SUFFICES ASSUME Bad # {}
                 PROVE  FALSE
    OBVIOUS
  <2>2. PICK n \in Bad : \A k \in Bad : <<k, n>> \notin OpToRel(<, Nat)
    <3>1. Bad \subseteq Nat
      OBVIOUS
    <3> HIDE DEF Bad
    <3> QED BY <2>1, <3>1, NatLessThanWellFounded, WFMin, Zenon
  <2>3. n \in Nat /\ (~\E g : Runs(g, n)) /\ \A k \in Nat : k < n => \E g : Runs(g, k)
    <3>1. \A k \in Bad : ~(k < n)
      BY <2>2, Zenon DEF OpToRel
    <3> QED BY <3>1
  <2>4. CASE n = 0
    <3> DEFINE g == [i \in 0..0 |-> start]
    <3>1. Runs(g, 0)
      OBVIOUS
    <3> QED BY <2>3, <2>4, <3>1
  <2>5. CASE n # 0
    <3>1. PICK g : Runs(g, n - 1)
      <4> HIDE DEF Runs
      <4>1. n - 1 \in Nat /\ n - 1 < n
        BY <2>3, <2>5
      <4> QED BY <2>3, <4>1
    <3> DEFINE h == [i \in 0..n |-> IF i < n THEN g[i] ELSE launch(g[n - 1], Scheduled[n])]
    <3>2. g = [i \in 0..(n - 1) |-> IF i = 0 THEN start ELSE launch(g[i - 1], Scheduled[i])]
      BY <3>1
    <3>3. ASSUME NEW i \in 0..n
          PROVE  h[i] = IF i = 0 THEN start ELSE launch(h[i - 1], Scheduled[i])
      <4>1. CASE i = 0
        BY <2>3, <2>5, <3>2, <4>1
      <4>2. CASE i # 0 /\ i < n
        <5>1. i \in 0..(n - 1) /\ i - 1 \in 0..n /\ i - 1 < n
          BY <2>3, <4>2
        <5>2. h[i] = g[i] /\ h[i - 1] = g[i - 1]
          BY <4>2, <5>1
        <5>3. g[i] = launch(g[i - 1], Scheduled[i])
          <6> HIDE DEF h
          <6> QED BY <3>2, <4>2, <5>1
        <5> QED BY <4>2, <5>2, <5>3
      <4>3. CASE i = n
        <5>1. h[n] = launch(g[n - 1], Scheduled[n]) /\ h[n - 1] = g[n - 1]
          BY <2>3, <2>5
        <5> QED BY <2>5, <4>3, <5>1
      <4> QED BY <2>3, <4>1, <4>2, <4>3
    <3>4. h = [i \in 0..n |-> h[i]]
      OBVIOUS
    <3>5. Runs(h, n)
      <4> HIDE DEF h
      <4> QED BY <3>3, <3>4
    <3> QED BY <2>3, <3>5
  <2> QED BY <2>4, <2>5
<1>3. PICK g : Runs(g, Len(Scheduled))
  BY <1>1, <1>2
<1>4. Passed = [i \in 0..Len(Scheduled) |-> IF i = 0 THEN start ELSE launch(Passed[i - 1], Scheduled[i])]
  BY <1>3 DEF Passed, start
<1> QED BY <1>1, <1>4 DEF start

\* What is scheduled is a lane of a machine.
LEMMA ScheduledLane ==
    ASSUME NEW i \in 1..Len(Scheduled)
    PROVE  Scheduled[i][1] \in Machines /\ Scheduled[i][2] \in LanesOf(Scheduled[i][1])
<1> DEFINE ml == Scheduled[i]
<1>1. ml \in Machines \X Lanes /\ i \in DOMAIN Scheduled
  BY FleetAssumption
<1>2. ml \in Range(Scheduled)
  BY <1>1 DEF Range
<1>3. ml[1] \in Machines /\ ml[2] \in Lanes /\ ml = <<ml[1], ml[2]>>
  <2> HIDE DEF ml
  <2> QED BY <1>1
<1> QED BY <1>2, <1>3 DEF LanesOf

\* The launches of a tick keep the invariant: there is no first that does not.
LEMMA PassKeeps ==
    ASSUME FleetInv, Pass
    PROVE  FleetInv' /\ UNCHANGED history
<1> DEFINE Bad == {i \in 0..Len(Scheduled) : ~Launched(Passed[i])}
<1>1. Len(Scheduled) \in Nat
  BY FleetAssumption
<1>2. Bad = {}
  <2>1. SUFFICES ASSUME Bad # {}
                 PROVE  FALSE
    OBVIOUS
  <2>2. PICK n \in Bad : \A k \in Bad : <<k, n>> \notin OpToRel(<, Nat)
    <3>1. Bad \subseteq Nat
      BY <1>1
    <3> HIDE DEF Bad
    <3> QED BY <2>1, <3>1, NatLessThanWellFounded, WFMin, Zenon
  <2>3. n \in 0..Len(Scheduled) /\ ~Launched(Passed[n]) /\ n \in Nat
    BY <1>1
  <2>4. \A k \in Bad : k \in Nat => ~(k < n)
    BY <2>2, <2>3, Zenon DEF OpToRel
  <2>5. CASE n = 0
    <3> DEFINE start == [target |-> target, tasks |-> tasks]
    <3>1. DOMAIN start = {"target", "tasks"} /\ start.target = target /\ start.tasks = tasks
      OBVIOUS
    <3> HIDE DEF start
    <3>2. Launched(start)
      BY <3>1 DEF FleetInv, Launched
    <3> QED BY <2>3, <2>5, <3>2, PassedDefined DEF start
  <2>6. CASE n # 0
    <3>1. n - 1 \in 0..Len(Scheduled) /\ n - 1 \in Nat /\ n - 1 < n /\ n \in 1..Len(Scheduled)
      BY <1>1, <2>3, <2>6
    <3>2. Launched(Passed[n - 1])
      BY <2>4, <3>1
    <3>3. Launched(launch(Passed[n - 1], Scheduled[n]))
      BY <3>1, <3>2, ScheduledLane, LaunchKeeps DEF FleetInv
    <3> QED BY <2>3, <3>1, <3>3, PassedDefined
  <2> QED BY <2>5, <2>6
<1>3. Fit(Passed[Len(Scheduled)].target, Passed[Len(Scheduled)].tasks)
  BY <1>1, <1>2 DEF Launched
<1>4. /\ UNCHANGED <<worker, store, stopping, promptHostIds>> /\ tick' = "ending" /\ timer' = TRUE
      /\ target' = Passed[Len(Scheduled)].target /\ tasks' = Passed[Len(Scheduled)].tasks
  BY DEF Pass, world
<1>5. Fit(target, tasks)'
  <2>1. Fit(target', tasks')
    BY <1>3, <1>4
  <2> QED BY <1>4, <2>1 DEF Fit, store
<1>6. Awake'
  BY <1>4 DEF FleetInv, Awake
<1> QED BY <1>4, <1>5, <1>6, StoredKeeps DEF FleetInv, store

-----------------------------------------------------------------------------
(* The theorems.                                                            *)

LEMMA InitFleet == Init => FleetInv
<1> SUFFICES ASSUME Init PROVE FleetInv
  OBVIOUS
<1>1. NoHistory \in [Lanes -> SUBSET Sessions] /\ \A l \in Lanes : NoHistory[l] = {}
  BY DEF NoHistory
<1>2. 1 \in 1..MaxWorkers
  BY FleetAssumption
<1>3. "core" \in Lanes /\ "directory" \in Lanes
  BY DEF Lanes
<1>4. worker \in [Machines -> 1..MaxWorkers] /\ history \in [Machines -> [Lanes -> SUBSET Sessions]]
      /\ registered \in [Machines -> Connections \cup {"none"}]
  BY <1>1, <1>2 DEF Init
<1>5. \A m \in Machines : history[m]["core"] = {} /\ history[m]["directory"] = {}
  BY <1>1, <1>3 DEF Init
<1>6. Stored
  <2>1. \A m \in Machines : \A l \in {"core", "directory"} : history[m][l] = {}
    BY <1>5
  <2> QED BY <1>4, <1>5, <2>1 DEF Stored
<1>7. Awake
  BY DEF Init, Awake
<1>8. Fit(target, tasks)
  BY DEF Init, Fit, IsTarget, TargetFits, OnePerLane
<1> QED BY <1>6, <1>7, <1>8 DEF FleetInv

\* What a step adds to the history of a machine.
HistoryStep ==
    \A m \in Machines : \A l \in Lanes :
        history'[m][l] # history[m][l] =>
            \A s \in history'[m][l], core \in history[m]["core"] : s >= core

LEMMA HistoryUnchanged ==
    ASSUME UNCHANGED history
    PROVE  HistoryStep
BY DEF HistoryStep

LEMMA DetailsAlike ==
    ASSUME FreshDetails
    PROVE  HistoryStep
BY DEF HistoryStep, FreshDetails

\* A step of one task.
LEMMA TaskStepKeeps ==
    ASSUME FleetInv, NEW t \in tasks, TaskStep(t)
    PROVE  FleetInv' /\ HistoryStep
<1>1. CASE HostAnswers(t)
  BY <1>1, HostAnswersKeeps, HistoryUnchanged DEF HostAnswers, store
<1>2. CASE CallResolves(t)
  BY <1>2, CallResolvesKeeps, HistoryUnchanged DEF CallResolves, store
<1>3. CASE CallRejects(t)
  BY <1>3, CallRejectsKeeps, HistoryUnchanged DEF CallRejects, store
<1>4. CASE TransportSettles(t)
  BY <1>4, TransportSettlesKeeps, HistoryUnchanged DEF TransportSettles, store
<1>5. CASE LaneFails(t)
  BY <1>5, LaneFailsKeeps, HistoryUnchanged DEF LaneFails, store
<1>6. CASE LaneIsPast(t)
  BY <1>6, LaneIsPastKeeps, HistoryUnchanged DEF LaneIsPast, store
<1>7. CASE DescriptionArrives(t)
  BY <1>7, DescriptionArrivesKeeps, HistoryUnchanged DEF DescriptionArrives
<1>8. CASE CoreArrives(t)
  <2>1. /\ FleetInv'
        /\ \A m \in Machines \ {t.m} : history'[m] = history[m]
        /\ \A s \in history'[t.m]["core"], old \in history[t.m]["core"] : s >= old
        /\ \A l \in Lanes \ {"core"} : history'[t.m][l] = history[t.m][l]
    BY <1>8, CoreArrivesKeeps
  <2> QED BY <2>1 DEF HistoryStep
<1>9. CASE DetailArrives(t)
  BY <1>9, DetailArrivesKeeps, DetailsAlike
<1>10. CASE BatchBegins(t)
  BY <1>10, BatchBeginsKeeps, HistoryUnchanged DEF BatchBegins, store
<1>11. CASE DirectoryArrives(t)
  BY <1>11, DirectoryArrivesKeeps, DetailsAlike
<1> QED BY <1>1, <1>2, <1>3, <1>4, <1>5, <1>6, <1>7, <1>8, <1>9, <1>10, <1>11
        DEF TaskStep, Continues

LEMMA NextFleet == FleetInv /\ [Next]_vars => FleetInv' /\ HistoryStep
<1> SUFFICES ASSUME FleetInv, [Next]_vars
             PROVE  FleetInv' /\ HistoryStep
  OBVIOUS
<1>1. CASE TickBegins
  BY <1>1, TickBeginsKeeps, HistoryUnchanged
<1>2. CASE ListAnswers \/ ListFails \/ finishTick \/ ReconcileComesDue
  BY <1>2, SchedulerKeeps, HistoryUnchanged
<1>3. CASE Reconcile
  <2>1. FleetInv' /\ \A m \in Machines : history'[m] = history[m] \/ history'[m] = NoHistory
    BY <1>3, ReconcileKeeps
  <2>2. "core" \in Lanes /\ \A l \in Lanes : NoHistory[l] = {}
    BY DEF NoHistory, Lanes
  <2> QED BY <2>1, <2>2 DEF HistoryStep
<1>4. CASE Pass
  BY <1>4, PassKeeps, HistoryUnchanged
<1>5. ASSUME NEW m \in Machines, NEW l \in LanesOf(m), LaneComesDue(m, l)
      PROVE  FleetInv' /\ HistoryStep
  BY <1>5, LaneComesDueKeeps, HistoryUnchanged
<1>6. ASSUME NEW t \in tasks, TaskStep(t)
      PROVE  FleetInv' /\ HistoryStep
  BY <1>6, TaskStepKeeps
<1>7. ASSUME NEW h \in Hosts,
             WorkerReplaced(h) \/ DirectoryChanges(h) \/ noteHostConnected(h) \/ noteWorkerExit(h)
      PROVE  FleetInv' /\ HistoryStep
  BY <1>7, WorkerReplacedKeeps, EdgesKeep, NoteHostConnectedKeeps, NoteWorkerExitKeeps, HistoryUnchanged
<1>8. CASE settingsChanged
  BY <1>8, SettingsChangedKeeps, HistoryUnchanged
<1>9. CASE RealtimeRecovers
  BY <1>9, EdgesKeep, HistoryUnchanged
<1>10. CASE Stop
  BY <1>10, StopKeeps, HistoryUnchanged
<1>11. CASE UNCHANGED vars
  <2>1. UNCHANGED <<worker, store, target, tasks, sched, stopping, history>>
    BY <1>11 DEF vars, world, store
  <2> QED BY <2>1, FitKeeps, StoredKeeps, AwakeKeeps, HistoryUnchanged DEF FleetInv
<1> QED BY <1>1, <1>2, <1>3, <1>4, <1>5, <1>6, <1>7, <1>8, <1>9, <1>10, <1>11 DEF Next, Ticks

\* The inductive invariant: what targets, tasks, stored rows and the scheduler
\* have to do with each other, through every interleaving of the coordinator.
THEOREM FleetInvariant == Spec => []FleetInv
BY InitFleet, NextFleet, PTL DEF Spec

\* Every variable keeps its type.
THEOREM FleetTypes == Spec => []TypeOK
<1>1. FleetInv => TypeOK
  BY DEF FleetInv, Awake, Fit, IsTarget, IsTask, TypeOK
<1> QED BY <1>1, FleetInvariant, PTL

\* Whatever wakes, timers and ticks overlap, a running coordinator has its
\* next tick ahead (wake, arm, finishTick).
THEOREM FleetNeverAsleep == Spec => []NeverAsleep
<1>1. FleetInv => NeverAsleep
  BY DEF FleetInv, Awake, NeverAsleep
<1> QED BY <1>1, FleetInvariant, PTL

\* A directory batch that is stored is of one worker (collectDirectories).
THEOREM FleetBatchesWhole == Spec => []OneWorkerPerBatch
<1>1. FleetInv => OneWorkerPerBatch
  <2> SUFFICES ASSUME FleetInv, NEW m \in Machines
               PROVE  Cardinality(history[m]["directory"]) <= 1
    BY DEF OneWorkerPerBatch
  <2> DEFINE S == history[m]["directory"]
  <2>1. \A a, b \in S : a = b
    BY DEF FleetInv, Stored
  <2> HIDE DEF S
  <2>2. CASE S = {}
    BY <2>2, FS_EmptySet DEF S
  <2>3. CASE S # {}
    <3>1. PICK a \in S : TRUE
      BY <2>3
    <3>2. S = {a}
      BY <2>1, <3>1
    <3>3. Cardinality({a}) = 1
      BY FS_Singleton, Zenon
    <3>4. Cardinality(S) <= 1
      BY <3>2, <3>3
    <3> QED BY <3>4 DEF S
  <2> QED BY <2>2, <2>3
<1> QED BY <1>1, FleetInvariant, PTL

\* A task that may still write works for the target the coordinator holds for
\* its machine (current, invalidateLifecycle), wherever a reconciliation breaks off.
THEOREM FleetWritesForHeldTarget == Spec => []WritesForHeldTarget
<1>1. FleetInv => WritesForHeldTarget
  BY CurrentTarget DEF WritesForHeldTarget
<1> QED BY <1>1, FleetInvariant, PTL

\* No recorded row is of a worker older than the newest core sample of its
\* machine (collectCore, acceptSecondary, collectDirectories, collectInventory).
THEOREM FleetNothingStale == Spec => NothingStaleRecorded
<1> DEFINE Fresh == \A m \in Machines : \A l \in Lanes :
             history'[m][l] # history[m][l] =>
                 \A s \in history'[m][l], core \in history[m]["core"] : s >= core
<1>1. FleetInv /\ [Next]_vars => [Fresh]_vars
  BY NextFleet DEF HistoryStep
<1> QED BY <1>1, FleetInvariant, PTL DEF Spec, NothingStaleRecorded
=============================================================================
