-------------------------- MODULE SubscriptionRecord ------------------------
(***************************************************************************)
(* The durable row of one observation subscription and what the service    *)
(* makes of it: the Record of contracts.ts, and the updates of engine.ts,  *)
(* server.ts and classifier.ts as functions from the row read to the row   *)
(* saved.  `now` is always the time the code passes or reads.              *)
(*                                                                         *)
(* 0 stands for an absent expires_at or review_due, "none" for the other   *)
(* absent fields.  Of the retained runs only the last is kept, which is    *)
(* the only one wait() and report() look at.  A collector exists exactly   *)
(* when a recipe does; its heartbeat is left out.                          *)
(***************************************************************************)
EXTENDS Integers

CONSTANTS
    Values,        \* what the projection of a recipe's output can yield
    Target,        \* the value a json_equals recipe waits for
    Interval,      \* recipe.interval_seconds, also subscription_wait's delay
    ReviewWindow,  \* the observer's 15 minutes
    RetryDelay     \* the minute after a step that threw

ASSUME DurationAssumption ==
    /\ Interval \in Nat \ {0}
    /\ ReviewWindow \in Nat \ {0}
    /\ RetryDelay \in Nat \ {0}

Outputs  == Values \cup {"garbled"}  \* "garbled": no scalar at the path
RunType  == [id : Nat, generation : Nat, ok : BOOLEAN, output : Outputs]
TaskType == [id : Nat, claimed : BOOLEAN, result : RunType]
\* A baseline, with the run it was taken from: wait() and a semantic report
\* store the raw output, the json_changes classifier the projected value.
BaselineType == [form : {"none", "raw", "projected"}, run : RunType]

Run(id, generation, ok, output) ==
    [id |-> id, generation |-> generation, ok |-> ok, output |-> output]
NoRun      == Run(0, 0, FALSE, "garbled")
NoTask     == [id |-> 0, claimed |-> FALSE, result |-> NoRun]
NoBaseline == [form |-> "none", run |-> NoRun]

Terminals   == {"fulfilled", "failed", "expired", "cancelled"}
terminal(s) == s \in Terminals
States == {"absent", "preparing", "watching", "running", "reviewing",
           "uncertain"} \cup Terminals
Wakes  == {"none", "pending", "sending", "accepted", "uncertain"}

RecordType ==
    [state : States,
     mode : {"until", "changes"}, expires_at : Nat, next_at : Nat,
     generation : Nat, launch : {"none", "intent", "confirmed"},
     observer : BOOLEAN, review_due : Nat,
     review_wake : Wakes,
     recipe : {"none", "json_equals", "json_changes", "semantic"},
     worker : BOOLEAN, task : TaskType, report_blocked : BOOLEAN,
     run : RunType, baseline : BaselineType, observer_turns : Nat,
     repairs : Nat, notifications_cancelled : BOOLEAN,
     stop_pending : BOOLEAN]

Absent ==
    [state |-> "absent", mode |-> "until", expires_at |-> 0, next_at |-> 0,
     generation |-> 0, launch |-> "none", observer |-> FALSE,
     review_due |-> 0, review_wake |-> "none", recipe |-> "none",
     worker |-> FALSE, task |-> NoTask, report_blocked |-> FALSE,
     run |-> NoRun, baseline |-> NoBaseline, observer_turns |-> 0,
     repairs |-> 0, notifications_cancelled |-> FALSE,
     stop_pending |-> FALSE]

Sealed(task)    == task.result.id # 0
Expired(r, now) == r.expires_at # 0 /\ r.expires_at <= now

-----------------------------------------------------------------------------
(* When a row needs the supervisor.                                        *)

DispositionDue == {"preparing", "reviewing"}
NeedsLaunch(r) == r.state = "preparing" /\ r.launch = "none"
NeedsWake(r)   == r.state = "reviewing" /\ r.review_wake = "pending"
NeedsRun(r, now) ==
    r.state = "watching" /\ r.next_at <= now /\ r.recipe # "none"
ReviewLapsed(r, now) ==
    r.state \in DispositionDue /\ r.review_due # 0 /\ r.review_due <= now
\* Mutant: only scheduled work makes a row due.
DueUnexpired(r, now) ==
    \/ NeedsLaunch(r) \/ NeedsWake(r)
    \/ r.state = "watching" /\ r.next_at <= now
    \/ ReviewLapsed(r, now)
Due(r, now) ==
    \/ NeedsLaunch(r) \/ NeedsWake(r)
    \/ r.state = "watching" /\ r.next_at <= now
    \/ Expired(r, now) \/ ReviewLapsed(r, now)
\* step() looks at the launch before the lapsed review.
Overdue(r, now) == ReviewLapsed(r, now) /\ ~NeedsLaunch(r)

-----------------------------------------------------------------------------
(* Updates of the engine.                                                  *)

\* Mutant: a close that does not record the observer it has to stop.
ConcludedUnstopped(r, outcome, now) ==
    LET st == IF outcome \in {"expired", "failed"} THEN outcome
              ELSE IF r.mode = "until" THEN "fulfilled" ELSE "watching"
    IN  [r EXCEPT !.state = st,
                  !.next_at = IF st = "watching" THEN now + Interval ELSE @,
                  !.review_wake = "none"]
\* finding(): the row that a finding with this outcome leaves.
Concluded(r, outcome, now) ==
    LET st == IF outcome \in {"expired", "failed"} THEN outcome
              ELSE IF r.mode = "until" THEN "fulfilled" ELSE "watching"
    IN  [r EXCEPT !.state = st,
                  !.next_at = IF st = "watching" THEN now + Interval ELSE @,
                  !.stop_pending = @ \/ (terminal(st) /\ r.observer),
                  !.review_wake = "none"]

\* cancel(), before its await.
Cancelled(r) ==
    [r EXCEPT !.state = IF terminal(@) THEN @ ELSE "cancelled",
              !.generation = IF terminal(r.state) THEN @ ELSE @ + 1,
              !.notifications_cancelled = TRUE,
              !.stop_pending = @ \/ r.observer]

\* Mutant: the interrupted check is only rescheduled.
ThrownRetried(r, now) ==
    IF terminal(r.state) THEN r ELSE [r EXCEPT !.next_at = now + RetryDelay]
\* The catch of tick(): step() threw.
Thrown(r, now) ==
    LET interrupted == r.state = "running"
    IN  IF terminal(r.state) THEN r
        ELSE [r EXCEPT
                !.next_at = now + RetryDelay,
                !.state = IF interrupted THEN "reviewing" ELSE @,
                !.review_wake = IF interrupted THEN "pending" ELSE @,
                !.review_due = IF interrupted THEN now + ReviewWindow ELSE @]

\* Mutant: an observer that arrives after the close is only recorded.
BoundUnstopped(r, now) ==
    [r EXCEPT !.observer = TRUE, !.launch = "confirmed",
              !.state = IF @ = "uncertain" THEN "preparing" ELSE @,
              !.review_due = IF terminal(r.state) THEN @ ELSE now + ReviewWindow]
\* ports.launch: the spawn promise resolved, in time or late.
Bound(r, now) ==
    [r EXCEPT !.observer = TRUE, !.launch = "confirmed",
              !.stop_pending = @ \/ terminal(r.state),
              !.state = IF @ = "uncertain" THEN "preparing" ELSE @,
              !.review_due = IF terminal(r.state) THEN @ ELSE now + ReviewWindow]

\* recover(), on one active row.
Interrupted(r, now) ==
    LET sealed == Sealed(r.task) /\ r.task.result.generation = r.generation
    IN  IF r.state # "running" THEN r
        ELSE [r EXCEPT !.state = "reviewing",
                       !.run = IF sealed THEN r.task.result ELSE @,
                       !.report_blocked = ~(sealed /\ r.task.result.ok),
                       !.review_wake = "pending",
                       !.review_due = now + ReviewWindow]
\* Mutant: an interrupted launch is tried again.
RecoveredRelaunches(r, now) ==
    [Interrupted(r, now) EXCEPT
        !.launch = IF @ = "intent" THEN "none" ELSE @,
        !.review_wake = IF @ = "sending" THEN "uncertain" ELSE @]
Recovered(r, now) ==
    [Interrupted(r, now) EXCEPT
        !.state = IF r.launch = "intent" THEN "uncertain" ELSE @,
        !.review_wake = IF @ = "sending" THEN "uncertain" ELSE @]

\* Observer dispositions.
\* Mutant: a repaired recipe inherits the baseline.
InstalledOnBaseline(r, kind, now) ==
    [r EXCEPT !.repairs = @ + 1, !.generation = @ + 1, !.recipe = kind,
              !.worker = FALSE, !.task = NoTask, !.report_blocked = TRUE,
              !.run = NoRun, !.state = "watching",
              !.next_at = now, !.review_wake = "none"]
Installed(r, kind, now) ==
    [r EXCEPT !.repairs = @ + 1, !.generation = @ + 1, !.recipe = kind,
              !.worker = FALSE, !.task = NoTask, !.report_blocked = TRUE,
              !.baseline = NoBaseline, !.run = NoRun, !.state = "watching",
              !.next_at = now, !.review_wake = "none"]

\* wait() takes the last successful run as a first baseline.
Waiting(r, now) ==
    LET establish == /\ r.mode = "changes" /\ r.baseline.form = "none"
                     /\ r.run.id # 0 /\ ~r.report_blocked /\ r.run.ok
    IN  [r EXCEPT !.baseline = IF establish
                               THEN [form |-> "raw", run |-> r.run] ELSE @,
                  !.state = "watching", !.next_at = now + Interval,
                  !.review_wake = "none"]

\* Mutant: report_blocked is not looked at.
ReportableUnsealed(r) ==
    /\ r.run.id # 0 /\ r.run.generation = r.generation /\ r.run.ok
    /\ r.mode = "changes" => r.baseline.form # "none"
Reportable(r) ==
    /\ r.run.id # 0 /\ ~r.report_blocked
    /\ r.run.generation = r.generation /\ r.run.ok
    /\ r.mode = "changes" => r.baseline.form # "none"
\* report() moves the baseline only of a semantic recipe.
Reported(r) ==
    [r EXCEPT !.baseline = IF r.recipe = "semantic" /\ r.mode = "changes"
                           THEN [form |-> "raw", run |-> r.run] ELSE @]

-----------------------------------------------------------------------------
(* The classifier and the end of a collection.                             *)

\* The decisions classify() may return on a run: `rebase` says that the
\* decision carries the run's projected value as the new baseline.
Decision(kind, rebase) == [kind |-> kind, rebase |-> rebase]
Verdict(review) == IF review THEN "review" ELSE "pending"

SemanticDecisions(r, base) ==
    IF r.mode = "changes" /\ base.form = "none" THEN {Decision("review", FALSE)}
    ELSE {Decision("pending", FALSE), Decision("review", FALSE)}
\* The run's scalar is compared with the baseline as text.  A raw baseline is
\* the whole output, which equals its scalar only if it is nothing else.
ChangesDecisions(base, run) ==
    LET same == base.run.output = run.output
    IN  {Decision(Verdict(differs), TRUE) :
           differs \in CASE base.form = "none"      -> {FALSE}
                         [] base.form = "projected" -> {~same}
                         [] base.form = "raw"       -> {TRUE, ~same}}

classify(r, base, run) ==
    IF ~run.ok \/ (r.recipe # "semantic" /\ run.output = "garbled")
    THEN {Decision("review", FALSE)}
    ELSE CASE r.recipe = "semantic"     -> SemanticDecisions(r, base)
           [] r.recipe = "json_equals"  ->
                {Decision(Verdict(run.output = Target), FALSE)}
           [] r.recipe = "json_changes" -> ChangesDecisions(base, run)

Classified(r, run, d, now) ==
    LET review == d.kind = "review"
    IN  [r EXCEPT
           !.run = run, !.report_blocked = ~run.ok,
           !.baseline = IF d.rebase THEN [form |-> "projected", run |-> run] ELSE @,
           !.state = IF review THEN "reviewing" ELSE "watching",
           !.next_at = now + Interval,
           !.review_wake = IF review THEN "pending" ELSE @,
           !.review_due = IF review THEN now + ReviewWindow ELSE @]
=============================================================================
