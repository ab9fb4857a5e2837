------------------------ MODULE SubscriptionTheorems ------------------------
(***************************************************************************)
(* Properties of the subscription service for every number of              *)
(* subscriptions, every limit, duration and set of values.                 *)
(***************************************************************************)
EXTENDS SubscriptionProperties, TLAPS

-----------------------------------------------------------------------------
(* The rows: the updates yield rows, and those that may meet a closed row  *)
(* leave its state alone.                                                  *)

\* The constant values are well formed.
LEMMA ConstantsType ==
    /\ NoRun \in RunType /\ NoTask \in TaskType /\ NoBaseline \in BaselineType
    /\ Absent \in RecordType
<1>1. NoRun \in RunType
  BY DEF NoRun, Run, RunType, Outputs
<1>2. NoTask \in TaskType
  BY <1>1 DEF NoTask, TaskType
<1>3. NoBaseline \in BaselineType
  BY <1>1 DEF NoBaseline, BaselineType
<1>4. Absent \in RecordType
  BY <1>1, <1>2, <1>3 DEF Absent, RecordType, States, Wakes
<1> QED BY <1>1, <1>2, <1>3, <1>4

\* finding() leaves a row; it records the observer of a row it closes, and
\* moves no field of the launch.
LEMMA ConcludedRow ==
    ASSUME NEW r \in RecordType, NEW outcome \in {"matched", "failed", "expired"},
           NEW now \in Nat
    PROVE  LET c == Concluded(r, outcome, now)
           IN  /\ c \in RecordType
               /\ c.state \in Terminals \cup {"watching"}
               /\ c.launch = r.launch /\ c.observer = r.observer
               /\ terminal(c.state) /\ c.observer => c.stop_pending
<1> DEFINE st == IF outcome \in {"expired", "failed"} THEN outcome
                 ELSE IF r.mode = "until" THEN "fulfilled" ELSE "watching"
           at == IF st = "watching" THEN now + Interval ELSE r.next_at
           stop == r.stop_pending \/ (terminal(st) /\ r.observer)
           c == [r EXCEPT !.state = st, !.next_at = at, !.stop_pending = stop,
                          !.review_wake = "none"]
<1>1. st \in Terminals \cup {"watching"}
  BY DEF Terminals
<1>2. at \in Nat
  BY DurationAssumption DEF RecordType
<1>3. stop \in BOOLEAN
  OBVIOUS
<1>4. terminal(st) /\ r.observer => stop
  OBVIOUS
<1>5. Concluded(r, outcome, now) = c
  BY DEF Concluded
<1> HIDE DEF st, at, stop
<1>6. c \in RecordType
  BY <1>1, <1>2, <1>3 DEF RecordType, States, Wakes
<1>7. c.state = st /\ c.launch = r.launch /\ c.observer = r.observer
  BY DEF RecordType
<1>8. c.stop_pending = stop
  BY DEF RecordType
<1> QED BY <1>1, <1>4, <1>5, <1>6, <1>7, <1>8

\* cancel() leaves a closed row that owes its observer a stop.
LEMMA CancelledRow ==
    ASSUME NEW r \in RecordType
    PROVE  LET c == Cancelled(r)
           IN  /\ c \in RecordType
               /\ terminal(c.state)
               /\ terminal(r.state) => c.state = r.state
               /\ c.launch = r.launch /\ c.observer = r.observer
               /\ c.observer => c.stop_pending
<1> DEFINE st == IF terminal(r.state) THEN r.state ELSE "cancelled"
           gen == IF terminal(r.state) THEN r.generation ELSE r.generation + 1
           stop == r.stop_pending \/ r.observer
           c == [r EXCEPT !.state = st, !.generation = gen,
                          !.notifications_cancelled = TRUE, !.stop_pending = stop]
<1>1. st \in Terminals /\ (terminal(r.state) => st = r.state)
  BY DEF Terminals, terminal
<1>2. gen \in Nat
  BY DEF RecordType
<1>3. stop \in BOOLEAN /\ (r.observer => stop)
  OBVIOUS
<1>4. Cancelled(r) = c
  BY DEF Cancelled
<1> HIDE DEF st, gen, stop
<1>5. c \in RecordType
  BY <1>1, <1>2, <1>3 DEF RecordType, States
<1>6. c.state = st /\ c.launch = r.launch /\ c.observer = r.observer
  BY DEF RecordType
<1>7. c.stop_pending = stop
  BY DEF RecordType
<1> QED BY <1>1, <1>3, <1>4, <1>5, <1>6, <1>7 DEF terminal

\* An answered stop clears stop_pending and nothing else.
LEMMA StoppedRow ==
    ASSUME NEW r \in RecordType
    PROVE  LET c == [r EXCEPT !.stop_pending = FALSE]
           IN  /\ c \in RecordType
               /\ c.state = r.state /\ c.launch = r.launch /\ c.observer = r.observer
BY DEF RecordType

\* The catch of tick() leaves a row, and a closed row as it was.
LEMMA ThrownRow ==
    ASSUME NEW r \in RecordType, NEW now \in Nat
    PROVE  LET c == Thrown(r, now)
           IN  /\ c \in RecordType
               /\ terminal(r.state) => c = r
               /\ ~terminal(r.state) => c.state \in {"reviewing", r.state}
               /\ c.launch = r.launch /\ c.observer = r.observer
               /\ c.stop_pending = r.stop_pending
<1> DEFINE run == r.state = "running"
           at == now + RetryDelay
           st == IF run THEN "reviewing" ELSE r.state
           wake == IF run THEN "pending" ELSE r.review_wake
           due == IF run THEN now + ReviewWindow ELSE r.review_due
           c == [r EXCEPT !.next_at = at, !.state = st, !.review_wake = wake,
                          !.review_due = due]
<1>1. CASE terminal(r.state)
  BY <1>1 DEF Thrown
<1>2. CASE ~terminal(r.state)
  <2>1. Thrown(r, now) = c
    BY <1>2 DEF Thrown
  <2>2. st \in States /\ st \in {"reviewing", r.state}
    BY DEF RecordType, States
  <2>3. wake \in Wakes
    BY DEF RecordType, Wakes
  <2>4. at \in Nat /\ due \in Nat
    BY DurationAssumption DEF RecordType
  <2> HIDE DEF run, at, st, wake, due
  <2>5. c \in RecordType
    BY <2>2, <2>3, <2>4 DEF RecordType
  <2>6. c.state = st /\ c.launch = r.launch /\ c.observer = r.observer
    BY DEF RecordType
  <2>7. c.stop_pending = r.stop_pending
    BY DEF RecordType
  <2> QED BY <1>2, <2>1, <2>2, <2>5, <2>6, <2>7
<1> QED BY <1>1, <1>2

\* A resolved spawn leaves a row, a closed one in its state and with a stop
\* owed to the observer that arrived.
LEMMA BoundRow ==
    ASSUME NEW r \in RecordType, NEW now \in Nat
    PROVE  LET c == Bound(r, now)
           IN  /\ c \in RecordType
               /\ c.state \in {"preparing", r.state}
               /\ terminal(r.state) => c.state = r.state /\ c.stop_pending
               /\ terminal(c.state) => terminal(r.state)
               /\ c.launch = "confirmed"
<1> DEFINE st == IF r.state = "uncertain" THEN "preparing" ELSE r.state
           stop == r.stop_pending \/ terminal(r.state)
           due == IF terminal(r.state) THEN r.review_due ELSE now + ReviewWindow
           c == [r EXCEPT !.observer = TRUE, !.launch = "confirmed",
                          !.stop_pending = stop, !.state = st, !.review_due = due]
<1>1. /\ st \in States /\ st \in {"preparing", r.state}
      /\ terminal(r.state) => st = r.state
      /\ terminal(st) => terminal(r.state)
  BY DEF RecordType, States, Terminals, terminal
<1>2. stop \in BOOLEAN /\ (terminal(r.state) => stop)
  OBVIOUS
<1>3. due \in Nat
  BY DurationAssumption DEF RecordType
<1>4. Bound(r, now) = c
  BY DEF Bound
<1> HIDE DEF st, stop, due
<1>5. c \in RecordType
  BY <1>1, <1>2, <1>3 DEF RecordType
<1>6. c.state = st /\ c.launch = "confirmed"
  BY DEF RecordType
<1>7. c.stop_pending = stop
  BY DEF RecordType
<1> QED BY <1>1, <1>2, <1>4, <1>5, <1>6, <1>7

\* recover() leaves an open row; it never makes a launch possible again.
LEMMA RecoveredRow ==
    ASSUME NEW r \in RecordType, NEW now \in Nat, ~terminal(r.state)
    PROVE  LET c == Recovered(r, now)
           IN  /\ c \in RecordType
               /\ c.state \in {"reviewing", "uncertain", r.state}
               /\ c.launch = r.launch /\ c.observer = r.observer
               /\ c.stop_pending = r.stop_pending
<1> DEFINE i == Interrupted(r, now)
           st == IF r.launch = "intent" THEN "uncertain" ELSE i.state
           wake == IF i.review_wake = "sending" THEN "uncertain" ELSE i.review_wake
           c == [i EXCEPT !.state = st, !.review_wake = wake]
<1>1. /\ i \in RecordType /\ i.state \in {"reviewing", r.state}
      /\ i.launch = r.launch /\ i.observer = r.observer
      /\ i.stop_pending = r.stop_pending
  <2> DEFINE sealed == Sealed(r.task) /\ r.task.result.generation = r.generation
             run == IF sealed THEN r.task.result ELSE r.run
             blocked == ~(sealed /\ r.task.result.ok)
             due == now + ReviewWindow
             e == [r EXCEPT !.state = "reviewing", !.run = run,
                            !.report_blocked = blocked,
                            !.review_wake = "pending", !.review_due = due]
  <2>1. CASE r.state # "running"
    BY <2>1 DEF Interrupted
  <2>2. CASE r.state = "running"
    <3>1. i = e
      BY <2>2 DEF Interrupted
    <3>2. run \in RunType
      BY DEF RecordType, TaskType
    <3>3. blocked \in BOOLEAN
      OBVIOUS
    <3>4. due \in Nat
      BY DurationAssumption
    <3> HIDE DEF sealed, run, blocked, due
    <3>5. e \in RecordType
      BY <3>2, <3>3, <3>4 DEF RecordType, States, Wakes
    <3>6. e.state = "reviewing" /\ e.launch = r.launch /\ e.observer = r.observer
      BY DEF RecordType
    <3>7. e.stop_pending = r.stop_pending
      BY DEF RecordType
    <3> QED BY <3>1, <3>5, <3>6, <3>7
  <2> QED BY <2>1, <2>2
<1>2. Recovered(r, now) = c
  BY DEF Recovered
<1> HIDE DEF i
<1>3. st \in States /\ st \in {"reviewing", "uncertain", r.state}
  BY <1>1 DEF RecordType, States
<1>4. wake \in Wakes
  BY <1>1 DEF RecordType, Wakes
<1> HIDE DEF st, wake
<1>5. c \in RecordType
  BY <1>1, <1>3, <1>4 DEF RecordType
<1>6. c.state = st /\ c.launch = r.launch /\ c.observer = r.observer
  BY <1>1 DEF RecordType
<1>7. c.stop_pending = r.stop_pending
  BY <1>1 DEF RecordType
<1> QED BY <1>2, <1>3, <1>5, <1>6, <1>7

\* subscription_install leaves a watching row.
LEMMA InstalledRow ==
    ASSUME NEW r \in RecordType, NEW now \in Nat,
           NEW kind \in {"json_equals", "json_changes", "semantic"}
    PROVE  LET c == Installed(r, kind, now)
           IN  /\ c \in RecordType /\ c.state = "watching"
               /\ c.launch = r.launch /\ c.observer = r.observer
<1> DEFINE reps == r.repairs + 1
           gen == r.generation + 1
           c == [r EXCEPT
                   !.repairs = reps, !.generation = gen, !.recipe = kind,
                   !.worker = FALSE, !.task = NoTask, !.report_blocked = TRUE,
                   !.baseline = NoBaseline, !.run = NoRun, !.state = "watching",
                   !.next_at = now, !.review_wake = "none"]
<1>1. Installed(r, kind, now) \in RecordType
  <2>1. reps \in Nat /\ gen \in Nat
    BY DEF RecordType
  <2>2. Installed(r, kind, now) = c
    BY DEF Installed
  <2>3. NoRun \in RunType /\ NoTask \in TaskType /\ NoBaseline \in BaselineType
    BY ConstantsType
  <2>4. "watching" \in States /\ "none" \in Wakes
    BY DEF States, Wakes
  <2> HIDE DEF reps, gen
  <2>5. c \in RecordType
    BY <2>1, <2>3, <2>4 DEF RecordType
  <2> QED BY <2>2, <2>5
<1>2. Installed(r, kind, now).state = "watching"
  BY DEF Installed, RecordType
<1>3. /\ Installed(r, kind, now).launch = r.launch
      /\ Installed(r, kind, now).observer = r.observer
  BY DEF Installed, RecordType
<1> QED BY <1>1, <1>2, <1>3

\* subscription_wait leaves a watching row.
LEMMA WaitingRow ==
    ASSUME NEW r \in RecordType, NEW now \in Nat
    PROVE  LET c == Waiting(r, now)
           IN  /\ c \in RecordType /\ c.state = "watching"
               /\ c.launch = r.launch /\ c.observer = r.observer
<1> DEFINE establish == /\ r.mode = "changes" /\ r.baseline.form = "none"
                        /\ r.run.id # 0 /\ ~r.report_blocked /\ r.run.ok
           base == IF establish THEN [form |-> "raw", run |-> r.run] ELSE r.baseline
           at == now + Interval
           c == [r EXCEPT !.baseline = base, !.state = "watching", !.next_at = at,
                          !.review_wake = "none"]
<1>1. base \in BaselineType
  BY DEF RecordType, BaselineType
<1>2. at \in Nat
  BY DurationAssumption
<1>3. Waiting(r, now) = c
  BY DEF Waiting
<1> HIDE DEF establish, base, at
<1>4. c \in RecordType
  BY <1>1, <1>2 DEF RecordType, States, Wakes
<1>5. c.state = "watching" /\ c.launch = r.launch /\ c.observer = r.observer
  BY DEF RecordType
<1> QED BY <1>3, <1>4, <1>5

\* subscription_report's own change of the row is one of the baseline only.
LEMMA ReportedRow ==
    ASSUME NEW r \in RecordType
    PROVE  LET c == Reported(r)
           IN  /\ c \in RecordType /\ c.launch = r.launch /\ c.mode = r.mode
               /\ c.observer = r.observer
<1> DEFINE base == IF r.recipe = "semantic" /\ r.mode = "changes"
                   THEN [form |-> "raw", run |-> r.run] ELSE r.baseline
           c == [r EXCEPT !.baseline = base]
<1>1. base \in BaselineType
  BY DEF RecordType, BaselineType
<1>2. Reported(r) = c
  BY DEF Reported
<1> HIDE DEF base
<1>3. /\ c \in RecordType /\ c.launch = r.launch /\ c.mode = r.mode
      /\ c.observer = r.observer
  BY <1>1 DEF RecordType
<1> QED BY <1>2, <1>3

\* The end of a collection leaves an open row.
LEMMA ClassifiedRow ==
    ASSUME NEW r \in RecordType, NEW run \in RunType, NEW d, NEW now \in Nat
    PROVE  LET c == Classified(r, run, d, now)
           IN  /\ c \in RecordType
               /\ c.state \in {"reviewing", "watching"}
               /\ c.launch = r.launch
<1> DEFINE review == d.kind = "review"
           blocked == ~run.ok
           base == IF d.rebase THEN [form |-> "projected", run |-> run] ELSE r.baseline
           st == IF review THEN "reviewing" ELSE "watching"
           at == now + Interval
           wake == IF review THEN "pending" ELSE r.review_wake
           due == IF review THEN now + ReviewWindow ELSE r.review_due
           c == [r EXCEPT !.run = run, !.report_blocked = blocked,
                          !.baseline = base, !.state = st, !.next_at = at,
                          !.review_wake = wake, !.review_due = due]
<1>1. blocked \in BOOLEAN
  OBVIOUS
<1>2. base \in BaselineType
  BY DEF RecordType, BaselineType
<1>3. st \in {"reviewing", "watching"}
  OBVIOUS
<1>4. at \in Nat /\ due \in Nat
  BY DurationAssumption DEF RecordType
<1>5. wake \in Wakes
  BY DEF RecordType, Wakes
<1>6. Classified(r, run, d, now) = c
  BY DEF Classified
<1> HIDE DEF review, blocked, base, st, at, wake, due
<1>7. c \in RecordType
  BY <1>1, <1>2, <1>3, <1>4, <1>5 DEF RecordType, States
<1>8. c.state = st /\ c.launch = r.launch
  BY DEF RecordType
<1> QED BY <1>3, <1>6, <1>7, <1>8

-----------------------------------------------------------------------------
(* The store and the locals of step() and tick().                          *)

\* A page holds rows of the query only.
LEMMA PagesSubset ==
    ASSUME NEW rows, NEW page \in Pages(rows)
    PROVE  page \subseteq rows
BY DEF Pages

\* Saving a row changes that row only.
LEMMA SaveRow ==
    ASSUME rec \in [Subs -> RecordType], NEW s \in Subs, NEW r \in RecordType,
           save(s, r)
    PROVE  /\ rec' \in [Subs -> RecordType]
           /\ rec'[s] = r
           /\ \A t \in Subs : t # s => rec'[t] = rec[t]
BY DEF save

\* putFinding keeps every finding and may add one.
LEMMA WithFindingType ==
    ASSUME OutboxOK, NEW key \in Keys
    PROVE  /\ DOMAIN fnd \subseteq DOMAIN WithFinding(key)
           /\ DOMAIN WithFinding(key) \subseteq Keys
           /\ WithFinding(key) \in [DOMAIN WithFinding(key) -> FindingType]
           /\ \A k \in DOMAIN fnd : WithFinding(key)[k] = fnd[k]
<1>1. Pending \in FindingType
  BY DEF Pending, FindingType
<1>2. CASE key \in DOMAIN fnd
  BY <1>2 DEF WithFinding, OutboxOK
<1>3. CASE key \notin DOMAIN fnd
  BY <1>1, <1>3 DEF WithFinding, OutboxOK
<1> QED BY <1>2, <1>3

\* A step that leaves the suspended tick() alone and only adds findings.
LEMMA OutboxGrows ==
    ASSUME OutboxOK, UNCHANGED <<tick, queued, handed>>,
           DOMAIN fnd \subseteq DOMAIN fnd', DOMAIN fnd' \subseteq Keys,
           fnd' \in [DOMAIN fnd' -> FindingType]
    PROVE  OutboxOK'
BY DEF OutboxOK

\* cancel() leaves the same findings.
LEMMA CancelFindingsType ==
    ASSUME OutboxOK, NEW s \in Subs, CancelFindings(s)
    PROVE  /\ DOMAIN fnd' = DOMAIN fnd
           /\ fnd' \in [DOMAIN fnd -> FindingType]
<1> PICK page \in Pages({k \in DOMAIN fnd : k[1] = s}) :
        fnd' = [k \in DOMAIN fnd |->
                  IF k \notin page THEN fnd[k]
                  ELSE [delivery |-> IF fnd[k].delivery = "pending"
                                     THEN "cancelled" ELSE fnd[k].delivery,
                        withdraw_pending |-> \/ fnd[k].withdraw_pending
                                             \/ fnd[k].delivery = "accepted"]]
  BY DEF CancelFindings
<1>1. ASSUME NEW k \in DOMAIN fnd
      PROVE  fnd'[k] \in FindingType
  <2>1. fnd[k] \in FindingType
    BY DEF OutboxOK
  <2>2. CASE k \notin page
    BY <2>1, <2>2
  <2>3. CASE k \in page
    <3> DEFINE d == IF fnd[k].delivery = "pending" THEN "cancelled" ELSE fnd[k].delivery
               w == fnd[k].withdraw_pending \/ fnd[k].delivery = "accepted"
    <3>1. d \in {"pending", "sending", "accepted", "uncertain", "cancelled"}
      BY <2>1 DEF FindingType
    <3>2. w \in BOOLEAN
      OBVIOUS
    <3>3. fnd'[k] = [delivery |-> d, withdraw_pending |-> w]
      BY <2>3
    <3> HIDE DEF d, w
    <3> QED BY <3>1, <3>2, <3>3 DEF FindingType
  <2> QED BY <2>2, <2>3
<1>2. DOMAIN fnd' = DOMAIN fnd
  OBVIOUS
<1>3. fnd' = [k \in DOMAIN fnd |-> fnd'[k]]
  OBVIOUS
<1> QED BY <1>1, <1>2, <1>3

\* The locals of a step between two awaits.
LEMMA StepLocals ==
    ASSUME step \in [Subs -> StepType], NEW s \in Subs
    PROVE  /\ Idle \in StepType
           /\ Return(s) => step' \in [Subs -> StepType]
           /\ \A pc \in {"cancel", "stop", "launch", "spawn", "wake"} :
                 Await(s, pc) => step' \in [Subs -> StepType]
           /\ \A pc \in {"collect", "classify"} :
                 Goto(s, pc) => step' \in [Subs -> StepType]
<1>1. Idle \in StepType
  BY ConstantsType DEF Idle, StepType
<1>2. Return(s) => step' \in [Subs -> StepType]
  BY <1>1 DEF Return
<1>3. ASSUME NEW pc \in {"cancel", "stop", "launch", "spawn", "wake"}, Await(s, pc)
      PROVE  step' \in [Subs -> StepType]
  <2>1. [Idle EXCEPT !.pc = pc] \in StepType
    BY <1>1 DEF StepType
  <2> QED BY <1>3, <2>1 DEF Await
<1>4. ASSUME NEW pc \in {"collect", "classify"}, Goto(s, pc)
      PROVE  step' \in [Subs -> StepType]
  <2>1. [step[s] EXCEPT !.pc = pc] \in StepType
    BY DEF StepType
  <2>2. step' = [step EXCEPT ![s] = [step[s] EXCEPT !.pc = pc]]
    BY <1>4 DEF Goto
  <2> QED BY <2>1, <2>2
<1> QED BY <1>1, <1>2, <1>3, <1>4
-----------------------------------------------------------------------------
(* Type correctness, action by action.                                     *)

\* A row saved by a step that writes no finding.
LEMMA RowStepType ==
    ASSUME TypeOK, NEW s \in Subs, NEW r \in RecordType, save(s, r), ProcessOK',
           UNCHANGED <<fnd, tick, queued, handed>>
    PROVE  TypeOK'
BY SaveRow DEF TypeOK, OutboxOK

\* A finding committed together with its row.
LEMMA FindingStepType ==
    ASSUME TypeOK, NEW s \in Subs, NEW r \in RecordType,
           NEW outcome \in {"matched", "failed", "expired"},
           NEW occurrence \in {"expiry", "budget", "observer-timeout", "failed", "run"},
           NEW ordinal \in Nat, finding(s, r, outcome, occurrence, ordinal),
           ProcessOK', UNCHANGED <<tick, queued, handed>>
    PROVE  TypeOK'
<1>1. clock \in Nat
  BY DEF TypeOK, ProcessOK
<1>2. Concluded(r, outcome, clock) \in RecordType
  BY <1>1, ConcludedRow
<1>3. save(s, Concluded(r, outcome, clock)) /\ fnd' = WithFinding(<<s, occurrence, ordinal>>)
  BY DEF finding
<1>4. rec' \in [Subs -> RecordType]
  BY <1>2, <1>3, SaveRow DEF TypeOK
<1>5. <<s, occurrence, ordinal>> \in Keys
  BY DEF Keys
<1>6. OutboxOK'
  BY <1>3, <1>5, WithFindingType, OutboxGrows DEF TypeOK
<1> QED BY <1>4, <1>6 DEF TypeOK

\* A cancelled row and its findings.
LEMMA CancelStepType ==
    ASSUME TypeOK, NEW s \in Subs, save(s, Cancelled(rec[s])), CancelFindings(s),
           ProcessOK', UNCHANGED <<tick, queued, handed>>
    PROVE  TypeOK'
<1>1. Cancelled(rec[s]) \in RecordType
  BY CancelledRow DEF TypeOK
<1>2. rec' \in [Subs -> RecordType]
  BY <1>1, SaveRow DEF TypeOK
<1>3. OutboxOK
  BY DEF TypeOK
<1>4. /\ DOMAIN fnd' = DOMAIN fnd
      /\ fnd' \in [DOMAIN fnd' -> FindingType]
  BY <1>3, CancelFindingsType
<1>5. OutboxOK'
  BY <1>3, <1>4, OutboxGrows DEF OutboxOK
<1> QED BY <1>2, <1>5 DEF TypeOK

\* Requests of the owner.
LEMMA OwnerType ==
    ASSUME TypeOK, NEW s \in Subs, Owner(s)
    PROVE  TypeOK'
<1> USE DEF volatile, host, history
<1>1. CASE create(s)
  <2> PICK m \in Modes, life \in Lifetimes :
        save(s, [Absent EXCEPT !.state = "preparing", !.mode = m,
                   !.expires_at = IF life = 0 THEN 0 ELSE clock + life,
                   !.next_at = clock])
    BY <1>1 DEF create
  <2> DEFINE exp == IF life = 0 THEN 0 ELSE clock + life
             r == [Absent EXCEPT !.state = "preparing", !.mode = m,
                                 !.expires_at = exp, !.next_at = clock]
  <2>1. exp \in Nat /\ clock \in Nat
    BY RequestAssumption DEF TypeOK, ProcessOK
  <2>2. m \in {"until", "changes"} /\ "preparing" \in States
    BY RequestAssumption DEF States
  <2>3. save(s, r)
    OBVIOUS
  <2> HIDE DEF exp
  <2>4. r \in RecordType
    BY <2>1, <2>2, ConstantsType DEF RecordType
  <2>5. ProcessOK' /\ UNCHANGED <<fnd, tick, queued, handed>>
    BY <1>1 DEF create, TypeOK, ProcessOK
  <2> HIDE DEF r
  <2> QED BY <2>3, <2>4, <2>5, RowStepType
<1>2. CASE cancel(s)
  <2>1. ProcessOK' /\ UNCHANGED <<tick, queued, handed>>
    BY <1>2 DEF cancel, TypeOK, ProcessOK
  <2> QED BY <1>2, <2>1, CancelStepType DEF cancel
<1>3. CASE CancelStopped(s)
  <2>1. ProcessOK' /\ UNCHANGED <<fnd, tick, queued, handed>>
    BY <1>3 DEF CancelStopped, TypeOK, ProcessOK
  <2>2. [rec[s] EXCEPT !.stop_pending = FALSE] \in RecordType
    BY StoppedRow DEF TypeOK
  <2>3. CASE save(s, [rec[s] EXCEPT !.stop_pending = FALSE])
    BY <2>1, <2>2, <2>3, RowStepType
  <2>4. CASE UNCHANGED rec
    BY <2>1, <2>4 DEF TypeOK, OutboxOK
  <2> QED BY <1>3, <2>3, <2>4 DEF CancelStopped
<1> QED BY <1>1, <1>2, <1>3 DEF Owner

\* Tools of the observer.
LEMMA ObserverType ==
    ASSUME TypeOK, NEW s \in Subs, Observer(s)
    PROVE  TypeOK'
<1> USE DEF volatile, host, history
<1>1. rec[s] \in RecordType /\ clock \in Nat
  BY DEF TypeOK, ProcessOK
<1>2. CASE authorize(s)
  <2> DEFINE due == clock + ReviewWindow
             r == [rec[s] EXCEPT !.observer = TRUE, !.launch = "confirmed",
                                 !.state = "preparing", !.review_due = due]
  <2>1. due \in Nat /\ "preparing" \in States
    BY <1>1, DurationAssumption DEF States
  <2>2. save(s, r)
    BY <1>2 DEF authorize
  <2> HIDE DEF due
  <2>3. r \in RecordType
    BY <1>1, <2>1 DEF RecordType
  <2>4. ProcessOK' /\ UNCHANGED <<fnd, tick, queued, handed>>
    BY <1>2 DEF authorize, TypeOK, ProcessOK
  <2> HIDE DEF r
  <2> QED BY <2>2, <2>3, <2>4, RowStepType
<1>3. CASE install(s)
  <2> PICK kind \in Kinds : save(s, Installed(rec[s], kind, clock))
    BY <1>3 DEF install
  <2>1. Installed(rec[s], kind, clock) \in RecordType
    BY <1>1, RequestAssumption, InstalledRow
  <2>2. ProcessOK' /\ UNCHANGED <<fnd, tick, queued, handed>>
    BY <1>3 DEF install, TypeOK, ProcessOK
  <2> QED BY <2>1, <2>2, RowStepType
<1>4. CASE wait(s)
  <2>1. Waiting(rec[s], clock) \in RecordType
    BY <1>1, WaitingRow
  <2>2. ProcessOK' /\ UNCHANGED <<fnd, tick, queued, handed>>
    BY <1>4 DEF wait, TypeOK, ProcessOK
  <2> QED BY <1>4, <2>1, <2>2, RowStepType DEF wait
<1>5. CASE report(s)
  <2>1. Reported(rec[s]) \in RecordType
    BY <1>1, ReportedRow
  <2>2. rec[s].run.id \in Nat
    BY <1>1 DEF RecordType, RunType
  <2>3. ProcessOK' /\ UNCHANGED <<tick, queued, handed>>
    BY <1>5 DEF report, TypeOK, ProcessOK
  <2> QED BY <1>5, <2>1, <2>2, <2>3, FindingStepType DEF report
<1>6. CASE fail(s)
  <2>1. rec[s].generation \in Nat
    BY <1>1 DEF RecordType
  <2>2. ProcessOK' /\ UNCHANGED <<tick, queued, handed>>
    BY <1>6 DEF fail, TypeOK, ProcessOK
  <2> QED BY <1>1, <1>6, <2>1, <2>2, FindingStepType DEF fail
<1> QED BY <1>2, <1>3, <1>4, <1>5, <1>6 DEF Observer

\* Calls of the collector.
LEMMA CollectorType ==
    ASSUME TypeOK, NEW s \in Subs, Collector(s)
    PROVE  TypeOK'
<1> USE DEF volatile, host, history
<1> DEFINE r == rec[s]
<1>1. r \in RecordType /\ r.task \in TaskType
  BY DEF TypeOK, RecordType
<1>2. CASE poll(s)
  <2> DEFINE c == r.task.claimed \/ (r.state = "running" /\ r.task.id # 0 /\ ~Sealed(r.task))
             t == [r.task EXCEPT !.claimed = c]
             n == [r EXCEPT !.worker = TRUE, !.task = t]
  <2>1. c \in BOOLEAN
    OBVIOUS
  <2>2. save(s, n)
    BY <1>1, <1>2 DEF poll, RecordType
  <2> HIDE DEF c
  <2>3. t \in TaskType
    BY <1>1, <2>1 DEF TaskType
  <2> HIDE DEF t
  <2>4. n \in RecordType
    BY <1>1, <2>3 DEF RecordType
  <2>5. ProcessOK' /\ UNCHANGED <<fnd, tick, queued, handed>>
    BY <1>2 DEF poll, TypeOK, ProcessOK
  <2> HIDE DEF n
  <2> QED BY <2>2, <2>4, <2>5, RowStepType
<1>3. CASE submit(s)
  <2> PICK ok \in BOOLEAN, out \in Outputs :
        save(s, [r EXCEPT !.task.result = Run(r.task.id, r.generation, ok, out)])
    BY <1>3 DEF submit
  <2> DEFINE run == Run(r.task.id, r.generation, ok, out)
             t == [r.task EXCEPT !.result = run]
             n == [r EXCEPT !.task = t]
  <2>1. run \in RunType
    BY <1>1 DEF Run, RunType, TaskType, RecordType
  <2>2. save(s, n)
    BY <1>1 DEF RecordType
  <2> HIDE DEF run
  <2>3. t \in TaskType
    BY <1>1, <2>1 DEF TaskType
  <2> HIDE DEF t
  <2>4. n \in RecordType
    BY <1>1, <2>3 DEF RecordType
  <2>5. ProcessOK' /\ UNCHANGED <<fnd, tick, queued, handed>>
    BY <1>3 DEF submit, TypeOK, ProcessOK
  <2> HIDE DEF n
  <2> QED BY <2>2, <2>4, <2>5, RowStepType
<1> QED BY <1>2, <1>3 DEF Collector

\* The branches of step() up to the first port call.
LEMMA CheckType ==
    ASSUME TypeOK, NEW s \in Subs, Check(s)
    PROVE  TypeOK'
<1> USE DEF host, history
<1>1. /\ rec[s] \in RecordType /\ clock \in Nat
      /\ step \in [Subs -> StepType] /\ step[s].now \in Nat
  BY DEF TypeOK, ProcessOK, StepType
<1> DEFINE r == rec[s]
           Rest == UNCHANGED <<clock, tick, stopping, spawn, host, history>>
           Sound == step' \in [Subs -> StepType]
<1>2. Rest /\ Sound => ProcessOK' /\ UNCHANGED <<tick, queued, handed>>
  BY DEF TypeOK, ProcessOK
<1>3. Return(s) => Sound
  BY <1>1, StepLocals
<1>4. Await(s, "stop") \/ Await(s, "cancel") \/ Await(s, "launch") \/ Await(s, "wake")
        => Sound
  BY <1>1, StepLocals
<1>5. CASE StepFindsNothing(s)
  BY <1>2, <1>3, <1>5 DEF StepFindsNothing, durable, TypeOK, OutboxOK
<1>6. CASE StepOwnerClosed(s)
  <2>1. Rest /\ Sound
    BY <1>3, <1>4, <1>6 DEF StepOwnerClosed
  <2> QED BY <1>2, <1>6, <2>1, CancelStepType DEF StepOwnerClosed
<1>7. CASE StepExpires(s)
  <2>1. Rest /\ Sound
    BY <1>3, <1>4, <1>7 DEF StepExpires
  <2> QED BY <1>1, <1>2, <1>7, <2>1, FindingStepType DEF StepExpires
<1>8. CASE StepOutOfTurns(s)
  <2>1. Rest /\ Sound
    BY <1>3, <1>8 DEF StepOutOfTurns
  <2> QED BY <1>1, <1>2, <1>8, <2>1, FindingStepType DEF StepOutOfTurns
<1>9. CASE StepLaunches(s)
  <2> DEFINE turns == r.observer_turns + 1
             n == [r EXCEPT !.launch = "intent", !.observer_turns = turns]
  <2>1. Rest /\ Sound /\ fnd' = fnd
    BY <1>4, <1>9 DEF StepLaunches
  <2>2. turns \in Nat
    BY <1>1 DEF RecordType
  <2>3. save(s, n)
    BY <1>9 DEF StepLaunches
  <2> HIDE DEF turns
  <2>4. n \in RecordType
    BY <1>1, <2>2 DEF RecordType
  <2> HIDE DEF n
  <2> QED BY <1>2, <2>1, <2>3, <2>4, RowStepType
<1>10. CASE StepObserverTimedOut(s)
  <2>1. Rest /\ Sound
    BY <1>3, <1>4, <1>10 DEF StepObserverTimedOut
  <2> QED BY <1>1, <1>2, <1>10, <2>1, FindingStepType DEF StepObserverTimedOut
<1>11. CASE StepWakes(s)
  <2> DEFINE due == step[s].now + ReviewWindow
             turns == r.observer_turns + 1
             n == [r EXCEPT !.review_wake = "sending", !.observer_turns = turns,
                            !.review_due = due]
  <2>1. Rest /\ Sound /\ fnd' = fnd
    BY <1>4, <1>11 DEF StepWakes
  <2>2. due \in Nat /\ turns \in Nat /\ "sending" \in Wakes
    BY <1>1, DurationAssumption DEF RecordType, Wakes
  <2>3. save(s, n)
    BY <1>11 DEF StepWakes
  <2> HIDE DEF due, turns
  <2>4. n \in RecordType
    BY <1>1, <2>2 DEF RecordType
  <2> HIDE DEF n
  <2> QED BY <1>2, <2>1, <2>3, <2>4, RowStepType
<1>12. CASE StepCollects(s)
  <2> DEFINE n == [r EXCEPT !.state = "running", !.report_blocked = TRUE,
                            !.task = NoTask]
             l == [step[s] EXCEPT !.pc = "authority", !.generation = r.generation,
                                  !.baseline = r.baseline]
  <2>1. n \in RecordType
    BY <1>1, ConstantsType DEF RecordType, States
  <2>2. r.generation \in Nat /\ r.baseline \in BaselineType /\ step[s] \in StepType
    BY <1>1 DEF RecordType
  <2>3. l \in StepType
    BY <2>2 DEF StepType
  <2>4. save(s, n) /\ fnd' = fnd
    BY <1>12 DEF StepCollects
  <2>5. step' = [step EXCEPT ![s] = l]
    BY <1>1, <1>12 DEF StepCollects, StepType
  <2> HIDE DEF l, n
  <2>6. Sound
    BY <1>1, <2>3, <2>5
  <2>7. ProcessOK' /\ UNCHANGED <<tick, queued, handed>>
    BY <1>12, <2>6 DEF StepCollects, TypeOK, ProcessOK
  <2> QED BY <2>1, <2>4, <2>7, RowStepType
<1>13. CASE StepStopped(s)
  <2>1. [rec[s] EXCEPT !.stop_pending = FALSE] \in RecordType
    BY <1>1, StoppedRow
  <2>2. ProcessOK' /\ UNCHANGED <<fnd, tick, queued, handed>>
    BY <1>3, <1>13 DEF StepStopped, TypeOK, ProcessOK
  <2>3. CASE save(s, [rec[s] EXCEPT !.stop_pending = FALSE])
    BY <2>1, <2>2, <2>3, RowStepType
  <2>4. CASE UNCHANGED rec
    BY <2>2, <2>4 DEF TypeOK, OutboxOK
  <2> QED BY <1>13, <2>3, <2>4 DEF StepStopped
<1> QED
  BY <1>5, <1>6, <1>7, <1>8, <1>9, <1>10, <1>11, <1>12, <1>13 DEF Check

\* The launch of the observer.
LEMMA LaunchUncertainType ==
    ASSUME TypeOK, NEW s \in Subs, LaunchUncertain(s),
           UNCHANGED <<clock, tick, stopping, host, history>>, spawn' \subseteq Subs
    PROVE  TypeOK'
<1>1. rec[s] \in RecordType /\ OutboxOK
  BY DEF TypeOK
<1>2. step' \in [Subs -> StepType]
  BY StepLocals DEF LaunchUncertain, TypeOK, ProcessOK
<1>3. ProcessOK' /\ UNCHANGED <<tick, queued, handed>>
  BY <1>2 DEF host, history, TypeOK, ProcessOK
<1>4. CASE UNCHANGED durable
  BY <1>3, <1>4 DEF durable, TypeOK, OutboxOK
<1>5. CASE save(s, [rec[s] EXCEPT !.state = "uncertain"]) /\ attention(s)
  <2>1. [rec[s] EXCEPT !.state = "uncertain"] \in RecordType
    BY <1>1 DEF RecordType, States
  <2>2. rec' \in [Subs -> RecordType]
    BY <1>5, <2>1, SaveRow DEF TypeOK
  <2>3. <<s, "attention", 0>> \in Keys
    BY DEF Keys
  <2>4. OutboxOK'
    BY <1>1, <1>3, <1>5, <2>3, WithFindingType, OutboxGrows DEF attention
  <2> QED BY <1>3, <2>2, <2>4 DEF TypeOK
<1> QED BY <1>4, <1>5 DEF LaunchUncertain

\* Every way the launch of an observer goes on.
LEMMA LaunchType ==
    ASSUME TypeOK, NEW s \in Subs, Launch(s)
    PROVE  TypeOK'
<1>1. /\ rec[s] \in RecordType /\ clock \in Nat
      /\ step \in [Subs -> StepType] /\ spawn \subseteq Subs
  BY DEF TypeOK, ProcessOK
<1>2. CASE LaunchRefused(s)
  BY <1>1, <1>2, LaunchUncertainType DEF LaunchRefused
<1>3. CASE RequestSpawn(s)
  <2>1. step' \in [Subs -> StepType]
    BY <1>1, <1>3, StepLocals DEF RequestSpawn
  <2>2. spawns' \in [Subs -> Nat] /\ spawn' \subseteq Subs
    BY <1>1, <1>3 DEF RequestSpawn, TypeOK, ProcessOK
  <2>3. ProcessOK'
    BY <1>3, <2>1, <2>2 DEF RequestSpawn, TypeOK, ProcessOK, host
  <2> QED BY <1>3, <2>3 DEF RequestSpawn, durable, host, TypeOK, OutboxOK
<1>4. CASE LaunchTimesOut(s)
  BY <1>1, <1>4, LaunchUncertainType DEF LaunchTimesOut
<1>5. CASE SpawnResolves(s)
  <2>1. Bound(rec[s], clock) \in RecordType
    BY <1>1, BoundRow
  <2>2. step' \in [Subs -> StepType]
    BY <1>1, <1>5, StepLocals DEF SpawnResolves
  <2>3. ProcessOK' /\ UNCHANGED <<fnd, tick, queued, handed>>
    BY <1>5, <2>2 DEF SpawnResolves, TypeOK, ProcessOK, host, history
  <2> QED BY <1>5, <2>1, <2>3, RowStepType DEF SpawnResolves
<1>6. CASE SpawnRejects(s)
  <2>1. spawn' \subseteq Subs
    BY <1>1, <1>6 DEF SpawnRejects
  <2>2. CASE LaunchUncertain(s)
    BY <1>6, <2>1, <2>2, LaunchUncertainType DEF SpawnRejects
  <2>3. CASE UNCHANGED <<durable, step>>
    BY <1>6, <2>1, <2>3
       DEF SpawnRejects, durable, host, history, TypeOK, ProcessOK, OutboxOK
  <2> QED BY <1>6, <2>2, <2>3 DEF SpawnRejects
<1>7. CASE HostSpawns(s)
  BY <1>7 DEF HostSpawns, durable, volatile, history, TypeOK, ProcessOK, OutboxOK
<1> QED BY <1>2, <1>3, <1>4, <1>5, <1>6, <1>7 DEF Launch

\* The review wake.
LEMMA WakeType ==
    ASSUME TypeOK, NEW s \in Subs, Wake(s)
    PROVE  TypeOK'
<1>1. rec[s] \in RecordType
  BY DEF TypeOK
<1>2. /\ [rec[s] EXCEPT !.review_wake = "accepted"] \in RecordType
      /\ [rec[s] EXCEPT !.review_wake = "uncertain"] \in RecordType
  BY <1>1 DEF RecordType, Wakes
<1>3. step' \in [Subs -> StepType]
  BY StepLocals DEF Wake, WakeAccepted, WakeUncertain, TypeOK, ProcessOK
<1>4. ProcessOK' /\ UNCHANGED <<fnd, tick, queued, handed>>
  BY <1>3 DEF Wake, WakeAccepted, WakeUncertain, TypeOK, ProcessOK, host, history
<1>5. \/ save(s, [rec[s] EXCEPT !.review_wake = "accepted"])
      \/ save(s, [rec[s] EXCEPT !.review_wake = "uncertain"])
      \/ UNCHANGED rec
  BY DEF Wake, WakeAccepted, WakeUncertain
<1>6. CASE UNCHANGED rec
  BY <1>4, <1>6 DEF TypeOK, OutboxOK
<1> QED BY <1>2, <1>4, <1>5, <1>6, RowStepType

\* Collection and classification.
LEMMA CollectionType ==
    ASSUME TypeOK, NEW s \in Subs, Collection(s)
    PROVE  TypeOK'
<1> USE DEF host, history
<1>1. /\ rec[s] \in RecordType /\ clock \in Nat
      /\ step \in [Subs -> StepType] /\ step[s] \in StepType
      /\ step[s].now \in Nat /\ step[s].run \in RunType
      /\ rec[s].task \in TaskType
  BY DEF TypeOK, ProcessOK, StepType, RecordType
<1>2. ASSUME StepThrows(s)
      PROVE  TypeOK'
  <2>1. Thrown(rec[s], step[s].now) \in RecordType
    BY <1>1, ThrownRow
  <2>2. step' \in [Subs -> StepType]
    BY <1>1, <1>2, StepLocals DEF StepThrows
  <2>3. ProcessOK' /\ UNCHANGED <<fnd, tick, queued, handed>>
    BY <1>2, <2>2 DEF StepThrows, TypeOK, ProcessOK
  <2> QED BY <1>2, <2>1, <2>3, RowStepType DEF StepThrows
<1>3. ASSUME Discarded(s)
      PROVE  TypeOK'
  <2>1. step' \in [Subs -> StepType]
    BY <1>1, <1>3, StepLocals DEF Discarded
  <2> QED BY <1>3, <2>1 DEF Discarded, durable, TypeOK, ProcessOK, OutboxOK
<1>4. ASSUME ExpiredMeanwhile(s)
      PROVE  TypeOK'
  <2>1. step' \in [Subs -> StepType]
    BY <1>1, <1>4, StepLocals DEF ExpiredMeanwhile
  <2>2. ProcessOK' /\ UNCHANGED <<tick, queued, handed>>
    BY <1>4, <2>1 DEF ExpiredMeanwhile, TypeOK, ProcessOK
  <2> QED BY <1>1, <1>4, <2>2, FindingStepType DEF ExpiredMeanwhile
<1>5. CASE PortThrows(s) \/ CollectAborts(s)
  BY <1>2, <1>5 DEF PortThrows, CollectAborts
<1>6. CASE AssignTask(s)
  <2> DEFINE t == [NoTask EXCEPT !.id = attempts[s]]
             n == [rec[s] EXCEPT !.task = t]
  <2>1. attempts[s] \in Nat
    BY DEF TypeOK, ProcessOK
  <2>2. t \in TaskType
    BY <2>1, ConstantsType DEF TaskType
  <2>3. save(s, n)
    BY <1>6 DEF AssignTask
  <2> HIDE DEF t
  <2>4. n \in RecordType
    BY <1>1, <2>2 DEF RecordType
  <2>5. step' \in [Subs -> StepType]
    BY <1>1, <1>6, StepLocals DEF AssignTask
  <2>6. ProcessOK' /\ UNCHANGED <<fnd, tick, queued, handed>>
    BY <1>6, <2>5 DEF AssignTask, TypeOK, ProcessOK
  <2> HIDE DEF n
  <2> QED BY <2>3, <2>4, <2>6, RowStepType
<1>7. CASE CollectReturns(s)
  <2> DEFINE l == [step[s] EXCEPT !.pc = "recheck", !.run = rec[s].task.result]
  <2>1. rec[s].task.result \in RunType
    BY <1>1 DEF TaskType
  <2>2. l \in StepType
    BY <1>1, <2>1 DEF StepType
  <2>3. step' = [step EXCEPT ![s] = l]
    BY <1>1, <1>7 DEF CollectReturns, StepType
  <2> HIDE DEF l
  <2>4. step' \in [Subs -> StepType]
    BY <1>1, <2>2, <2>3
  <2> QED BY <1>7, <2>4 DEF CollectReturns, durable, TypeOK, ProcessOK, OutboxOK
<1>8. CASE CollectTimesOut(s)
  <2> DEFINE failed == Run(rec[s].task.id, step[s].generation, FALSE, "garbled")
             t == [rec[s].task EXCEPT !.result = failed]
             n == [rec[s] EXCEPT !.task = t]
             l == [step[s] EXCEPT !.pc = "recheck", !.run = failed]
  <2>1. failed \in RunType
    BY <1>1 DEF Run, RunType, TaskType, StepType, Outputs
  <2>2. save(s, n)
    BY <1>1, <1>8 DEF CollectTimesOut, RecordType
  <2>3. step' = [step EXCEPT ![s] = l]
    BY <1>1, <1>8 DEF CollectTimesOut, StepType
  <2>4. UNCHANGED <<clock, fnd, tick, stopping, spawn, host, history>>
    BY <1>8 DEF CollectTimesOut
  <2> HIDE DEF failed
  <2>5. t \in TaskType
    BY <1>1, <2>1 DEF TaskType
  <2>6. l \in StepType
    BY <1>1, <2>1 DEF StepType
  <2> HIDE DEF t, l
  <2>7. n \in RecordType
    BY <1>1, <2>5 DEF RecordType
  <2>8. step' \in [Subs -> StepType]
    BY <1>1, <2>3, <2>6
  <2>9. ProcessOK' /\ UNCHANGED <<fnd, tick, queued, handed>>
    BY <2>4, <2>8 DEF TypeOK, ProcessOK
  <2> HIDE DEF n
  <2> QED BY <2>2, <2>7, <2>9, RowStepType
<1>9. CASE CollectionDone(s)
  <2>1. CASE Goto(s, "classify")
             /\ UNCHANGED <<clock, durable, tick, stopping, spawn, host, history>>
    <3>1. step' \in [Subs -> StepType]
      BY <1>1, <2>1, StepLocals
    <3> QED BY <2>1, <3>1 DEF durable, TypeOK, ProcessOK, OutboxOK
  <2> QED BY <1>3, <1>4, <1>9, <2>1 DEF CollectionDone
<1>10. CASE ClassificationDone(s)
  <2>1. ASSUME NEW d, save(s, Classified(rec[s], step[s].run, d, clock)), Return(s),
               UNCHANGED <<clock, fnd, tick, stopping, spawn, host, history>>
        PROVE  TypeOK'
    <3>1. Classified(rec[s], step[s].run, d, clock) \in RecordType
      BY <1>1, ClassifiedRow
    <3>2. step' \in [Subs -> StepType]
      BY <1>1, <2>1, StepLocals
    <3>3. ProcessOK' /\ UNCHANGED <<fnd, tick, queued, handed>>
      BY <2>1, <3>2 DEF TypeOK, ProcessOK
    <3> QED BY <2>1, <3>1, <3>3, RowStepType
  <2> QED BY <1>3, <1>4, <1>10, <2>1 DEF ClassificationDone
<1> QED BY <1>5, <1>6, <1>7, <1>8, <1>9, <1>10 DEF Collection

\* What tick() goes on with: findings of the outbox, stops of subscriptions.
LEMMA DeliveringType ==
    ASSUME NEW page, page \subseteq DOMAIN fnd, DOMAIN fnd \subseteq Keys
    PROVE  /\ Delivering(page) \in TickType
           /\ Delivering(page).todo \subseteq page
           /\ Delivering(page).pc \in {"idle", "deliver"}
<1>1. TickIdle \in TickType /\ TickIdle.todo = {} /\ TickIdle.pc = "idle"
  BY DEF TickIdle, TickType
<1>2. CASE page = {}
  BY <1>1, <1>2 DEF Delivering
<1>3. CASE page # {}
  <2> DEFINE t == [TickIdle EXCEPT !.pc = "deliver", !.todo = page]
  <2>1. t \in TickType /\ t.todo = page /\ t.pc = "deliver"
    BY <1>1 DEF TickType
  <2> QED BY <1>3, <2>1 DEF Delivering
<1> QED BY <1>2, <1>3

\* The part of tick() that begins steps and reads the outbox.
LEMMA EnterDispatchType ==
    ASSUME TypeOK, NEW now \in Nat, EnterDispatch(now)
    PROVE  /\ step' \in [Subs -> StepType]
           /\ tick' \in TickType /\ tick'.todo \subseteq DOMAIN fnd
           /\ tick'.pc \in {"idle", "deliver"}
<1>1. step \in [Subs -> StepType] /\ DOMAIN fnd \subseteq Keys
  BY DEF TypeOK, ProcessOK, OutboxOK
<1>2. PICK begun \in SUBSET {s \in Active \ Busy : Due(rec[s], now)} :
        step' = [s \in Subs |-> IF s \in begun
                               THEN [Idle EXCEPT !.pc = "owner", !.now = now]
                               ELSE step[s]]
  BY DEF EnterDispatch
<1>3. Idle \in StepType
  BY ConstantsType DEF Idle, StepType
<1>4. [Idle EXCEPT !.pc = "owner", !.now = now] \in StepType
  BY <1>3 DEF StepType
<1>5. step' \in [Subs -> StepType]
  BY <1>1, <1>2, <1>4
<1>6. PICK page \in Pages(findings) :
        tick' = Delivering({k \in page : fnd[k].delivery = "pending"})
  BY DEF EnterDispatch
<1>7. {k \in page : fnd[k].delivery = "pending"} \subseteq DOMAIN fnd
  BY <1>6, PagesSubset DEF findings
<1> QED BY <1>1, <1>5, <1>6, <1>7, DeliveringType

\* The part of tick() that reads the owed stops, or passes on to dispatch.
LEMMA EnterCleanupType ==
    ASSUME TypeOK, NEW now \in Nat, EnterCleanup(now)
    PROVE  /\ step' \in [Subs -> StepType]
           /\ tick' \in TickType /\ tick'.todo \subseteq DOMAIN fnd
           /\ tick'.pc \in {"idle", "deliver", "cleanup"}
<1>1. PICK page \in Pages(cleanups) :
        IF page = {} THEN EnterDispatch(now)
        ELSE /\ tick' = [TickIdle EXCEPT !.pc = "cleanup", !.now = now, !.stops = page]
             /\ UNCHANGED step
  BY DEF EnterCleanup
<1>2. CASE page = {}
  BY <1>1, <1>2, EnterDispatchType
<1>3. CASE page # {}
  <2>1. page \subseteq Subs
    BY <1>1, PagesSubset DEF cleanups
  <2>2. TickIdle \in TickType /\ TickIdle.todo = {}
    BY DEF TickIdle, TickType
  <2> DEFINE t == [TickIdle EXCEPT !.pc = "cleanup", !.now = now, !.stops = page]
  <2>3. t \in TickType /\ t.todo = {} /\ t.pc = "cleanup"
    BY <2>1, <2>2 DEF TickType
  <2>4. tick' = t /\ step' = step
    BY <1>1, <1>3
  <2> HIDE DEF t
  <2> QED BY <2>3, <2>4 DEF TypeOK, ProcessOK
<1> QED BY <1>2, <1>3

\* A finding rewritten by tick() keeps the outbox a function on its keys.
LEMMA FindingRewritten ==
    ASSUME OutboxOK, NEW k \in DOMAIN fnd, NEW f \in FindingType,
           fnd' = [fnd EXCEPT ![k] = f]
    PROVE  DOMAIN fnd' = DOMAIN fnd /\ fnd' \in [DOMAIN fnd' -> FindingType]
BY DEF OutboxOK

\* The sweep: withdrawals, cleanups and the dispatch of checks.
LEMMA SweepType ==
    ASSUME TypeOK, Sweep
    PROVE  TypeOK'
<1> USE DEF host, history
<1>1. /\ clock \in Nat /\ OutboxOK /\ tick \in TickType /\ tick.now \in Nat
      /\ step \in [Subs -> StepType] /\ tick.todo \subseteq DOMAIN fnd
      /\ tick.stops \subseteq Subs
  BY DEF TypeOK, ProcessOK, OutboxOK, TickType
<1>2. CASE TickBegins
  <2>1. UNCHANGED <<clock, rec, fnd, stopping, spawn, live, halted, queued, handed,
                    spawns, attempts, crashes>>
    BY <1>2 DEF TickBegins, durable
  <2>2. PICK page \in Pages(withdrawals) :
          IF page = {} THEN EnterCleanup(clock)
          ELSE /\ tick' = [TickIdle EXCEPT !.pc = "withdraw", !.now = clock, !.todo = page]
               /\ UNCHANGED step
    BY <1>2 DEF TickBegins
  <2>3. /\ step' \in [Subs -> StepType] /\ tick' \in TickType
        /\ tick'.todo \subseteq DOMAIN fnd
        /\ tick'.pc \in {"idle", "deliver", "cleanup", "withdraw"}
    <3>1. CASE page = {}
      BY <1>1, <2>2, <3>1, EnterCleanupType
    <3>2. CASE page # {}
      <4> DEFINE t == [TickIdle EXCEPT !.pc = "withdraw", !.now = clock, !.todo = page]
      <4>1. page \subseteq DOMAIN fnd /\ page \subseteq Keys
        BY <1>1, <2>2, PagesSubset DEF withdrawals, OutboxOK
      <4>2. TickIdle \in TickType
        BY DEF TickIdle, TickType
      <4>3. t \in TickType /\ t.todo = page /\ t.pc = "withdraw"
        BY <1>1, <4>1, <4>2 DEF TickType
      <4>4. tick' = t /\ step' = step
        BY <2>2, <3>2
      <4> HIDE DEF t
      <4> QED BY <1>1, <4>1, <4>3, <4>4
    <3> QED BY <3>1, <3>2
  <2> QED BY <2>1, <2>3 DEF TypeOK, ProcessOK, OutboxOK
<1>3. ASSUME NEW k \in tick.todo, TickWithdraws(k)
      PROVE  TypeOK'
  <2>1. /\ UNCHANGED <<clock, rec, stopping, spawn, live, halted, handed,
                       spawns, attempts, crashes>>
        /\ queued' \subseteq queued
    BY <1>3 DEF TickWithdraws
  <2>2. \/ fnd' = fnd
        \/ fnd' = [fnd EXCEPT ![k] = [delivery |-> "cancelled", withdraw_pending |-> FALSE]]
        \/ fnd' = [fnd EXCEPT ![k] = [delivery |-> "accepted", withdraw_pending |-> FALSE]]
    BY <1>3 DEF TickWithdraws
  <2>3. DOMAIN fnd' = DOMAIN fnd /\ fnd' \in [DOMAIN fnd' -> FindingType]
    <3>1. /\ [delivery |-> "cancelled", withdraw_pending |-> FALSE] \in FindingType
          /\ [delivery |-> "accepted", withdraw_pending |-> FALSE] \in FindingType
      BY DEF FindingType
    <3>2. k \in DOMAIN fnd
      BY <1>1, <1>3
    <3>3. CASE fnd' = fnd
      BY <1>1, <3>3 DEF OutboxOK
    <3> QED BY <1>1, <2>2, <3>1, <3>2, <3>3, FindingRewritten
  <2>4. /\ step' \in [Subs -> StepType] /\ tick' \in TickType
        /\ tick'.todo \subseteq DOMAIN fnd
        /\ tick'.pc \in {"idle", "deliver", "cleanup", "withdraw"}
    <3>1. CASE tick.todo = {k}
      BY <1>1, <1>3, <3>1, EnterCleanupType DEF TickWithdraws
    <3>2. CASE tick.todo # {k}
      <4> DEFINE rest == tick.todo \ {k}
                 t == [tick EXCEPT !.todo = rest]
      <4>1. rest \subseteq DOMAIN fnd /\ rest \subseteq Keys
        BY <1>1 DEF OutboxOK
      <4>2. tick' = t /\ step' = step /\ tick.pc = "withdraw"
        BY <1>3, <3>2 DEF TickWithdraws, InTick
      <4> HIDE DEF rest
      <4>3. t \in TickType /\ t.todo = rest /\ t.pc = "withdraw"
        BY <1>1, <4>1, <4>2 DEF TickType
      <4> HIDE DEF t
      <4> QED BY <1>1, <4>1, <4>2, <4>3
    <3> QED BY <3>1, <3>2
  <2> QED BY <2>1, <2>3, <2>4 DEF TypeOK, ProcessOK, OutboxOK
<1>4. ASSUME NEW s \in tick.stops, TickStops(s)
      PROVE  TypeOK'
  <2>1. /\ UNCHANGED <<clock, fnd, stopping, spawn, live, queued, handed,
                       spawns, attempts, crashes>>
        /\ halted' \subseteq halted \cup {s}
    BY <1>4 DEF TickStops
  <2>2. s \in Subs /\ rec[s] \in RecordType
    BY <1>1, <1>4 DEF TypeOK
  <2>3. rec' \in [Subs -> RecordType]
    <3>1. CASE UNCHANGED rec
      BY <3>1 DEF TypeOK
    <3>2. CASE save(s, [rec[s] EXCEPT !.stop_pending = FALSE])
      BY <2>2, <3>2, StoppedRow, SaveRow DEF TypeOK
    <3> QED BY <1>4, <3>1, <3>2 DEF TickStops
  <2>4. /\ step' \in [Subs -> StepType] /\ tick' \in TickType
        /\ tick'.todo \subseteq DOMAIN fnd
        /\ tick'.pc \in {"idle", "deliver", "cleanup"}
    <3>1. CASE tick.stops = {s}
      BY <1>1, <1>4, <3>1, EnterDispatchType DEF TickStops
    <3>2. CASE tick.stops # {s}
      <4> DEFINE rest == tick.stops \ {s}
                 t == [tick EXCEPT !.stops = rest]
      <4>1. rest \subseteq Subs
        BY <1>1
      <4>2. tick' = t /\ step' = step /\ tick.pc = "cleanup"
        BY <1>4, <3>2 DEF TickStops, InTick
      <4> HIDE DEF rest
      <4>3. t \in TickType /\ t.todo = tick.todo /\ t.pc = "cleanup"
        BY <1>1, <4>1, <4>2 DEF TickType
      <4> HIDE DEF t
      <4> QED BY <1>1, <4>2, <4>3
    <3> QED BY <3>1, <3>2
  <2> QED BY <2>1, <2>2, <2>3, <2>4 DEF TypeOK, ProcessOK, OutboxOK
<1> QED BY <1>2, <1>3, <1>4 DEF Sweep

\* The delivery loop.
LEMMA DeliveryType ==
    ASSUME TypeOK, Delivery
    PROVE  TypeOK'
<1> USE DEF host, history
<1>1. /\ OutboxOK /\ tick \in TickType /\ tick.todo \subseteq DOMAIN fnd
      /\ DOMAIN fnd \subseteq Keys
  BY DEF TypeOK, OutboxOK
<1>2. UNCHANGED <<clock, rec, step, stopping, spawn, live, halted,
                  spawns, attempts, crashes>>
  BY DEF Delivery, TickPicks, TickOwnerAway, TickSends, TickSent, TickSendFails, durable
<1>3. rec' \in [Subs -> RecordType] /\ ProcessOK'
  BY <1>2 DEF TypeOK, ProcessOK
<1>4. \A d \in {"pending", "sending", "accepted", "uncertain", "cancelled"} :
         [Pending EXCEPT !.delivery = d] \in FindingType
  BY DEF Pending, FindingType
<1>5. Delivering(tick.todo) \in TickType /\ Delivering(tick.todo).todo \subseteq tick.todo
        /\ Delivering(tick.todo).pc \in {"idle", "deliver"}
  BY <1>1, DeliveringType
<1>6. ASSUME NEW k \in tick.todo, TickPicks(k)
      PROVE  OutboxOK'
  <2> DEFINE rest == tick.todo \ {k}
             t == [tick EXCEPT !.todo = rest, !.cur = k, !.pc = "owner"]
  <2>1. k \in DOMAIN fnd /\ rest \subseteq DOMAIN fnd /\ rest \subseteq Keys /\ k \in Keys
    BY <1>1, <1>6
  <2>2. queued' = queued /\ handed' = handed
    BY <1>6 DEF TickPicks
  <2>3. CASE /\ fnd' = [fnd EXCEPT ![k] = [Pending EXCEPT !.delivery = "cancelled"]]
             /\ tick' = Delivering(rest)
    <3>1. /\ Delivering(rest) \in TickType /\ Delivering(rest).todo \subseteq rest
          /\ Delivering(rest).pc \in {"idle", "deliver"}
      BY <1>1, <2>1, DeliveringType
    <3>2. DOMAIN fnd' = DOMAIN fnd /\ fnd' \in [DOMAIN fnd' -> FindingType]
      BY <1>1, <1>4, <2>1, <2>3, FindingRewritten
    <3> QED BY <1>1, <2>1, <2>2, <2>3, <3>1, <3>2 DEF OutboxOK
  <2>4. CASE tick' = t /\ fnd' = fnd
    <3> HIDE DEF rest
    <3>1. t \in TickType /\ t.todo = rest /\ t.cur = k
      BY <1>1, <2>1 DEF TickType
    <3> HIDE DEF t
    <3> QED BY <2>1, <2>2, <2>4, <3>1 DEF OutboxOK, TypeOK
  <2> QED BY <1>6, <2>3, <2>4 DEF TickPicks
<1>7. ASSUME TickOwnerAway PROVE OutboxOK'
  <2>1. UNCHANGED <<fnd, queued, handed>> /\ tick' = Delivering(tick.todo)
    BY <1>7 DEF TickOwnerAway, durable
  <2> QED BY <1>1, <1>5, <2>1 DEF OutboxOK
<1>8. ASSUME TickSends PROVE OutboxOK'
  <2>1. tick.cur \in DOMAIN fnd /\ tick.pc = "owner"
    BY <1>1, <1>8 DEF TickSends, InTick, OutboxOK
  <2>2. CASE /\ fnd' = [fnd EXCEPT ![tick.cur] = [Pending EXCEPT !.delivery = "cancelled"]]
             /\ tick' = Delivering(tick.todo) /\ UNCHANGED <<queued, handed>>
    <3>1. DOMAIN fnd' = DOMAIN fnd /\ fnd' \in [DOMAIN fnd' -> FindingType]
      BY <1>1, <1>4, <2>1, <2>2, FindingRewritten
    <3> QED BY <1>1, <1>5, <2>2, <3>1 DEF OutboxOK
  <2>3. CASE /\ fnd' = [fnd EXCEPT ![tick.cur] = [Pending EXCEPT !.delivery = "sending"]]
             /\ tick' = [tick EXCEPT !.pc = "send"]
             /\ handed' = handed \cup {tick.cur} /\ UNCHANGED queued
    <3>1. DOMAIN fnd' = DOMAIN fnd /\ fnd' \in [DOMAIN fnd' -> FindingType]
      BY <1>1, <1>4, <2>1, <2>3, FindingRewritten
    <3>2. tick' \in TickType /\ tick'.todo = tick.todo /\ tick'.cur = tick.cur
      BY <1>1, <2>3 DEF TickType
    <3> QED BY <1>1, <2>1, <2>3, <3>1, <3>2 DEF OutboxOK
  <2> QED BY <1>8, <2>2, <2>3 DEF TickSends
<1>9. ASSUME TickSent \/ TickSendFails PROVE OutboxOK'
  <2>1. tick.cur \in DOMAIN fnd /\ rec[tick.cur[1]].notifications_cancelled \in BOOLEAN
    <3>1. tick.cur \in DOMAIN fnd /\ tick.cur \in Keys
      BY <1>1, <1>9 DEF TickSent, TickSendFails, InTick, OutboxOK
    <3>2. tick.cur[1] \in Subs
      BY <3>1 DEF Keys
    <3> QED BY <3>1, <3>2 DEF TypeOK, RecordType
  <2>2. /\ tick' = Delivering(tick.todo) /\ handed' = handed
        /\ queued' \subseteq queued \cup {tick.cur}
    BY <1>9 DEF TickSent, TickSendFails
  <2>3. DOMAIN fnd' = DOMAIN fnd /\ fnd' \in [DOMAIN fnd' -> FindingType]
    <3> DEFINE n == rec[tick.cur[1]].notifications_cancelled
    <3>1. [delivery |-> "accepted", withdraw_pending |-> n] \in FindingType
      BY <2>1 DEF FindingType
    <3>2. CASE TickSent
      BY <1>1, <2>1, <3>1, <3>2, FindingRewritten DEF TickSent
    <3>3. CASE TickSendFails
      BY <1>1, <1>4, <2>1, <3>3, FindingRewritten DEF TickSendFails
    <3> QED BY <1>9, <3>2, <3>3
  <2> QED BY <1>1, <1>5, <2>1, <2>2, <2>3 DEF OutboxOK
<1> QED BY <1>3, <1>6, <1>7, <1>8, <1>9 DEF Delivery, TypeOK

\* Time, the owner's queue, a crash with its recovery.
LEMMA EnvironmentType ==
    ASSUME TypeOK, Environment
    PROVE  TypeOK'
<1>1. CASE TimePasses
  BY <1>1 DEF TimePasses, durable, volatile, host, history, TypeOK, ProcessOK, OutboxOK
<1>2. ASSUME NEW k \in queued, Dispatched(k)
      PROVE  TypeOK'
  BY <1>2 DEF Dispatched, durable, volatile, history, TypeOK, ProcessOK, OutboxOK
<1>3. CASE recover
  <2>1. /\ rec \in [Subs -> RecordType] /\ clock \in Nat /\ OutboxOK
        /\ DOMAIN fnd \subseteq Keys /\ fnd \in [DOMAIN fnd -> FindingType]
    BY DEF TypeOK, ProcessOK, OutboxOK
  <2>2. rec' \in [Subs -> RecordType]
    <3>1. \A s \in Active : Recovered(rec[s], clock) \in RecordType
      BY <2>1, RecoveredRow DEF Active, terminal
    <3> QED BY <1>3, <2>1, <3>1 DEF recover
  <2>3. Idle \in StepType /\ TickIdle \in TickType /\ TickIdle.todo = {}
          /\ TickIdle.pc = "idle"
    BY ConstantsType DEF Idle, StepType, TickIdle, TickType
  <2>4. ProcessOK'
    <3>1. step' \in [Subs -> StepType]
      BY <1>3, <2>3 DEF recover
    <3>2. stopping' \in [Subs -> Nat]
      BY <1>3 DEF recover
    <3> QED BY <1>3, <3>1, <3>2 DEF recover, host, TypeOK, ProcessOK
  <2>5. PICK lost, page :
          /\ lost \subseteq Keys
          /\ fnd' = [k \in DOMAIN fnd \cup lost |->
                       IF k \notin DOMAIN fnd THEN Pending
                       ELSE IF k \in page THEN RecoveredFinding(fnd[k])
                       ELSE fnd[k]]
    <3> DEFINE l == {<<s, "attention", 0>> :
                       s \in {t \in Active : rec[t].launch = "intent"}}
    <3>1. l \subseteq Keys
      BY DEF Keys, Active
    <3> QED BY <1>3, <3>1 DEF recover
  <2>6. \A f \in FindingType : RecoveredFinding(f) \in FindingType
    BY DEF FindingType, RecoveredFinding
  <2>7. Pending \in FindingType
    BY DEF Pending, FindingType
  <2>8. /\ DOMAIN fnd \subseteq DOMAIN fnd' /\ DOMAIN fnd' \subseteq Keys
        /\ fnd' \in [DOMAIN fnd' -> FindingType]
    BY <2>1, <2>5, <2>6, <2>7
  <2>9. tick' = TickIdle /\ queued' = queued /\ handed' = handed
    BY <1>3 DEF recover, host
  <2>10. OutboxOK'
    BY <2>1, <2>3, <2>8, <2>9 DEF OutboxOK
  <2> QED BY <2>2, <2>4, <2>10 DEF TypeOK
<1> QED BY <1>1, <1>2, <1>3 DEF Environment

\* The initial state is well typed.
LEMMA InitType == Init => TypeOK
<1> SUFFICES ASSUME Init PROVE TypeOK
  OBVIOUS
<1>1. rec \in [Subs -> RecordType]
  BY ConstantsType DEF Init
<1>2. ProcessOK
  <2>1. Idle \in StepType
    BY ConstantsType DEF Idle, StepType
  <2> QED BY <2>1 DEF Init, ProcessOK
<1>3. OutboxOK
  <2>1. TickIdle \in TickType /\ TickIdle.todo = {} /\ TickIdle.pc = "idle"
    BY DEF TickIdle, TickType
  <2> QED BY <2>1 DEF Init, OutboxOK
<1> QED BY <1>1, <1>2, <1>3 DEF TypeOK

\* Every step keeps the types.
LEMMA NextType ==
    ASSUME TypeOK, [Next]_vars
    PROVE  TypeOK'
<1>1. CASE UNCHANGED vars
  BY <1>1 DEF vars, TypeOK, ProcessOK, OutboxOK
<1>2. ASSUME NEW s \in Subs,
             \/ Owner(s) \/ Observer(s) \/ Collector(s) \/ Check(s)
             \/ Launch(s) \/ Wake(s) \/ Collection(s)
      PROVE  TypeOK'
  BY <1>2, OwnerType, ObserverType, CollectorType, CheckType, LaunchType,
     WakeType, CollectionType
<1> QED BY <1>1, <1>2, SweepType, DeliveryType, EnvironmentType DEF Next

\* TypeOK is an invariant: every variable of the service has its type, and a
\* suspended tick() only refers to findings that are in the outbox.
THEOREM TypeCorrect == Spec => []TypeOK
BY InitType, NextType, PTL DEF Spec

-----------------------------------------------------------------------------
(***************************************************************************)
(* Three properties of a subscription's life, proved together from one     *)
(* inductive invariant: a closed subscription stays closed, its observer   *)
(* is stopped or owed a stop, and it is launched at most once.             *)
(*                                                                         *)
(* Most actions are orderly: they leave the launch of a row alone and      *)
(* handle its end properly.  Only create, authorize, the step that records *)
(* the launch intent, the spawn request and its answer are treated apart.  *)
(***************************************************************************)
\* The observer of one subscription is stopped or owed a stop.
OwedStop(s) ==
    terminal(rec[s].state) /\ rec[s].observer =>
        rec[s].stop_pending \/ s \in halted

\* Why a second spawn is impossible: a row without launch intent was never
\* launched, a step about to launch has recorded the intent and not yet
\* asked, and only requests that were made are awaited.
LaunchLedger(s) ==
    /\ spawns[s] <= 1
    /\ rec[s].state = "absent" => rec[s].launch = "none"
    /\ rec[s].launch = "none" =>
          spawns[s] = 0 /\ step[s].pc # "launch" /\ s \notin spawn
    /\ step[s].pc = "launch" => spawns[s] = 0

\* The inductive invariant.
LifecycleInv == TypeOK /\ \A s \in Subs : OwedStop(s) /\ LaunchLedger(s)

\* What every step does for each subscription.
Kept(s) ==
    /\ terminal(rec[s].state) => rec'[s].state = rec[s].state
    /\ OwedStop(s)'
    /\ LaunchLedger(s)'

\* How most steps treat the row: they neither launch nor reopen, and a stop
\* no longer owed has been asked for.
OrderlyRow(s) ==
    /\ terminal(rec[s].state) => rec'[s].state = rec[s].state
    /\ rec'[s].launch = rec[s].launch
    /\ rec'[s].state = "absent" => rec[s].state = "absent"
    /\ terminal(rec'[s].state) /\ rec'[s].observer =>
          \/ rec'[s].stop_pending \/ s \in halted'
          \/ /\ terminal(rec[s].state) /\ rec[s].observer
             /\ rec[s].stop_pending = rec'[s].stop_pending

\* How most steps treat the process: they request no spawn.
OrderlyProcess(s) ==
    /\ halted \subseteq halted'
    /\ step'[s].pc = "launch" => step[s].pc = "launch"
    /\ spawns'[s] = spawns[s]
    /\ s \in spawn' => s \in spawn

\* Orderly steps keep the invariant.
LEMMA OrderlyKeeps ==
    ASSUME LifecycleInv, NEW s \in Subs, OrderlyRow(s), OrderlyProcess(s)
    PROVE  Kept(s)
BY DEF LifecycleInv, OrderlyRow, OrderlyProcess, Kept, OwedStop, LaunchLedger

\* A step that leaves a subscription alone.
LEMMA UntouchedKeeps ==
    ASSUME LifecycleInv, NEW s \in Subs, rec'[s] = rec[s], OrderlyProcess(s)
    PROVE  Kept(s)
<1>1. OrderlyRow(s)
  BY DEF OrderlyRow
<1> QED BY <1>1, OrderlyKeeps

\* A row that differs only in what the lifecycle does not depend on.
LEMMA PlainRow ==
    ASSUME NEW s \in Subs,
           rec'[s].state = rec[s].state, rec'[s].launch = rec[s].launch,
           rec'[s].observer = rec[s].observer,
           rec'[s].stop_pending = rec[s].stop_pending
    PROVE  OrderlyRow(s)
BY DEF OrderlyRow

\* A saved row that an open subscription goes on with.
LEMMA OpenRowLives ==
    ASSUME TypeOK, NEW s \in Subs, NEW r \in RecordType, save(s, r),
           ~terminal(rec[s].state), ~terminal(r.state), r.state # "absent",
           r.launch = rec[s].launch
    PROVE  OrderlyRow(s)
BY SaveRow DEF TypeOK, OrderlyRow

\* A finding committed on an open subscription.
LEMMA FindingRow ==
    ASSUME TypeOK, NEW s \in Subs, ~terminal(rec[s].state),
           NEW r \in RecordType, r.launch = rec[s].launch,
           NEW outcome \in {"matched", "failed", "expired"}, NEW occurrence, NEW ordinal,
           finding(s, r, outcome, occurrence, ordinal)
    PROVE  OrderlyRow(s)
<1> DEFINE c == Concluded(r, outcome, clock)
<1>1. clock \in Nat
  BY DEF TypeOK, ProcessOK
<1>2. /\ c \in RecordType /\ c.launch = r.launch
      /\ c.state \in Terminals \cup {"watching"}
      /\ terminal(c.state) /\ c.observer => c.stop_pending
  BY <1>1, ConcludedRow
<1>3. c.state # "absent"
  BY <1>2 DEF Terminals
<1>4. save(s, c)
  BY DEF finding
<1> HIDE DEF c
<1>5. rec'[s] = c
  BY <1>2, <1>4, SaveRow DEF TypeOK
<1> QED BY <1>2, <1>3, <1>5 DEF OrderlyRow

\* A cancelled row.
LEMMA CancelRow ==
    ASSUME TypeOK, NEW s \in Subs, save(s, Cancelled(rec[s]))
    PROVE  OrderlyRow(s)
<1> DEFINE c == Cancelled(rec[s])
<1>1. /\ c \in RecordType /\ c.launch = rec[s].launch
      /\ terminal(c.state) /\ (c.observer => c.stop_pending)
      /\ terminal(rec[s].state) => c.state = rec[s].state
  BY CancelledRow DEF TypeOK
<1>2. c.state # "absent"
  BY <1>1 DEF terminal, Terminals
<1>3. rec'[s] = c
  BY <1>1, SaveRow DEF TypeOK
<1> HIDE DEF c
<1> QED BY <1>1, <1>2, <1>3 DEF OrderlyRow

\* A stop that was answered, with the observer among the halted.
LEMMA StopRow ==
    ASSUME TypeOK, NEW s \in Subs, s \in halted',
           save(s, [rec[s] EXCEPT !.stop_pending = FALSE])
    PROVE  OrderlyRow(s)
<1> DEFINE c == [rec[s] EXCEPT !.stop_pending = FALSE]
<1>1. /\ c \in RecordType /\ c.state = rec[s].state /\ c.launch = rec[s].launch
      /\ c.observer = rec[s].observer
  BY StoppedRow DEF TypeOK
<1>2. rec'[s] = c
  BY <1>1, SaveRow DEF TypeOK
<1> HIDE DEF c
<1> QED BY <1>1, <1>2 DEF OrderlyRow

\* Saving one row leaves the others.
LEMMA SaveOther ==
    ASSUME TypeOK, NEW s \in Subs, NEW t \in Subs, t # s, NEW r, save(s, r)
    PROVE  rec'[t] = rec[t]
BY DEF TypeOK, save

\* A finding and a cancellation touch one row.
LEMMA FindingOther ==
    ASSUME TypeOK, NEW s \in Subs, NEW t \in Subs, t # s,
           NEW r, NEW outcome, NEW occurrence, NEW ordinal,
           finding(s, r, outcome, occurrence, ordinal)
    PROVE  rec'[t] = rec[t]
BY SaveOther DEF finding

\* A step that returns or awaits anything but a launch begins none.
LEMMA NoLaunchBegins ==
    ASSUME TypeOK, NEW s \in Subs, NEW t \in Subs,
           \/ Return(s)
           \/ \E pc \in {"cancel", "stop", "spawn", "wake"} : Await(s, pc)
           \/ \E pc \in {"collect", "classify"} : Goto(s, pc)
    PROVE  step'[t].pc = "launch" => step[t].pc = "launch"
<1>1. step \in [Subs -> StepType] /\ step[s] \in StepType /\ Idle \in StepType
  BY StepLocals DEF TypeOK, ProcessOK
<1>2. CASE Return(s)
  BY <1>1, <1>2 DEF Return, Idle
<1>3. ASSUME NEW pc \in {"cancel", "stop", "spawn", "wake"}, Await(s, pc)
      PROVE  step'[t].pc = "launch" => step[t].pc = "launch"
  BY <1>1, <1>3 DEF Await, StepType
<1>4. ASSUME NEW pc \in {"collect", "classify"}, Goto(s, pc)
      PROVE  step'[t].pc = "launch" => step[t].pc = "launch"
  BY <1>1, <1>4 DEF Goto, StepType
<1> QED BY <1>2, <1>3, <1>4

-----------------------------------------------------------------------------
(* The actions.                                                            *)

\* Requests of the owner.
LEMMA OwnerKeeps ==
    ASSUME LifecycleInv, NEW s \in Subs, Owner(s), NEW t \in Subs
    PROVE  Kept(t)
<1> USE DEF volatile, host, history
<1>1. TypeOK /\ rec[s] \in RecordType
  BY DEF LifecycleInv, TypeOK
<1>2. CASE create(s)
  <2>1. OrderlyProcess(t)
    BY <1>2 DEF create, OrderlyProcess
  <2>2. CASE t # s
    BY <1>1, <1>2, <2>1, <2>2, SaveOther, UntouchedKeeps DEF create
  <2>3. CASE t = s
    <3>1. /\ rec'[s].state = "preparing" /\ rec'[s].launch = "none"
          /\ rec'[s].observer = FALSE
      BY <1>1, <1>2 DEF create, save, TypeOK, Absent
    <3>2. rec[s].state = "absent" /\ rec[s].launch = "none"
      BY <1>2 DEF create, LifecycleInv, LaunchLedger
    <3> QED BY <2>1, <2>3, <3>1, <3>2
            DEF Kept, OwedStop, LaunchLedger, LifecycleInv, OrderlyProcess,
                terminal, Terminals
  <2> QED BY <2>2, <2>3
<1>3. CASE cancel(s)
  <2>1. OrderlyProcess(t)
    BY <1>3 DEF cancel, OrderlyProcess
  <2>2. save(s, Cancelled(rec[s]))
    BY <1>3 DEF cancel
  <2> QED BY <1>1, <2>1, <2>2, CancelRow, OrderlyKeeps, SaveOther, UntouchedKeeps
<1>4. CASE CancelStopped(s)
  <2>1. OrderlyProcess(t)
    BY <1>4 DEF CancelStopped, OrderlyProcess
  <2>2. CASE /\ save(s, [rec[s] EXCEPT !.stop_pending = FALSE])
             /\ halted' = halted \cup {s}
    BY <1>1, <2>1, <2>2, StopRow, OrderlyKeeps, SaveOther, UntouchedKeeps
  <2>3. CASE UNCHANGED <<rec, halted>>
    BY <2>1, <2>3, UntouchedKeeps
  <2> QED BY <1>4, <2>2, <2>3 DEF CancelStopped
<1> QED BY <1>2, <1>3, <1>4 DEF Owner

\* Tools of the observer.
LEMMA ObserverKeeps ==
    ASSUME LifecycleInv, NEW s \in Subs, Observer(s), NEW t \in Subs
    PROVE  Kept(t)
<1> USE DEF volatile, host, history
<1>1. TypeOK /\ rec[s] \in RecordType /\ clock \in Nat
  BY DEF LifecycleInv, TypeOK, ProcessOK
<1>2. s \in Active => ~terminal(rec[s].state)
  BY DEF Active, terminal
<1>3. CASE authorize(s)
  <2>1. OrderlyProcess(t)
    BY <1>3 DEF authorize, OrderlyProcess
  <2>2. CASE t # s
    BY <1>1, <1>3, <2>1, <2>2, SaveOther, UntouchedKeeps DEF authorize
  <2>3. CASE t = s
    <3>1. rec'[s].state = "preparing" /\ rec'[s].launch = "confirmed"
      BY <1>1, <1>3 DEF authorize, save, TypeOK, RecordType
    <3>2. ~terminal(rec[s].state) /\ rec[s].launch = "intent"
      BY <1>2, <1>3 DEF authorize
    <3> QED BY <2>1, <2>3, <3>1, <3>2
            DEF Kept, OwedStop, LaunchLedger, LifecycleInv, OrderlyProcess,
                terminal, Terminals
  <2> QED BY <2>2, <2>3
<1>4. CASE install(s)
  <2> PICK kind \in Kinds : save(s, Installed(rec[s], kind, clock))
    BY <1>4 DEF install
  <2> DEFINE c == Installed(rec[s], kind, clock)
  <2>1. c \in RecordType /\ c.state = "watching" /\ c.launch = rec[s].launch
    <3>1. kind \in {"json_equals", "json_changes", "semantic"}
      BY RequestAssumption
    <3> QED BY <1>1, <3>1, InstalledRow
  <2>2. ~terminal(c.state) /\ ~terminal(rec[s].state)
    BY <1>2, <1>4, <2>1 DEF install, observer, terminal, Terminals
  <2>3. OrderlyProcess(t)
    BY <1>4 DEF install, OrderlyProcess
  <2> HIDE DEF c
  <2>4. save(s, c)
    BY DEF c
  <2> QED BY <1>1, <2>1, <2>2, <2>3, <2>4, OpenRowLives, OrderlyKeeps, SaveOther, UntouchedKeeps
<1>5. CASE wait(s)
  <2> DEFINE c == Waiting(rec[s], clock)
  <2>1. c \in RecordType /\ c.state = "watching" /\ c.launch = rec[s].launch
    BY <1>1, WaitingRow
  <2>2. ~terminal(c.state) /\ ~terminal(rec[s].state)
    BY <1>2, <1>5, <2>1 DEF wait, observer, terminal, Terminals
  <2>3. OrderlyProcess(t) /\ save(s, c)
    BY <1>5 DEF wait, OrderlyProcess
  <2> HIDE DEF c
  <2> QED BY <1>1, <2>1, <2>2, <2>3, OpenRowLives, OrderlyKeeps, SaveOther, UntouchedKeeps
<1>6. CASE report(s)
  <2> DEFINE c == Reported(rec[s])
  <2>1. c \in RecordType /\ c.launch = rec[s].launch
    BY <1>1, ReportedRow
  <2>2. /\ OrderlyProcess(t) /\ ~terminal(rec[s].state)
        /\ finding(s, c, "matched", "run", rec[s].run.id)
    BY <1>2, <1>6 DEF report, observer, OrderlyProcess
  <2> HIDE DEF c
  <2> QED BY <1>1, <2>1, <2>2, FindingRow, OrderlyKeeps, FindingOther, UntouchedKeeps
<1>7. CASE fail(s)
  <2>1. /\ OrderlyProcess(t) /\ ~terminal(rec[s].state)
        /\ finding(s, rec[s], "failed", "failed", rec[s].generation)
    BY <1>2, <1>7 DEF fail, observer, OrderlyProcess
  <2> QED BY <1>1, <2>1, FindingRow, OrderlyKeeps, FindingOther, UntouchedKeeps
<1> QED BY <1>3, <1>4, <1>5, <1>6, <1>7 DEF Observer

\* Calls of the collector.
LEMMA CollectorKeeps ==
    ASSUME LifecycleInv, NEW s \in Subs, Collector(s), NEW t \in Subs
    PROVE  Kept(t)
<1>1. TypeOK /\ rec[s] \in RecordType
  BY DEF LifecycleInv, TypeOK
<1>2. OrderlyProcess(t)
  BY DEF Collector, poll, submit, OrderlyProcess, volatile, host, history
<1>3. CASE t # s
  BY <1>1, <1>2, <1>3, SaveOther, UntouchedKeeps DEF Collector, poll, submit
<1>4. CASE t = s
  <2>1. /\ rec'[s].state = rec[s].state /\ rec'[s].launch = rec[s].launch
        /\ rec'[s].observer = rec[s].observer
        /\ rec'[s].stop_pending = rec[s].stop_pending
    <3>1. CASE poll(s)
      BY <1>1, <3>1 DEF poll, save, TypeOK, RecordType
    <3>2. CASE submit(s)
      BY <1>1, <3>2 DEF submit, save, TypeOK, RecordType
    <3> QED BY <3>1, <3>2 DEF Collector
  <2> QED BY <1>2, <1>4, <2>1, PlainRow, OrderlyKeeps
<1> QED BY <1>3, <1>4

\* The branches of step() up to its first port call.
LEMMA CheckKeeps ==
    ASSUME LifecycleInv, NEW s \in Subs, Check(s), NEW t \in Subs
    PROVE  Kept(t)
<1> USE DEF host, history
<1>1. TypeOK /\ rec[s] \in RecordType /\ step \in [Subs -> StepType]
  BY DEF LifecycleInv, TypeOK, ProcessOK
<1> DEFINE Settles == \/ Return(s)
                      \/ \E pc \in {"cancel", "stop", "spawn", "wake"} : Await(s, pc)
           Rest == UNCHANGED <<spawn, host, spawns>>
<1>2. Settles /\ Rest => OrderlyProcess(t)
  BY <1>1, NoLaunchBegins DEF OrderlyProcess
<1>3. CASE StepFindsNothing(s)
  <2>1. Settles /\ Rest /\ rec' = rec
    BY <1>3 DEF StepFindsNothing, durable
  <2> QED BY <1>2, <2>1, UntouchedKeeps
<1>4. CASE StepOwnerClosed(s)
  <2>1. Settles /\ Rest /\ save(s, Cancelled(rec[s]))
    BY <1>4 DEF StepOwnerClosed
  <2> QED BY <1>1, <1>2, <2>1, CancelRow, OrderlyKeeps, SaveOther, UntouchedKeeps
<1>5. CASE StepExpires(s) \/ StepOutOfTurns(s) \/ StepObserverTimedOut(s)
  <2>1. Settles /\ Rest /\ ~terminal(rec[s].state)
    BY <1>5 DEF StepExpires, StepOutOfTurns, StepObserverTimedOut, Unexpired, Resumed
  <2>2. \/ finding(s, rec[s], "expired", "expiry", 0)
        \/ finding(s, rec[s], "failed", "budget", 0)
        \/ finding(s, rec[s], "failed", "observer-timeout", 0)
    BY <1>5 DEF StepExpires, StepOutOfTurns, StepObserverTimedOut
  <2> QED BY <1>1, <1>2, <2>1, <2>2, FindingRow, OrderlyKeeps, FindingOther, UntouchedKeeps
<1>6. CASE StepLaunches(s)
  <2>1. UNCHANGED <<spawn, halted, spawns>> /\ Await(s, "launch")
    BY <1>6 DEF StepLaunches
  <2>2. CASE t # s
    <3>1. OrderlyProcess(t) /\ rec'[t] = rec[t]
      BY <1>1, <1>6, <2>1, <2>2, SaveOther DEF StepLaunches, Await, OrderlyProcess
    <3> QED BY <3>1, UntouchedKeeps
  <2>3. CASE t = s
    <3>1. /\ rec'[s].state = rec[s].state /\ rec'[s].launch = "intent"
      BY <1>1, <1>6 DEF StepLaunches, save, TypeOK, RecordType
    <3>2. rec[s].state = "preparing" /\ rec[s].launch = "none"
      BY <1>6 DEF StepLaunches, NeedsLaunch
    <3> QED BY <2>1, <2>3, <3>1, <3>2
            DEF Kept, OwedStop, LaunchLedger, LifecycleInv, terminal, Terminals
  <2> QED BY <2>2, <2>3
<1>7. CASE StepWakes(s)
  <2>1. Settles /\ Rest
    BY <1>7 DEF StepWakes
  <2>2. CASE t # s
    BY <1>1, <1>2, <1>7, <2>1, <2>2, SaveOther, UntouchedKeeps DEF StepWakes
  <2>3. CASE t = s
    <3>1. /\ rec'[s].state = rec[s].state /\ rec'[s].launch = rec[s].launch
          /\ rec'[s].observer = rec[s].observer
          /\ rec'[s].stop_pending = rec[s].stop_pending
      BY <1>1, <1>7 DEF StepWakes, save, TypeOK, RecordType
    <3> QED BY <1>2, <2>1, <2>3, <3>1, PlainRow, OrderlyKeeps
  <2> QED BY <2>2, <2>3
<1>8. CASE StepCollects(s)
  <2>1. UNCHANGED <<spawn, halted, spawns>>
    BY <1>8 DEF StepCollects
  <2>2. step'[t].pc = "launch" => step[t].pc = "launch"
    BY <1>1, <1>8 DEF StepCollects, StepType
  <2>3. OrderlyProcess(t)
    BY <2>1, <2>2 DEF OrderlyProcess
  <2>4. CASE t # s
    BY <1>1, <1>8, <2>3, <2>4, SaveOther, UntouchedKeeps DEF StepCollects
  <2>5. CASE t = s
    <3>1. rec'[s].state = "running" /\ rec'[s].launch = rec[s].launch
      BY <1>1, <1>8 DEF StepCollects, save, TypeOK, RecordType
    <3>2. rec[s].state = "watching"
      BY <1>8 DEF StepCollects, NeedsRun
    <3>3. OrderlyRow(s)
      BY <3>1, <3>2 DEF OrderlyRow, terminal, Terminals
    <3> QED BY <2>3, <2>5, <3>3, OrderlyKeeps
  <2> QED BY <2>4, <2>5
<1>9. CASE StepStopped(s)
  <2>1. OrderlyProcess(t)
    BY <1>1, <1>9, NoLaunchBegins DEF StepStopped, OrderlyProcess
  <2>2. CASE /\ save(s, [rec[s] EXCEPT !.stop_pending = FALSE])
             /\ halted' = halted \cup {s}
    BY <1>1, <2>1, <2>2, StopRow, OrderlyKeeps, SaveOther, UntouchedKeeps
  <2>3. CASE UNCHANGED rec
    BY <2>1, <2>3, UntouchedKeeps
  <2> QED BY <1>9, <2>2, <2>3 DEF StepStopped
<1> QED BY <1>3, <1>4, <1>5, <1>6, <1>7, <1>8, <1>9 DEF Check

\* step()'s catch of a failed launch.
LEMMA LaunchUncertainRow ==
    ASSUME TypeOK, NEW s \in Subs, LaunchUncertain(s), NEW t \in Subs
    PROVE  /\ OrderlyRow(t)
           /\ step'[t].pc = "launch" => step[t].pc = "launch"
<1>1. rec[s] \in RecordType
  BY DEF TypeOK
<1>2. step'[t].pc = "launch" => step[t].pc = "launch"
  BY NoLaunchBegins DEF LaunchUncertain
<1>3. CASE rec' = rec
  BY <1>2, <1>3 DEF OrderlyRow
<1>4. CASE /\ ~terminal(rec[s].state)
           /\ save(s, [rec[s] EXCEPT !.state = "uncertain"])
  <2>1. t # s => rec'[t] = rec[t]
    BY <1>4, SaveOther
  <2>2. rec'[s].state = "uncertain" /\ rec'[s].launch = rec[s].launch
    BY <1>1, <1>4 DEF save, TypeOK, RecordType
  <2>3. OrderlyRow(s)
    BY <1>4, <2>2 DEF OrderlyRow, terminal, Terminals
  <2> QED BY <1>2, <2>1, <2>3 DEF OrderlyRow
<1> QED BY <1>2, <1>3, <1>4 DEF LaunchUncertain, durable

\* Every way the launch goes on.
LEMMA LaunchKeeps ==
    ASSUME LifecycleInv, NEW s \in Subs, Launch(s), NEW t \in Subs
    PROVE  Kept(t)
<1> USE DEF host, history
<1>1. /\ TypeOK /\ rec[s] \in RecordType /\ step \in [Subs -> StepType]
      /\ clock \in Nat /\ spawns \in [Subs -> Nat]
  BY DEF LifecycleInv, TypeOK, ProcessOK
<1>2. CASE LaunchRefused(s) \/ LaunchTimesOut(s)
  <2>1. LaunchUncertain(s) /\ UNCHANGED <<spawn, halted, spawns>>
    BY <1>2 DEF LaunchRefused, LaunchTimesOut
  <2>2. OrderlyRow(t) /\ OrderlyProcess(t)
    BY <1>1, <2>1, LaunchUncertainRow DEF OrderlyProcess
  <2> QED BY <2>2, OrderlyKeeps
<1>3. CASE RequestSpawn(s)
  <2>1. /\ rec' = rec /\ halted' = halted /\ spawn' = spawn \cup {s}
        /\ Await(s, "spawn") /\ step[s].pc = "launch"
        /\ spawns' = [spawns EXCEPT ![s] = @ + 1]
    BY <1>3 DEF RequestSpawn, durable, At
  <2>2. CASE t # s
    <3>1. OrderlyProcess(t)
      BY <1>1, <2>1, <2>2 DEF Await, OrderlyProcess
    <3> QED BY <2>1, <3>1, UntouchedKeeps
  <2>3. CASE t = s
    <3>1. step'[s].pc = "spawn"
      BY <1>1, <2>1 DEF Await, Idle
    <3>2. spawns[s] = 0 /\ rec[s].launch # "none"
      BY <2>1 DEF LifecycleInv, LaunchLedger
    <3>3. spawns'[s] = 1
      BY <1>1, <2>1, <3>2
    <3> QED BY <2>1, <2>3, <3>1, <3>2, <3>3
            DEF Kept, OwedStop, LaunchLedger, LifecycleInv
  <2> QED BY <2>2, <2>3
<1>4. CASE SpawnResolves(s)
  <2> DEFINE c == Bound(rec[s], clock)
  <2>1. /\ c \in RecordType /\ c.launch = "confirmed"
        /\ c.state \in {"preparing", rec[s].state}
        /\ terminal(rec[s].state) => c.state = rec[s].state /\ c.stop_pending
        /\ terminal(c.state) => terminal(rec[s].state)
    BY <1>1, BoundRow
  <2>2. /\ s \in spawn /\ spawn' = spawn \ {s} /\ halted' = halted /\ spawns' = spawns
        /\ save(s, c)
    BY <1>4 DEF SpawnResolves
  <2>3. step'[t].pc = "launch" => step[t].pc = "launch"
    BY <1>1, <1>4, NoLaunchBegins DEF SpawnResolves
  <2> HIDE DEF c
  <2>4. OrderlyProcess(t)
    BY <2>2, <2>3 DEF OrderlyProcess
  <2>5. CASE t # s
    BY <1>1, <2>2, <2>4, <2>5, SaveOther, UntouchedKeeps
  <2>6. CASE t = s
    <3>1. rec'[s] = c
      BY <1>1, <2>1, <2>2, SaveRow DEF TypeOK
    <3>2. rec[s].launch # "none" /\ rec[s].state # "absent"
      BY <2>2 DEF LifecycleInv, LaunchLedger
    <3> QED BY <2>1, <2>4, <2>6, <3>1, <3>2
            DEF Kept, OwedStop, LaunchLedger, LifecycleInv, OrderlyProcess
  <2> QED BY <2>5, <2>6
<1>5. CASE SpawnRejects(s)
  <2>1. spawn' = spawn \ {s} /\ UNCHANGED <<halted, spawns>>
    BY <1>5 DEF SpawnRejects
  <2>2. CASE LaunchUncertain(s)
    <3>1. OrderlyRow(t) /\ OrderlyProcess(t)
      BY <1>1, <2>1, <2>2, LaunchUncertainRow DEF OrderlyProcess
    <3> QED BY <3>1, OrderlyKeeps
  <2>3. CASE UNCHANGED <<durable, step>>
    <3>1. rec' = rec /\ OrderlyProcess(t)
      BY <2>1, <2>3 DEF durable, OrderlyProcess
    <3> QED BY <3>1, UntouchedKeeps
  <2> QED BY <1>5, <2>2, <2>3 DEF SpawnRejects
<1>6. CASE HostSpawns(s)
  <2>1. rec' = rec /\ OrderlyProcess(t)
    BY <1>6 DEF HostSpawns, durable, volatile, OrderlyProcess
  <2> QED BY <2>1, UntouchedKeeps
<1> QED BY <1>2, <1>3, <1>4, <1>5, <1>6 DEF Launch

\* The review wake.
LEMMA WakeKeeps ==
    ASSUME LifecycleInv, NEW s \in Subs, Wake(s), NEW t \in Subs
    PROVE  Kept(t)
<1>1. TypeOK /\ rec[s] \in RecordType
  BY DEF LifecycleInv, TypeOK
<1>2. OrderlyProcess(t)
  BY <1>1, NoLaunchBegins DEF Wake, WakeAccepted, WakeUncertain, OrderlyProcess, host, history
<1>3. \/ save(s, [rec[s] EXCEPT !.review_wake = "accepted"])
      \/ save(s, [rec[s] EXCEPT !.review_wake = "uncertain"])
      \/ rec' = rec
  BY DEF Wake, WakeAccepted, WakeUncertain
<1>4. CASE rec' = rec \/ t # s
  BY <1>1, <1>2, <1>3, <1>4, SaveOther, UntouchedKeeps
<1>5. CASE t = s /\ rec' # rec
  <2>1. /\ rec'[s].state = rec[s].state /\ rec'[s].launch = rec[s].launch
        /\ rec'[s].observer = rec[s].observer
        /\ rec'[s].stop_pending = rec[s].stop_pending
    BY <1>1, <1>3, <1>5 DEF save, TypeOK, RecordType
  <2> QED BY <1>2, <1>5, <2>1, PlainRow, OrderlyKeeps
<1> QED BY <1>4, <1>5

\* Collection and classification.
LEMMA CollectionKeeps ==
    ASSUME LifecycleInv, NEW s \in Subs, Collection(s), NEW t \in Subs
    PROVE  Kept(t)
<1> USE DEF host, history
<1>1. /\ TypeOK /\ rec[s] \in RecordType /\ step \in [Subs -> StepType]
      /\ clock \in Nat /\ step[s].now \in Nat /\ step[s].run \in RunType
  BY DEF LifecycleInv, TypeOK, ProcessOK, StepType
<1> DEFINE Settles == \/ Return(s)
                      \/ \E pc \in {"collect", "classify"} : Goto(s, pc)
           Rest == UNCHANGED <<spawn, host, spawns>>
<1>2. Settles /\ Rest => OrderlyProcess(t)
  BY <1>1, NoLaunchBegins DEF OrderlyProcess
<1>3. ~Withdrawn(s) => rec[s].state = "running" /\ ~terminal(rec[s].state)
  BY DEF Withdrawn, terminal, Terminals
<1>4. ASSUME StepThrows(s)
      PROVE  Kept(t)
  <2> DEFINE c == Thrown(rec[s], step[s].now)
  <2>1. /\ c \in RecordType
        /\ terminal(rec[s].state) => c = rec[s]
        /\ ~terminal(rec[s].state) => c.state \in {"reviewing", rec[s].state}
        /\ c.launch = rec[s].launch /\ c.observer = rec[s].observer
        /\ c.stop_pending = rec[s].stop_pending
    BY <1>1, ThrownRow
  <2>2. Settles /\ Rest /\ save(s, c)
    BY <1>4 DEF StepThrows
  <2> HIDE DEF c
  <2>3. rec'[s] = c
    BY <1>1, <2>1, <2>2, SaveRow DEF TypeOK
  <2>4. OrderlyRow(s)
    BY <2>1, <2>3 DEF OrderlyRow, terminal, Terminals
  <2> QED BY <1>1, <1>2, <2>2, <2>4, OrderlyKeeps, SaveOther, UntouchedKeeps
<1>5. ASSUME Discarded(s)
      PROVE  Kept(t)
  <2>1. Settles /\ Rest /\ rec' = rec
    BY <1>5 DEF Discarded, durable
  <2> QED BY <1>2, <2>1, UntouchedKeeps
<1>6. ASSUME ExpiredMeanwhile(s)
      PROVE  Kept(t)
  <2>1. Settles /\ Rest /\ finding(s, rec[s], "expired", "expiry", 0)
    BY <1>6 DEF ExpiredMeanwhile
  <2>2. ~terminal(rec[s].state)
    BY <1>3, <1>6 DEF ExpiredMeanwhile
  <2> QED BY <1>1, <1>2, <2>1, <2>2, FindingRow, OrderlyKeeps, FindingOther, UntouchedKeeps
<1>7. CASE PortThrows(s) \/ CollectAborts(s)
  BY <1>4, <1>7 DEF PortThrows, CollectAborts
<1>8. CASE AssignTask(s)
  <2>1. Settles /\ Rest
    BY <1>8 DEF AssignTask
  <2>2. CASE t # s
    BY <1>1, <1>2, <1>8, <2>1, <2>2, SaveOther, UntouchedKeeps DEF AssignTask
  <2>3. CASE t = s
    <3>1. /\ rec'[s].state = rec[s].state /\ rec'[s].launch = rec[s].launch
          /\ rec'[s].observer = rec[s].observer
          /\ rec'[s].stop_pending = rec[s].stop_pending
      BY <1>1, <1>8 DEF AssignTask, save, TypeOK, RecordType
    <3> QED BY <1>2, <2>1, <2>3, <3>1, PlainRow, OrderlyKeeps
  <2> QED BY <2>2, <2>3
<1>9. CASE CollectReturns(s)
  <2>1. /\ rec' = rec /\ halted' = halted /\ UNCHANGED <<spawn, spawns>>
        /\ step'[t].pc = "launch" => step[t].pc = "launch"
    BY <1>1, <1>9 DEF CollectReturns, durable, StepType
  <2> QED BY <2>1, UntouchedKeeps DEF OrderlyProcess
<1>10. CASE CollectTimesOut(s)
  <2>1. /\ halted' = halted /\ UNCHANGED <<spawn, spawns>>
        /\ step'[t].pc = "launch" => step[t].pc = "launch"
    BY <1>1, <1>10 DEF CollectTimesOut, StepType
  <2>2. OrderlyProcess(t)
    BY <2>1 DEF OrderlyProcess
  <2>3. CASE t # s
    BY <1>1, <1>10, <2>2, <2>3, SaveOther, UntouchedKeeps DEF CollectTimesOut
  <2>4. CASE t = s
    <3>1. /\ rec'[s].state = rec[s].state /\ rec'[s].launch = rec[s].launch
          /\ rec'[s].observer = rec[s].observer
          /\ rec'[s].stop_pending = rec[s].stop_pending
      BY <1>1, <1>10 DEF CollectTimesOut, save, TypeOK, RecordType
    <3> QED BY <2>2, <2>4, <3>1, PlainRow, OrderlyKeeps
  <2> QED BY <2>3, <2>4
<1>11. CASE CollectionDone(s)
  <2>1. CASE Goto(s, "classify")
             /\ UNCHANGED <<clock, durable, tick, stopping, spawn, host, history>>
    BY <1>2, <2>1, UntouchedKeeps DEF durable
  <2> QED BY <1>5, <1>6, <1>11, <2>1 DEF CollectionDone
<1>12. CASE ClassificationDone(s)
  <2>1. ASSUME NEW d, save(s, Classified(rec[s], step[s].run, d, clock)), Return(s),
               UNCHANGED <<clock, fnd, tick, stopping, spawn, host, history>>,
               ~Withdrawn(s)
        PROVE  Kept(t)
    <3> DEFINE c == Classified(rec[s], step[s].run, d, clock)
    <3>1. /\ c \in RecordType /\ c.state \in {"reviewing", "watching"}
          /\ c.launch = rec[s].launch
      BY <1>1, ClassifiedRow
    <3>2. ~terminal(c.state) /\ c.state # "absent" /\ ~terminal(rec[s].state)
      BY <1>3, <2>1, <3>1 DEF terminal, Terminals
    <3>3. save(s, c) /\ OrderlyProcess(t)
      BY <1>2, <2>1
    <3> HIDE DEF c
    <3> QED BY <1>1, <3>1, <3>2, <3>3, OpenRowLives, OrderlyKeeps, SaveOther, UntouchedKeeps
  <2> QED BY <1>5, <1>6, <1>12, <2>1 DEF ClassificationDone
<1> QED BY <1>7, <1>8, <1>9, <1>10, <1>11, <1>12 DEF Collection

\* tick() begins checks, which are not launches yet.
LEMMA DispatchKeepsLife ==
    ASSUME TypeOK, NEW now \in Nat, EnterCleanup(now) \/ EnterDispatch(now), NEW t \in Subs
    PROVE  step'[t].pc = "launch" => step[t].pc = "launch"
<1>1. ASSUME EnterDispatch(now)
      PROVE  step'[t].pc = "launch" => step[t].pc = "launch"
  <2>1. PICK begun :
          step' = [s \in Subs |-> IF s \in begun
                                 THEN [Idle EXCEPT !.pc = "owner", !.now = now]
                                 ELSE step[s]]
    BY <1>1 DEF EnterDispatch
  <2> QED BY <2>1 DEF Idle
<1> QED BY <1>1 DEF EnterCleanup

\* The sweep.
LEMMA SweepKeepsLife ==
    ASSUME LifecycleInv, Sweep, NEW t \in Subs
    PROVE  Kept(t)
<1> USE DEF host, history
<1>1. TypeOK /\ clock \in Nat /\ tick.now \in Nat /\ tick.stops \subseteq Subs
  BY DEF LifecycleInv, TypeOK, ProcessOK, OutboxOK, TickType
<1>2. CASE TickBegins
  <2>1. rec' = rec /\ UNCHANGED <<spawn, halted, spawns>>
    BY <1>2 DEF TickBegins, durable
  <2>2. step'[t].pc = "launch" => step[t].pc = "launch"
    BY <1>1, <1>2, DispatchKeepsLife DEF TickBegins
  <2> QED BY <2>1, <2>2, UntouchedKeeps DEF OrderlyProcess
<1>3. ASSUME NEW k \in tick.todo, TickWithdraws(k)
      PROVE  Kept(t)
  <2>1. rec' = rec /\ UNCHANGED <<spawn, halted, spawns>>
    BY <1>3 DEF TickWithdraws
  <2>2. step'[t].pc = "launch" => step[t].pc = "launch"
    BY <1>1, <1>3, DispatchKeepsLife DEF TickWithdraws
  <2> QED BY <2>1, <2>2, UntouchedKeeps DEF OrderlyProcess
<1>4. ASSUME NEW s \in tick.stops, TickStops(s)
      PROVE  Kept(t)
  <2>1. UNCHANGED <<spawn, spawns>> /\ halted \subseteq halted' /\ s \in Subs
    BY <1>1, <1>4 DEF TickStops
  <2>2. step'[t].pc = "launch" => step[t].pc = "launch"
    BY <1>1, <1>4, DispatchKeepsLife DEF TickStops
  <2>3. OrderlyProcess(t)
    BY <2>1, <2>2 DEF OrderlyProcess
  <2>4. CASE /\ save(s, [rec[s] EXCEPT !.stop_pending = FALSE])
             /\ halted' = halted \cup {s}
    BY <1>1, <2>1, <2>3, <2>4, StopRow, OrderlyKeeps, SaveOther, UntouchedKeeps
  <2>5. CASE UNCHANGED rec
    BY <2>3, <2>5, UntouchedKeeps
  <2> QED BY <1>4, <2>4, <2>5 DEF TickStops
<1> QED BY <1>2, <1>3, <1>4 DEF Sweep

\* Delivery and the environment.
LEMMA SurroundingsKeep ==
    ASSUME LifecycleInv, Delivery \/ Environment \/ UNCHANGED vars, NEW t \in Subs
    PROVE  Kept(t)
<1> USE DEF host, history
<1>1. CASE Delivery
  <2>1. UNCHANGED <<rec, step, spawn, halted, spawns>>
    BY <1>1 DEF Delivery, TickPicks, TickOwnerAway, TickSends, TickSent, TickSendFails, durable
  <2> QED BY <2>1, UntouchedKeeps DEF OrderlyProcess
<1>2. CASE UNCHANGED vars
  <2>1. UNCHANGED <<rec, step, spawn, halted, spawns>>
    BY <1>2 DEF vars
  <2> QED BY <2>1, UntouchedKeeps DEF OrderlyProcess
<1>3. CASE TimePasses \/ \E k \in queued : Dispatched(k)
  <2>1. UNCHANGED <<rec, step, spawn, halted, spawns>>
    BY <1>3 DEF TimePasses, Dispatched, durable, volatile
  <2> QED BY <2>1, UntouchedKeeps DEF OrderlyProcess
<1>4. CASE recover
  <2>1. /\ UNCHANGED <<halted, spawns>> /\ spawn' = {} /\ step'[t].pc = "idle"
        /\ rec'[t] = IF t \in Active THEN Recovered(rec[t], clock) ELSE rec[t]
    BY <1>4 DEF recover, Idle
  <2>2. OrderlyProcess(t)
    BY <2>1 DEF OrderlyProcess
  <2>3. CASE t \notin Active
    BY <2>1, <2>2, <2>3, UntouchedKeeps
  <2>4. CASE t \in Active
    <3> DEFINE c == Recovered(rec[t], clock)
    <3>1. rec[t] \in RecordType /\ clock \in Nat /\ ~terminal(rec[t].state)
          /\ rec[t].state # "absent"
      BY <2>4 DEF LifecycleInv, TypeOK, ProcessOK, Active, terminal
    <3>2. /\ c.state \in {"reviewing", "uncertain", rec[t].state}
          /\ c.launch = rec[t].launch
      BY <3>1, RecoveredRow
    <3>3. rec'[t] = c
      BY <2>1, <2>4
    <3> HIDE DEF c
    <3>4. OrderlyRow(t)
      BY <3>1, <3>2, <3>3 DEF OrderlyRow, terminal, Terminals
    <3> QED BY <2>2, <3>4, OrderlyKeeps
  <2> QED BY <2>3, <2>4
<1> QED BY <1>1, <1>2, <1>3, <1>4 DEF Environment

-----------------------------------------------------------------------------
(* The theorems.                                                           *)

\* Every step keeps the invariant, and every closed subscription closed.
LEMMA NextKeepsLife ==
    ASSUME LifecycleInv, [Next]_vars
    PROVE  LifecycleInv' /\ \A t \in Subs : Kept(t)
<1>1. TypeOK'
  BY NextType DEF LifecycleInv
<1>2. ASSUME NEW t \in Subs
      PROVE  Kept(t)
  <2>1. ASSUME NEW s \in Subs,
               \/ Owner(s) \/ Observer(s) \/ Collector(s) \/ Check(s)
               \/ Launch(s) \/ Wake(s) \/ Collection(s)
        PROVE  Kept(t)
    BY <2>1, OwnerKeeps, ObserverKeeps, CollectorKeeps, CheckKeeps, LaunchKeeps,
       WakeKeeps, CollectionKeeps
  <2> QED BY <2>1, SweepKeepsLife, SurroundingsKeep DEF Next
<1> QED BY <1>1, <1>2 DEF LifecycleInv, Kept

\* The initial state satisfies the invariant.
LEMMA InitKeepsLife == Init => LifecycleInv
<1> SUFFICES ASSUME Init PROVE LifecycleInv
  OBVIOUS
<1>1. TypeOK
  BY InitType
<1>2. ASSUME NEW s \in Subs
      PROVE  OwedStop(s) /\ LaunchLedger(s)
  BY DEF Init, Absent, Idle, OwedStop, LaunchLedger, terminal, Terminals
<1> QED BY <1>1, <1>2 DEF LifecycleInv

\* The invariant holds throughout.
THEOREM Lifecycle == Spec => []LifecycleInv
BY InitKeepsLife, NextKeepsLife, PTL DEF Spec

\* No subscription ever has a second observer spawned, over every failure,
\* timeout and restart between the launch intent and the host's answer.
THEOREM LaunchedOnce == Spec => []SingleLaunch
<1>1. LifecycleInv => SingleLaunch
  BY DEF LifecycleInv, LaunchLedger, SingleLaunch
<1> QED BY <1>1, Lifecycle, PTL

\* The observer of a closed subscription was asked to stop or is durably
\* owed a stop, also when its spawn is answered after the close.
THEOREM StopIsOwed == Spec => []StopOwed
<1>1. LifecycleInv => StopOwed
  BY DEF LifecycleInv, OwedStop, StopOwed
<1> QED BY <1>1, Lifecycle, PTL

\* A subscription that closed never changes state again, whatever late
\* answer, result, exception or recovery still arrives for it.
THEOREM ClosedForGood == Spec => TerminalIsFinal
<1>1. LifecycleInv /\ [Next]_vars =>
        [\A s \in Subs : terminal(rec[s].state) => rec'[s].state = rec[s].state]_vars
  BY NextKeepsLife DEF Kept
<1> QED BY <1>1, Lifecycle, PTL DEF Spec, TerminalIsFinal
=============================================================================
