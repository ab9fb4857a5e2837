-------------------- MODULE SubscriptionEvidenceTheorems --------------------
(***************************************************************************)
(* What an open subscription rests on, proved from one inductive           *)
(* invariant: the evidence a report may use and the baseline that changes  *)
(* are measured from belong to the recipe in force, no open subscription   *)
(* is forgotten, and the limits on checks and subscriptions hold.          *)
(***************************************************************************)
EXTENDS SubscriptionOutboxTheorems

CollectPcs == {"authority", "collect", "recheck", "classify"}

\* The evidence of a row of which n collections were begun.
Evidence(r, n) ==
    /\ r.task.id \in {0, n}
    /\ r.task.result.id # 0 => r.task.result.id = n /\ r.task.result.generation = r.generation
    /\ r.run.id # 0 /\ ~r.report_blocked =>
         r.run.ok /\ r.run.id = n /\ r.run.generation = r.generation
    /\ r.baseline.form # "none" => r.baseline.run.ok /\ r.baseline.run.generation = r.generation

\* What the state of a row says of its other fields.
Scheduled(r) ==
    /\ r.recipe # "none" => r.observer
    /\ r.run.id # 0 => r.recipe # "none"
    /\ r.state = "absent" => r.recipe = "none" /\ ~r.observer
    /\ r.state \in {"watching", "running"} => r.recipe # "none"
    /\ r.state = "running" => r.report_blocked
    /\ r.state = "reviewing" \/ r.launch = "confirmed" => r.review_due # 0

\* How the row and the step() under way for it fit together.
Attended(s) ==
    /\ rec[s].state = "running" => At(s, CollectPcs)
    /\ At(s, CollectPcs) => rec[s].state = "running" /\ step[s].generation = rec[s].generation
    /\ At(s, {"recheck", "classify"}) => /\ step[s].run.generation = rec[s].generation
                                         /\ step[s].run.ok => step[s].run.id = attempts[s]
    /\ rec[s].state = "preparing" /\ rec[s].launch = "intent" => At(s, {"launch", "spawn"})
    /\ rec[s].state = "uncertain" => <<s, "attention", 0>> \in DOMAIN fnd

OpenInv(s) ==
    ~terminal(rec[s].state) => Evidence(rec[s], attempts[s]) /\ Scheduled(rec[s]) /\ Attended(s)

LimitInv ==
    /\ IsFiniteSet(Active) /\ Cardinality(Active) <= MaxActive
    /\ IsFiniteSet(Busy) /\ Cardinality(Busy) <= MaxTasks

\* The inductive invariant.
EvidenceInv == OutboxInv /\ LimitInv /\ \A s \in Subs : OpenInv(s)

-----------------------------------------------------------------------------
(* What the updates of a row do to its evidence.                            *)

\* The fields that evidence is made of.
Agree(r, c) ==
    /\ c.task = r.task /\ c.run = r.run /\ c.report_blocked = r.report_blocked
    /\ c.baseline = r.baseline /\ c.generation = r.generation
    /\ c.recipe = r.recipe /\ c.observer = r.observer

LEMMA AgreeEvidence ==
    ASSUME NEW r, NEW c, NEW n, Agree(r, c), Evidence(r, n)
    PROVE  Evidence(c, n)
BY DEF Agree, Evidence

\* A row whose state, launch and review deadline also stay.
LEMMA AgreeScheduled ==
    ASSUME NEW r, NEW c, Agree(r, c), Scheduled(r),
           c.state = r.state, c.launch = r.launch, c.review_due = r.review_due
    PROVE  Scheduled(c)
BY DEF Agree, Scheduled

\* install() starts without evidence.
LEMMA InstalledEvidence ==
    ASSUME NEW r \in RecordType, Scheduled(r), r.observer, NEW n,
           NEW kind \in {"json_equals", "json_changes", "semantic"}, NEW now \in Nat
    PROVE  LET c == Installed(r, kind, now)
           IN  Evidence(c, n) /\ Scheduled(c) /\ c.state = "watching"
<1> DEFINE c == Installed(r, kind, now)
<1>1. /\ c.task = NoTask /\ c.run = NoRun /\ c.baseline = NoBaseline
      /\ c.recipe = kind /\ c.observer = r.observer /\ c.state = "watching"
  BY DEF Installed, RecordType
<1>2. c.launch = r.launch /\ c.review_due = r.review_due
  BY DEF Installed, RecordType
<1>3. NoTask.id = 0 /\ NoTask.result.id = 0 /\ NoRun.id = 0 /\ NoBaseline.form = "none"
  BY DEF NoTask, NoRun, Run, NoBaseline
<1> HIDE DEF c
<1>4. Evidence(c, n) /\ Scheduled(c) /\ c.state = "watching"
  BY <1>1, <1>2, <1>3 DEF Evidence, Scheduled
<1> QED BY <1>4 DEF c

\* wait() takes a baseline only from evidence that may be reported on.
LEMMA WaitingEvidence ==
    ASSUME NEW r \in RecordType, NEW n, Evidence(r, n), Scheduled(r), r.recipe # "none", NEW now \in Nat
    PROVE  LET c == Waiting(r, now)
           IN  Evidence(c, n) /\ Scheduled(c) /\ c.state = "watching"
<1> DEFINE c == Waiting(r, now)
           establish == /\ r.mode = "changes" /\ r.baseline.form = "none"
                        /\ r.run.id # 0 /\ ~r.report_blocked /\ r.run.ok
           base == IF establish THEN [form |-> "raw", run |-> r.run] ELSE r.baseline
<1>1. /\ c.task = r.task /\ c.run = r.run /\ c.report_blocked = r.report_blocked
      /\ c.generation = r.generation /\ c.recipe = r.recipe /\ c.observer = r.observer
  BY DEF Waiting, RecordType
<1>2. c.state = "watching" /\ c.launch = r.launch /\ c.review_due = r.review_due
  BY DEF Waiting, RecordType
<1>3. c.baseline = base
  BY DEF Waiting, RecordType
<1>4. base.form # "none" => base.run.ok /\ base.run.generation = r.generation
  <2>1. CASE establish
    BY <2>1 DEF Evidence
  <2>2. CASE ~establish
    BY <2>2 DEF Evidence
  <2> QED BY <2>1, <2>2
<1> HIDE DEF c, base, establish
<1>5. Evidence(c, n) /\ Scheduled(c) /\ c.state = "watching"
  BY <1>1, <1>2, <1>3, <1>4 DEF Evidence, Scheduled
<1> QED BY <1>5 DEF c

\* report() ends an "until" subscription and moves the baseline of a
\* semantic one to the run that was reported.
LEMMA ReportedEvidence ==
    ASSUME NEW r \in RecordType, NEW n, Evidence(r, n), Scheduled(r), Reportable(r), NEW now \in Nat
    PROVE  LET c == Concluded(Reported(r), "matched", now)
           IN  terminal(c.state) \/ (Evidence(c, n) /\ Scheduled(c) /\ c.state = "watching")
<1> DEFINE q == Reported(r)
           c == Concluded(q, "matched", now)
           base == IF r.recipe = "semantic" /\ r.mode = "changes"
                   THEN [form |-> "raw", run |-> r.run] ELSE r.baseline
<1>1. q \in RecordType /\ q.launch = r.launch /\ q.observer = r.observer
  BY ReportedRow
<1>2. /\ q.task = r.task /\ q.run = r.run /\ q.report_blocked = r.report_blocked
      /\ q.generation = r.generation /\ q.recipe = r.recipe /\ q.review_due = r.review_due
      /\ q.baseline = base
  BY DEF Reported, RecordType
<1>3. base.form # "none" => base.run.ok /\ base.run.generation = r.generation
  <2>1. CASE r.recipe = "semantic" /\ r.mode = "changes"
    BY <2>1 DEF Reportable
  <2>2. CASE ~(r.recipe = "semantic" /\ r.mode = "changes")
    BY <2>2 DEF Evidence
  <2> QED BY <2>1, <2>2
<1> HIDE DEF q, base
<1>4. /\ c.task = q.task /\ c.run = q.run /\ c.report_blocked = q.report_blocked
      /\ c.generation = q.generation /\ c.recipe = q.recipe /\ c.review_due = q.review_due
      /\ c.baseline = q.baseline
  BY <1>1 DEF Concluded, RecordType
<1>5. /\ c.state \in Terminals \cup {"watching"}
      /\ c.launch = q.launch /\ c.observer = q.observer
  BY <1>1, ConcludedRow
<1> HIDE DEF c
<1>6. CASE c.state = "watching"
  <2>1. r.recipe # "none"
    BY DEF Scheduled, Reportable
  <2>2. Evidence(c, n)
    BY <1>2, <1>3, <1>4 DEF Evidence
  <2>3. Scheduled(c)
    BY <1>1, <1>2, <1>4, <1>5, <1>6, <2>1 DEF Scheduled
  <2> QED BY <1>6, <2>2, <2>3 DEF c, q
<1>7. CASE terminal(c.state)
  BY <1>7 DEF c, q
<1> QED BY <1>5, <1>6, <1>7 DEF terminal

\* The catch of tick() leaves the evidence, and no check running.
LEMMA ThrownEvidence ==
    ASSUME NEW r \in RecordType, NEW n, Evidence(r, n), Scheduled(r), ~terminal(r.state), NEW now \in Nat
    PROVE  LET c == Thrown(r, now)
           IN  /\ Evidence(c, n) /\ Scheduled(c) /\ c.launch = r.launch
               /\ c.state = IF r.state = "running" THEN "reviewing" ELSE r.state
<1> DEFINE c == Thrown(r, now)
           st == IF r.state = "running" THEN "reviewing" ELSE r.state
           due == IF r.state = "running" THEN now + ReviewWindow ELSE r.review_due
<1>1. Agree(r, c)
  BY DEF Thrown, RecordType, Agree
<1>2. c.launch = r.launch /\ c.state = st /\ c.review_due = due
  BY DEF Thrown, RecordType
<1>3. now + ReviewWindow # 0
  BY DurationAssumption
<1> HIDE DEF c
<1>4. Scheduled(c)
  BY <1>1, <1>2, <1>3 DEF Scheduled, Agree
<1>5. Evidence(c, n) /\ Scheduled(c) /\ c.launch = r.launch /\ c.state = st
  BY <1>1, <1>2, <1>4, AgreeEvidence
<1> QED BY <1>5 DEF c

\* A resolved spawn leaves the evidence and sets a review deadline.
LEMMA BoundEvidence ==
    ASSUME NEW r \in RecordType, NEW n, Evidence(r, n), Scheduled(r), ~terminal(r.state),
           r.state # "absent", NEW now \in Nat
    PROVE  LET c == Bound(r, now)
           IN  /\ Evidence(c, n) /\ Scheduled(c) /\ c.launch = "confirmed" /\ c.generation = r.generation
               /\ c.state = IF r.state = "uncertain" THEN "preparing" ELSE r.state
<1> DEFINE c == Bound(r, now)
           st == IF r.state = "uncertain" THEN "preparing" ELSE r.state
<1>1. /\ c.task = r.task /\ c.run = r.run /\ c.report_blocked = r.report_blocked
      /\ c.baseline = r.baseline /\ c.generation = r.generation /\ c.recipe = r.recipe
  BY DEF Bound, RecordType
<1>2. c.launch = "confirmed" /\ c.observer = TRUE /\ c.state = st /\ c.review_due = now + ReviewWindow
  BY DEF Bound, RecordType
<1>3. now + ReviewWindow # 0
  BY DurationAssumption
<1> HIDE DEF c
<1>4. Evidence(c, n)
  BY <1>1 DEF Evidence
<1>5. Scheduled(c)
  BY <1>1, <1>2, <1>3 DEF Scheduled
<1> QED BY <1>1, <1>2, <1>4, <1>5 DEF c

\* recover() unblocks only evidence sealed under the recipe in force.
LEMMA RecoveredEvidence ==
    ASSUME NEW r \in RecordType, NEW n, Evidence(r, n), Scheduled(r), ~terminal(r.state),
           r.state # "absent", NEW now \in Nat
    PROVE  LET c == Recovered(r, now)
           IN  /\ Evidence(c, n) /\ Scheduled(c) /\ c.launch = r.launch
               /\ c.state = IF r.launch = "intent" THEN "uncertain"
                            ELSE IF r.state = "running" THEN "reviewing" ELSE r.state
<1> DEFINE i == Interrupted(r, now)
           c == Recovered(r, now)
           st == IF r.launch = "intent" THEN "uncertain"
                 ELSE IF r.state = "running" THEN "reviewing" ELSE r.state
<1>1. /\ i \in RecordType /\ Evidence(i, n) /\ Scheduled(i) /\ i.launch = r.launch
      /\ i.state = IF r.state = "running" THEN "reviewing" ELSE r.state
  <2>1. CASE r.state # "running"
    BY <2>1 DEF Interrupted
  <2>2. CASE r.state = "running"
    <3> DEFINE sealed == Sealed(r.task) /\ r.task.result.generation = r.generation
               run == IF sealed THEN r.task.result ELSE r.run
               blocked == ~(sealed /\ r.task.result.ok)
               due == now + ReviewWindow
               e == [r EXCEPT !.state = "reviewing", !.run = run, !.report_blocked = blocked,
                              !.review_wake = "pending", !.review_due = due]
    <3>1. i = e
      BY <2>2 DEF Interrupted
    <3>2. run \in RunType /\ blocked \in BOOLEAN
      BY DEF RecordType, TaskType
    <3>3. due \in Nat /\ due # 0
      BY DurationAssumption
    <3>4. ~blocked => run.ok /\ run.id = n /\ run.generation = r.generation
      BY DEF Evidence, Sealed
    <3> HIDE DEF sealed, run, blocked, due
    <3>5. e \in RecordType
      BY <3>2, <3>3 DEF RecordType, States, Wakes
    <3>6. /\ e.state = "reviewing" /\ e.run = run /\ e.report_blocked = blocked /\ e.review_due = due
          /\ e.task = r.task /\ e.baseline = r.baseline /\ e.generation = r.generation
      BY DEF RecordType
    <3>7. e.recipe = r.recipe /\ e.observer = r.observer /\ e.launch = r.launch
      BY DEF RecordType
    <3> HIDE DEF e
    <3>8. Evidence(e, n)
      BY <3>4, <3>6 DEF Evidence
    <3>9. Scheduled(e)
      BY <2>2, <3>3, <3>6, <3>7 DEF Scheduled
    <3> HIDE DEF i
    <3> QED BY <2>2, <3>1, <3>5, <3>6, <3>7, <3>8, <3>9
  <2> QED BY <2>1, <2>2
<1> HIDE DEF i
<1>2. Agree(i, c)
  BY <1>1 DEF Recovered, i, RecordType, Agree
<1>3. c.launch = i.launch /\ c.review_due = i.review_due
  BY <1>1 DEF Recovered, i, RecordType
<1>4. c.state = IF r.launch = "intent" THEN "uncertain" ELSE i.state
  BY <1>1 DEF Recovered, i, RecordType
<1> HIDE DEF c
<1>5. Evidence(c, n)
  BY <1>1, <1>2, AgreeEvidence
<1>6. Scheduled(c)
  BY <1>1, <1>2, <1>3, <1>4 DEF Scheduled, Agree
<1>7. Evidence(c, n) /\ Scheduled(c) /\ c.launch = r.launch /\ c.state = st
  BY <1>1, <1>3, <1>4, <1>5, <1>6
<1> QED BY <1>7 DEF c

\* classify() carries a new baseline only out of a successful run.
LEMMA RebaseNeedsSuccess ==
    ASSUME NEW r, NEW base, NEW run, NEW d \in classify(r, base, run), d.rebase
    PROVE  run.ok
<1>1. \A kind : Decision(kind, FALSE).rebase = FALSE
  BY DEF Decision
<1> SUFFICES ASSUME ~run.ok PROVE FALSE
  OBVIOUS
<1>2. classify(r, base, run) = {Decision("review", FALSE)}
  BY DEF classify
<1> QED BY <1>1, <1>2

\* The end of a collection.
LEMMA ClassifiedEvidence ==
    ASSUME NEW r \in RecordType, NEW n, Evidence(r, n), Scheduled(r), r.state = "running",
           NEW run \in RunType, run.generation = r.generation, run.ok => run.id = n,
           NEW d, d.rebase => run.ok, NEW now \in Nat
    PROVE  LET c == Classified(r, run, d, now)
           IN  Evidence(c, n) /\ Scheduled(c) /\ c.state \in {"reviewing", "watching"}
<1> DEFINE c == Classified(r, run, d, now)
           base == IF d.rebase THEN [form |-> "projected", run |-> run] ELSE r.baseline
           due == IF d.kind = "review" THEN now + ReviewWindow ELSE r.review_due
<1>1. /\ c.task = r.task /\ c.run = run /\ c.report_blocked = ~run.ok /\ c.baseline = base
      /\ c.generation = r.generation /\ c.recipe = r.recipe
  BY DEF Classified, RecordType
<1>2. c.observer = r.observer /\ c.launch = r.launch /\ c.review_due = due
  BY DEF Classified, RecordType
<1>3. c.state = IF d.kind = "review" THEN "reviewing" ELSE "watching"
  BY DEF Classified, RecordType
<1>4. base.form # "none" => base.run.ok /\ base.run.generation = r.generation
  <2>1. CASE d.rebase
    BY <2>1
  <2>2. CASE ~d.rebase
    BY <2>2 DEF Evidence
  <2> QED BY <2>1, <2>2
<1>5. /\ d.kind = "review" => due # 0
      /\ d.kind # "review" => due = r.review_due
  BY DurationAssumption
<1> HIDE DEF c, base, due
<1>6. Evidence(c, n)
  BY <1>1, <1>4 DEF Evidence
<1>7. Scheduled(c)
  BY <1>1, <1>2, <1>3, <1>5 DEF Scheduled
<1>8. Evidence(c, n) /\ Scheduled(c) /\ c.state \in {"reviewing", "watching"}
  BY <1>3, <1>6, <1>7
<1> QED BY <1>8 DEF c

-----------------------------------------------------------------------------
(* The calls and the steps, one by one.                                     *)

\* A report publishes the newest evidence of its subscription.
Published ==
    \A t \in Subs : \A n :
        <<t, "run", n>> \in DOMAIN fnd' \ DOMAIN fnd =>
            /\ n = attempts[t] /\ rec[t].run.ok /\ rec[t].state \in DispositionDue
            /\ rec[t].mode = "changes" => /\ rec[t].baseline.form # "none"
                                          /\ rec[t].baseline.run.generation = rec[t].run.generation

\* What a step of one subscription does: others are left alone, the invariant
\* holds of its own, and nothing is opened or begun.
Others(s) == \A t \in Subs : t # s => rec'[t] = rec[t] /\ step'[t] = step[t] /\ attempts'[t] = attempts[t]
Begun(s) == /\ s \in Active' => s \in Active \/ create(s)
            /\ s \in Busy' => s \in Busy
Follows(s) == Others(s) /\ OpenInv(s)' /\ Begun(s) /\ Published

\* A subscription that is closed by the step, or was closed before.
LEMMA Ended ==
    ASSUME NEW s \in Subs, terminal(rec'[s].state)
    PROVE  OpenInv(s)' /\ s \notin Active'
BY DEF OpenInv, Active, terminal

\* An open subscription for which no collection is under way.
LEMMA Resting ==
    ASSUME NEW s \in Subs, Evidence(rec'[s], attempts'[s]), Scheduled(rec'[s]),
           step'[s].pc \notin CollectPcs, rec'[s].state # "running",
           rec'[s].state = "preparing" /\ rec'[s].launch = "intent" => step'[s].pc \in {"launch", "spawn"},
           rec'[s].state = "uncertain" => <<s, "attention", 0>> \in DOMAIN fnd'
    PROVE  OpenInv(s)'
<1>1. Attended(s)'
  BY DEF Attended, At, CollectPcs
<1> QED BY <1>1 DEF OpenInv

\* A row saved while its step, if any, goes on waiting.
LEMMA Ongoing ==
    ASSUME NEW s \in Subs, OpenInv(s), DOMAIN fnd \subseteq DOMAIN fnd',
           step'[s] = step[s], attempts'[s] = attempts[s], rec'[s].state = rec[s].state,
           rec'[s].launch = rec[s].launch, rec'[s].generation = rec[s].generation,
           ~terminal(rec[s].state) => Evidence(rec'[s], attempts[s]) /\ Scheduled(rec'[s])
    PROVE  OpenInv(s)'
BY DEF OpenInv, Attended, At

\* No report is published by a step that files no finding, or another one.
LEMMA NothingFiled ==
    ASSUME fnd' = fnd
    PROVE  Published
BY DEF Published

LEMMA OtherFiled ==
    ASSUME NEW key, key[2] # "run", fnd' = WithFinding(key)
    PROVE  Published
<1>1. DOMAIN fnd' \subseteq DOMAIN fnd \cup {key}
  BY DEF WithFinding
<1>2. \A t, n : <<t, "run", n>> # key
  OBVIOUS
<1> QED BY <1>1, <1>2 DEF Published

\* cancel() files nothing.
LEMMA CancelFilesNothing ==
    ASSUME NEW s, CancelFindings(s)
    PROVE  Published
<1>1. DOMAIN fnd' = DOMAIN fnd
  BY DEF CancelFindings
<1> QED BY <1>1 DEF Published

\* One row is saved, and the process moves only in one subscription.
LEMMA OneRow ==
    ASSUME TypeOK, NEW s \in Subs, NEW c, save(s, c), Own(s), attempts' = attempts
    PROVE  Others(s) /\ rec'[s] = c /\ attempts'[s] = attempts[s]
BY DEF save, TypeOK, Own, Others

\* Requests of the owner.
LEMMA OwnerFollows ==
    ASSUME EvidenceInv, DOMAIN fnd \subseteq DOMAIN fnd', NEW s \in Subs, Owner(s)
    PROVE  Follows(s)
<1> USE DEF volatile, host, history
<1> DEFINE r == rec[s]
<1>1. TypeOK /\ r \in RecordType /\ OpenInv(s)
  BY DEF EvidenceInv, OutboxInv, TypeOK
<1>2. UNCHANGED <<step, attempts>> /\ Own(s)
  BY DEF Owner, create, cancel, CancelStopped, Own
<1>3. s \in Busy' => s \in Busy
  BY <1>2 DEF Busy
<1>4. CASE create(s)
  <2>1. PICK m \in Modes, life \in Lifetimes :
          save(s, [Absent EXCEPT !.state = "preparing", !.mode = m,
                     !.expires_at = IF life = 0 THEN 0 ELSE clock + life,
                     !.next_at = clock])
    BY <1>4 DEF create
  <2> DEFINE c == [Absent EXCEPT !.state = "preparing", !.mode = m,
                     !.expires_at = IF life = 0 THEN 0 ELSE clock + life,
                     !.next_at = clock]
  <2>2. /\ c.state = "preparing" /\ c.launch = "none" /\ c.recipe = "none"
        /\ c.task = NoTask /\ c.run = NoRun /\ c.baseline = NoBaseline
    BY DEF Absent
  <2>3. save(s, c) /\ fnd' = fnd /\ r.state = "absent"
    BY <1>4, <2>1 DEF create
  <2> HIDE DEF c
  <2>4. NoTask.id = 0 /\ NoTask.result.id = 0 /\ NoRun.id = 0 /\ NoBaseline.form = "none"
    BY DEF NoTask, NoRun, Run, NoBaseline
  <2>5. Evidence(c, attempts[s]) /\ Scheduled(c)
    BY <2>2, <2>4 DEF Evidence, Scheduled
  <2>6. step[s].pc \notin CollectPcs
    BY <1>1, <2>3 DEF OpenInv, Attended, At, terminal, Terminals
  <2>7. Others(s) /\ rec'[s] = c /\ attempts'[s] = attempts[s]
    BY <1>1, <1>2, <2>3, OneRow
  <2>8. OpenInv(s)'
    BY <1>2, <2>2, <2>5, <2>6, <2>7, Resting
  <2> QED BY <1>3, <1>4, <2>3, <2>7, <2>8, NothingFiled DEF Follows, Begun
<1>5. CASE cancel(s)
  <2> DEFINE c == Cancelled(r)
  <2>1. terminal(c.state)
    BY <1>1, CancelledRow
  <2>2. save(s, c) /\ CancelFindings(s)
    BY <1>5 DEF cancel
  <2> HIDE DEF c
  <2>3. Others(s) /\ rec'[s] = c
    BY <1>1, <1>2, <2>2, OneRow
  <2>4. OpenInv(s)' /\ s \notin Active'
    BY <2>1, <2>3, Ended
  <2> QED BY <1>3, <2>2, <2>3, <2>4, CancelFilesNothing DEF Follows, Begun
<1>6. CASE CancelStopped(s)
  <2>1. fnd' = fnd
    BY <1>6 DEF CancelStopped
  <2>2. PICK c \in {r, [r EXCEPT !.stop_pending = FALSE]} : save(s, c)
    <3>1. rec' = rec => save(s, r)
      BY <1>1 DEF save, TypeOK
    <3> QED BY <1>6, <3>1 DEF CancelStopped
  <2>3. Agree(r, c) /\ c.state = r.state /\ c.launch = r.launch /\ c.review_due = r.review_due
    BY <1>1 DEF Agree, RecordType
  <2>4. Others(s) /\ rec'[s] = c /\ attempts'[s] = attempts[s]
    BY <1>1, <1>2, <2>2, OneRow
  <2>5. ~terminal(r.state) => Evidence(c, attempts[s]) /\ Scheduled(c)
    BY <1>1, <2>3, AgreeEvidence, AgreeScheduled DEF OpenInv
  <2>6. c.generation = r.generation
    BY <2>3 DEF Agree
  <2>7. OpenInv(s)'
    BY <1>1, <1>2, <2>3, <2>4, <2>5, <2>6, Ongoing
  <2> QED BY <1>3, <2>1, <2>3, <2>4, <2>7, NothingFiled DEF Follows, Begun, Active
<1> QED BY <1>4, <1>5, <1>6 DEF Owner

\* A finding that closes its subscription and is no report.
LEMMA FindingEnds ==
    ASSUME TypeOK, NEW s \in Subs, Own(s), attempts' = attempts,
           NEW outcome \in {"failed", "expired"}, NEW occurrence, occurrence # "run", NEW ordinal,
           finding(s, rec[s], outcome, occurrence, ordinal)
    PROVE  Others(s) /\ OpenInv(s)' /\ s \notin Active' /\ Published
<1> DEFINE c == Concluded(rec[s], outcome, clock)
           key == <<s, occurrence, ordinal>>
<1>1. rec[s] \in RecordType /\ clock \in Nat
  BY DEF TypeOK, ProcessOK
<1>2. c.state = outcome
  BY <1>1, ConcludedKeeps
<1>3. save(s, c) /\ fnd' = WithFinding(key) /\ key[2] = occurrence
  BY DEF finding
<1> HIDE DEF c, key
<1>4. Others(s) /\ rec'[s] = c
  BY <1>3, OneRow
<1>5. terminal(c.state)
  BY <1>2 DEF terminal, Terminals
<1> QED BY <1>3, <1>4, <1>5, Ended, OtherFiled

\* Tools of the observer.
LEMMA ObserverFollows ==
    ASSUME EvidenceInv, DOMAIN fnd \subseteq DOMAIN fnd', NEW s \in Subs, Observer(s)
    PROVE  Follows(s)
<1> USE DEF volatile, host, history
<1> DEFINE r == rec[s]
           n == attempts[s]
<1>1. TypeOK /\ r \in RecordType /\ OpenInv(s) /\ clock \in Nat
  BY DEF EvidenceInv, OutboxInv, TypeOK, ProcessOK
<1>2. UNCHANGED <<step, attempts>> /\ Own(s)
  BY DEF Observer, authorize, install, wait, report, fail, Own
<1>3. (s \in Busy' => s \in Busy) /\ s \in Active
  BY <1>2 DEF Busy, Observer, authorize, install, wait, report, fail, observer
<1>4. Evidence(r, n) /\ Scheduled(r) /\ Attended(s)
  BY <1>1, <1>3 DEF OpenInv, Active, terminal
\* a disposition that leaves the row open
<1>5. ASSUME r.state # "running", NEW c, rec'[s] = c, Evidence(c, n), Scheduled(c),
             c.state \in {"preparing", "watching"}, c.state = "preparing" => c.launch = "confirmed"
      PROVE  OpenInv(s)'
  <2>1. step'[s].pc \notin CollectPcs
    BY <1>2, <1>4, <1>5 DEF Attended, At
  <2> QED BY <1>2, <1>5, <2>1, Resting
<1>6. CASE authorize(s)
  <2> DEFINE c == [r EXCEPT !.observer = TRUE, !.launch = "confirmed", !.state = "preparing",
                            !.review_due = clock + ReviewWindow]
  <2>1. save(s, c) /\ fnd' = fnd /\ ~r.observer
    BY <1>6 DEF authorize
  <2>2. /\ c.task = r.task /\ c.run = r.run /\ c.report_blocked = r.report_blocked
        /\ c.baseline = r.baseline /\ c.generation = r.generation /\ c.recipe = r.recipe
    BY <1>1 DEF RecordType
  <2>3. /\ c.observer = TRUE /\ c.state = "preparing" /\ c.launch = "confirmed"
        /\ c.review_due = clock + ReviewWindow
    BY <1>1 DEF RecordType
  <2>4. clock + ReviewWindow # 0
    BY <1>1, DurationAssumption
  <2> HIDE DEF c
  <2>5. Evidence(c, n) /\ Scheduled(c)
    BY <1>4, <2>2, <2>3, <2>4 DEF Evidence, Scheduled
  <2>6. r.state # "running"
    BY <1>4, <2>1 DEF Scheduled
  <2>7. Others(s) /\ rec'[s] = c
    BY <1>1, <1>2, <2>1, OneRow
  <2> QED BY <1>3, <1>5, <2>1, <2>3, <2>5, <2>6, <2>7, NothingFiled DEF Follows, Begun
<1>7. CASE install(s)
  <2>1. PICK kind \in Kinds : save(s, Installed(r, kind, clock))
    BY <1>7 DEF install
  <2> DEFINE c == Installed(r, kind, clock)
  <2>2. r.observer /\ r.state # "running" /\ fnd' = fnd
    BY <1>7 DEF install, observer, DispositionDue
  <2>3. Evidence(c, n) /\ Scheduled(c) /\ c.state = "watching"
    BY <1>1, <1>4, <2>2, RequestAssumption, InstalledEvidence
  <2>4. save(s, c)
    BY <2>1
  <2> HIDE DEF c
  <2>5. Others(s) /\ rec'[s] = c
    BY <1>1, <1>2, <2>4, OneRow
  <2> QED BY <1>3, <1>5, <2>2, <2>3, <2>5, NothingFiled DEF Follows, Begun
<1>8. CASE wait(s)
  <2> DEFINE c == Waiting(r, clock)
  <2>1. save(s, c) /\ r.recipe # "none" /\ r.state # "running" /\ fnd' = fnd
    BY <1>8 DEF wait, observer, DispositionDue
  <2>2. Evidence(c, n) /\ Scheduled(c) /\ c.state = "watching"
    BY <1>1, <1>4, <2>1, WaitingEvidence
  <2> HIDE DEF c
  <2>3. Others(s) /\ rec'[s] = c
    BY <1>1, <1>2, <2>1, OneRow
  <2> QED BY <1>3, <1>5, <2>1, <2>2, <2>3, NothingFiled DEF Follows, Begun
<1>9. CASE report(s)
  <2> DEFINE c == Concluded(Reported(r), "matched", clock)
             key == <<s, "run", r.run.id>>
  <2>1. /\ save(s, c) /\ fnd' = WithFinding(key) /\ Reportable(r)
        /\ r.state \in DispositionDue
    BY <1>9 DEF report, finding, observer
  <2>2. terminal(c.state) \/ (Evidence(c, n) /\ Scheduled(c) /\ c.state = "watching")
    BY <1>1, <1>4, <2>1, ReportedEvidence
  <2> HIDE DEF c
  <2>3. Others(s) /\ rec'[s] = c
    BY <1>1, <1>2, <2>1, OneRow
  <2>4. OpenInv(s)'
    <3>1. r.state # "running"
      BY <2>1 DEF DispositionDue
    <3> QED BY <1>5, <2>2, <2>3, <3>1, Ended
  <2>5. Published
    <3>1. DOMAIN fnd' \subseteq DOMAIN fnd \cup {key}
      BY <2>1 DEF WithFinding
    <3>2. r.run.ok /\ r.run.id = n
      BY <1>4, <2>1 DEF Reportable, Evidence
    <3>3. r.mode = "changes" => r.baseline.form # "none" /\ r.baseline.run.generation = r.run.generation
      BY <1>4, <2>1 DEF Reportable, Evidence
    <3>4. \A t, m : <<t, "run", m>> = key => t = s /\ m = r.run.id
      OBVIOUS
    <3> HIDE DEF key
    <3> QED BY <2>1, <3>1, <3>2, <3>3, <3>4 DEF Published
  <2> QED BY <1>3, <2>3, <2>4, <2>5 DEF Follows, Begun
<1>10. CASE fail(s)
  <2>1. finding(s, r, "failed", "failed", r.generation)
    BY <1>10 DEF fail
  <2>2. Others(s) /\ OpenInv(s)' /\ Published
    BY <1>1, <1>2, <2>1, FindingEnds
  <2> QED BY <1>3, <2>2 DEF Follows, Begun
<1> QED BY <1>6, <1>7, <1>8, <1>9, <1>10 DEF Observer

\* Calls of the collector.
LEMMA CollectorFollows ==
    ASSUME EvidenceInv, DOMAIN fnd \subseteq DOMAIN fnd', NEW s \in Subs, Collector(s)
    PROVE  Follows(s)
<1> USE DEF volatile, host, history
<1> DEFINE r == rec[s]
           n == attempts[s]
<1>1. TypeOK /\ r \in RecordType /\ OpenInv(s) /\ r.task \in TaskType
  BY DEF EvidenceInv, OutboxInv, TypeOK, RecordType
<1>2. UNCHANGED <<step, attempts, fnd>> /\ Own(s)
  BY DEF Collector, poll, submit, Own
<1>3. (s \in Busy' => s \in Busy) /\ ~terminal(r.state)
  BY <1>2 DEF Busy, Collector, poll, submit, terminal, Terminals
<1>4. Evidence(r, n) /\ Scheduled(r)
  BY <1>1, <1>3 DEF OpenInv
<1>5. PICK c : /\ save(s, c) /\ Evidence(c, n) /\ Scheduled(c)
               /\ c.state = r.state /\ c.launch = r.launch /\ c.generation = r.generation
  <2>1. CASE poll(s)
    <3> DEFINE t == [r.task EXCEPT !.claimed = @ \/ (r.state = "running" /\ r.task.id # 0 /\ ~Sealed(r.task))]
               c == [r EXCEPT !.worker = TRUE, !.task = t]
    <3>1. save(s, c)
      BY <1>1, <2>1 DEF poll, RecordType
    <3>2. t.id = r.task.id /\ t.result = r.task.result
      BY <1>1 DEF TaskType
    <3> HIDE DEF t
    <3>3. /\ c.task = t /\ c.run = r.run /\ c.report_blocked = r.report_blocked
          /\ c.baseline = r.baseline /\ c.generation = r.generation
      BY <1>1 DEF RecordType
    <3>4. /\ c.state = r.state /\ c.launch = r.launch /\ c.recipe = r.recipe
          /\ c.observer = r.observer /\ c.review_due = r.review_due
      BY <1>1 DEF RecordType
    <3> HIDE DEF c
    <3>5. Evidence(c, n) /\ Scheduled(c)
      BY <1>4, <3>2, <3>3, <3>4 DEF Evidence, Scheduled
    <3> QED BY <3>1, <3>3, <3>4, <3>5
  <2>2. CASE submit(s)
    <3>1. PICK ok \in BOOLEAN, out \in Outputs :
            save(s, [r EXCEPT !.task.result = Run(r.task.id, r.generation, ok, out)])
      BY <2>2 DEF submit
    <3> DEFINE run == Run(r.task.id, r.generation, ok, out)
               t == [r.task EXCEPT !.result = run]
               c == [r EXCEPT !.task = t]
    <3>2. run.id = r.task.id /\ run.generation = r.generation
      BY DEF Run
    <3>3. save(s, c)
      BY <1>1, <3>1 DEF RecordType
    <3> HIDE DEF run
    <3>4. t.id = r.task.id /\ t.result = run
      BY <1>1 DEF TaskType
    <3> HIDE DEF t
    <3>5. /\ c.task = t /\ c.run = r.run /\ c.report_blocked = r.report_blocked
          /\ c.baseline = r.baseline /\ c.generation = r.generation
      BY <1>1 DEF RecordType
    <3>6. /\ c.state = r.state /\ c.launch = r.launch /\ c.recipe = r.recipe
          /\ c.observer = r.observer /\ c.review_due = r.review_due
      BY <1>1 DEF RecordType
    <3> HIDE DEF c
    <3>7. Evidence(c, n) /\ Scheduled(c)
      BY <1>4, <3>2, <3>4, <3>5, <3>6 DEF Evidence, Scheduled
    <3> QED BY <3>3, <3>5, <3>6, <3>7
  <2> QED BY <2>1, <2>2 DEF Collector
<1>6. Others(s) /\ rec'[s] = c
  BY <1>1, <1>2, <1>5, OneRow
<1>7. OpenInv(s)'
  BY <1>1, <1>2, <1>5, <1>6, Ongoing
<1> QED BY <1>2, <1>3, <1>5, <1>6, <1>7, NothingFiled DEF Follows, Begun, Active

\* Where a step stands after its callback.
LEMMA StepStands ==
    ASSUME TypeOK, NEW s \in Subs
    PROVE  /\ Return(s) => step'[s].pc = "idle"
           /\ \A pc : Await(s, pc) => step'[s].pc = pc
BY DEF TypeOK, ProcessOK, Return, Await, Idle

\* The branches of step() up to the first port call.
LEMMA CheckFollows ==
    ASSUME EvidenceInv, DOMAIN fnd \subseteq DOMAIN fnd', NEW s \in Subs, Check(s)
    PROVE  Follows(s)
<1> USE DEF host, history
<1> DEFINE r == rec[s]
           n == attempts[s]
<1>1. TypeOK /\ OutboxInv /\ r \in RecordType /\ OpenInv(s) /\ clock \in Nat
  BY DEF EvidenceInv, OutboxInv, TypeOK, ProcessOK
<1>2. step[s].pc \in {"owner", "stop", "cancel"}
  BY DEF Check, StepFindsNothing, StepOwnerClosed, StepExpires, StepOutOfTurns, StepLaunches,
         StepObserverTimedOut, StepWakes, StepCollects, StepStopped, Unexpired, Resumed, At
<1>3. r.state # "absent" /\ s \in Busy
  BY <1>1, <1>2, Present DEF Busy
<1>4. ASSUME ~terminal(r.state)
      PROVE  /\ Evidence(r, n) /\ Scheduled(r) /\ s \in Active
             /\ r.state # "running" /\ ~(r.state = "preparing" /\ r.launch = "intent")
             /\ r.state = "uncertain" => <<s, "attention", 0>> \in DOMAIN fnd'
  BY <1>1, <1>2, <1>3, <1>4 DEF OpenInv, Attended, At, CollectPcs, Active, terminal
\* a row that goes on, saved before an await or a return
<1>5. ASSUME NEW c, save(s, c), Own(s), UNCHANGED <<fnd, attempts>>, Agree(r, c), c.state = r.state,
             c.launch = r.launch \/ step'[s].pc = "launch", step'[s].pc \in {"idle", "launch", "wake"},
             ~terminal(r.state) => Scheduled(c)
      PROVE  Follows(s)
  <2>1. Others(s) /\ rec'[s] = c /\ attempts'[s] = n
    BY <1>1, <1>5, OneRow
  <2>2. CASE terminal(r.state)
    BY <1>3, <1>5, <2>1, <2>2, Ended, NothingFiled DEF Follows, Begun
  <2>3. CASE ~terminal(r.state)
    <3>1. Evidence(c, n) /\ Scheduled(c)
      BY <1>4, <1>5, <2>3, AgreeEvidence
    <3>2. step'[s].pc \notin CollectPcs
      BY <1>5 DEF CollectPcs
    <3>3. OpenInv(s)'
      BY <1>4, <1>5, <2>1, <2>3, <3>1, <3>2, Resting
    <3> QED BY <1>3, <1>4, <1>5, <2>1, <2>3, <3>3, NothingFiled DEF Follows, Begun
  <2> QED BY <2>2, <2>3
<1>6. CASE StepFindsNothing(s) \/ StepStopped(s)
  <2>1. UNCHANGED <<fnd, attempts>> /\ Own(s) /\ step'[s].pc = "idle"
    BY <1>1, <1>6, OwnSteps, StepStands DEF StepFindsNothing, StepStopped, durable
  <2>2. PICK c \in {r, [r EXCEPT !.stop_pending = FALSE]} : save(s, c)
    <3>1. rec' = rec => save(s, r)
      BY <1>1 DEF save, TypeOK
    <3> QED BY <1>6, <3>1 DEF StepFindsNothing, StepStopped, durable
  <2>3. Agree(r, c) /\ c.state = r.state /\ c.launch = r.launch /\ c.review_due = r.review_due
    BY <1>1 DEF Agree, RecordType
  <2>4. ~terminal(r.state) => Scheduled(c)
    BY <1>4, <2>3, AgreeScheduled
  <2> QED BY <1>5, <2>1, <2>2, <2>3, <2>4
<1>7. CASE StepOwnerClosed(s)
  <2> DEFINE c == Cancelled(r)
  <2>1. terminal(c.state)
    BY <1>1, CancelledRow
  <2>2. save(s, c) /\ CancelFindings(s) /\ Own(s) /\ attempts' = attempts
    BY <1>1, <1>7, OwnSteps DEF StepOwnerClosed
  <2> HIDE DEF c
  <2>3. Others(s) /\ rec'[s] = c
    BY <1>1, <2>2, OneRow
  <2> QED BY <1>3, <2>1, <2>2, <2>3, Ended, CancelFilesNothing DEF Follows, Begun
<1>8. CASE StepExpires(s) \/ StepOutOfTurns(s) \/ StepObserverTimedOut(s)
  <2>1. Own(s) /\ attempts' = attempts
    BY <1>1, <1>8, OwnSteps DEF StepExpires, StepOutOfTurns, StepObserverTimedOut
  <2>2. \/ finding(s, r, "expired", "expiry", 0) \/ finding(s, r, "failed", "budget", 0)
        \/ finding(s, r, "failed", "observer-timeout", 0)
    BY <1>8 DEF StepExpires, StepOutOfTurns, StepObserverTimedOut
  <2>3. Others(s) /\ OpenInv(s)' /\ s \notin Active' /\ Published
    BY <1>1, <2>1, <2>2, FindingEnds
  <2> QED BY <1>3, <2>3 DEF Follows, Begun
<1>9. CASE StepLaunches(s)
  <2> DEFINE c == [r EXCEPT !.launch = "intent", !.observer_turns = @ + 1]
  <2>1. save(s, c) /\ UNCHANGED <<fnd, attempts>> /\ ~terminal(r.state)
    BY <1>9 DEF StepLaunches, Unexpired, Resumed
  <2>2. Own(s) /\ step'[s].pc = "launch"
    BY <1>1, <1>9, OwnSteps, StepStands DEF StepLaunches
  <2>3. Agree(r, c) /\ c.state = r.state /\ c.launch = "intent" /\ c.review_due = r.review_due
    BY <1>1 DEF Agree, RecordType
  <2> HIDE DEF c
  <2>4. Scheduled(c)
    BY <1>4, <2>1, <2>3 DEF Scheduled, Agree
  <2> QED BY <1>5, <2>1, <2>2, <2>3, <2>4
<1>10. CASE StepWakes(s)
  <2> DEFINE c == [r EXCEPT !.review_wake = "sending", !.observer_turns = @ + 1,
                            !.review_due = step[s].now + ReviewWindow]
  <2>1. save(s, c) /\ UNCHANGED <<fnd, attempts>> /\ ~terminal(r.state)
    BY <1>10 DEF StepWakes, Unexpired, Resumed
  <2>2. Own(s) /\ step'[s].pc = "wake"
    BY <1>1, <1>10, OwnSteps, StepStands DEF StepWakes
  <2>3. /\ Agree(r, c) /\ c.state = r.state /\ c.launch = r.launch
        /\ c.review_due = step[s].now + ReviewWindow
    BY <1>1 DEF Agree, RecordType
  <2>4. step[s].now + ReviewWindow # 0
    BY <1>1, DurationAssumption DEF TypeOK, ProcessOK, StepType
  <2> HIDE DEF c
  <2>5. Scheduled(c)
    BY <1>4, <2>1, <2>3, <2>4 DEF Scheduled, Agree
  <2> QED BY <1>5, <2>1, <2>2, <2>3, <2>5
<1>11. CASE StepCollects(s)
  <2> DEFINE c == [r EXCEPT !.state = "running", !.report_blocked = TRUE, !.task = NoTask]
  <2>1. save(s, c) /\ fnd' = fnd /\ ~terminal(r.state) /\ r.recipe # "none"
    BY <1>11 DEF StepCollects, NeedsRun, Unexpired, Resumed
  <2>2. /\ step'[s].pc = "authority" /\ step'[s].generation = r.generation
        /\ \A t \in Subs : t # s => step'[t] = step[t] /\ attempts'[t] = attempts[t]
    BY <1>1, <1>11 DEF StepCollects, TypeOK, ProcessOK, StepType
  <2>3. /\ c.state = "running" /\ c.report_blocked = TRUE /\ c.task = NoTask
        /\ c.run = r.run /\ c.baseline = r.baseline /\ c.generation = r.generation
    BY <1>1 DEF RecordType
  <2>4. /\ c.recipe = r.recipe /\ c.observer = r.observer /\ c.launch = r.launch
        /\ c.review_due = r.review_due
    BY <1>1 DEF RecordType
  <2> HIDE DEF c
  <2>5. rec'[s] = c /\ \A t \in Subs : t # s => rec'[t] = rec[t]
    BY <1>1, <2>1 DEF save, TypeOK
  <2>6. NoTask.id = 0 /\ NoTask.result.id = 0
    BY DEF NoTask, NoRun, Run
  <2>7. Evidence(c, attempts'[s]) /\ Scheduled(c)
    BY <1>4, <2>1, <2>3, <2>4, <2>6 DEF Evidence, Scheduled
  <2>8. Attended(s)'
    BY <2>2, <2>3, <2>5 DEF Attended, At, CollectPcs
  <2>9. OpenInv(s)'
    BY <2>5, <2>7, <2>8 DEF OpenInv
  <2> QED BY <1>3, <1>4, <2>1, <2>2, <2>5, <2>9, NothingFiled DEF Follows, Begun, Others
<1> QED BY <1>6, <1>7, <1>8, <1>9, <1>10, <1>11 DEF Check

\* A step that saves no row and moves no step.
LEMMA IdleFollows ==
    ASSUME TypeOK, NEW s \in Subs, OpenInv(s), UNCHANGED <<rec, fnd, step, attempts>>
    PROVE  Follows(s)
<1>1. OpenInv(s)'
  BY Ongoing DEF OpenInv
<1> QED BY <1>1, NothingFiled DEF Follows, Others, Begun, Active, Busy

\* The launch of the observer.
LEMMA LaunchFollows ==
    ASSUME EvidenceInv, DOMAIN fnd \subseteq DOMAIN fnd', NEW s \in Subs, Launch(s)
    PROVE  Follows(s)
<1> USE DEF volatile, host, history
<1> DEFINE r == rec[s]
           n == attempts[s]
<1>1. TypeOK /\ OutboxInv /\ r \in RecordType /\ OpenInv(s) /\ clock \in Nat
  BY DEF EvidenceInv, OutboxInv, TypeOK, ProcessOK
<1>2. attempts' = attempts
  BY DEF Launch, LaunchRefused, RequestSpawn, LaunchTimesOut, SpawnResolves, SpawnRejects, HostSpawns
<1>3. ASSUME UNCHANGED <<rec, fnd, step>> PROVE Follows(s)
  BY <1>1, <1>2, <1>3, IdleFollows
<1>4. ASSUME ~terminal(r.state), step[s].pc # "idle" \/ s \in spawn
      PROVE  Evidence(r, n) /\ Scheduled(r) /\ Attended(s) /\ s \in Active /\ r.state # "absent"
  <2>1. r.state # "absent"
    BY <1>1, <1>4, Present
  <2> QED BY <1>1, <1>4, <2>1 DEF OpenInv, Active, terminal
\* the row stays and the launch goes on or ends
<1>5. ASSUME At(s, {"launch", "spawn"}), UNCHANGED <<rec, fnd>>, Own(s),
             step'[s].pc = "spawn" \/ (step'[s].pc = "idle" /\ terminal(r.state))
      PROVE  Follows(s)
  <2>1. Others(s) /\ s \in Busy
    BY <1>2, <1>5 DEF Own, Others, Busy, At
  <2>2. CASE terminal(r.state)
    BY <1>5, <2>1, <2>2, Ended, NothingFiled DEF Follows, Begun
  <2>3. CASE ~terminal(r.state)
    <3>1. Evidence(r, n) /\ Scheduled(r) /\ Attended(s) /\ s \in Active
      BY <1>4, <1>5, <2>3 DEF At
    <3>2. r.state # "running" /\ step'[s].pc \notin CollectPcs
      BY <1>5, <2>3, <3>1 DEF Attended, At, CollectPcs
    <3>3. OpenInv(s)'
      BY <1>2, <1>5, <2>3, <3>1, <3>2, Resting DEF Attended
    <3> QED BY <1>5, <2>1, <3>1, <3>3, NothingFiled DEF Follows, Begun
  <2> QED BY <2>2, <2>3
<1>6. ASSUME At(s, {"launch", "spawn"}), LaunchUncertain(s) PROVE Follows(s)
  <2>1. Own(s) /\ step'[s].pc = "idle"
    BY <1>1, <1>6, OwnSteps, StepStands DEF LaunchUncertain
  <2>2. CASE terminal(r.state)
    BY <1>5, <1>6, <2>1, <2>2 DEF LaunchUncertain, durable
  <2>3. CASE ~terminal(r.state)
    <3> DEFINE c == [r EXCEPT !.state = "uncertain"]
               key == <<s, "attention", 0>>
    <3>1. Evidence(r, n) /\ Scheduled(r) /\ s \in Active /\ s \in Busy
      BY <1>4, <1>6, <2>3 DEF At, Busy
    <3>2. save(s, c) /\ fnd' = WithFinding(key) /\ key[2] = "attention"
      BY <1>6, <2>3 DEF LaunchUncertain, attention
    <3>3. Agree(r, c) /\ c.state = "uncertain" /\ c.launch = r.launch /\ c.review_due = r.review_due
      BY <1>1 DEF Agree, RecordType
    <3> HIDE DEF c
    <3>4. Evidence(c, n) /\ Scheduled(c)
      BY <3>1, <3>3, AgreeEvidence DEF Scheduled, Agree
    <3>5. Others(s) /\ rec'[s] = c /\ attempts'[s] = n
      BY <1>1, <1>2, <2>1, <3>2, OneRow
    <3>6. key \in DOMAIN fnd'
      BY <3>2 DEF WithFinding
    <3>7. step'[s].pc \notin CollectPcs
      BY <2>1 DEF CollectPcs
    <3>8. OpenInv(s)'
      BY <3>3, <3>4, <3>5, <3>6, <3>7, Resting
    <3> HIDE DEF key
    <3> QED BY <3>1, <3>2, <3>5, <3>8, OtherFiled DEF Follows, Begun
  <2> QED BY <2>2, <2>3
<1>7. CASE LaunchRefused(s) \/ LaunchTimesOut(s)
  BY <1>6, <1>7 DEF LaunchRefused, LaunchTimesOut, At
<1>8. CASE RequestSpawn(s)
  <2>1. At(s, {"launch", "spawn"}) /\ UNCHANGED <<rec, fnd>> /\ Own(s) /\ step'[s].pc = "spawn"
    BY <1>1, <1>8, OwnSteps, StepStands DEF RequestSpawn, At, durable
  <2> QED BY <1>5, <2>1
<1>9. CASE HostSpawns(s)
  BY <1>3, <1>9 DEF HostSpawns, durable
<1>10. CASE SpawnRejects(s)
  BY <1>3, <1>6, <1>10 DEF SpawnRejects, durable, At
<1>11. CASE SpawnResolves(s)
  <2> DEFINE c == Bound(r, clock)
  <2>1. save(s, c) /\ fnd' = fnd /\ s \in spawn
    BY <1>11 DEF SpawnResolves
  <2>2. step' = step \/ (step[s].pc = "spawn" /\ (Await(s, "stop") \/ Return(s)))
    BY <1>11 DEF SpawnResolves, At, Await, Return
  <2>3. Own(s) /\ (s \in Busy' => s \in Busy)
    BY <1>1, <2>2, OwnSteps DEF Busy
  <2>4. terminal(r.state) => terminal(c.state)
    BY <1>1, BoundRow
  <2>5. ~terminal(r.state) =>
          /\ Evidence(c, n) /\ Scheduled(c) /\ c.launch = "confirmed" /\ c.generation = r.generation
          /\ c.state = IF r.state = "uncertain" THEN "preparing" ELSE r.state
    BY <1>1, <1>4, <2>1, BoundEvidence
  <2> HIDE DEF c
  <2>6. Others(s) /\ rec'[s] = c /\ attempts'[s] = n
    BY <1>1, <1>2, <2>1, <2>3, OneRow
  <2>7. CASE terminal(r.state)
    BY <2>1, <2>3, <2>4, <2>6, <2>7, Ended, NothingFiled DEF Follows, Begun
  <2>8. CASE ~terminal(r.state)
    <3>1. Attended(s) /\ s \in Active
      BY <1>4, <2>1, <2>8
    <3>2. CASE step' = step
      <4>1. Attended(s)'
        BY <2>5, <2>6, <2>8, <3>1, <3>2 DEF Attended, At
      <4> QED BY <2>1, <2>3, <2>5, <2>6, <2>8, <3>1, <4>1, NothingFiled DEF OpenInv, Follows, Begun
    <3>3. CASE step[s].pc = "spawn" /\ (Await(s, "stop") \/ Return(s))
      <4>1. step'[s].pc \notin CollectPcs
        BY <1>1, <3>3, StepStands DEF CollectPcs
      <4>2. r.state # "running"
        BY <3>1, <3>3 DEF Attended, At, CollectPcs
      <4>3. OpenInv(s)'
        BY <2>5, <2>6, <2>8, <4>1, <4>2, Resting
      <4> QED BY <2>1, <2>3, <2>6, <3>1, <4>3, NothingFiled DEF Follows, Begun
    <3> QED BY <2>2, <3>2, <3>3
  <2> QED BY <2>7, <2>8
<1> QED BY <1>7, <1>8, <1>9, <1>10, <1>11 DEF Launch

\* The answer of a review wake.
LEMMA WakeFollows ==
    ASSUME EvidenceInv, DOMAIN fnd \subseteq DOMAIN fnd', NEW s \in Subs, Wake(s)
    PROVE  Follows(s)
<1> USE DEF host, history
<1> DEFINE r == rec[s]
           n == attempts[s]
<1>1. TypeOK /\ OutboxInv /\ r \in RecordType /\ OpenInv(s)
  BY DEF EvidenceInv, OutboxInv, TypeOK
<1>2. step[s].pc = "wake" /\ UNCHANGED <<fnd, attempts>> /\ Return(s)
  BY DEF Wake, WakeAccepted, WakeUncertain, At
<1>3. Own(s) /\ step'[s].pc = "idle" /\ s \in Busy /\ r.state # "absent"
  BY <1>1, <1>2, OwnSteps, StepStands, Present DEF Busy
<1>4. \/ save(s, r)
      \/ \E w \in {"accepted", "uncertain"} : save(s, [r EXCEPT !.review_wake = w])
  <2>1. rec' = rec => save(s, r)
    BY <1>1 DEF save, TypeOK
  <2> QED BY <2>1 DEF Wake, WakeAccepted, WakeUncertain
<1>5. PICK c : /\ save(s, c) /\ Agree(r, c)
               /\ c.state = r.state /\ c.launch = r.launch /\ c.review_due = r.review_due
  <2>1. ASSUME NEW w
        PROVE  LET c == [r EXCEPT !.review_wake = w]
               IN  /\ Agree(r, c)
                   /\ c.state = r.state /\ c.launch = r.launch /\ c.review_due = r.review_due
    BY <1>1 DEF Agree, RecordType
  <2>2. Agree(r, r)
    BY DEF Agree
  <2> QED BY <1>4, <2>1, <2>2
<1>7. Others(s) /\ rec'[s] = c /\ attempts'[s] = n
  BY <1>1, <1>2, <1>3, <1>5, OneRow
<1>8. CASE terminal(r.state)
  BY <1>2, <1>3, <1>5, <1>7, <1>8, Ended, NothingFiled DEF Follows, Begun
<1>9. CASE ~terminal(r.state)
  <2>1. Evidence(r, n) /\ Scheduled(r) /\ Attended(s) /\ s \in Active
    BY <1>1, <1>3, <1>9 DEF OpenInv, Active, terminal
  <2>2. Evidence(c, n) /\ Scheduled(c)
    BY <1>5, <2>1, AgreeEvidence, AgreeScheduled
  <2>3. /\ r.state # "running" /\ ~(r.state = "preparing" /\ r.launch = "intent")
        /\ step'[s].pc \notin CollectPcs
        /\ r.state = "uncertain" => <<s, "attention", 0>> \in DOMAIN fnd'
    BY <1>2, <1>3, <2>1 DEF Attended, At, CollectPcs
  <2>4. OpenInv(s)'
    BY <1>5, <1>7, <2>2, <2>3, Resting
  <2> QED BY <1>2, <1>3, <1>7, <2>1, <2>4, NothingFiled DEF Follows, Begun
<1> QED BY <1>8, <1>9

\* The collection and what becomes of its result.
LEMMA CollectionFollows ==
    ASSUME EvidenceInv, DOMAIN fnd \subseteq DOMAIN fnd', NEW s \in Subs, Collection(s)
    PROVE  Follows(s)
<1> USE DEF host, history
<1> DEFINE r == rec[s]
           n == attempts[s]
           l == step[s]
<1>1. /\ TypeOK /\ OutboxInv /\ r \in RecordType /\ r.task \in TaskType /\ OpenInv(s)
      /\ clock \in Nat /\ l \in StepType /\ l.now \in Nat /\ l.run \in RunType
      /\ step \in [Subs -> StepType]
  BY DEF EvidenceInv, OutboxInv, TypeOK, ProcessOK, StepType, RecordType
<1>2. l.pc \in CollectPcs
  BY DEF Collection, PortThrows, AssignTask, CollectAborts, CollectReturns, CollectTimesOut,
         CollectionDone, ClassificationDone, At, CollectPcs
<1>3. r.state # "absent" /\ s \in Busy
  BY <1>1, <1>2, Present DEF Busy, CollectPcs
<1>4. attempts' = attempts
  BY DEF Collection, PortThrows, AssignTask, CollectAborts, CollectReturns, CollectTimesOut,
         CollectionDone, ClassificationDone, StepThrows, Discarded, ExpiredMeanwhile
<1>5. ASSUME ~terminal(r.state)
      PROVE  /\ Evidence(r, n) /\ Scheduled(r) /\ s \in Active /\ Attended(s)
             /\ r.state = "running" /\ l.generation = r.generation
  BY <1>1, <1>2, <1>3, <1>5 DEF OpenInv, Attended, At, Active, terminal
\* the collection goes on
<1>6. ASSUME NEW c, save(s, c), Own(s), fnd' = fnd, c.state = r.state, c.generation = r.generation,
             ~terminal(r.state) => /\ Evidence(c, n) /\ Scheduled(c)
                                   /\ step'[s].pc \in CollectPcs /\ step'[s].generation = l.generation
                                   /\ step'[s].pc \in {"recheck", "classify"} =>
                                        /\ step'[s].run.generation = r.generation
                                        /\ step'[s].run.ok => step'[s].run.id = n
      PROVE  Follows(s)
  <2>1. Others(s) /\ rec'[s] = c /\ attempts'[s] = n
    BY <1>1, <1>4, <1>6, OneRow
  <2>2. CASE terminal(r.state)
    BY <1>3, <1>6, <2>1, <2>2, Ended, NothingFiled DEF Follows, Begun
  <2>3. CASE ~terminal(r.state)
    <3>1. Attended(s)'
      BY <1>5, <1>6, <2>1, <2>3 DEF Attended, At
    <3> QED BY <1>3, <1>5, <1>6, <2>1, <2>3, <3>1, NothingFiled DEF OpenInv, Follows, Begun
  <2> QED BY <2>2, <2>3
\* the collection ends with a row
<1>7. ASSUME NEW c, save(s, c), Return(s), fnd' = fnd,
             terminal(r.state) => terminal(c.state),
             ~terminal(r.state) => /\ Evidence(c, n) /\ Scheduled(c)
                                   /\ c.state \in {"reviewing", "watching"}
      PROVE  Follows(s)
  <2>1. Own(s) /\ step'[s].pc = "idle"
    BY <1>1, <1>7, OwnSteps, StepStands
  <2>2. Others(s) /\ rec'[s] = c /\ attempts'[s] = n
    BY <1>1, <1>4, <1>7, <2>1, OneRow
  <2>3. CASE terminal(r.state)
    BY <1>3, <1>7, <2>2, <2>3, Ended, NothingFiled DEF Follows, Begun
  <2>4. CASE ~terminal(r.state)
    <3>1. step'[s].pc \notin CollectPcs
      BY <2>1 DEF CollectPcs
    <3>2. OpenInv(s)'
      BY <1>7, <2>2, <2>4, <3>1, Resting
    <3> QED BY <1>3, <1>5, <1>7, <2>2, <2>4, <3>2, NothingFiled DEF Follows, Begun
  <2> QED BY <2>3, <2>4
<1>8. save(s, r) <=> rec' = rec
  BY <1>1 DEF save, TypeOK
<1>9. CASE PortThrows(s) \/ CollectAborts(s)
  <2> DEFINE c == Thrown(r, l.now)
  <2>1. save(s, c) /\ fnd' = fnd /\ Return(s)
    BY <1>9 DEF PortThrows, CollectAborts, StepThrows
  <2>2. terminal(r.state) => c = r
    BY DEF Thrown
  <2>3. ~terminal(r.state) => Evidence(c, n) /\ Scheduled(c) /\ c.state = "reviewing"
    BY <1>1, <1>5, ThrownEvidence
  <2> HIDE DEF c
  <2> QED BY <1>7, <2>1, <2>2, <2>3
<1>10. CASE AssignTask(s)
  <2> DEFINE t == [NoTask EXCEPT !.id = attempts[s]]
             c == [r EXCEPT !.task = t]
  <2>1. save(s, c) /\ fnd' = fnd /\ Own(s)
    BY <1>1, <1>10, OwnSteps DEF AssignTask
  <2>2. step'[s].pc = "collect" /\ step'[s].generation = l.generation
    BY <1>1, <1>10 DEF AssignTask, Goto, StepType
  <2>3. t.id = n /\ t.result.id = 0
    BY DEF NoTask, NoRun, Run
  <2> HIDE DEF t
  <2>4. /\ c.task = t /\ c.run = r.run /\ c.report_blocked = r.report_blocked
        /\ c.baseline = r.baseline /\ c.generation = r.generation
    BY <1>1 DEF RecordType
  <2>5. /\ c.state = r.state /\ c.launch = r.launch /\ c.recipe = r.recipe
        /\ c.observer = r.observer /\ c.review_due = r.review_due
    BY <1>1 DEF RecordType
  <2> HIDE DEF c
  <2>6. ~terminal(r.state) => Evidence(c, n) /\ Scheduled(c)
    BY <1>5, <2>3, <2>4, <2>5 DEF Evidence, Scheduled
  <2>7. "collect" \in CollectPcs
    BY DEF CollectPcs
  <2> QED BY <1>6, <2>1, <2>2, <2>4, <2>5, <2>6, <2>7
<1>11. CASE CollectReturns(s)
  <2>1. UNCHANGED <<rec, fnd>> /\ ~Withdrawn(s) /\ Sealed(r.task)
    BY <1>11 DEF CollectReturns, durable
  <2>2. /\ Own(s) /\ step'[s].pc = "recheck" /\ step'[s].generation = l.generation
        /\ step'[s].run = r.task.result
    BY <1>1, <1>11 DEF CollectReturns, Own, StepType
  <2>3. ~terminal(r.state) => /\ r.task.result.generation = r.generation
                              /\ r.task.result.id = n
    BY <1>5, <2>1 DEF Evidence, Sealed
  <2>4. "recheck" \in CollectPcs
    BY DEF CollectPcs
  <2> QED BY <1>5, <1>6, <1>8, <2>1, <2>2, <2>3, <2>4
<1>12. CASE CollectTimesOut(s)
  <2> DEFINE run == Run(r.task.id, l.generation, FALSE, "garbled")
             t == [r.task EXCEPT !.result = run]
             c == [r EXCEPT !.task = t]
  <2>1. save(s, c) /\ fnd' = fnd
    BY <1>1, <1>12 DEF CollectTimesOut, RecordType
  <2>2. /\ Own(s) /\ step'[s].pc = "recheck" /\ step'[s].generation = l.generation
        /\ step'[s].run = run
    BY <1>1, <1>12 DEF CollectTimesOut, Own, StepType
  <2>3. run.id = r.task.id /\ run.generation = l.generation /\ run.ok = FALSE
    BY DEF Run
  <2> HIDE DEF run
  <2>4. t.id = r.task.id /\ t.result = run
    BY <1>1 DEF TaskType
  <2> HIDE DEF t
  <2>5. /\ c.task = t /\ c.run = r.run /\ c.report_blocked = r.report_blocked
        /\ c.baseline = r.baseline /\ c.generation = r.generation
    BY <1>1 DEF RecordType
  <2>6. /\ c.state = r.state /\ c.launch = r.launch /\ c.recipe = r.recipe
        /\ c.observer = r.observer /\ c.review_due = r.review_due
    BY <1>1 DEF RecordType
  <2> HIDE DEF c
  <2>7. ~terminal(r.state) => Evidence(c, n) /\ Scheduled(c)
    BY <1>5, <2>3, <2>4, <2>5, <2>6 DEF Evidence, Scheduled
  <2>8. "recheck" \in CollectPcs
    BY DEF CollectPcs
  <2> QED BY <1>5, <1>6, <2>1, <2>2, <2>3, <2>5, <2>6, <2>7, <2>8
<1>13. ASSUME Discarded(s) PROVE Follows(s)
  <2>1. UNCHANGED <<rec, fnd>> /\ Return(s) /\ Withdrawn(s)
    BY <1>13 DEF Discarded, durable
  <2>2. terminal(r.state)
    BY <1>5, <2>1 DEF Withdrawn
  <2> QED BY <1>7, <1>8, <2>1, <2>2
<1>14. ASSUME ExpiredMeanwhile(s) PROVE Follows(s)
  <2>1. Own(s) /\ finding(s, r, "expired", "expiry", 0)
    BY <1>1, <1>14, OwnSteps DEF ExpiredMeanwhile
  <2>2. Others(s) /\ OpenInv(s)' /\ s \notin Active' /\ Published
    BY <1>1, <1>4, <2>1, FindingEnds
  <2> QED BY <1>3, <2>2 DEF Follows, Begun
<1>15. CASE CollectionDone(s)
  <2>1. ASSUME Goto(s, "classify"), UNCHANGED <<rec, fnd>>, l.pc = "recheck" PROVE Follows(s)
    <3>1. Own(s) /\ step'[s].pc = "classify" /\ step'[s].generation = l.generation /\ step'[s].run = l.run
      BY <1>1, <2>1, OwnSteps DEF Goto, StepType
    <3>2. ~terminal(r.state) => l.run.generation = r.generation /\ (l.run.ok => l.run.id = n)
      BY <1>5, <2>1 DEF Attended, At
    <3>3. "classify" \in CollectPcs
      BY DEF CollectPcs
    <3> QED BY <1>5, <1>6, <1>8, <2>1, <3>1, <3>2, <3>3
  <2> QED BY <1>13, <1>14, <1>15, <2>1 DEF CollectionDone, At, durable
<1>16. CASE ClassificationDone(s)
  <2>1. ASSUME ~Withdrawn(s), Return(s), fnd' = fnd, l.pc = "classify",
               NEW d \in classify(r, l.baseline, l.run), save(s, Classified(r, l.run, d, clock))
        PROVE  Follows(s)
    <3> DEFINE c == Classified(r, l.run, d, clock)
    <3>1. ~terminal(r.state) /\ r.state = "running"
      BY <2>1 DEF Withdrawn, terminal, Terminals
    <3>2. l.run.generation = r.generation /\ (l.run.ok => l.run.id = n)
      BY <1>5, <2>1, <3>1 DEF Attended, At
    <3>3. d.rebase => l.run.ok
      BY <2>1, RebaseNeedsSuccess
    <3>4. Evidence(r, n) /\ Scheduled(r)
      BY <1>5, <3>1
    <3>5. Evidence(c, n) /\ Scheduled(c) /\ c.state \in {"reviewing", "watching"}
      BY <1>1, <3>1, <3>2, <3>3, <3>4, ClassifiedEvidence
    <3>6. save(s, c)
      BY <2>1
    <3> HIDE DEF c
    <3> QED BY <1>7, <2>1, <3>1, <3>5, <3>6
  <2> QED BY <1>13, <1>14, <1>16, <2>1 DEF ClassificationDone, At
<1> QED BY <1>9, <1>10, <1>11, <1>12, <1>15, <1>16 DEF Collection

-----------------------------------------------------------------------------
(* The whole state: the limits and the other subscriptions.                 *)

Upheld == LimitInv' /\ (\A t \in Subs : OpenInv(t)') /\ Published

\* Nothing is opened and nothing is begun.
LEMMA LimitsShrink ==
    ASSUME LimitInv, Active' \subseteq Active, Busy' \subseteq Busy
    PROVE  LimitInv'
<1>1. IsFiniteSet(Active') /\ Cardinality(Active') <= Cardinality(Active)
  BY FS_Subset DEF LimitInv
<1>2. IsFiniteSet(Busy') /\ Cardinality(Busy') <= Cardinality(Busy)
  BY FS_Subset DEF LimitInv
<1>3. /\ Cardinality(Active') \in Nat /\ Cardinality(Active) \in Nat
      /\ Cardinality(Busy') \in Nat /\ Cardinality(Busy) \in Nat
  BY <1>1, <1>2, FS_CardinalityType DEF LimitInv
<1>4. /\ Cardinality(Active) <= MaxActive /\ Cardinality(Busy) <= MaxTasks
      /\ MaxActive \in Nat /\ MaxTasks \in Nat
  BY LimitAssumption DEF LimitInv
<1>5. Cardinality(Active') <= MaxActive /\ Cardinality(Busy') <= MaxTasks
  BY <1>1, <1>2, <1>3, <1>4
<1> QED BY <1>1, <1>2, <1>5 DEF LimitInv

\* create() counts the open subscriptions in the callback that saves the row.
LEMMA CreateWithinLimit ==
    ASSUME LimitInv, NEW s \in Subs, create(s), Active' \subseteq Active \cup {s}, Busy' \subseteq Busy
    PROVE  LimitInv'
<1> DEFINE A == Active \cup {s}
<1>1. IsFiniteSet(A) /\ Cardinality(A) <= Cardinality(Active) + 1
  <2>1. IsFiniteSet(Active) /\ Cardinality(Active) \in Nat
    BY FS_CardinalityType DEF LimitInv
  <2>2. IsFiniteSet(A) /\ Cardinality(A) = IF s \in Active THEN Cardinality(Active) ELSE Cardinality(Active) + 1
    BY <2>1, FS_AddElement
  <2> QED BY <2>1, <2>2
<1>2. IsFiniteSet(Active') /\ Cardinality(Active') <= Cardinality(A)
  BY <1>1, FS_Subset
<1>3. IsFiniteSet(Busy') /\ Cardinality(Busy') <= Cardinality(Busy)
  BY FS_Subset DEF LimitInv
<1>4. /\ Cardinality(Active') \in Nat /\ Cardinality(A) \in Nat /\ Cardinality(Active) \in Nat
      /\ Cardinality(Busy') \in Nat /\ Cardinality(Busy) \in Nat
  BY <1>1, <1>2, <1>3, FS_CardinalityType DEF LimitInv
<1>5. /\ Cardinality(Active) < MaxActive /\ Cardinality(Busy) <= MaxTasks
      /\ MaxActive \in Nat /\ MaxTasks \in Nat
  BY LimitAssumption DEF LimitInv, create
<1>6. Cardinality(Active') <= MaxActive /\ Cardinality(Busy') <= MaxTasks
  BY <1>1, <1>2, <1>3, <1>4, <1>5
<1> QED BY <1>2, <1>3, <1>6 DEF LimitInv

\* A row that is not written, or written in nothing that matters here.
LEMMA Untouched ==
    ASSUME NEW t \in Subs, OpenInv(t), DOMAIN fnd \subseteq DOMAIN fnd',
           rec'[t] = rec[t], step'[t] = step[t], attempts'[t] = attempts[t]
    PROVE  OpenInv(t)'
<1>1. ~terminal(rec[t].state) => Evidence(rec'[t], attempts[t]) /\ Scheduled(rec'[t])
  BY DEF OpenInv
<1> QED BY <1>1, Ongoing

\* From one subscription to all of them.
LEMMA FollowsUphold ==
    ASSUME EvidenceInv, DOMAIN fnd \subseteq DOMAIN fnd', NEW s \in Subs, Follows(s)
    PROVE  Upheld
<1>1. LimitInv /\ \A t \in Subs : OpenInv(t)
  BY DEF EvidenceInv
<1>2. Others(s) /\ OpenInv(s)' /\ Begun(s) /\ Published
  BY DEF Follows
<1>3. ASSUME NEW t \in Subs PROVE OpenInv(t)'
  <2>1. CASE t = s
    BY <1>2, <2>1
  <2>2. CASE t # s
    BY <1>1, <1>2, <2>2, Untouched DEF Others
  <2> QED BY <2>1, <2>2
<1>4. Active' \subseteq Active \cup {s} /\ Busy' \subseteq Busy
  BY <1>2 DEF Others, Begun, Active, Busy
<1>5. LimitInv'
  <2>1. CASE create(s)
    BY <1>1, <1>4, <2>1, CreateWithinLimit
  <2>2. CASE ~create(s)
    <3>1. Active' \subseteq Active
      BY <1>2, <1>4, <2>2 DEF Begun
    <3> QED BY <1>1, <1>4, <3>1, LimitsShrink
  <2> QED BY <2>1, <2>2
<1> QED BY <1>2, <1>3, <1>5 DEF Upheld

\* A step that writes no row and moves no step.
LEMMA RowsStay ==
    ASSUME EvidenceInv, DOMAIN fnd \subseteq DOMAIN fnd', DOMAIN fnd' \subseteq DOMAIN fnd,
           UNCHANGED <<rec, step, attempts>>
    PROVE  Upheld
<1>1. LimitInv /\ \A t \in Subs : OpenInv(t)
  BY DEF EvidenceInv
<1>2. \A t \in Subs : OpenInv(t)'
  BY <1>1, Untouched
<1>3. Active' = Active /\ Busy' = Busy
  BY DEF Active, Busy
<1>4. LimitInv'
  BY <1>1, <1>3, LimitsShrink
<1>5. Published
  BY DEF Published
<1> QED BY <1>2, <1>4, <1>5 DEF Upheld

\* Delivering writes findings, and only findings that are there.
LEMMA DeliveryUpholds ==
    ASSUME EvidenceInv, DOMAIN fnd \subseteq DOMAIN fnd', Delivery
    PROVE  Upheld
<1>1. UNCHANGED <<rec, step, attempts>>
  BY DEF Delivery, TickPicks, TickOwnerAway, TickSends, TickSent, TickSendFails, durable, history
<1>2. DOMAIN fnd' = DOMAIN fnd
  BY DEF Delivery, TickPicks, TickOwnerAway, TickSends, TickSent, TickSendFails, durable
<1> QED BY <1>1, <1>2, RowsStay

-----------------------------------------------------------------------------
(* The ticks.                                                               *)

\* What a tick may do to the steps: begin some, of open subscriptions that
\* have none, as long as there is room.
Begins(begun) ==
    /\ begun \subseteq Active \ Busy
    /\ IsFiniteSet(begun) /\ Cardinality(begun) <= Room
    /\ \A t \in Subs : IF t \in begun THEN step'[t].pc = "owner" ELSE step'[t] = step[t]

LEMMA NoneBegins ==
    ASSUME LimitInv, UNCHANGED step
    PROVE  Begins({})
<1>1. Cardinality(Busy) \in Nat /\ Cardinality(Busy) <= MaxTasks /\ MaxTasks \in Nat
  BY FS_CardinalityType, LimitAssumption DEF LimitInv
<1>2. 0 <= Room
  BY <1>1 DEF Room
<1> QED BY <1>2, FS_EmptySet DEF Begins

LEMMA DispatchBegins ==
    ASSUME LimitInv, NEW now, EnterDispatch(now)
    PROVE  \E begun : Begins(begun)
<1> DEFINE due == {s \in Active \ Busy : Due(rec[s], now)}
<1>1. PICK begun \in SUBSET due :
        /\ \/ begun = due /\ Cardinality(due) <= Room
           \/ Cardinality(due) > Room /\ Cardinality(begun) = Room
        /\ step' = [s \in Subs |-> IF s \in begun THEN [Idle EXCEPT !.pc = "owner", !.now = now]
                                                  ELSE step[s]]
  BY DEF EnterDispatch
<1>2. begun \subseteq Active \ Busy
  OBVIOUS
<1>3. Cardinality(Busy) \in Nat /\ MaxTasks \in Nat
  BY FS_CardinalityType, LimitAssumption DEF LimitInv
<1>4. Room \in Int
  BY <1>3 DEF Room
<1> HIDE DEF due
<1>5. IsFiniteSet(begun)
  <2>1. IsFiniteSet(Active) /\ begun \in SUBSET Active
    BY <1>2 DEF LimitInv
  <2> QED BY <2>1, FS_Subset
<1>6. Cardinality(begun) <= Room
  BY <1>1, <1>4
<1>7. \A t \in Subs : IF t \in begun THEN step'[t].pc = "owner" ELSE step'[t] = step[t]
  BY <1>1 DEF Idle
<1> QED BY <1>2, <1>5, <1>6, <1>7 DEF Begins

LEMMA CleanupBegins ==
    ASSUME LimitInv, NEW now, EnterCleanup(now)
    PROVE  \E begun : Begins(begun)
<1>1. EnterDispatch(now) \/ UNCHANGED step
  BY DEF EnterCleanup
<1> QED BY <1>1, NoneBegins, DispatchBegins

LEMMA SweepBegins ==
    ASSUME LimitInv, Sweep
    PROVE  \E begun : Begins(begun)
<1>1. CASE TickBegins
  <2>1. EnterCleanup(clock) \/ UNCHANGED step
    BY <1>1 DEF TickBegins
  <2> QED BY <2>1, NoneBegins, CleanupBegins
<1>2. ASSUME NEW k \in tick.todo, TickWithdraws(k)
      PROVE  \E begun : Begins(begun)
  <2>1. EnterCleanup(tick.now) \/ UNCHANGED step
    BY <1>2 DEF TickWithdraws
  <2> QED BY <2>1, NoneBegins, CleanupBegins
<1>3. ASSUME NEW s \in tick.stops, TickStops(s)
      PROVE  \E begun : Begins(begun)
  <2>1. EnterDispatch(tick.now) \/ UNCHANGED step
    BY <1>3 DEF TickStops
  <2> QED BY <2>1, NoneBegins, DispatchBegins
<1> QED BY <1>1, <1>2, <1>3 DEF Sweep

\* The steps under way and those that begin fit together under the limit.
LEMMA BeginsWithinLimit ==
    ASSUME LimitInv, NEW begun, Begins(begun), Active' \subseteq Active
    PROVE  LimitInv'
<1>1. IsFiniteSet(Busy) /\ IsFiniteSet(begun)
  BY DEF LimitInv, Begins
<1>2. Busy' \subseteq Busy \cup begun
  BY DEF Begins, Busy
<1>3. Busy \cap begun = {}
  BY DEF Begins
<1>4. /\ IsFiniteSet(Busy \cup begun)
      /\ Cardinality(Busy \cup begun) = Cardinality(Busy) + Cardinality(begun) - Cardinality(Busy \cap begun)
  BY <1>1, FS_Union
<1>5. Cardinality(Busy \cap begun) = 0
  BY <1>3, FS_EmptySet
<1>6. IsFiniteSet(Busy') /\ Cardinality(Busy') <= Cardinality(Busy \cup begun)
  BY <1>2, <1>4, FS_Subset
<1>7. /\ Cardinality(Busy) \in Nat /\ Cardinality(begun) \in Nat /\ Cardinality(Busy') \in Nat
      /\ Cardinality(Busy \cup begun) \in Nat /\ MaxTasks \in Nat
  BY <1>1, <1>4, <1>6, FS_CardinalityType, LimitAssumption
<1>8. Cardinality(begun) <= MaxTasks - Cardinality(Busy)
  BY DEF Begins, Room
<1>9. Cardinality(Busy') <= MaxTasks
  BY <1>4, <1>5, <1>6, <1>7, <1>8
<1>10. IsFiniteSet(Active') /\ Cardinality(Active') <= Cardinality(Active)
  BY FS_Subset DEF LimitInv
<1>11. Cardinality(Active') <= MaxActive
  <2>1. Cardinality(Active') \in Nat /\ Cardinality(Active) \in Nat /\ MaxActive \in Nat
    BY <1>10, FS_CardinalityType, LimitAssumption DEF LimitInv
  <2>2. Cardinality(Active) <= MaxActive
    BY DEF LimitInv
  <2> QED BY <1>10, <2>1, <2>2
<1> QED BY <1>6, <1>9, <1>10, <1>11 DEF LimitInv

\* tick() up to the dispatch: a stop that resolves touches only the marker.
LEMMA SweepUpholds ==
    ASSUME EvidenceInv, DOMAIN fnd \subseteq DOMAIN fnd', Sweep
    PROVE  Upheld
<1>1. TypeOK /\ LimitInv /\ \A t \in Subs : OpenInv(t)
  BY DEF EvidenceInv, OutboxInv
<1>2. PICK begun : Begins(begun)
  BY <1>1, SweepBegins
<1>3. attempts' = attempts /\ DOMAIN fnd' = DOMAIN fnd
  BY DEF Sweep, TickBegins, TickWithdraws, TickStops, durable, history
<1>4. ASSUME NEW t \in Subs
      PROVE  rec'[t] = rec[t] \/ rec'[t] = [rec[t] EXCEPT !.stop_pending = FALSE]
  <2>1. rec' = rec \/ \E s \in Subs : save(s, [rec[s] EXCEPT !.stop_pending = FALSE])
    <3>1. tick.stops \subseteq Subs
      BY <1>1 DEF TypeOK, OutboxOK, TickType
    <3> QED BY <3>1 DEF Sweep, TickBegins, TickWithdraws, TickStops, durable
  <2> QED BY <1>1, <2>1 DEF save, TypeOK
<1>5. ASSUME NEW t \in Subs
      PROVE  /\ Agree(rec[t], rec'[t]) /\ rec'[t].state = rec[t].state
             /\ rec'[t].launch = rec[t].launch /\ rec'[t].review_due = rec[t].review_due
  <2>1. rec[t] \in RecordType
    BY <1>1 DEF TypeOK
  <2> QED BY <1>4, <2>1 DEF Agree, RecordType
<1>6. ASSUME NEW t \in Subs PROVE OpenInv(t)'
  <2>1. ~terminal(rec[t].state) => Evidence(rec'[t], attempts[t]) /\ Scheduled(rec'[t])
    BY <1>1, <1>5, AgreeEvidence, AgreeScheduled DEF OpenInv
  <2>2. CASE t \notin begun
    <3>1. step'[t] = step[t]
      BY <1>2, <2>2 DEF Begins
    <3>2. rec'[t].generation = rec[t].generation
      BY <1>5 DEF Agree
    <3> QED BY <1>1, <1>3, <1>5, <2>1, <3>1, <3>2, Ongoing
  <2>3. CASE t \in begun
    <3>1. step'[t].pc = "owner" /\ t \in Active /\ step[t].pc = "idle"
      BY <1>2, <2>3 DEF Begins, Busy
    <3>2. ~terminal(rec[t].state)
      BY <3>1 DEF Active, terminal
    <3>3. Attended(t)
      BY <1>1, <3>2 DEF OpenInv
    <3>4. /\ rec'[t].state # "running" /\ step'[t].pc \notin CollectPcs
          /\ ~(rec'[t].state = "preparing" /\ rec'[t].launch = "intent")
          /\ rec'[t].state = "uncertain" => <<t, "attention", 0>> \in DOMAIN fnd'
      BY <1>3, <1>5, <3>1, <3>3 DEF Attended, At, CollectPcs
    <3> QED BY <1>3, <2>1, <3>2, <3>4, Resting
  <2> QED BY <2>2, <2>3
<1>7. Active' \subseteq Active
  BY <1>5 DEF Active
<1>8. LimitInv'
  BY <1>1, <1>2, <1>7, BeginsWithinLimit
<1>9. Published
  BY <1>3 DEF Published
<1> QED BY <1>6, <1>8, <1>9 DEF Upheld

\* A crash and recover(): no check goes on, a lost launch is told.
LEMMA RecoverUpholds ==
    ASSUME EvidenceInv, DOMAIN fnd \subseteq DOMAIN fnd', recover
    PROVE  Upheld
<1>1. TypeOK /\ clock \in Nat /\ LimitInv /\ \A t \in Subs : OpenInv(t)
  BY DEF EvidenceInv, OutboxInv, TypeOK, ProcessOK
<1>2. attempts' = attempts /\ \A t \in Subs : step'[t].pc = "idle"
  BY DEF recover, Idle
<1>3. ASSUME NEW t \in Subs
      PROVE  rec'[t] = IF t \in Active THEN Recovered(rec[t], clock) ELSE rec[t]
  BY DEF recover
<1> DEFINE lost == {<<s, "attention", 0>> : s \in {t \in Active : rec[t].launch = "intent"}}
<1>4. DOMAIN fnd' = DOMAIN fnd \cup lost
  BY DEF recover
<1>5. Published
  BY <1>4 DEF Published
<1>6. \A t \in Active : rec[t].launch = "intent" => <<t, "attention", 0>> \in DOMAIN fnd'
  BY <1>4
<1> HIDE DEF lost
<1>7. ASSUME NEW t \in Subs PROVE OpenInv(t)' /\ (t \in Active' => t \in Active)
  <2>1. CASE t \in Active
    <3> DEFINE r == rec[t]
               c == Recovered(r, clock)
               n == attempts[t]
    <3>1. r \in RecordType /\ ~terminal(r.state) /\ r.state # "absent"
      BY <1>1, <2>1 DEF TypeOK, Active, terminal
    <3>2. Evidence(r, n) /\ Scheduled(r) /\ Attended(t)
      BY <1>1, <3>1 DEF OpenInv
    <3>3. /\ Evidence(c, n) /\ Scheduled(c) /\ c.launch = r.launch
          /\ c.state = IF r.launch = "intent" THEN "uncertain"
                       ELSE IF r.state = "running" THEN "reviewing" ELSE r.state
      BY <1>1, <3>1, <3>2, RecoveredEvidence
    <3>4. rec'[t] = c
      BY <1>3, <2>1
    <3> HIDE DEF c
    <3>5. c.state = "uncertain" => <<t, "attention", 0>> \in DOMAIN fnd'
      BY <1>6, <2>1, <3>2, <3>3 DEF Attended
    <3>6. c.state # "running" /\ ~(c.state = "preparing" /\ c.launch = "intent")
      BY <3>3
    <3>7. step'[t].pc \notin CollectPcs
      BY <1>2 DEF CollectPcs
    <3>8. Evidence(rec'[t], attempts'[t]) /\ Scheduled(rec'[t])
      BY <1>2, <3>3, <3>4
    <3> QED BY <2>1, <3>4, <3>5, <3>6, <3>7, <3>8, Resting
  <2>2. CASE t \notin Active
    <3>1. rec'[t] = rec[t] /\ t \notin Active'
      BY <1>3, <2>2 DEF Active
    <3>2. CASE terminal(rec[t].state)
      BY <3>1, <3>2, Ended
    <3>3. CASE rec[t].state = "absent"
      <4>1. ~terminal(rec[t].state)
        BY <3>3 DEF terminal, Terminals
      <4>2. Evidence(rec'[t], attempts'[t]) /\ Scheduled(rec'[t])
        BY <1>1, <1>2, <3>1, <4>1 DEF OpenInv
      <4>3. step'[t].pc \notin CollectPcs
        BY <1>2 DEF CollectPcs
      <4> QED BY <3>1, <3>3, <4>2, <4>3, Resting
    <3> QED BY <2>2, <3>1, <3>2, <3>3 DEF Active, terminal
  <2> QED BY <2>1, <2>2
<1>8. Active' \subseteq Active
  BY <1>7 DEF Active
<1>9. Busy' \subseteq Busy
  BY <1>2 DEF Busy
<1>10. LimitInv'
  BY <1>1, <1>8, <1>9, LimitsShrink
<1> QED BY <1>5, <1>7, <1>10 DEF Upheld

-----------------------------------------------------------------------------
(* The invariant and its consequences.                                      *)

\* Nothing is open and nothing under way at first.
LEMMA InitUpholds == Init => EvidenceInv
<1> SUFFICES ASSUME Init PROVE EvidenceInv
  OBVIOUS
<1>1. OutboxInv
  BY InitKeeps
<1>2. ASSUME NEW s \in Subs PROVE rec[s] = Absent /\ step[s].pc = "idle"
  BY DEF Init, Idle
<1>3. /\ Absent.state = "absent" /\ Absent.launch = "none" /\ Absent.recipe = "none"
      /\ Absent.task = NoTask /\ Absent.run = NoRun /\ Absent.baseline = NoBaseline
      /\ Absent.observer = FALSE
  BY DEF Absent
<1>4. NoTask.id = 0 /\ NoTask.result.id = 0 /\ NoRun.id = 0 /\ NoBaseline.form = "none"
  BY DEF NoTask, NoRun, Run, NoBaseline
<1>5. ASSUME NEW s \in Subs PROVE OpenInv(s)
  <2>1. Evidence(Absent, attempts[s]) /\ Scheduled(Absent)
    BY <1>3, <1>4 DEF Evidence, Scheduled
  <2>2. Attended(s)
    BY <1>2, <1>3 DEF Attended, At, CollectPcs
  <2> QED BY <1>2, <2>1, <2>2 DEF OpenInv
<1>6. Active = {} /\ Busy = {}
  BY <1>2, <1>3 DEF Active, Busy
<1>7. LimitInv
  BY <1>6, FS_EmptySet, LimitAssumption DEF LimitInv
<1> QED BY <1>1, <1>5, <1>7 DEF EvidenceInv

\* Every step keeps the invariant and publishes only the newest evidence.
LEMMA NextUpholds ==
    ASSUME EvidenceInv, [Next]_vars
    PROVE  EvidenceInv' /\ Published
<1>1. OutboxInv' /\ DOMAIN fnd \subseteq DOMAIN fnd'
  BY NextKeeps DEF EvidenceInv, Advances
<1>2. CASE UNCHANGED vars
  <2>1. UNCHANGED <<rec, fnd, step, attempts>>
    BY <1>2 DEF vars
  <2>2. Upheld
    BY <2>1, RowsStay
  <2> QED BY <1>1, <2>2 DEF Upheld, EvidenceInv
<1>3. ASSUME NEW s \in Subs,
             \/ Owner(s) \/ Observer(s) \/ Collector(s) \/ Check(s)
             \/ Launch(s) \/ Wake(s) \/ Collection(s)
      PROVE  Upheld
  <2>1. Follows(s)
    BY <1>1, <1>3, OwnerFollows, ObserverFollows, CollectorFollows, CheckFollows,
       LaunchFollows, WakeFollows, CollectionFollows
  <2> QED BY <1>1, <2>1, FollowsUphold
<1>4. ASSUME Sweep PROVE Upheld
  BY <1>1, <1>4, SweepUpholds
<1>5. ASSUME Delivery PROVE Upheld
  BY <1>1, <1>5, DeliveryUpholds
<1>6. ASSUME Environment PROVE Upheld
  <2>1. CASE recover
    BY <1>1, <2>1, RecoverUpholds
  <2>2. CASE ~recover
    <3>1. UNCHANGED <<rec, fnd, step, attempts>>
      BY <1>6, <2>2 DEF Environment, TimePasses, Dispatched, durable, volatile, history
    <3> QED BY <3>1, RowsStay
  <2> QED BY <2>1, <2>2
<1>7. Upheld \/ UNCHANGED vars
  BY <1>3, <1>4, <1>5, <1>6 DEF Next
<1> QED BY <1>1, <1>2, <1>7 DEF Upheld, EvidenceInv

\* What open subscriptions rest on holds in every state.
THEOREM EvidenceInvariant == Spec => []EvidenceInv
<1>1. EvidenceInv /\ [Next]_vars => EvidenceInv'
  BY NextUpholds
<1> QED BY <1>1, InitUpholds, PTL DEF Spec

\* The row of an open subscription.
LEMMA OpenRows ==
    ASSUME EvidenceInv, NEW s \in Active
    PROVE  s \in Subs /\ Evidence(rec[s], attempts[s]) /\ Scheduled(rec[s]) /\ Attended(s)
BY DEF EvidenceInv, OpenInv, Active, terminal

\* Evidence an observer may report on is the successful result of the newest
\* collection under the recipe in force, whatever late, failed, interrupted or
\* superseded collections of step(), poll() and submit() do.
THEOREM LatestEvidence == Spec => []EvidenceIsLatest
<1>1. EvidenceInv => EvidenceIsLatest
  BY OpenRows DEF EvidenceIsLatest, Evidence
<1> QED BY <1>1, EvidenceInvariant, PTL

\* The baseline of an open subscription was taken from a successful run under
\* the recipe in force: install(), wait(), report() and classify() agree on it.
THEOREM CurrentBaseline == Spec => []BaselineIsCurrent
<1>1. EvidenceInv => BaselineIsCurrent
  BY OpenRows DEF BaselineIsCurrent, Evidence
<1> QED BY <1>1, EvidenceInvariant, PTL

\* tick() never runs more steps than MaxTasks at once and create() never opens
\* more subscriptions than MaxActive.
THEOREM LimitsHold == Spec => []WithinLimits
<1>1. EvidenceInv => WithinLimits
  BY DEF EvidenceInv, LimitInv, WithinLimits
<1> QED BY <1>1, EvidenceInvariant, PTL

\* A report is published only with the newest evidence, while no collection
\* is under way, and for changes against a baseline of the same recipe.
THEOREM PublishesNewest == Spec => PublishedEvidence
<1>1. EvidenceInv /\ [Next]_vars => [Published]_vars
  BY NextUpholds
<1>2. [Published]_vars =>
        [\A s \in Subs, n \in {rec[t].run.id : t \in Subs} :
            <<s, "run", n>> \in DOMAIN fnd' \ DOMAIN fnd =>
                /\ n = attempts[s] /\ rec[s].run.ok
                /\ rec[s].state \in DispositionDue
                /\ rec[s].mode = "changes" =>
                      /\ rec[s].baseline.form # "none"
                      /\ rec[s].baseline.run.generation = rec[s].run.generation]_vars
  BY DEF Published
<1> QED BY <1>1, <1>2, EvidenceInvariant, PTL DEF Spec, PublishedEvidence

\* No open subscription is forgotten: one that is "running" has its step(),
\* an open launch has the step that launches, a review has a deadline, one
\* that watches has a recipe and one that is "uncertain" has told its owner.
THEOREM NoneStranded == Spec => []NothingStrands
<1>1. EvidenceInv => NothingStrands
  <2> SUFFICES ASSUME EvidenceInv, NEW s \in Active
               PROVE  CASE rec[s].state = "running" ->
                             At(s, {"authority", "collect", "recheck", "classify"})
                        [] rec[s].state = "preparing" ->
                             \/ rec[s].launch = "none"
                             \/ rec[s].launch = "intent" /\ At(s, {"launch", "spawn"})
                             \/ rec[s].launch = "confirmed" /\ rec[s].review_due # 0
                        [] rec[s].state = "reviewing" -> rec[s].review_due # 0
                        [] rec[s].state = "watching"  -> rec[s].recipe # "none"
                        [] rec[s].state = "uncertain" -> <<s, "attention", 0>> \in DOMAIN fnd
    BY DEF NothingStrands
  <2>1. Scheduled(rec[s]) /\ Attended(s) /\ rec[s] \in RecordType
    BY OpenRows DEF EvidenceInv, OutboxInv, TypeOK
  <2>2. /\ rec[s].state \in {"preparing", "watching", "running", "reviewing", "uncertain"}
        /\ rec[s].launch \in {"none", "intent", "confirmed"}
    BY <2>1 DEF Active, RecordType, States, Terminals
  <2>3. CASE rec[s].state = "running"
    BY <2>1, <2>3 DEF Attended, CollectPcs
  <2>4. CASE rec[s].state = "preparing"
    BY <2>1, <2>2, <2>4 DEF Attended, Scheduled
  <2>5. CASE rec[s].state = "reviewing"
    BY <2>1, <2>5 DEF Scheduled
  <2>6. CASE rec[s].state = "watching"
    BY <2>1, <2>6 DEF Scheduled
  <2>7. CASE rec[s].state = "uncertain"
    BY <2>1, <2>7 DEF Attended
  <2> QED BY <2>2, <2>3, <2>4, <2>5, <2>6, <2>7
<1> QED BY <1>1, EvidenceInvariant, PTL
=============================================================================
