----------------------- MODULE SubscriptionProperties -----------------------
(***************************************************************************)
(* What the subscription service promises, stated over SubscriptionEngine: *)
(* its type invariant, safety invariants, action properties, the fairness  *)
(* its supervisor gives, liveness, and four statements of its own          *)
(* documentation that the code does not keep (last section).               *)
(***************************************************************************)
EXTENDS SubscriptionEngine

Told == {"fulfilled", "failed", "expired"}   \* closed with a finding

\* Findings that close their subscription: every one but a launch warning
\* and, for a subscription to changes, a report.
Conclusions(s) ==
    {k \in DOMAIN fnd : /\ k[1] = s
                        /\ k[2] # "attention"
                        /\ k[2] = "run" => rec[s].mode = "until"}

-----------------------------------------------------------------------------
(* Safety.                                                                 *)

OutboxOK ==
    /\ DOMAIN fnd \subseteq Keys /\ fnd \in [DOMAIN fnd -> FindingType]
    /\ tick \in TickType
    /\ tick.todo \subseteq DOMAIN fnd
    /\ tick.pc \in {"owner", "send"} => tick.cur \in DOMAIN fnd
    /\ queued \subseteq DOMAIN fnd /\ handed \subseteq DOMAIN fnd
ProcessOK ==
    /\ clock \in Nat /\ crashes \in Nat
    /\ step \in [Subs -> StepType]
    /\ stopping \in [Subs -> Nat]
    /\ spawn \subseteq Subs /\ live \subseteq Subs /\ halted \subseteq Subs
    /\ spawns \in [Subs -> Nat] /\ attempts \in [Subs -> Nat]
\* Every variable has its type, and what a suspended tick() still has to do
\* refers to findings of the outbox: no row it will write can be missing.
TypeOK == rec \in [Subs -> RecordType] /\ ProcessOK /\ OutboxOK

\* An observer is spawned at most once, whatever fails, times out or
\* restarts: the launch intent saved before ports.launch, and recover()'s
\* refusal to launch again, stand between a lost answer and a second thread.
SingleLaunch == \A s \in Subs : spawns[s] <= 1

\* No open subscription can be forgotten.  One in "running" has the step()
\* that collects for it (after a crash, recover() moved it on); one whose
\* launch is open has the step that launches; one that waits for its observer
\* has a review deadline; one that watches has a recipe to run; one that is
\* "uncertain" has told its owner.
NothingStrands ==
    \A s \in Active :
        LET r == rec[s]
        IN  CASE r.state = "running" ->
                    At(s, {"authority", "collect", "recheck", "classify"})
              [] r.state = "preparing" ->
                    \/ r.launch = "none"
                    \/ r.launch = "intent" /\ At(s, {"launch", "spawn"})
                    \/ r.launch = "confirmed" /\ r.review_due # 0
              [] r.state = "reviewing" -> r.review_due # 0
              [] r.state = "watching"  -> r.recipe # "none"
              [] r.state = "uncertain" -> <<s, "attention", 0>> \in DOMAIN fnd

\* Evidence an observer may report on is the successful result of the newest
\* collection, made with the recipe in force: a late, failed, interrupted or
\* superseded run is always behind report_blocked.
EvidenceIsLatest ==
    \A s \in Active :
        rec[s].run.id # 0 /\ ~rec[s].report_blocked =>
            /\ rec[s].run.ok
            /\ rec[s].run.id = attempts[s]
            /\ rec[s].run.generation = rec[s].generation

\* The baseline that changes are measured from was taken, from a successful
\* run, under the recipe in force: install() leaves none of an old recipe and
\* a classification that outlives its generation brings none back.
BaselineIsCurrent ==
    \A s \in Active :
        rec[s].baseline.form # "none" =>
            /\ rec[s].baseline.run.ok
            /\ rec[s].baseline.run.generation = rec[s].generation

\* The end of a subscription is told exactly once: one closing finding when
\* it was fulfilled, failed or expired, none while it is open or when its
\* owner cancelled it, although steps, tool calls and restarts race to close.
ToldOnce ==
    \A s \in Subs :
        Cardinality(Conclusions(s)) = IF rec[s].state \in Told THEN 1 ELSE 0

\* A notification of a cancelled subscription that sits in the owner's queue
\* and whose receipt is known is marked for withdrawal, also when the cancel
\* came while ports.send was awaited.
WithdrawalOwed ==
    \A k \in DOMAIN fnd :
        /\ rec[k[1]].notifications_cancelled
        /\ fnd[k].delivery = "accepted" /\ k \in queued
        => fnd[k].withdraw_pending

\* The observer of a closed subscription was asked to stop, or the durable
\* stop_pending says that it must be: also the observer whose spawn is
\* answered after the close.
StopOwed ==
    \A s \in Subs :
        terminal(rec[s].state) /\ rec[s].observer =>
            rec[s].stop_pending \/ s \in halted

\* A finding says "sending" only while tick() awaits that very send: an
\* interrupted send is "uncertain" once recover() has run.
InterruptedSendsAreUncertain ==
    \A k \in DOMAIN fnd :
        fnd[k].delivery = "sending" => tick.pc = "send" /\ tick.cur = k

\* No more checks than the limit are under way, and no more subscriptions
\* open, although a tick() begins several steps at once and steps of earlier
\* ticks still wait for their ports.
WithinLimits ==
    Cardinality(Busy) <= MaxTasks /\ Cardinality(Active) <= MaxActive

-----------------------------------------------------------------------------
(* What a step may never do.                                               *)

\* A closed subscription stays as it was closed, whatever late result, spawn
\* answer, exception or recovery still arrives for it.
TerminalIsFinal ==
    [][\A s \in Subs : terminal(rec[s].state) => rec'[s].state = rec[s].state]_vars

\* A finding only moves forward: no stale copy written back after an await
\* revives a cancelled, an uncertain or an accepted one.
Onward ==
    [pending |-> {"pending", "sending", "cancelled"},
     sending |-> {"sending", "accepted", "uncertain"},
     accepted |-> {"accepted", "cancelled"},
     uncertain |-> {"uncertain"},
     cancelled |-> {"cancelled"}]
DeliveryAdvances ==
    [][\A k \in DOMAIN fnd : /\ k \in DOMAIN fnd'
                             /\ fnd'[k].delivery \in Onward[fnd[k].delivery]]_vars

\* ports.send is called at most once per finding, over crashes too, and never
\* after the owner cancelled, although the owner read before it is an await
\* that a cancel can win.
SentOnceUnlessCancelled ==
    [][\A k \in DOMAIN fnd :
          fnd[k].delivery # "sending" /\ fnd'[k].delivery = "sending" =>
              k \notin handed /\ ~rec[k[1]].notifications_cancelled]_vars

\* A matched finding is published only with the result of the newest
\* collection, only while none is in progress, and for changes only against
\* a baseline of the same recipe.
PublishedEvidence ==
    [][\A s \in Subs, n \in {rec[t].run.id : t \in Subs} :
          <<s, "run", n>> \in DOMAIN fnd' \ DOMAIN fnd =>
              /\ n = attempts[s] /\ rec[s].run.ok
              /\ rec[s].state \in DispositionDue
              /\ rec[s].mode = "changes" =>
                    /\ rec[s].baseline.form # "none"
                    /\ rec[s].baseline.run.generation = rec[s].run.generation]_vars

-----------------------------------------------------------------------------
(* Liveness.  The supervisor calls tick() every second and every port call *)
(* of a step settles (bounded(), AbortSignal.timeout, the collection's own *)
(* deadline), so every suspended callback resumes.  Nothing is assumed of  *)
(* owner, observer or collector; a host that is asked again and again is   *)
(* assumed to stop a thread, and an owner to be reachable, at some time.   *)

Fairness ==
    /\ WF_vars(TimePasses)
    /\ WF_vars(Sweep \/ Delivery)
    /\ \A s \in Subs :
          /\ WF_vars(Check(s)) /\ WF_vars(Wake(s)) /\ WF_vars(Collection(s))
          /\ WF_vars(LaunchRefused(s) \/ RequestSpawn(s) \/ LaunchTimesOut(s))
          /\ SF_vars(TickStops(s) /\ s \in halted')
    /\ SF_vars(TickSends)
FairSpec == Spec /\ Fairness

\* A subscription with a lifetime closes, whatever its observer, collector
\* and owner do or fail to do.
EventuallyCloses ==
    \A s \in Subs :
        rec[s].expires_at \in 1..MaxClock ~> terminal(rec[s].state)

\* The observer thread of a closed subscription is eventually asked to stop,
\* however many stop calls failed and crashes happened in between.
EventuallyStopped ==
    \A s \in Subs :
        terminal(rec[s].state) /\ rec[s].observer ~> s \in halted

\* Every finding leaves the outbox: it is handed to the owner or cancelled.
EventuallyHandled ==
    \A s \in Subs :
        (\E k \in findings : k[1] = s) ~> (\A k \in findings : k[1] # s)

-----------------------------------------------------------------------------
(* Statements of the documentation that the code does not keep.            *)

\* IMPLEMENTATION.md: "A committed observer can authenticate its assignment
\* and continue."  An observer that bound itself stays able to submit its
\* disposition until one is submitted or the subscription closes: no timeout
\* of the launch that created it takes the assignment back.
BoundObserverContinues ==
    [][\A s \in Active :
          rec[s].observer /\ rec[s].state # "uncertain" =>
              rec'[s].state # "uncertain"]_vars

\* README.md: "Repeated truth alone is not a new event."  A json_changes check
\* that sees the value its baseline was taken from opens no review.
RepeatedTruthIsQuiet ==
    [][\A s \in Subs :
          /\ ClassificationDone(s) /\ rec[s].recipe = "json_changes"
          /\ step[s].baseline.form # "none"
          /\ step[s].run.ok /\ step[s].run.output # "garbled"
          /\ step[s].baseline.run.output = step[s].run.output
          => rec'[s].state # "reviewing"]_vars
=============================================================================
