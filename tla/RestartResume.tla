--------------------------- MODULE RestartResume ---------------------------
(***************************************************************************)
(* The restart-resume plugin: threads that a host daemon restart left in   *)
(* an error state are resumed with one message.  Attempts are rows of an   *)
(* SQLite table, claimed under a lease; reconciliation, the retry loop and *)
(* manual requests run concurrently and read thread and event log before   *)
(* they decide.  An action is the code from one await to the next.         *)
(*                                                                         *)
(* Times are counted down: row.next is the time until next_attempt_at, and *)
(* two events are within the recovery window when they are of one era.     *)
(***************************************************************************)
EXTENDS Integers, Sequences, FiniteSets, FiniteSetsExt

CONSTANTS
  Threads, Manual,       \* threads; manual requests that may run at once
  Messages, Default,     \* resume messages of a project, DEFAULT_RESUME_MESSAGE
  Lease, RetryDelay,     \* CLAIM_LEASE_MS and RETRY_DELAY_MS
  EventPage,             \* events read of a thread, the newest ones
  MaxLog, MaxEvents,     \* bounds: events of a thread, those not the plugin's
  MaxEras,               \* bound: recovery windows
  MaxFaults, MaxEdits, MaxStops   \* bounds: failed calls, acts of a user, restarts

VARIABLES
  log,        \* the host's event log of each thread
  status,     \* "active" or "error"
  archived,   \* archived or deleted threads
  era,        \* the recovery window of the last interruption
  row,        \* restart_resume_attempts, by thread and interruption
  message, automatic,    \* project message and setting
  call,       \* resumeThread calls up to their claim
  sends,      \* threads.send calls not settled yet
  pass,       \* reconcileRecentThreads: phase, and what it found
  queued,     \* reconciliationQueued
  started, due,          \* the service loop: past startup, threads to retry
  faults, edits, stops,  \* how often a bounded event has happened
  late        \* history: threads somebody may act on with knowledge older than a
              \* retry delay; no action reads it

hostVars == <<log, status, archived, era>>
loopVars == <<pass, queued, started, due>>
boundVars == <<faults, edits, stops, late>>
vars == <<hostVars, row, message, automatic, call, sends, loopVars, boundVars>>

ASSUME TimingAssumption == Lease \in Nat \ {0} /\ RetryDelay \in Nat \ {0}
ASSUME BoundsAssumption == EventPage \in Nat /\ MaxLog \in Nat /\ MaxEras \in Nat \ {0} /\ Default \in Messages

Seqs == 1 .. MaxLog
\* An instance of the plugin is the number of restarts before it.
Instances == 0 .. MaxStops
\* Who calls resumeThread: its kind, what tells it from others, its instance.
Slots == {<<"reconcile", t, n>> : t \in Threads, n \in Instances}
           \cup {<<"retry", "loop", n>> : n \in Instances}
           \cup {<<"manual", m, n>> : m \in Manual, n \in Instances}

Dead == <<"dead", "process", 0>>   \* the caller of a request nobody waits for

Events == [kind : {"error", "interrupted", "request", "other"},
           text : Messages \cup {"none"}, by : 0 .. MaxLog, at : 1 .. MaxEras]
Rows == [status : {"none", "pending", "sent", "skipped"},
         attempts : Nat, next : Nat, token : Nat]
Idle == [pc |-> "idle"]
CallType == {Idle} \cup
  [pc : {"thread", "events", "decide"}, t : Threads, recoverable : BOOLEAN,
   upto : 0 .. MaxLog, expect : 0 .. MaxLog, anchor : 0 .. MaxEras]
Sends == [slot : Slots \cup {Dead}, t : Threads, seq : Seqs,
          token : Nat, text : Messages, stage : {"flying", "accepted"}]
Found == [t : Threads, seq : Seqs, error : 1 .. MaxEras, at : 1 .. MaxEras]
Resting == [phase |-> "idle", todo |-> {}, found |-> {}]

TypeOK ==
  /\ \A t \in Threads : Len(log[t]) <= MaxLog /\ \A i \in 1 .. Len(log[t]) : log[t][i] \in Events
  /\ status \in [Threads -> {"active", "error"}]
  /\ archived \subseteq Threads
  /\ era \in 1 .. MaxEras
  /\ row \in [Threads -> [Seqs -> Rows]]
  /\ message \in Messages /\ automatic \in BOOLEAN
  /\ call \in [Slots -> CallType]
  /\ sends \subseteq Sends
  /\ pass.phase \in {"idle", "inspecting", "resuming"}
  /\ pass.todo \subseteq Threads /\ pass.found \subseteq Found
  /\ queued \in BOOLEAN /\ started \in BOOLEAN /\ due \subseteq Threads
  /\ faults \in 0 .. MaxFaults /\ edits \in 0 .. MaxEdits /\ stops \in Instances /\ late \subseteq Threads

Init ==
  /\ log = [t \in Threads |-> <<>>]
  /\ status = [t \in Threads |-> "active"]
  /\ archived = {}
  /\ era = 1
  /\ row = [t \in Threads |-> [s \in Seqs |->
              [status |-> "none", attempts |-> 0, next |-> 0, token |-> 0]]]
  /\ message = Default
  /\ automatic = TRUE
  /\ call = [c \in Slots |-> Idle]
  /\ sends = {}
  /\ pass = Resting
  /\ queued = TRUE
  /\ started = FALSE
  /\ due = {}
  /\ faults = 0 /\ edits = 0 /\ stops = 0 /\ late = {}

-----------------------------------------------------------------------------
(* recovery.ts: what a page of the event log says, for a log read when it   *)
(* had n events.                                                            *)

Page(t, n) == {i \in 1 .. n : i > n - EventPage}
Greatest(S) == IF S = {} THEN 0 ELSE Max(S)

latestHostRestartInterruption(t, n) ==
  Greatest({i \in Page(t, n) : log[t][i].kind = "interrupted"})

After(t, n, seq) == Page(t, n) \cap (seq + 1 .. n)
hasEventsAfter(t, n, seq) == After(t, n, seq) # {}

hostDaemonErrorAt(t, n, seq) ==
  LET e == Greatest({i \in Page(t, n) : log[t][i].kind = "error" /\ i < seq})
  IN  IF e = 0 THEN 0 ELSE log[t][e].at

\* Mutant: any later event is taken for the request.
hasResumeRequestAfterLoose(t, n, seq, text) ==
  \E i \in After(t, n, seq) : log[t][i].kind # "error"
hasResumeRequestAfter(t, n, seq, text) ==
  \E i \in After(t, n, seq) : log[t][i].kind = "request" /\ log[t][i].text = text

isRecoverableThread(t) == status[t] = "error" /\ t \notin archived

(* store.ts: one statement of the attempts table each, on the row it finds. *)

\* Mutant: a pending row may be claimed while its lease runs.
ClaimableLeased(r) == r.status \in {"none", "pending"}
Claimable(r) == r.status \in {"none", "pending"} /\ r.next = 0
claim(r) == [status |-> "pending", attempts |-> r.attempts + 1,
             next |-> Lease, token |-> r.attempts + 1]
Holds(r, token) == r.status = "pending" /\ r.token = token
markSent(r, token) ==
  IF Holds(r, token) THEN [r EXCEPT !.status = "sent", !.next = 0, !.token = 0] ELSE r
\* Mutant: the failed attempt is due again at once.
markRetryAtOnce(r, token) ==
  IF Holds(r, token) THEN [r EXCEPT !.next = 0, !.token = 0] ELSE r
markRetry(r, token) ==
  IF Holds(r, token) THEN [r EXCEPT !.next = RetryDelay, !.token = 0] ELSE r
recordSent(r) == [r EXCEPT !.status = "sent", !.next = 0, !.token = 0]
markSkipped(r) ==
  [r EXCEPT !.status = IF r.status = "sent" THEN "sent" ELSE "skipped",
            !.next = 0, !.token = 0]
\* Mutant: rows under a lease left by a crash are not looked for.
dueThreadIdsUnleased ==
  {t \in Threads : \E s \in Seqs : row[t][s].status = "pending" /\ row[t][s].next = 0
                                    /\ row[t][s].token = 0}
dueThreadIds == {t \in Threads : \E s \in Seqs : row[t][s].status = "pending" /\ row[t][s].next = 0}

-----------------------------------------------------------------------------
(* resumeThread: settings, thread and events are awaited one after another. *)

Opened(t, expect, anchor) ==
  [pc |-> "thread", t |-> t, recoverable |-> FALSE, upto |-> 0,
   expect |-> expect, anchor |-> anchor]

\* Manual resume over RPC or the command line: force, no expectation.
resumeManually(m, t) ==
  /\ call[<<"manual", m, stops>>] = Idle
  /\ ~ \E g \in sends : g.slot = <<"manual", m, stops>>
  /\ edits < MaxEdits /\ edits' = edits + 1
  /\ call' = [call EXCEPT ![<<"manual", m, stops>>] = Opened(t, 0, 0)]
  /\ UNCHANGED <<hostVars, row, message, automatic, sends, loopVars, faults, stops, late>>

\* bb.sdk.threads.get answers.
ReadThread(c) ==
  /\ call[c].pc = "thread"
  /\ call' = [call EXCEPT ![c].pc = "events",
                          ![c].recoverable = isRecoverableThread(call[c].t)]
  /\ UNCHANGED <<hostVars, row, message, automatic, sends, loopVars, boundVars>>

\* bb.sdk.threads.events.list is answered by the host; the answer travels.
ReadEvents(c) ==
  /\ call[c].pc = "events"
  /\ call' = [call EXCEPT ![c].pc = "decide", ![c].upto = Len(log[call[c].t])]
  /\ UNCHANGED <<hostVars, row, message, automatic, sends, loopVars, boundVars>>

\* Either read throws: the outcome is "failed" and nothing was written.
ReadFails(c) ==
  /\ call[c].pc \in {"thread", "events"}
  /\ faults < MaxFaults /\ faults' = faults + 1
  /\ call' = [call EXCEPT ![c] = Idle]
  /\ UNCHANGED <<hostVars, row, message, automatic, sends, loopVars, edits, stops, late>>

Candidate(c) == latestHostRestartInterruption(call[c].t, call[c].upto)

\* The synchronous part after the last read, up to the claim.
Verdict(c) ==
  LET t == call[c].t
      n == call[c].upto
      seq == Candidate(c)
      r == row[t][seq]
  IN  IF \/ seq = 0
         \/ call[c].expect \notin {0, seq}
         \/ call[c].anchor \notin {0, log[t][seq].at}
         \/ r.status \in {"sent", "skipped"} THEN "ignore"
      ELSE IF r.status = "pending" /\ hasResumeRequestAfter(t, n, seq, message) THEN "record"
      ELSE IF hasEventsAfter(t, n, seq) \/ ~ call[c].recoverable THEN "skip"
      ELSE IF \/ \E g \in sends : g.slot # Dead /\ g.slot[3] = c[3] /\ g.t = t /\ g.seq = seq
              \/ ~ Claimable(r) THEN "ignore"
      ELSE "claim"

\* Not interrupted, handled already, or another worker is handling it.
ResumeEnds(c) ==
  /\ call[c].pc = "decide" /\ Verdict(c) = "ignore"
  /\ call' = [call EXCEPT ![c] = Idle]
  /\ UNCHANGED <<hostVars, row, message, automatic, sends, loopVars, boundVars>>

\* The event log shows the request, or shows that the thread went on.
ResumeSettlesRow(c) ==
  /\ call[c].pc = "decide" /\ Verdict(c) \in {"record", "skip"}
  /\ row' = [row EXCEPT ![call[c].t][Candidate(c)] =
               IF Verdict(c) = "record" THEN recordSent(@) ELSE markSkipped(@)]
  /\ call' = [call EXCEPT ![c] = Idle]
  /\ UNCHANGED <<hostVars, message, automatic, sends, loopVars, boundVars>>

\* The claim, the lease timer and the call of threads.send.
ResumeClaims(c) ==
  /\ call[c].pc = "decide" /\ Verdict(c) = "claim"
  /\ LET t == call[c].t
         seq == Candidate(c)
     IN  /\ row' = [row EXCEPT ![t][seq] = claim(@)]
         /\ sends' = sends \cup {[slot |-> c, t |-> t, seq |-> seq, text |-> message,
                                  token |-> row[t][seq].attempts + 1, stage |-> "flying"]}
  /\ call' = [call EXCEPT ![c] = Idle]
  /\ UNCHANGED <<hostVars, message, automatic, loopVars, boundVars>>

\* threads.send resolves: markSent, unless the lease was fenced.
SendResolves(g) ==
  /\ g.stage = "accepted" /\ g.slot # Dead
  /\ row' = [row EXCEPT ![g.t][g.seq] = markSent(@, g.token)]
  /\ sends' = sends \ {g}
  /\ UNCHANGED <<hostVars, message, automatic, call, loopVars, boundVars>>

\* threads.send rejects, because the host refused or although it accepted.
SendRejects(g) ==
  /\ g.slot # Dead /\ faults < MaxFaults /\ faults' = faults + 1
  /\ row' = [row EXCEPT ![g.t][g.seq] = markRetry(@, g.token)]
  /\ sends' = sends \ {g}
  /\ UNCHANGED <<hostVars, message, automatic, call, loopVars, edits, stops, late>>

-----------------------------------------------------------------------------
(* Reconciliation, started by the service and by thread.failed.             *)

Working(kind) ==
  \/ \E c \in Slots : c[1] = kind /\ c[3] = stops /\ call[c] # Idle
  \/ \E g \in sends : g.slot[1] = kind /\ g.slot[3] = stops

\* One pass of the while loop begins: the error threads are listed.
ReconcileBegins ==
  /\ pass.phase = "idle" /\ queued
  /\ queued' = FALSE
  /\ pass' = IF automatic
             THEN [phase |-> "inspecting", todo |-> {t \in Threads : isRecoverableThread(t)},
                   found |-> {}]
             ELSE pass
  /\ started' = (started \/ ~ automatic)
  /\ UNCHANGED <<hostVars, row, message, automatic, call, sends, due, boundVars>>

\* The setting or the list cannot be read: the loop of the passes ends, and the
\* service goes on to its retry loop.
ReconcileFails ==
  /\ pass.phase = "idle" /\ queued
  /\ faults < MaxFaults /\ faults' = faults + 1
  /\ queued' = FALSE /\ started' = TRUE
  /\ UNCHANGED <<hostVars, row, message, automatic, call, sends, pass, due, edits, stops, late>>

\* candidateFor one listed thread; a failed inspection drops the thread.
ReconcileInspects(t) ==
  /\ pass.phase = "inspecting" /\ t \in pass.todo
  /\ LET n == Len(log[t])
         seq == latestHostRestartInterruption(t, n)
         known == seq # 0 /\ hostDaemonErrorAt(t, n, seq) # 0
     IN  \/ /\ pass' = [pass EXCEPT !.todo = @ \ {t},
                          !.found = IF known
                                    THEN @ \cup {[t |-> t, seq |-> seq, at |-> log[t][seq].at,
                                                  error |-> hostDaemonErrorAt(t, n, seq)]}
                                    ELSE @]
            /\ UNCHANGED faults
         \/ /\ faults < MaxFaults /\ faults' = faults + 1
            /\ pass' = [pass EXCEPT !.todo = @ \ {t}]
  /\ UNCHANGED <<hostVars, row, message, automatic, call, sends, queued, started, due, edits, stops, late>>

\* Every candidate within the window of the newest daemon error is resumed.
\* A setting switched off by now ends each of these calls at once.
ReconcileResumes ==
  /\ pass.phase = "inspecting" /\ pass.todo = {}
  /\ LET latestHostErrorAt == Greatest({f.error : f \in pass.found})
         chosen == {f \in pass.found : automatic /\ f.at = latestHostErrorAt}
     IN  call' = [c \in Slots |->
           IF c[1] = "reconcile" /\ c[3] = stops /\ \E f \in chosen : f.t = c[2]
           THEN LET f == CHOOSE f \in chosen : f.t = c[2]
                IN  Opened(f.t, f.seq, latestHostErrorAt)
           ELSE call[c]]
  /\ pass' = [pass EXCEPT !.phase = "resuming", !.found = {}]
  /\ UNCHANGED <<hostVars, row, message, automatic, sends, queued, started, due, boundVars>>

\* All resumes of the pass are settled; the service goes on to its retry loop.
ReconcileEnds ==
  /\ pass.phase = "resuming" /\ ~ Working("reconcile")
  /\ pass' = Resting
  /\ started' = (started \/ ~ queued)
  /\ UNCHANGED <<hostVars, row, message, automatic, call, sends, queued, due, boundVars>>

\* retryDue: the due threads, then resumeThread for one after the other.
RetryScans ==
  /\ started /\ automatic /\ due = {} /\ ~ Working("retry")
  /\ dueThreadIds # {}
  /\ due' = dueThreadIds
  /\ UNCHANGED <<hostVars, row, message, automatic, call, sends, pass, queued, started, boundVars>>

RetryNext(t) ==
  /\ t \in due /\ ~ Working("retry")
  /\ due' = due \ {t}
  /\ call' = IF automatic THEN [call EXCEPT ![<<"retry", "loop", stops>>] = Opened(t, 0, 0)] ELSE call
  /\ UNCHANGED <<hostVars, row, message, automatic, sends, pass, queued, started, boundVars>>

-----------------------------------------------------------------------------
(* The host (external), the settings, time, and the end of the plugin.      *)

Event(k, text, by) == [kind |-> k, text |-> text, by |-> by, at |-> era]
Interruption(e) == [kind |-> "interrupted", text |-> "none", by |-> 0, at |-> e]
DaemonError(e) == [Interruption(e) EXCEPT !.kind = "error"]

Others(t) == Cardinality({i \in DOMAIN log[t] : log[t][i].by = 0})

\* The daemon restarts, within the window of the last restart or later: an
\* interruption, with or without its error event.
HostInterrupts(t) ==
  /\ status[t] = "active"
  /\ era' \in {era, era + 1} /\ era' <= MaxEras
  /\ \E events \in {<<DaemonError(era'), Interruption(era')>>, <<Interruption(era')>>} :
       /\ Others(t) + Len(events) <= MaxEvents /\ Len(log[t]) + Len(events) <= MaxLog
       /\ log' = [log EXCEPT ![t] = @ \o events]
  /\ status' = [status EXCEPT ![t] = "error"]
  /\ queued' = TRUE
  /\ UNCHANGED <<archived, row, message, automatic, call, sends, pass, started, due, boundVars>>

\* Somebody else continues the thread, or puts it away.
ThreadGoesOn(t) ==
  /\ status[t] = "error" /\ Others(t) < MaxEvents /\ Len(log[t]) < MaxLog
  /\ log' = [log EXCEPT ![t] = Append(@, Event("other", "none", 0))]
  /\ status' = [status EXCEPT ![t] = "active"]
  /\ UNCHANGED <<archived, era, row, message, automatic, call, sends, loopVars, boundVars>>

ThreadArchived(t) ==
  /\ t \notin archived /\ edits < MaxEdits
  /\ archived' = archived \cup {t} /\ edits' = edits + 1
  /\ UNCHANGED <<log, status, era, row, message, automatic, call, sends, loopVars, faults, stops, late>>

\* The host takes a resume message: a durable request event.
HostAccepts(g) ==
  /\ g.stage = "flying" /\ Len(log[g.t]) < MaxLog
  /\ log' = [log EXCEPT ![g.t] = Append(@, Event("request", g.text, g.seq))]
  /\ status' = [status EXCEPT ![g.t] = "active"]
  /\ sends' = IF g.slot = Dead THEN sends \ {g}
              ELSE (sends \ {g}) \cup {[g EXCEPT !.stage = "accepted"]}
  /\ UNCHANGED <<archived, era, row, message, automatic, call, loopVars, boundVars>>

\* A request of a dead process is lost; nobody hears of it.
HostRefuses(g) ==
  /\ g.slot = Dead
  /\ sends' = sends \ {g}
  /\ UNCHANGED <<hostVars, row, message, automatic, call, loopVars, boundVars>>

\* saveProjectMessage, clearProjectMessage and the automatic switch.
SettingsChange ==
  /\ edits < MaxEdits /\ edits' = edits + 1
  /\ \/ message' \in Messages \ {message} /\ UNCHANGED automatic
     \/ automatic' = ~ automatic /\ UNCHANGED message
  /\ UNCHANGED <<hostVars, row, call, sends, loopVars, faults, stops, late>>

\* A retry delay goes by, for whoever decides on a log read before it and for
\* the requests of a dead process too.  The timer of a live send renews its
\* lease (renewLease, every 20 s of 60 s).
TimePasses ==
  /\ \E t \in Threads, s \in Seqs : row[t][s].next > 0
  /\ row' = [t \in Threads |-> [s \in Seqs |->
       LET r == row[t][s]
           renewed == \E g \in sends : g.slot # Dead /\ g.t = t /\ g.seq = s /\ Holds(r, g.token)
       IN  IF renewed THEN [r EXCEPT !.next = Lease]
           ELSE [r EXCEPT !.next = IF @ > 0 THEN @ - 1 ELSE 0]]]
  /\ late' = late \cup {call[c].t : c \in {d \in Slots : call[d].pc = "decide"}}
                  \cup {g.t : g \in {h \in sends : h.slot = Dead}}
  /\ UNCHANGED <<hostVars, message, automatic, call, sends, loopVars, faults, edits, stops>>

\* A new instance of the plugin: the service starts over.  A reload aborts what
\* the loops of the old instance are reading; its calls that have their answers,
\* its manual calls and its sends go on.  After a crash its calls are gone and
\* nobody waits for its sends.
Restart ==
  /\ stops < MaxStops /\ stops' = stops + 1
  /\ \/ /\ call' = [c \in Slots |-> IF c[1] # "manual" /\ call[c].pc # "decide"
                                   THEN Idle ELSE call[c]]
        /\ UNCHANGED sends
     \/ /\ call' = [c \in Slots |-> Idle]
        /\ sends' = {[g EXCEPT !.slot = Dead] : g \in {h \in sends : h.stage = "flying"}}
  /\ pass' = Resting /\ queued' = TRUE /\ started' = FALSE /\ due' = {}
  /\ UNCHANGED <<hostVars, row, message, automatic, faults, edits, late>>

Resume(c) == ReadThread(c) \/ ReadEvents(c) \/ ResumeEnds(c) \/ ResumeSettlesRow(c) \/ ResumeClaims(c)
Reconcile == ReconcileBegins \/ ReconcileFails \/ (\E t \in Threads : ReconcileInspects(t))
               \/ ReconcileResumes \/ ReconcileEnds
Retry == RetryScans \/ \E t \in Threads : RetryNext(t)
Settle == \E g \in sends : HostAccepts(g) \/ HostRefuses(g) \/ SendResolves(g) \/ SendRejects(g)
HostNext == \E t \in Threads : HostInterrupts(t) \/ ThreadGoesOn(t) \/ ThreadArchived(t)

Next ==
  \/ \E m \in Manual, t \in Threads : resumeManually(m, t)
  \/ \E c \in Slots : Resume(c) \/ ReadFails(c)
  \/ Reconcile \/ Retry \/ Settle
  \/ HostNext \/ SettingsChange \/ TimePasses \/ Restart

\* Awaited calls are answered, the background service runs, time goes by.
Fairness ==
  /\ WF_vars(\E c \in Slots : Resume(c))
  /\ WF_vars(Reconcile) /\ WF_vars(Retry) /\ WF_vars(Settle) /\ WF_vars(TimePasses)

Spec == Init /\ [][Next]_vars /\ Fairness

-----------------------------------------------------------------------------
(* Two requests for one interruption are never awaited at the same time by  *)
(* live callers, whether they come from reconciliation, the retry loop, a   *)
(* manual request or the instance before a reload: activeSends guards one   *)
(* instance, the renewed lease of claim() the others.                       *)
ExclusiveSend ==
  \A g, h \in sends :
    g.slot # Dead /\ h.slot # Dead /\ g.t = h.t /\ g.seq = h.seq => g = h

(* An interruption is resumed at most once, although a send may be          *)
(* accepted and yet rejected, or accepted after the process that made it    *)
(* died (resumeThread, README): the host never holds two requests made for  *)
(* it, as long as for this thread no retry delay has gone by between the    *)
(* host's answer to a read of the log and the claim, nor over a request of  *)
(* a dead process.  The code bounds neither; beyond that it may send twice. *)
ResumedOnce ==
  \A t \in Threads \ late, s \in Seqs :
    Cardinality({i \in DOMAIN log[t] : log[t][i].by = s}) <= 1

(* A row that says "sent" is true: the thread's log holds a request after   *)
(* the interruption, by markSent after the answer or by recordSent from the *)
(* log itself.                                                              *)
SentIsTrue ==
  \A t \in Threads, s \in Seqs :
    row[t][s].status = "sent" =>
      \E i \in DOMAIN log[t] : i > s /\ log[t][i].kind = "request"

\* The interruption a retry of the thread would look at is claimed.
LatestPending(t) ==
  LET s == latestHostRestartInterruption(t, Len(log[t]))
  IN  s # 0 /\ row[t][s].status = "pending"

(* A claimed interruption does not stay pending: after failed sends, lost   *)
(* answers and crashes it is sent or skipped, unless the thread is          *)
(* interrupted anew or automatic resumption is switched off (retryDue).     *)
RetrySettles == \A t \in Threads : LatestPending(t) ~> (~ LatestPending(t) \/ ~ automatic)
=============================================================================
