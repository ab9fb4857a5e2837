------------------------- MODULE RestartResumeTheorems -------------------------
(***************************************************************************)
(* An interruption is resumed by one caller at a time, at most once while   *)
(* nobody acts on knowledge older than a retry delay, and a row that says   *)
(* so is true: for any number of threads, manual requests, faults and       *)
(* restarts, and for every lease and retry delay above zero.                *)
(***************************************************************************)
EXTENDS RestartResume, SequenceTheorems, FiniteSetTheorems, WellFoundedInduction, TLAPS

EventType ==
  [kind : {"error", "interrupted", "request", "other"}, text : Messages \cup {"none"}, by : Nat, at : Nat]
SendType ==
  [slot : Slots \cup {Dead}, t : Threads, seq : Seqs,
   token : Nat, text : Messages, stage : {"flying", "accepted"}]

\* A resumeThread call under way.
IsCall(x) ==
  /\ DOMAIN x = {"pc", "t", "recoverable", "upto", "expect", "anchor"}
  /\ x.pc \in {"thread", "events", "decide"} /\ x.t \in Threads /\ x.upto \in Nat

LogTyped == log \in [Threads -> Seq(EventType)] /\ \A t \in Threads : Len(log[t]) <= MaxLog
CallTyped == call = [c \in Slots |-> call[c]] /\ \A c \in Slots : call[c] = Idle \/ IsCall(call[c])
PassTyped == DOMAIN pass = {"phase", "todo", "found"} /\ pass = [f \in DOMAIN pass |-> pass[f]]
               /\ \A f \in pass.found : f.t \in Threads
Typed ==
  /\ LogTyped /\ CallTyped /\ PassTyped
  /\ row \in [Threads -> [Seqs -> Rows]] /\ sends \subseteq SendType
  /\ message \in Messages /\ era \in Nat

\* The attempt is over, or the send with this token holds it under a lease
\* that runs: nobody may claim it.
Busy(r, token) == r.status \in {"sent", "skipped"} \/ (Holds(r, token) /\ r.next > 0)

\* The log l has a request after s.
Requested(l, s) == \E i \in DOMAIN l : i > s /\ l[i].kind = "request"
\* Somebody sent a request for the interruption s.
MadeFor(l, s) == \E i \in DOMAIN l : l[i].by = s

(* In the following, z says that the thread is late: somebody may act on    *)
(* what it knew a retry delay ago.                                          *)

\* A request comes after its interruption, and is the only one for it.
LogOrdered(l, z) ==
  /\ \A i \in DOMAIN l : l[i].by # 0 => i > l[i].by /\ l[i].kind = "request"
  /\ ~z => \A i, j \in DOMAIN l : l[i].by # 0 /\ l[i].by = l[j].by => i = j

\* A send is of an interruption in the log l, and holds its row r.
SendHeld(g, l, r, z) ==
  /\ g.seq <= Len(l)
  /\ ~z \/ g.slot # Dead => Busy(r, g.token)
  /\ g.stage = "flying" => z \/ ~MadeFor(l, g.seq)
  /\ g.stage = "accepted" => Requested(l, g.seq)

\* No attempt that got its request since the call x read the log l is claimable
\* in the rows r.
ReadHeld(x, l, r, z) ==
  x.pc = "decide" =>
    /\ x.upto <= Len(l)
    /\ ~z => \A i \in DOMAIN l : i > x.upto /\ l[i].by # 0 => ~Claimable(r[l[i].by])

\* A send that keeps others from its interruption.
Watched(g) == g.t \notin late \/ g.slot # Dead

LogsOrdered == \A t \in Threads : LogOrdered(log[t], t \in late)
SendsHeld == \A g \in sends : SendHeld(g, log[g.t], row[g.t][g.seq], g.t \in late)
SendsUnique ==
  \A g, h \in sends : Watched(g) /\ Watched(h) /\ g.t = h.t /\ g.seq = h.seq => g = h
ReadsHeld ==
  \A c \in Slots : call[c].pc = "decide" =>
    ReadHeld(call[c], log[call[c].t], row[call[c].t], call[c].t \in late)

ResumeInv == Typed /\ LogsOrdered /\ SendsHeld /\ SendsUnique /\ ReadsHeld /\ SentIsTrue

-----------------------------------------------------------------------------
(* The newest event of a kind.                                              *)

\* A set of event numbers up to n has a greatest.
LEMMA GreatestIn ==
  ASSUME NEW n \in Nat, NEW S \in SUBSET (1..n)
  PROVE  /\ S = {} => Greatest(S) = 0
         /\ S # {} => Greatest(S) \in S /\ \A i \in S : i <= Greatest(S)
<1>1. CASE S = {}
  BY <1>1 DEF Greatest
<1>2. CASE S # {}
  <2> DEFINE T == {n - i : i \in S}
  <2>1. T \subseteq Nat /\ T # {}
    <3>1. \A i \in S : i \in Int /\ n - i \in Nat
      OBVIOUS
    <3>2. PICK i \in S : n - i \in T
      BY <1>2
    <3> QED BY <3>1, <3>2
  <2>2. PICK x \in T : \A y \in T : <<y, x>> \notin OpToRel(<, Nat)
    <3> HIDE DEF T
    <3> QED BY <2>1, NatLessThanWellFounded, WFMin, Zenon
  <2>3. x \in T /\ \A y \in T : ~(y < x)
    BY <2>1, <2>2, Zenon DEF OpToRel
  <2>4. PICK m \in S : x = n - m
    BY <2>3
  <2>5. \A i \in S : m >= i
    BY <2>3, <2>4
  <2>6. Max(S) \in S /\ \A i \in S : Max(S) >= i
    BY <2>4, <2>5 DEF Max
  <2> QED BY <1>2, <2>6 DEF Greatest
<1> QED BY <1>1, <1>2

-----------------------------------------------------------------------------
(* What the statements of the attempts table do to a row.                   *)

\* Every statement leaves a row.
LEMMA StatementsTyped ==
  ASSUME NEW r \in Rows, NEW k \in Nat
  PROVE  /\ claim(r) \in Rows /\ markSent(r, k) \in Rows /\ markRetry(r, k) \in Rows
         /\ recordSent(r) \in Rows /\ markSkipped(r) \in Rows
<1>1. Lease \in Nat /\ RetryDelay \in Nat
  BY TimingAssumption
<1>2. r.attempts + 1 \in Nat
  BY DEF Rows
<1>3. claim(r) \in Rows
  BY <1>1, <1>2 DEF claim, Rows
<1>4. markSent(r, k) \in Rows /\ markRetry(r, k) \in Rows
  BY <1>1 DEF markSent, markRetry, Rows
<1> QED BY <1>3, <1>4 DEF recordSent, markSkipped, Rows

\* No statement makes an attempt claimable that was not.
LEMMA StatementsFreeNothing ==
  ASSUME NEW r \in Rows, NEW k \in Nat
  PROVE  /\ ~Claimable(claim(r)) /\ ~Claimable(recordSent(r)) /\ ~Claimable(markSkipped(r))
         /\ ~Claimable(r) => ~Claimable(markSent(r, k)) /\ ~Claimable(markRetry(r, k))
<1>1. Lease # 0 /\ RetryDelay # 0
  BY TimingAssumption
<1>2. ~Claimable(claim(r))
  BY <1>1 DEF Claimable, claim
<1>3. ~Claimable(recordSent(r)) /\ ~Claimable(markSkipped(r))
  BY DEF Claimable, recordSent, markSkipped, Rows
<1> QED BY <1>1, <1>2, <1>3 DEF Claimable, markSent, markRetry, Holds, Rows

\* The holder of a busy attempt keeps it from the claimants, and settling the
\* row from the log leaves it busy.
LEMMA BusyRow ==
  ASSUME NEW r \in Rows, NEW k, Busy(r, k)
  PROVE  ~Claimable(r) /\ Busy(recordSent(r), k) /\ Busy(markSkipped(r), k)
BY DEF Claimable, Busy, Holds, recordSent, markSkipped, Rows

\* A claim holds the row for its token.
LEMMA ClaimHolds ==
  ASSUME NEW r \in Rows
  PROVE  Busy(claim(r), r.attempts + 1) /\ claim(r).status = "pending"
<1>1. Lease > 0
  BY TimingAssumption
<1> QED BY <1>1 DEF Busy, Holds, claim, Rows

\* Only a request after the interruption lets a statement say "sent".
LEMMA SaysSent ==
  ASSUME NEW r \in Rows, NEW k \in Nat
  PROVE  /\ markRetry(r, k).status = r.status
         /\ markSkipped(r).status = "sent" => r.status = "sent"
BY DEF markRetry, markSkipped, Rows

-----------------------------------------------------------------------------
(* A log that grows.                                                        *)

\* The log m is the log l with events behind it.
Extended(l, m) ==
  /\ l \in Seq(EventType) /\ m \in Seq(EventType) /\ Len(l) <= Len(m)
  /\ \A i \in 1 .. Len(l) : m[i] = l[i]

\* What the log says of a request stays.
LEMMA RequestStays ==
  ASSUME NEW l, NEW m, Extended(l, m), NEW s, Requested(l, s)
  PROVE  Requested(m, s)
<1>1. DOMAIN l = 1 .. Len(l) /\ DOMAIN m = 1 .. Len(m) /\ Len(l) \in Nat /\ Len(m) \in Nat
  BY DEF Extended
<1>2. PICK i \in DOMAIN l : i > s /\ l[i].kind = "request"
  BY DEF Requested
<1>3. i \in DOMAIN m /\ m[i] = l[i]
  BY <1>1, Extended(l, m) DEF Extended
<1> QED BY <1>2, <1>3 DEF Requested

\* Events of others leave the facts about requests as they are.
LEMMA OthersAppended ==
  ASSUME NEW l, NEW m, NEW z \in BOOLEAN, Extended(l, m), \A i \in Len(l) + 1 .. Len(m) : m[i].by = 0
  PROVE  /\ LogOrdered(l, z) => LogOrdered(m, z)
         /\ \A g, r : g.seq \in Nat \ {0} /\ SendHeld(g, l, r, z) => SendHeld(g, m, r, z)
         /\ \A x, r : x.upto \in Nat /\ ReadHeld(x, l, r, z) => ReadHeld(x, m, r, z)
<1>1. DOMAIN l = 1 .. Len(l) /\ DOMAIN m = 1 .. Len(m) /\ Len(l) \in Nat /\ Len(m) \in Nat
      /\ Len(l) <= Len(m)
  BY DEF Extended
<1>2. \A i \in DOMAIN m : m[i].by # 0 => i \in DOMAIN l /\ m[i] = l[i]
  BY <1>1 DEF Extended
<1>3. LogOrdered(l, z) => LogOrdered(m, z)
  BY <1>2 DEF LogOrdered
<1>4. ASSUME NEW g, NEW r, g.seq \in Nat \ {0}, SendHeld(g, l, r, z)
      PROVE  SendHeld(g, m, r, z)
  <2>1. g.stage = "flying" => z \/ ~MadeFor(m, g.seq)
    BY <1>2, <1>4 DEF SendHeld, MadeFor
  <2>2. g.stage = "accepted" => Requested(m, g.seq)
    BY <1>4, RequestStays DEF SendHeld
  <2> QED BY <1>1, <1>4, <2>1, <2>2 DEF SendHeld
<1>5. ASSUME NEW x, NEW r, x.upto \in Nat, ReadHeld(x, l, r, z)
      PROVE  ReadHeld(x, m, r, z)
  <2>1. SUFFICES ASSUME x.pc = "decide"
                 PROVE  /\ x.upto <= Len(m)
                        /\ ~z => \A i \in DOMAIN m : i > x.upto /\ m[i].by # 0 => ~Claimable(r[m[i].by])
    BY DEF ReadHeld
  <2>2. x.upto <= Len(l) /\ (~z => \A i \in DOMAIN l : i > x.upto /\ l[i].by # 0 => ~Claimable(r[l[i].by]))
    BY <1>5, <2>1 DEF ReadHeld
  <2> QED BY <1>1, <1>2, <1>5, <2>2
<1> QED BY <1>3, <1>4, <1>5

\* A request for the interruption s, the first one unless the thread is late.
LEMMA RequestAppended ==
  ASSUME NEW l, NEW m, NEW z \in BOOLEAN, Extended(l, m), Len(m) = Len(l) + 1, NEW s \in Nat \ {0}, s <= Len(l),
         m[Len(m)].by = s, m[Len(m)].kind = "request", z \/ ~MadeFor(l, s)
  PROVE  /\ LogOrdered(l, z) => LogOrdered(m, z)
         /\ Requested(m, s)
         /\ \A g, r : g.seq \in Nat \ {0} /\ (z \/ g.seq # s) /\ SendHeld(g, l, r, z)
                     => SendHeld(g, m, r, z)
         /\ \A x, r : x.upto \in Nat /\ (z \/ ~Claimable(r[s])) /\ ReadHeld(x, l, r, z)
                     => ReadHeld(x, m, r, z)
<1>1. DOMAIN l = 1 .. Len(l) /\ DOMAIN m = 1 .. Len(m) /\ Len(l) \in Nat /\ Len(m) = Len(l) + 1
  BY DEF Extended
<1>2. \A i \in DOMAIN m : i = Len(m) \/ (i \in DOMAIN l /\ m[i] = l[i])
  BY <1>1 DEF Extended
<1>3. ASSUME LogOrdered(l, z) PROVE LogOrdered(m, z)
  <2>1. \A i \in DOMAIN m : m[i].by # 0 => i > m[i].by /\ m[i].kind = "request"
    BY <1>1, <1>2, <1>3 DEF LogOrdered
  <2>2. ~z => \A i \in DOMAIN m : m[i].by = s => i = Len(m)
    BY <1>2 DEF MadeFor
  <2>3. ~z => \A i, j \in DOMAIN m : m[i].by # 0 /\ m[i].by = m[j].by => i = j
    BY <1>2, <1>3, <2>2 DEF LogOrdered
  <2> QED BY <2>1, <2>3 DEF LogOrdered
<1>4. Requested(m, s)
  <2>1. Len(m) \in DOMAIN m /\ Len(m) > s
    BY <1>1
  <2> QED BY <2>1 DEF Requested
<1>5. ASSUME NEW g, NEW r, g.seq \in Nat \ {0}, z \/ g.seq # s, SendHeld(g, l, r, z)
      PROVE  SendHeld(g, m, r, z)
  <2>1. g.stage = "flying" => z \/ ~MadeFor(m, g.seq)
    BY <1>2, <1>5 DEF SendHeld, MadeFor
  <2>2. g.stage = "accepted" => Requested(m, g.seq)
    BY <1>5, RequestStays DEF SendHeld
  <2> QED BY <1>1, <1>5, <2>1, <2>2 DEF SendHeld
<1>6. ASSUME NEW x, NEW r, x.upto \in Nat, z \/ ~Claimable(r[s]), ReadHeld(x, l, r, z)
      PROVE  ReadHeld(x, m, r, z)
  <2>1. SUFFICES ASSUME x.pc = "decide"
                 PROVE  /\ x.upto <= Len(m)
                        /\ ~z => \A i \in DOMAIN m : i > x.upto /\ m[i].by # 0 => ~Claimable(r[m[i].by])
    BY DEF ReadHeld
  <2>2. x.upto <= Len(l) /\ (~z => \A i \in DOMAIN l : i > x.upto /\ l[i].by # 0 => ~Claimable(r[l[i].by]))
    BY <1>6, <2>1 DEF ReadHeld
  <2>3. x.upto <= Len(m)
    BY <1>1, <1>6, <2>2
  <2>4. ~z => \A i \in DOMAIN m : i > x.upto /\ m[i].by # 0 => ~Claimable(r[m[i].by])
    BY <1>2, <1>6, <2>2
  <2> QED BY <2>3, <2>4
<1> QED BY <1>3, <1>4, <1>5, <1>6

-----------------------------------------------------------------------------
(* Steps that leave the log alone.                                          *)

\* No attempt becomes claimable.
FreesNothing == \A t \in Threads, s \in Seqs : ~Claimable(row[t][s]) => ~Claimable(row'[t][s])

\* Reads of the log stay good while nothing is freed.
LEMMA ReadsKept ==
  ASSUME Typed, LogsOrdered, ReadsHeld, FreesNothing, UNCHANGED <<log, late>>,
         \A c \in Slots : call'[c].pc = "decide" => call'[c] = call[c]
  PROVE  ReadsHeld'
<1>1. SUFFICES ASSUME NEW c \in Slots, call'[c].pc = "decide"
               PROVE  ReadHeld(call[c], log[call[c].t], row'[call[c].t], call[c].t \in late)
  BY DEF ReadsHeld
<1>2. call[c].pc = "decide" /\ call[c] # Idle
  BY <1>1 DEF Idle
<1>3. call[c].t \in Threads /\ ReadHeld(call[c], log[call[c].t], row[call[c].t], call[c].t \in late)
  BY <1>2 DEF Typed, CallTyped, IsCall, ReadsHeld
<1> DEFINE t == call[c].t
<1>4. DOMAIN log[t] = 1 .. Len(log[t]) /\ Len(log[t]) \in Nat /\ Len(log[t]) <= MaxLog
  BY <1>3 DEF Typed, LogTyped
<1>5. \A i \in DOMAIN log[t] : log[t][i].by \in Nat
  <2>1. log[t] \in Seq(EventType)
    BY <1>3 DEF Typed, LogTyped
  <2>2. \A i \in DOMAIN log[t] : log[t][i] \in EventType
    BY <1>4, <2>1
  <2> QED BY <2>2 DEF EventType
<1>6. \A i \in DOMAIN log[t] : log[t][i].by # 0 => i > log[t][i].by
  BY <1>3 DEF LogsOrdered, LogOrdered
<1>7. \A i \in DOMAIN log[t] : log[t][i].by # 0 => log[t][i].by \in Seqs
  BY <1>4, <1>5, <1>6, BoundsAssumption DEF Seqs
<1> QED BY <1>3, <1>7 DEF ReadHeld, FreesNothing

\* Sends that stay keep their rows.
LEMMA SendsKept ==
  ASSUME SendsHeld, SendsUnique, UNCHANGED <<log, late>>, sends' \subseteq sends,
         \A g \in sends' : Watched(g) /\ Busy(row[g.t][g.seq], g.token)
                            => Busy(row'[g.t][g.seq], g.token)
  PROVE  SendsHeld' /\ SendsUnique'
<1>1. SendsUnique'
  BY DEF SendsUnique, Watched
<1>2. SUFFICES ASSUME NEW g \in sends'
               PROVE  SendHeld(g, log[g.t], row'[g.t][g.seq], g.t \in late)
  BY <1>1 DEF SendsHeld
<1>3. SendHeld(g, log[g.t], row[g.t][g.seq], g.t \in late)
  BY DEF SendsHeld
<1> QED BY <1>3 DEF SendHeld, Watched

\* A row that turns "sent" has its request.
LEMMA SentKept ==
  ASSUME SentIsTrue, log' = log,
         \A t \in Threads, s \in Seqs :
           row'[t][s].status = "sent" => row[t][s].status = "sent" \/ Requested(log[t], s)
  PROVE  SentIsTrue'
BY DEF SentIsTrue, Requested

\* Rows, logs and sends as they were.
LEMMA OnlyCallsMove ==
  ASSUME ResumeInv, Typed', UNCHANGED <<log, row, sends, late>>,
         \A c \in Slots : call'[c].pc = "decide" => call'[c] = call[c]
  PROVE  ResumeInv'
<1>1. FreesNothing
  BY DEF FreesNothing
<1>2. ReadsHeld'
  BY <1>1, ReadsKept DEF ResumeInv
<1>3. LogsOrdered' /\ SendsHeld' /\ SendsUnique' /\ SentIsTrue'
  BY DEF ResumeInv, LogsOrdered, SendsHeld, SendsUnique, SentIsTrue, Watched
<1> QED BY <1>2, <1>3 DEF ResumeInv

-----------------------------------------------------------------------------
(* resumeThread up to its claim.                                            *)

\* A call that is opened reads the thread first.
LEMMA OpenedIsCall ==
  ASSUME NEW t \in Threads, NEW expect, NEW anchor
  PROVE  IsCall(Opened(t, expect, anchor)) /\ Opened(t, expect, anchor).pc = "thread"
BY DEF IsCall, Opened

\* The start of a manual request.
LEMMA ManualHolds ==
  ASSUME ResumeInv, NEW m \in Manual, NEW t \in Threads, resumeManually(m, t)
  PROVE  ResumeInv'
<1> DEFINE q == Opened(t, 0, 0)
<1>1. IsCall(q) /\ q.pc = "thread"
  BY OpenedIsCall
<1> HIDE DEF q
<1>2. call' = [call EXCEPT ![<<"manual", m, stops>>] = q]
  BY DEF resumeManually, q
<1>3. CallTyped'
  BY <1>1, <1>2 DEF ResumeInv, Typed, CallTyped
<1>4. Typed'
  BY <1>3 DEF ResumeInv, Typed, LogTyped, PassTyped, resumeManually, hostVars, loopVars
<1>5. \A c \in Slots : call'[c].pc = "decide" => call'[c] = call[c]
  BY <1>1, <1>2 DEF ResumeInv, Typed, CallTyped
<1> QED BY <1>4, <1>5, OnlyCallsMove DEF resumeManually, hostVars

\* The thread is read.
LEMMA ReadThreadHolds ==
  ASSUME ResumeInv, NEW c \in Slots, ReadThread(c)
  PROVE  ResumeInv'
<1> DEFINE q == [call[c] EXCEPT !.pc = "events", !.recoverable = isRecoverableThread(call[c].t)]
<1>1. IsCall(call[c])
  BY DEF ResumeInv, Typed, CallTyped, ReadThread, Idle
<1>2. IsCall(q) /\ q.pc = "events"
  BY <1>1 DEF IsCall
<1>3. call' = [call EXCEPT ![c] = q]
  BY DEF ReadThread
<1> HIDE DEF q
<1>4. CallTyped'
  BY <1>2, <1>3 DEF ResumeInv, Typed, CallTyped
<1>5. Typed'
  BY <1>4 DEF ResumeInv, Typed, LogTyped, PassTyped, ReadThread, hostVars, loopVars
<1>6. \A d \in Slots : call'[d].pc = "decide" => call'[d] = call[d]
  BY <1>2, <1>3 DEF ResumeInv, Typed, CallTyped
<1> QED BY <1>5, <1>6, OnlyCallsMove DEF ReadThread, hostVars, boundVars

\* The events are read: nothing came after what was read.
LEMMA ReadEventsHolds ==
  ASSUME ResumeInv, NEW c \in Slots, ReadEvents(c)
  PROVE  ResumeInv'
<1> DEFINE q == [call[c] EXCEPT !.pc = "decide", !.upto = Len(log[call[c].t])]
<1>1. IsCall(call[c]) /\ call[c].t \in Threads
  BY DEF ResumeInv, Typed, CallTyped, IsCall, ReadEvents, Idle
<1>2. Len(log[call[c].t]) \in Nat /\ DOMAIN log[call[c].t] = 1 .. Len(log[call[c].t])
  BY <1>1 DEF ResumeInv, Typed, LogTyped
<1>3. IsCall(q) /\ q.t = call[c].t /\ q.upto = Len(log[call[c].t])
  BY <1>1, <1>2 DEF IsCall
<1>4. call' = [call EXCEPT ![c] = q]
  BY DEF ReadEvents
<1> HIDE DEF q
<1>5. CallTyped'
  BY <1>3, <1>4 DEF ResumeInv, Typed, CallTyped
<1>6. Typed'
  BY <1>5 DEF ResumeInv, Typed, LogTyped, PassTyped, ReadEvents, hostVars, loopVars
<1>7. LogsOrdered' /\ SendsHeld' /\ SendsUnique' /\ SentIsTrue'
  BY DEF ResumeInv, LogsOrdered, SendsHeld, SendsUnique, SentIsTrue, Watched, ReadEvents, hostVars, boundVars
<1>8. ReadsHeld'
  <2>1. SUFFICES ASSUME NEW d \in Slots, call'[d].pc = "decide"
                 PROVE  ReadHeld(call'[d], log[call'[d].t], row[call'[d].t], call'[d].t \in late)
    BY DEF ReadsHeld, ReadEvents, hostVars, boundVars
  <2>2. CASE d # c
    BY <2>1, <2>2, <1>4 DEF ReadsHeld, ResumeInv, Typed, CallTyped
  <2>3. CASE d = c
    <3>1. call'[d] = q
      BY <1>4, <2>3 DEF ResumeInv, Typed, CallTyped
    <3> QED BY <1>2, <1>3, <3>1 DEF ReadHeld
  <2> QED BY <2>2, <2>3
<1> QED BY <1>6, <1>7, <1>8 DEF ResumeInv

\* A call ends, and nothing else happens.
LEMMA CallEndsHolds ==
  ASSUME ResumeInv, NEW c \in Slots, ResumeEnds(c) \/ ReadFails(c)
  PROVE  ResumeInv'
<1>1. call' = [call EXCEPT ![c] = Idle] /\ UNCHANGED <<log, row, sends, message, era, pass, late>>
  BY DEF ResumeEnds, ReadFails, hostVars, loopVars, boundVars
<1>2. Typed'
  BY <1>1 DEF ResumeInv, Typed, LogTyped, PassTyped, CallTyped
<1>3. \A d \in Slots : call'[d].pc = "decide" => call'[d] = call[d]
  BY <1>1 DEF ResumeInv, Typed, CallTyped, Idle
<1> QED BY <1>1, <1>2, <1>3, OnlyCallsMove

\* What a call that reaches a verdict has found.
LEMMA VerdictFacts ==
  ASSUME ResumeInv, NEW c \in Slots, call[c].pc = "decide", Verdict(c) # "ignore"
  PROVE  /\ call[c].t \in Threads /\ call[c].upto \in Nat
         /\ call[c].upto <= Len(log[call[c].t])
         /\ Candidate(c) \in Page(call[c].t, call[c].upto) /\ Candidate(c) \in Seqs
         /\ Verdict(c) = "record" => hasResumeRequestAfter(call[c].t, call[c].upto, Candidate(c), message)
         /\ Verdict(c) = "claim" =>
              /\ ~hasEventsAfter(call[c].t, call[c].upto, Candidate(c))
              /\ Claimable(row[call[c].t][Candidate(c)])
<1> DEFINE t == call[c].t
           n == call[c].upto
           S == {i \in Page(t, n) : log[t][i].kind = "interrupted"}
<1>1. IsCall(call[c]) /\ t \in Threads /\ n \in Nat
  BY DEF ResumeInv, Typed, CallTyped, IsCall, Idle
<1>2. n <= Len(log[t])
  BY DEF ResumeInv, ReadsHeld, ReadHeld
<1>3. Len(log[t]) <= MaxLog /\ Len(log[t]) \in Nat
  BY <1>1 DEF ResumeInv, Typed, LogTyped
<1>4. S \in SUBSET (1..n)
  BY DEF Page
<1>5. Candidate(c) = Greatest(S)
  BY DEF Candidate, latestHostRestartInterruption
<1>6. Candidate(c) # 0
  BY DEF Verdict
<1>7. Candidate(c) \in S
  BY <1>1, <1>4, <1>5, <1>6, GreatestIn
<1>8. Candidate(c) \in Page(t, n)
  BY <1>7
<1>9. Candidate(c) \in Seqs
  BY <1>1, <1>2, <1>3, <1>8, BoundsAssumption DEF Page, Seqs
<1>10. Verdict(c) = "record" => hasResumeRequestAfter(t, n, Candidate(c), message)
  BY DEF Verdict
<1>11. Verdict(c) = "claim" =>
         ~hasEventsAfter(t, n, Candidate(c)) /\ Claimable(row[t][Candidate(c)])
  BY DEF Verdict
<1> QED BY <1>1, <1>2, <1>8, <1>9, <1>10, <1>11

\* The log settles the row.
LEMMA SettleHolds ==
  ASSUME ResumeInv, NEW c \in Slots, ResumeSettlesRow(c)
  PROVE  ResumeInv'
<1> DEFINE t == call[c].t
           s == Candidate(c)
           q == IF Verdict(c) = "record" THEN recordSent(row[t][s]) ELSE markSkipped(row[t][s])
<1>1. call[c].pc = "decide" /\ Verdict(c) \in {"record", "skip"}
  BY DEF ResumeSettlesRow
<1>2. t \in Threads /\ s \in Seqs
  BY <1>1, VerdictFacts
<1>3. row \in [Threads -> [Seqs -> Rows]] /\ row[t][s] \in Rows
  BY <1>2 DEF ResumeInv, Typed
<1>4. q \in Rows /\ ~Claimable(q)
  BY <1>3, StatementsTyped, StatementsFreeNothing
<1>5. \A k : Busy(row[t][s], k) => Busy(q, k)
  BY <1>3, BusyRow
<1>6. q.status = "sent" => row[t][s].status = "sent" \/ Requested(log[t], s)
  <2>1. CASE Verdict(c) = "record"
    <3>1. hasResumeRequestAfter(t, call[c].upto, s, message)
      BY <1>1, <2>1, VerdictFacts
    <3>2. DOMAIN log[t] = 1 .. Len(log[t]) /\ Len(log[t]) \in Nat /\ call[c].upto <= Len(log[t])
          /\ call[c].upto \in Nat
      BY <1>1, <1>2, VerdictFacts DEF ResumeInv, Typed, LogTyped
    <3>3. s \in Nat
      BY <1>2 DEF Seqs
    <3> QED BY <3>1, <3>2, <3>3 DEF hasResumeRequestAfter, Requested, After, Page
  <2>2. CASE Verdict(c) # "record"
    BY <1>3, <2>2 DEF markSkipped, Rows
  <2> QED BY <2>1, <2>2
<1>7. /\ row' = [row EXCEPT ![t][s] = q]
      /\ call' = [call EXCEPT ![c] = Idle]
      /\ UNCHANGED <<log, sends, message, era, pass, late>>
  BY DEF ResumeSettlesRow, hostVars, loopVars, boundVars
<1> HIDE DEF t, s, q
<1>8. row' \in [Threads -> [Seqs -> Rows]]
  BY <1>2, <1>3, <1>4, <1>7
<1>9. \A u \in Threads, i \in Seqs : row'[u][i] = IF u = t /\ i = s THEN q ELSE row[u][i]
  BY <1>2, <1>3, <1>7
<1>10. Typed'
  BY <1>7, <1>8 DEF ResumeInv, Typed, LogTyped, PassTyped, CallTyped
<1>11. \A d \in Slots : call'[d].pc = "decide" => call'[d] = call[d]
  BY <1>7 DEF ResumeInv, Typed, CallTyped, Idle
<1>12. FreesNothing
  BY <1>4, <1>9 DEF FreesNothing
<1>13. ReadsHeld'
  BY <1>7, <1>11, <1>12, ReadsKept DEF ResumeInv
<1>14. \A g \in sends' : Watched(g) /\ Busy(row[g.t][g.seq], g.token) => Busy(row'[g.t][g.seq], g.token)
  <2>1. SUFFICES ASSUME NEW g \in sends
                 PROVE  Busy(row[g.t][g.seq], g.token) => Busy(row'[g.t][g.seq], g.token)
    BY <1>7
  <2>2. g.t \in Threads /\ g.seq \in Seqs
    BY DEF ResumeInv, Typed, SendType
  <2> QED BY <1>5, <1>9, <2>2
<1>15. SendsHeld' /\ SendsUnique'
  BY <1>7, <1>14, SendsKept DEF ResumeInv
<1>16. SentIsTrue'
  BY <1>6, <1>7, <1>9, SentKept DEF ResumeInv
<1>17. LogsOrdered'
  BY <1>7 DEF ResumeInv, LogsOrdered
<1> QED BY <1>10, <1>13, <1>15, <1>16, <1>17 DEF ResumeInv

\* Nothing was sent for a candidate that is claimed: neither in the page that
\* was read nor, unless the thread is late, after it, nor is it on its way.
LEMMA ClaimIsFirst ==
  ASSUME ResumeInv, NEW c \in Slots, call[c].pc = "decide", Verdict(c) = "claim"
  PROVE  /\ call[c].t \in late \/ ~MadeFor(log[call[c].t], Candidate(c))
         /\ ~ \E g \in sends : Watched(g) /\ g.t = call[c].t /\ g.seq = Candidate(c)
<1> DEFINE t == call[c].t
           n == call[c].upto
           s == Candidate(c)
<1>1. t \in Threads /\ n \in Nat /\ s \in Page(t, n) /\ s \in Seqs
  BY VerdictFacts
<1>2. ~hasEventsAfter(t, n, s) /\ Claimable(row[t][s])
  BY VerdictFacts
<1>3. DOMAIN log[t] = 1 .. Len(log[t]) /\ Len(log[t]) \in Nat
  BY <1>1 DEF ResumeInv, Typed, LogTyped
<1>4. ASSUME t \notin late, NEW i \in DOMAIN log[t], log[t][i].by = s
      PROVE  FALSE
  <2>1. s \in Nat \ {0} /\ i \in Nat
    BY <1>1, <1>3 DEF Page, Seqs
  <2>2. i > s
    BY <1>1, <1>4, <2>1 DEF ResumeInv, LogsOrdered, LogOrdered
  <2>3. CASE i <= n
    <3>1. i \in Page(t, n)
      BY <1>1, <2>1, <2>2, <2>3, BoundsAssumption DEF Page
    <3> QED BY <1>1, <1>2, <2>1, <2>2, <2>3, <3>1 DEF hasEventsAfter, After
  <2>4. CASE i > n
    <3>1. ReadHeld(call[c], log[t], row[t], t \in late)
      BY DEF ResumeInv, ReadsHeld
    <3> QED BY <1>2, <1>4, <2>1, <2>4, <3>1 DEF ReadHeld
  <2> QED BY <1>1, <2>1, <2>3, <2>4
<1>5. ASSUME NEW g \in sends, Watched(g), g.t = t, g.seq = s
      PROVE  FALSE
  <2>1. Busy(row[t][s], g.token)
    BY <1>5 DEF ResumeInv, SendsHeld, SendHeld, Watched
  <2>2. row[t][s] \in Rows
    BY <1>1 DEF ResumeInv, Typed
  <2> QED BY <1>2, <2>1, <2>2, BusyRow
<1> QED BY <1>4, <1>5 DEF MadeFor

\* The claim and its send.
LEMMA ClaimHoldsInv ==
  ASSUME ResumeInv, NEW c \in Slots, ResumeClaims(c)
  PROVE  ResumeInv'
<1> DEFINE t == call[c].t
           s == Candidate(c)
           k == row[t][s].attempts + 1
           q == claim(row[t][s])
           g == [slot |-> c, t |-> t, seq |-> s, text |-> message, token |-> k, stage |-> "flying"]
<1>1. call[c].pc = "decide" /\ Verdict(c) = "claim"
  BY DEF ResumeClaims
<1>2. t \in Threads /\ s \in Seqs /\ s \in Page(t, call[c].upto) /\ call[c].upto \in Nat
      /\ call[c].upto <= Len(log[t])
  BY <1>1, VerdictFacts
<1>3. row \in [Threads -> [Seqs -> Rows]] /\ row[t][s] \in Rows
  BY <1>2 DEF ResumeInv, Typed
<1>4. q \in Rows /\ ~Claimable(q)
  BY <1>3, StatementsTyped, StatementsFreeNothing
<1>5. Busy(q, k) /\ q.status # "sent"
  BY <1>3, ClaimHolds
<1>6. k \in Nat
  BY <1>3 DEF Rows
<1>7. (t \in late \/ ~MadeFor(log[t], s)) /\ ~ \E h \in sends : Watched(h) /\ h.t = t /\ h.seq = s
  BY <1>1, ClaimIsFirst
<1>8. /\ row' = [row EXCEPT ![t][s] = q]
      /\ sends' = sends \cup {g}
      /\ call' = [call EXCEPT ![c] = Idle]
      /\ UNCHANGED <<log, message, era, pass, late>>
  BY DEF ResumeClaims, hostVars, loopVars, boundVars
<1>9. s <= Len(log[t])
  <2>1. Len(log[t]) \in Nat
    BY <1>2 DEF ResumeInv, Typed, LogTyped
  <2> QED BY <1>2, <2>1 DEF Page
<1> HIDE DEF t, s, q, k
<1>10. g \in SendType
  BY <1>2, <1>6 DEF SendType, ResumeInv, Typed
<1>11. g.t = t /\ g.seq = s /\ g.token = k /\ g.stage = "flying"
  OBVIOUS
<1> HIDE DEF g
<1>12. row' \in [Threads -> [Seqs -> Rows]]
  BY <1>2, <1>3, <1>4, <1>8
<1>13. \A u \in Threads, i \in Seqs : row'[u][i] = IF u = t /\ i = s THEN q ELSE row[u][i]
  BY <1>2, <1>3, <1>8
<1>14. Typed'
  BY <1>8, <1>10, <1>12 DEF ResumeInv, Typed, LogTyped, PassTyped, CallTyped
<1>15. \A d \in Slots : call'[d].pc = "decide" => call'[d] = call[d]
  BY <1>8 DEF ResumeInv, Typed, CallTyped, Idle
<1>16. FreesNothing
  BY <1>4, <1>13 DEF FreesNothing
<1>17. ReadsHeld'
  BY <1>8, <1>15, <1>16, ReadsKept DEF ResumeInv
<1>18. SendsHeld'
  <2>1. SUFFICES ASSUME NEW h \in sends'
                 PROVE  SendHeld(h, log[h.t], row'[h.t][h.seq], h.t \in late)
    BY <1>8 DEF SendsHeld
  <2>2. CASE h = g
    BY <1>2, <1>5, <1>7, <1>9, <1>11, <1>13, <2>2 DEF SendHeld
  <2>3. CASE h \in sends
    <3>1. h.t \in Threads /\ h.seq \in Seqs
          /\ SendHeld(h, log[h.t], row[h.t][h.seq], h.t \in late)
      BY <2>3 DEF ResumeInv, Typed, SendType, SendsHeld
    <3>2. Watched(h) => row'[h.t][h.seq] = row[h.t][h.seq]
      BY <1>7, <1>13, <2>3, <3>1
    <3> QED BY <3>1, <3>2 DEF SendHeld, Watched
  <2> QED BY <1>8, <2>2, <2>3
<1>19. SendsUnique'
  BY <1>7, <1>8, <1>11 DEF ResumeInv, SendsUnique, Watched
<1>20. SentIsTrue'
  BY <1>5, <1>8, <1>13, SentKept DEF ResumeInv
<1>21. LogsOrdered'
  BY <1>8 DEF ResumeInv, LogsOrdered
<1> QED BY <1>14, <1>17, <1>18, <1>19, <1>20, <1>21 DEF ResumeInv

-----------------------------------------------------------------------------
(* A send is settled.                                                       *)

\* threads.send resolves or rejects: the row is written with the send's token.
LEMMA AnswerHolds ==
  ASSUME ResumeInv, NEW g \in sends, SendResolves(g) \/ SendRejects(g)
  PROVE  ResumeInv'
<1> DEFINE t == g.t
           s == g.seq
           q == row'[t][s]
<1>1. t \in Threads /\ s \in Seqs /\ g.token \in Nat
  BY DEF ResumeInv, Typed, SendType
<1>2. row \in [Threads -> [Seqs -> Rows]] /\ row[t][s] \in Rows
  BY <1>1 DEF ResumeInv, Typed
<1>3. SendHeld(g, log[t], row[t][s], t \in late) /\ Watched(g)
  BY DEF ResumeInv, SendsHeld, SendResolves, SendRejects, Watched
<1>4. UNCHANGED <<log, message, era, pass, call, late>> /\ sends' = sends \ {g}
  BY DEF SendResolves, SendRejects, hostVars, loopVars, boundVars
<1>5. /\ q \in Rows
      /\ ~Claimable(row[t][s]) => ~Claimable(q)
      /\ q.status = "sent" => row[t][s].status = "sent" \/ Requested(log[t], s)
      /\ row' = [row EXCEPT ![t][s] = q]
  <2>1. CASE SendResolves(g)
    <3>1. row' = [row EXCEPT ![t][s] = markSent(row[t][s], g.token)]
      BY <2>1 DEF SendResolves
    <3>2. q = markSent(row[t][s], g.token)
      BY <1>1, <1>2, <3>1
    <3>3. Requested(log[t], s)
      BY <1>3, <2>1 DEF SendHeld, SendResolves
    <3> QED BY <1>1, <1>2, <3>1, <3>2, <3>3, StatementsTyped, StatementsFreeNothing
  <2>2. CASE SendRejects(g)
    <3>1. row' = [row EXCEPT ![t][s] = markRetry(row[t][s], g.token)]
      BY <2>2 DEF SendRejects
    <3>2. q = markRetry(row[t][s], g.token)
      BY <1>1, <1>2, <3>1
    <3> QED BY <1>1, <1>2, <3>1, <3>2, StatementsTyped, StatementsFreeNothing, SaysSent
  <2> QED BY <2>1, <2>2
<1> HIDE DEF t, s, q
<1>6. row' \in [Threads -> [Seqs -> Rows]]
  BY <1>1, <1>2, <1>5
<1>7. \A u \in Threads, i \in Seqs : row'[u][i] = IF u = t /\ i = s THEN q ELSE row[u][i]
  BY <1>1, <1>2, <1>5
<1>8. Typed'
  BY <1>4, <1>6 DEF ResumeInv, Typed, LogTyped, PassTyped, CallTyped
<1>9. FreesNothing
  BY <1>5, <1>7 DEF FreesNothing
<1>10. ReadsHeld'
  BY <1>4, <1>9, ReadsKept DEF ResumeInv
<1>11. \A h \in sends' : Watched(h) /\ Busy(row[h.t][h.seq], h.token) => Busy(row'[h.t][h.seq], h.token)
  <2>1. SUFFICES ASSUME NEW h \in sends, h # g, Watched(h)
                 PROVE  row'[h.t][h.seq] = row[h.t][h.seq]
    BY <1>4
  <2>2. h.t \in Threads /\ h.seq \in Seqs /\ ~(h.t = t /\ h.seq = s)
    BY <1>3, <2>1 DEF ResumeInv, Typed, SendType, SendsUnique, t, s
  <2> QED BY <1>7, <2>2
<1>12. SendsHeld' /\ SendsUnique'
  BY <1>4, <1>11, SendsKept DEF ResumeInv
<1>13. SentIsTrue'
  BY <1>4, <1>5, <1>7, SentKept DEF ResumeInv
<1>14. LogsOrdered'
  BY <1>4 DEF ResumeInv, LogsOrdered
<1> QED BY <1>8, <1>10, <1>12, <1>13, <1>14 DEF ResumeInv

\* A request of a dead process is lost.
LEMMA HostRefusesHolds ==
  ASSUME ResumeInv, NEW g \in sends, HostRefuses(g)
  PROVE  ResumeInv'
<1>1. UNCHANGED <<log, row, message, era, pass, call, late>> /\ sends' = sends \ {g}
  BY DEF HostRefuses, hostVars, loopVars, boundVars
<1>2. Typed'
  BY <1>1 DEF ResumeInv, Typed, LogTyped, PassTyped, CallTyped
<1>3. SendsHeld' /\ SendsUnique'
  BY <1>1, SendsKept DEF ResumeInv
<1>4. ReadsHeld' /\ SentIsTrue' /\ LogsOrdered'
  BY <1>1 DEF ResumeInv, ReadsHeld, SentIsTrue, LogsOrdered
<1> QED BY <1>2, <1>3, <1>4 DEF ResumeInv

-----------------------------------------------------------------------------
(* The host writes to a log.                                                *)

\* An event of somebody else.
LEMMA OthersWrite ==
  ASSUME ResumeInv, NEW t \in Threads, NEW m \in Seq(EventType), Len(m) <= MaxLog,
         Extended(log[t], m), \A i \in Len(log[t]) + 1 .. Len(m) : m[i].by = 0,
         log' = [log EXCEPT ![t] = m], era' \in Nat,
         UNCHANGED <<row, sends, call, pass, message, late>>
  PROVE  ResumeInv'
<1>1. log \in [Threads -> Seq(EventType)] /\ log' \in [Threads -> Seq(EventType)]
  BY DEF ResumeInv, Typed, LogTyped
<1>2. \A u \in Threads : log'[u] = IF u = t THEN m ELSE log[u]
  BY <1>1
<1>3. Typed'
  BY <1>1, <1>2 DEF ResumeInv, Typed, LogTyped, PassTyped, CallTyped
<1> DEFINE z == t \in late
<1>9. z \in BOOLEAN
  OBVIOUS
<1> HIDE DEF z
<1>10. /\ LogOrdered(log[t], z) => LogOrdered(m, z)
       /\ \A g, r : g.seq \in Nat \ {0} /\ SendHeld(g, log[t], r, z) => SendHeld(g, m, r, z)
       /\ \A x, r : x.upto \in Nat /\ ReadHeld(x, log[t], r, z) => ReadHeld(x, m, r, z)
  BY <1>9, OthersAppended
<1> USE DEF z
<1>4. LogsOrdered'
  BY <1>2, <1>10 DEF ResumeInv, LogsOrdered
<1>5. SendsHeld'
  <2>1. SUFFICES ASSUME NEW g \in sends
                 PROVE  SendHeld(g, log'[g.t], row[g.t][g.seq], g.t \in late)
    BY DEF SendsHeld
  <2>2. g.t \in Threads /\ g.seq \in Nat \ {0} /\ SendHeld(g, log[g.t], row[g.t][g.seq], g.t \in late)
    BY DEF ResumeInv, Typed, SendType, Seqs, SendsHeld
  <2>3. CASE g.t = t
    BY <1>2, <1>10, <2>2, <2>3
  <2>4. CASE g.t # t
    BY <1>2, <2>2, <2>4
  <2> QED BY <2>3, <2>4
<1>6. ReadsHeld'
  <2>1. SUFFICES ASSUME NEW c \in Slots, call[c].pc = "decide"
                 PROVE  ReadHeld(call[c], log'[call[c].t], row[call[c].t], call[c].t \in late)
    BY DEF ReadsHeld
  <2>2. call[c].t \in Threads /\ call[c].upto \in Nat
        /\ ReadHeld(call[c], log[call[c].t], row[call[c].t], call[c].t \in late)
    BY <2>1 DEF ResumeInv, Typed, CallTyped, IsCall, ReadsHeld, Idle
  <2>3. CASE call[c].t = t
    BY <1>2, <1>10, <2>2, <2>3
  <2>4. CASE call[c].t # t
    BY <1>2, <2>2, <2>4
  <2> QED BY <2>3, <2>4
<1>7. SentIsTrue'
  <2>1. SUFFICES ASSUME NEW u \in Threads, NEW s \in Seqs, row[u][s].status = "sent"
                 PROVE  Requested(log'[u], s)
    BY DEF SentIsTrue, Requested
  <2>2. Requested(log[u], s)
    BY <2>1 DEF ResumeInv, SentIsTrue, Requested
  <2> QED BY <1>2, <2>2, RequestStays
<1>8. SendsUnique'
  BY DEF ResumeInv, SendsUnique, Watched
<1> QED BY <1>3, <1>4, <1>5, <1>6, <1>7, <1>8 DEF ResumeInv

\* The daemon restarts.
LEMMA HostInterruptsHolds ==
  ASSUME ResumeInv, NEW t \in Threads, HostInterrupts(t)
  PROVE  ResumeInv'
<1>1. era' \in Nat
  BY DEF ResumeInv, Typed, HostInterrupts
<1>2. PICK events \in {<<DaemonError(era'), Interruption(era')>>, <<Interruption(era')>>} :
        Len(log[t]) + Len(events) <= MaxLog /\ log' = [log EXCEPT ![t] = @ \o events]
  BY DEF HostInterrupts
<1>3. /\ Interruption(era') \in EventType /\ DaemonError(era') \in EventType
      /\ Interruption(era').by = 0 /\ DaemonError(era').by = 0
  BY <1>1 DEF Interruption, DaemonError, EventType
<1>4. events \in Seq(EventType) /\ \A i \in 1 .. Len(events) : events[i].by = 0
  <2> DEFINE a == DaemonError(era')
             b == Interruption(era')
  <2> HIDE DEF a, b
  <2>1. a \in EventType /\ b \in EventType /\ a.by = 0 /\ b.by = 0
    BY <1>3 DEF a, b
  <2>2. events = <<a, b>> \/ events = <<b>>
    BY <1>2 DEF a, b
  <2>3. CASE events = <<a, b>>
    <3>1. events \in Seq(EventType) /\ Len(events) = 2 /\ events[1] = a /\ events[2] = b
      BY <2>1, <2>3
    <3> QED BY <2>1, <3>1
  <2>4. CASE events = <<b>>
    <3>1. events \in Seq(EventType) /\ Len(events) = 1 /\ events[1] = b
      BY <2>1, <2>4
    <3> QED BY <2>1, <3>1
  <2> QED BY <2>2, <2>3, <2>4
<1>5. log[t] \in Seq(EventType)
  BY DEF ResumeInv, Typed, LogTyped
<1> DEFINE m == log[t] \o events
<1>6. m \in Seq(EventType) /\ Len(m) = Len(log[t]) + Len(events)
      /\ Len(log[t]) \in Nat /\ Len(events) \in Nat
  BY <1>4, <1>5
<1>7. \A i \in 1 .. Len(log[t]) : m[i] = log[t][i]
  BY <1>4, <1>5
<1>8. \A i \in Len(log[t]) + 1 .. Len(m) : m[i].by = 0
  <2>1. SUFFICES ASSUME NEW i \in Len(log[t]) + 1 .. Len(m) PROVE m[i].by = 0
    OBVIOUS
  <2>2. m[i] = events[i - Len(log[t])] /\ i - Len(log[t]) \in 1 .. Len(events)
    BY <1>4, <1>5, <1>6
  <2> QED BY <1>4, <2>2
<1>9. log' = [log EXCEPT ![t] = m] /\ Len(m) <= MaxLog
  BY <1>2, <1>6
<1>10. Extended(log[t], m)
  BY <1>5, <1>6, <1>7 DEF Extended
<1>11. UNCHANGED <<row, sends, call, pass, message, late>>
  BY DEF HostInterrupts, boundVars
<1> HIDE DEF m
<1> QED BY <1>1, <1>6, <1>8, <1>9, <1>10, <1>11, OthersWrite

\* Somebody continues the thread.
LEMMA ThreadGoesOnHolds ==
  ASSUME ResumeInv, NEW t \in Threads, ThreadGoesOn(t)
  PROVE  ResumeInv'
<1> DEFINE e == Event("other", "none", 0)
           m == Append(log[t], e)
<1>1. e \in EventType /\ e.by = 0
  BY DEF Event, EventType, ResumeInv, Typed
<1>2. log[t] \in Seq(EventType) /\ Len(log[t]) \in Nat
  BY DEF ResumeInv, Typed, LogTyped
<1>3. log' = [log EXCEPT ![t] = m] /\ Len(log[t]) < MaxLog /\ UNCHANGED <<era, row, sends, call, pass, message, late>>
  BY DEF ThreadGoesOn, loopVars, boundVars
<1> HIDE DEF e
<1>4. m \in Seq(EventType) /\ Len(m) = Len(log[t]) + 1 /\ m[Len(m)] = e
      /\ \A i \in 1 .. Len(log[t]) : m[i] = log[t][i]
  BY <1>1, <1>2
<1>5. Extended(log[t], m) /\ Len(m) <= MaxLog /\ \A i \in Len(log[t]) + 1 .. Len(m) : m[i].by = 0
  BY <1>1, <1>2, <1>3, <1>4, BoundsAssumption DEF Extended
<1>6. era' \in Nat
  BY <1>3 DEF ResumeInv, Typed
<1> HIDE DEF m
<1> QED BY <1>3, <1>4, <1>5, <1>6, OthersWrite

\* The host takes a request.
LEMMA HostAcceptsHolds ==
  ASSUME ResumeInv, NEW g \in sends, HostAccepts(g)
  PROVE  ResumeInv'
<1> DEFINE t == g.t
           s == g.seq
           e == Event("request", g.text, s)
           m == Append(log[t], e)
           h == [g EXCEPT !.stage = "accepted"]
<1>1. g \in SendType /\ t \in Threads /\ s \in Seqs /\ s \in Nat \ {0}
  BY DEF ResumeInv, Typed, SendType, Seqs
<1>2. e \in EventType /\ e.by = s /\ e.kind = "request"
  BY <1>1 DEF Event, EventType, SendType, ResumeInv, Typed
<1>3. h \in SendType /\ h.t = t /\ h.seq = s /\ h.token = g.token /\ h.stage = "accepted"
      /\ h.slot = g.slot
  BY <1>1 DEF SendType
<1>4. SendHeld(g, log[t], row[t][s], t \in late) /\ g.stage = "flying"
  BY DEF ResumeInv, SendsHeld, HostAccepts
<1>5. log[t] \in Seq(EventType) /\ Len(log[t]) \in Nat /\ log \in [Threads -> Seq(EventType)]
  BY <1>1 DEF ResumeInv, Typed, LogTyped
<1>6. /\ log' = [log EXCEPT ![t] = m] /\ Len(log[t]) < MaxLog
      /\ sends' \subseteq (sends \ {g}) \cup {h}
      /\ UNCHANGED <<era, row, call, pass, message, late>>
  BY DEF HostAccepts, loopVars, boundVars
<1>7. t \in late \/ ~Claimable(row[t][s])
  BY <1>1, <1>4, BusyRow DEF ResumeInv, Typed, SendHeld
<1> HIDE DEF e, h, t, s
<1>8. m \in Seq(EventType) /\ Len(m) = Len(log[t]) + 1 /\ m[Len(m)] = e
      /\ \A i \in 1 .. Len(log[t]) : m[i] = log[t][i]
  BY <1>2, <1>5
<1> HIDE DEF m
<1>9. Extended(log[t], m) /\ Len(m) <= MaxLog
  BY <1>5, <1>6, <1>8, BoundsAssumption DEF Extended
<1>10. s <= Len(log[t]) /\ (t \in late \/ ~MadeFor(log[t], s))
  BY <1>4 DEF SendHeld, s
<1>11. m[Len(m)].by = s /\ m[Len(m)].kind = "request"
  BY <1>2, <1>8
<1> DEFINE z == t \in late
           l == log[t]
<1>20. /\ z \in BOOLEAN /\ (z \/ ~MadeFor(l, s)) /\ s <= Len(l)
       /\ Extended(l, m) /\ Len(m) = Len(l) + 1
  BY <1>8, <1>9, <1>10
<1> HIDE DEF z, l
<1>12. /\ LogOrdered(l, z) => LogOrdered(m, z)
       /\ Requested(m, s)
       /\ \A i, r : i.seq \in Nat \ {0} /\ (z \/ i.seq # s) /\ SendHeld(i, l, r, z)
                   => SendHeld(i, m, r, z)
       /\ \A x, r : x.upto \in Nat /\ (z \/ ~Claimable(r[s])) /\ ReadHeld(x, l, r, z)
                   => ReadHeld(x, m, r, z)
  <2>1. CASE z = TRUE
    BY <1>1, <1>11, <1>20, <2>1, RequestAppended
  <2>2. CASE z = FALSE
    BY <1>1, <1>11, <1>20, <2>2, RequestAppended
  <2> QED BY <1>20, <2>1, <2>2
<1> USE DEF z, l
<1>13. \A u \in Threads : log'[u] = IF u = t THEN m ELSE log[u]
  BY <1>5, <1>6
<1>14. Typed'
  BY <1>3, <1>5, <1>6, <1>8, <1>9, <1>13 DEF ResumeInv, Typed, LogTyped, PassTyped, CallTyped
<1>15. LogsOrdered'
  BY <1>6, <1>12, <1>13 DEF ResumeInv, LogsOrdered
<1>16. SendsHeld'
  <2>1. SUFFICES ASSUME NEW i \in sends'
                 PROVE  SendHeld(i, log'[i.t], row[i.t][i.seq], i.t \in late)
    BY <1>6 DEF SendsHeld
  <2>2. CASE i = h
    <3>1. log'[i.t] = m /\ Len(m) >= s
      BY <1>1, <1>3, <1>5, <1>8, <1>10, <1>13, <2>2
    <3>2. ~z \/ g.slot # Dead => Busy(row[t][s], g.token)
      BY <1>4 DEF SendHeld
    <3> QED BY <1>3, <1>12, <2>2, <3>1, <3>2 DEF SendHeld
  <2>3. CASE i \in sends \ {g}
    <3>1. i.t \in Threads /\ i.seq \in Nat \ {0}
          /\ SendHeld(i, log[i.t], row[i.t][i.seq], i.t \in late)
      BY <2>3 DEF ResumeInv, Typed, SendType, Seqs, SendsHeld
    <3>2. CASE i.t = t
      <4>1. z \/ i.seq # s
        BY <2>3, <3>2 DEF ResumeInv, SendsUnique, Watched, t, s
      <4> QED BY <1>12, <1>13, <3>1, <3>2, <4>1
    <3>3. CASE i.t # t
      BY <1>13, <3>1, <3>3
    <3> QED BY <3>2, <3>3
  <2> QED BY <1>6, <2>2, <2>3
<1>17. SendsUnique'
  BY <1>3, <1>6 DEF ResumeInv, SendsUnique, Watched, t, s
<1>18. ReadsHeld'
  <2>1. SUFFICES ASSUME NEW c \in Slots, call[c].pc = "decide"
                 PROVE  ReadHeld(call[c], log'[call[c].t], row[call[c].t], call[c].t \in late)
    BY <1>6 DEF ReadsHeld
  <2>2. call[c].t \in Threads /\ call[c].upto \in Nat
        /\ ReadHeld(call[c], log[call[c].t], row[call[c].t], call[c].t \in late)
    BY <2>1 DEF ResumeInv, Typed, CallTyped, IsCall, ReadsHeld, Idle
  <2>3. CASE call[c].t = t
    BY <1>7, <1>12, <1>13, <2>2, <2>3
  <2>4. CASE call[c].t # t
    BY <1>13, <2>2, <2>4
  <2> QED BY <2>3, <2>4
<1>19. SentIsTrue'
  <2>1. SUFFICES ASSUME NEW u \in Threads, NEW i \in Seqs, row[u][i].status = "sent"
                 PROVE  Requested(log'[u], i)
    BY <1>6 DEF SentIsTrue, Requested
  <2>2. Requested(log[u], i)
    BY <2>1 DEF ResumeInv, SentIsTrue, Requested
  <2> QED BY <1>9, <1>13, <2>2, RequestStays
<1> QED BY <1>14, <1>15, <1>16, <1>17, <1>18, <1>19 DEF ResumeInv

-----------------------------------------------------------------------------
(* The loops of the service, the settings, time and a restart.              *)

\* A pass of reconciliation begins or cannot, inspects a thread or ends.
LEMMA ReconcileHolds ==
  ASSUME ResumeInv, \/ ReconcileBegins \/ ReconcileFails \/ ReconcileEnds
                    \/ \E t \in Threads : ReconcileInspects(t)
  PROVE  ResumeInv'
<1>1. UNCHANGED <<log, row, sends, message, era, call, late>>
  BY DEF ReconcileBegins, ReconcileFails, ReconcileEnds, ReconcileInspects, hostVars, boundVars
<1>2. PassTyped'
  <2>1. CASE ReconcileBegins \/ ReconcileFails
    BY <2>1 DEF ReconcileBegins, ReconcileFails, ResumeInv, Typed, PassTyped
  <2>2. CASE ReconcileEnds
    BY <2>2 DEF ReconcileEnds, Resting, PassTyped
  <2>3. CASE \E t \in Threads : ReconcileInspects(t)
    <3>1. PICK t \in Threads : ReconcileInspects(t)
      BY <2>3
    <3>2. DOMAIN pass = {"phase", "todo", "found"} /\ \A f \in pass.found : f.t \in Threads
      BY DEF ResumeInv, Typed, PassTyped
    <3> DEFINE seq == latestHostRestartInterruption(t, Len(log[t]))
               f == [t |-> t, seq |-> seq, at |-> log[t][seq].at,
                     error |-> hostDaemonErrorAt(t, Len(log[t]), seq)]
    <3>3. \/ pass' = [pass EXCEPT !.todo = @ \ {t}, !.found = @ \cup {f}]
          \/ pass' = [pass EXCEPT !.todo = @ \ {t}, !.found = @]
          \/ pass' = [pass EXCEPT !.todo = @ \ {t}]
      BY <3>1 DEF ReconcileInspects
    <3>4. f.t = t
      OBVIOUS
    <3> HIDE DEF f
    <3> QED BY <3>2, <3>3, <3>4 DEF PassTyped
  <2> QED BY <2>1, <2>2, <2>3
<1>3. Typed'
  BY <1>1, <1>2 DEF ResumeInv, Typed, LogTyped, CallTyped
<1> QED BY <1>1, <1>3, OnlyCallsMove

\* The candidates of a pass are resumed.
LEMMA ReconcileResumesHolds ==
  ASSUME ResumeInv, ReconcileResumes
  PROVE  ResumeInv'
<1>1. UNCHANGED <<log, row, sends, message, era, late>>
      /\ pass' = [pass EXCEPT !.phase = "resuming", !.found = {}]
  BY DEF ReconcileResumes, hostVars, boundVars
<1>2. \A f \in pass.found : f.t \in Threads
  BY DEF ResumeInv, Typed, PassTyped
<1>3. PassTyped'
  BY <1>1 DEF ResumeInv, Typed, PassTyped
<1> DEFINE latest == Greatest({f.error : f \in pass.found})
           chosen == {f \in pass.found : automatic /\ f.at = latest}
           pick(c) == CHOOSE f \in chosen : f.t = c[2]
<1>4. call' = [c \in Slots |->
                 IF c[1] = "reconcile" /\ c[3] = stops /\ \E f \in chosen : f.t = c[2]
                 THEN Opened(pick(c).t, pick(c).seq, latest) ELSE call[c]]
  BY DEF ReconcileResumes
<1>5. ASSUME NEW c \in Slots
      PROVE  \/ call'[c] = call[c]
             \/ IsCall(call'[c]) /\ call'[c].pc = "thread"
  <2>1. CASE \E f \in chosen : f.t = c[2]
    <3>1. pick(c) \in chosen
      BY <2>1
    <3>2. pick(c).t \in Threads
      BY <1>2, <3>1
    <3> HIDE DEF latest, chosen, pick
    <3> QED BY <1>4, <3>2, OpenedIsCall
  <2>2. CASE ~ \E f \in chosen : f.t = c[2]
    BY <1>4, <2>2
  <2> QED BY <2>1, <2>2
<1>6. DOMAIN call' = Slots /\ call' = [c \in Slots |-> call'[c]]
  BY <1>4
<1> HIDE DEF latest, chosen, pick
<1>7. CallTyped'
  BY <1>5, <1>6 DEF ResumeInv, Typed, CallTyped
<1>8. Typed'
  BY <1>1, <1>3, <1>7 DEF ResumeInv, Typed, LogTyped
<1>9. \A c \in Slots : call'[c].pc = "decide" => call'[c] = call[c]
  BY <1>5
<1> QED BY <1>1, <1>8, <1>9, OnlyCallsMove

\* The retry loop.
LEMMA RetryHolds ==
  ASSUME ResumeInv, RetryScans \/ \E t \in Threads : RetryNext(t)
  PROVE  ResumeInv'
<1>1. UNCHANGED <<log, row, sends, message, era, pass, late>>
  BY DEF RetryScans, RetryNext, hostVars, boundVars
<1>2. call' = call \/ \E t \in Threads : call' = [call EXCEPT ![<<"retry", "loop", stops>>] = Opened(t, 0, 0)]
  BY DEF RetryScans, RetryNext
<1>3. CASE call' = call
  <2>1. Typed'
    BY <1>1, <1>3 DEF ResumeInv, Typed, LogTyped, PassTyped, CallTyped
  <2> QED BY <1>1, <1>3, <2>1, OnlyCallsMove
<1>4. ASSUME NEW t \in Threads, call' = [call EXCEPT ![<<"retry", "loop", stops>>] = Opened(t, 0, 0)]
      PROVE  ResumeInv'
  <2> DEFINE q == Opened(t, 0, 0)
  <2>1. IsCall(q) /\ q.pc = "thread"
    BY OpenedIsCall
  <2> HIDE DEF q
  <2>2. call' = [call EXCEPT ![<<"retry", "loop", stops>>] = q]
    BY <1>4 DEF q
  <2>3. CallTyped'
    BY <2>1, <2>2 DEF ResumeInv, Typed, CallTyped
  <2>4. Typed'
    BY <1>1, <2>3 DEF ResumeInv, Typed, LogTyped, PassTyped
  <2>5. \A c \in Slots : call'[c].pc = "decide" => call'[c] = call[c]
    BY <2>1, <2>2 DEF ResumeInv, Typed, CallTyped
  <2> QED BY <1>1, <2>4, <2>5, OnlyCallsMove
<1> QED BY <1>2, <1>3, <1>4

\* An archived thread, a setting: no row, log, call or send.
LEMMA EditHolds ==
  ASSUME ResumeInv, SettingsChange \/ \E t \in Threads : ThreadArchived(t)
  PROVE  ResumeInv'
<1>1. UNCHANGED <<log, row, sends, era, pass, call, late>> /\ message' \in Messages
  BY DEF SettingsChange, ThreadArchived, hostVars, loopVars, ResumeInv, Typed
<1>2. Typed'
  BY <1>1 DEF ResumeInv, Typed, LogTyped, PassTyped, CallTyped
<1> QED BY <1>1, <1>2, OnlyCallsMove

\* A retry delay goes by: the rows of live sends are renewed, and the threads of
\* the calls that decide and of the requests of a dead process are late.
LEMMA TimePassesHolds ==
  ASSUME ResumeInv, TimePasses
  PROVE  ResumeInv'
<1> DEFINE held(t, s) == \E g \in sends : g.slot # Dead /\ g.t = t /\ g.seq = s /\ Holds(row[t][s], g.token)
           new(t, s) == IF held(t, s) THEN [row[t][s] EXCEPT !.next = Lease]
                        ELSE [row[t][s] EXCEPT !.next = IF @ > 0 THEN @ - 1 ELSE 0]
<1>1. UNCHANGED <<log, sends, message, era, pass, call>>
  BY DEF TimePasses, hostVars, loopVars
<1>2. row' = [t \in Threads |-> [s \in Seqs |-> new(t, s)]]
  BY DEF TimePasses
<1>3. Lease \in Nat /\ Lease > 0
  BY TimingAssumption
<1>4. /\ \A t : t \in late => t \in late'
      /\ \A c \in Slots : call[c].pc = "decide" => call[c].t \in late'
      /\ \A g \in sends : g.slot = Dead => g.t \in late'
  BY DEF TimePasses
<1>5. ASSUME NEW t \in Threads, NEW s \in Seqs
      PROVE  /\ new(t, s) \in Rows /\ new(t, s).status = row[t][s].status
             /\ \A g \in sends : g.slot # Dead /\ g.t = t /\ g.seq = s /\ Busy(row[t][s], g.token)
                                 => Busy(new(t, s), g.token)
  <2> DEFINE r == row[t][s]
  <2>1. r \in Rows
    BY DEF ResumeInv, Typed
  <2>2. \/ /\ ~held(t, s)
           /\ new(t, s) = [r EXCEPT !.next = IF r.next > 0 THEN r.next - 1 ELSE 0]
        \/ new(t, s) = [r EXCEPT !.next = Lease]
    OBVIOUS
  <2> HIDE DEF r, new
  <2>3. new(t, s) \in Rows /\ new(t, s).status = r.status /\ new(t, s).token = r.token
    BY <1>3, <2>1, <2>2 DEF Rows
  <2>4. CASE new(t, s) = [r EXCEPT !.next = Lease]
    <3>1. new(t, s).next > 0
      BY <1>3, <2>1, <2>4 DEF Rows
    <3> QED BY <2>3, <3>1 DEF Busy, Holds, r
  <2>5. CASE ~held(t, s)
    BY <2>3, <2>5 DEF Busy, r
  <2> QED BY <2>2, <2>3, <2>4, <2>5 DEF r
<1> HIDE DEF new
<1>6. \A t \in Threads, s \in Seqs : row'[t][s] = new(t, s)
  BY <1>2
<1>7. row' \in [Threads -> [Seqs -> Rows]]
  BY <1>2, <1>5
<1>8. Typed'
  BY <1>1, <1>7 DEF ResumeInv, Typed, LogTyped, PassTyped, CallTyped
<1>9. SendsHeld'
  <2>1. SUFFICES ASSUME NEW g \in sends
                 PROVE  SendHeld(g, log[g.t], row'[g.t][g.seq], g.t \in late')
    BY <1>1 DEF SendsHeld
  <2>2. g.t \in Threads /\ g.seq \in Seqs
        /\ SendHeld(g, log[g.t], row[g.t][g.seq], g.t \in late)
    BY DEF ResumeInv, Typed, SendType, SendsHeld
  <2>3. g.slot # Dead => Busy(row'[g.t][g.seq], g.token)
    BY <1>5, <1>6, <2>2 DEF SendHeld
  <2> QED BY <1>4, <2>2, <2>3 DEF SendHeld
<1>10. SendsUnique'
  BY <1>1, <1>4 DEF ResumeInv, SendsUnique, Watched
<1>11. SentIsTrue'
  BY <1>1, <1>5, <1>6, SentKept DEF ResumeInv
<1>12. ReadsHeld'
  BY <1>1, <1>4 DEF ResumeInv, ReadsHeld, ReadHeld
<1>13. LogsOrdered'
  BY <1>1, <1>4 DEF ResumeInv, LogsOrdered, LogOrdered
<1> QED BY <1>8, <1>9, <1>10, <1>11, <1>12, <1>13 DEF ResumeInv

\* A reload: some calls of the old instance end.
LEMMA ReloadHolds ==
  ASSUME ResumeInv, UNCHANGED <<log, row, message, era, sends, late>>, pass' = Resting,
         call' = [c \in Slots |-> call'[c]], \A c \in Slots : call'[c] \in {Idle, call[c]}
  PROVE  ResumeInv'
<1>1. CallTyped' /\ PassTyped'
  BY DEF CallTyped, PassTyped, Resting, ResumeInv, Typed
<1>2. Typed'
  BY <1>1 DEF ResumeInv, Typed, LogTyped
<1>3. \A c \in Slots : call'[c].pc = "decide" => call'[c] = call[c]
  BY DEF Idle
<1> QED BY <1>2, <1>3, OnlyCallsMove

\* A crash: the requests on their way keep what they are of.
LEMMA CrashHolds ==
  ASSUME ResumeInv, UNCHANGED <<log, row, message, era, late>>, pass' = Resting,
         call' = [c \in Slots |-> Idle],
         sends' = {[g EXCEPT !.slot = Dead] : g \in {h \in sends : h.stage = "flying"}}
  PROVE  ResumeInv'
<1> DEFINE img(g) == [g EXCEPT !.slot = Dead]
<1>1. \A h \in sends' : \E g \in sends : h = img(g)
  OBVIOUS
<1>2. \A g \in sends : /\ img(g) \in SendType /\ img(g).t = g.t /\ img(g).seq = g.seq
                       /\ img(g).token = g.token /\ img(g).stage = g.stage /\ img(g).slot = Dead
  BY DEF ResumeInv, Typed, SendType
<1> HIDE DEF img
<1>3. CallTyped' /\ PassTyped'
  BY DEF CallTyped, PassTyped, Resting
<1>4. Typed'
  BY <1>1, <1>2, <1>3 DEF ResumeInv, Typed, LogTyped
<1>5. SendsHeld'
  <2>1. SUFFICES ASSUME NEW h \in sends'
                 PROVE  SendHeld(h, log[h.t], row[h.t][h.seq], h.t \in late)
    BY DEF SendsHeld
  <2>2. PICK g \in sends : h = img(g)
    BY <1>1
  <2>3. SendHeld(g, log[g.t], row[g.t][g.seq], g.t \in late)
    BY DEF ResumeInv, SendsHeld
  <2> QED BY <1>2, <2>2, <2>3 DEF SendHeld
<1>6. SendsUnique'
  <2>1. SUFFICES ASSUME NEW h \in sends', NEW i \in sends', Watched(h)', Watched(i)',
                        h.t = i.t, h.seq = i.seq
                 PROVE  h = i
    BY DEF SendsUnique
  <2>2. PICK g \in sends : h = img(g)
    BY <1>1
  <2>3. PICK f \in sends : i = img(f)
    BY <1>1
  <2>4. Watched(g) /\ Watched(f)
    BY <1>2, <2>1, <2>2, <2>3 DEF Watched
  <2>5. g = f
    BY <1>2, <2>1, <2>2, <2>3, <2>4 DEF ResumeInv, SendsUnique
  <2> QED BY <2>2, <2>3, <2>5
<1>7. ReadsHeld'
  BY DEF ReadsHeld, Idle
<1>8. SentIsTrue' /\ LogsOrdered'
  BY DEF ResumeInv, SentIsTrue, LogsOrdered
<1> QED BY <1>4, <1>5, <1>6, <1>7, <1>8 DEF ResumeInv

\* A new instance.
LEMMA RestartHolds ==
  ASSUME ResumeInv, Restart
  PROVE  ResumeInv'
<1>1. UNCHANGED <<log, row, message, era, late>> /\ pass' = Resting
  BY DEF Restart, hostVars
<1>2. \/ /\ UNCHANGED sends /\ call' = [c \in Slots |-> call'[c]]
         /\ \A c \in Slots : call'[c] \in {Idle, call[c]}
      \/ /\ call' = [c \in Slots |-> Idle]
         /\ sends' = {[g EXCEPT !.slot = Dead] : g \in {h \in sends : h.stage = "flying"}}
  BY DEF Restart
<1> QED BY <1>1, <1>2, ReloadHolds, CrashHolds

-----------------------------------------------------------------------------
(* The invariant, and what it says.                                         *)

\* Nothing is claimed, sent or logged at the start.
LEMMA InitHolds == Init => ResumeInv
<1>1. SUFFICES ASSUME Init PROVE ResumeInv
  OBVIOUS
<1>2. LogTyped
  <2>1. <<>> \in Seq(EventType) /\ Len(<<>>) = 0
    OBVIOUS
  <2>2. log \in [Threads -> Seq(EventType)]
    BY <1>1, <2>1 DEF Init
  <2>3. \A t \in Threads : Len(log[t]) <= MaxLog
    BY <1>1, <2>1, BoundsAssumption DEF Init
  <2> QED BY <2>2, <2>3 DEF LogTyped
<1>3. row \in [Threads -> [Seqs -> Rows]] /\ \A t \in Threads, s \in Seqs : row[t][s].status = "none"
  BY <1>1 DEF Init, Rows
<1>4. CallTyped /\ PassTyped /\ \A c \in Slots : call[c].pc = "idle"
  BY <1>1 DEF Init, CallTyped, PassTyped, Idle, Resting
<1>5. Typed
  BY <1>1, <1>2, <1>3, <1>4, BoundsAssumption DEF Init, Typed
<1>6. LogsOrdered
  BY <1>1 DEF Init, LogsOrdered, LogOrdered
<1>7. SendsHeld /\ SendsUnique
  BY <1>1 DEF Init, SendsHeld, SendsUnique
<1>8. ReadsHeld /\ SentIsTrue
  BY <1>3, <1>4 DEF ReadsHeld, SentIsTrue
<1> QED BY <1>5, <1>6, <1>7, <1>8 DEF ResumeInv

\* Every step keeps the invariant.
LEMMA NextHolds == ResumeInv /\ [Next]_vars => ResumeInv'
<1>1. SUFFICES ASSUME ResumeInv, [Next]_vars PROVE ResumeInv'
  OBVIOUS
<1>2. CASE UNCHANGED vars
  <2>1. UNCHANGED <<log, row, sends, message, era, pass, call, late>>
    BY <1>2 DEF vars, hostVars, loopVars, boundVars
  <2>2. Typed'
    BY <1>1, <2>1 DEF ResumeInv, Typed, LogTyped, PassTyped, CallTyped
  <2> QED BY <1>1, <2>1, <2>2, OnlyCallsMove
<1>3. CASE \E m \in Manual, t \in Threads : resumeManually(m, t)
  BY <1>1, <1>3, ManualHolds
<1>4. CASE \E c \in Slots : Resume(c) \/ ReadFails(c)
  BY <1>1, <1>4, ReadThreadHolds, ReadEventsHolds, CallEndsHolds, SettleHolds, ClaimHoldsInv DEF Resume
<1>5. CASE Reconcile
  BY <1>1, <1>5, ReconcileHolds, ReconcileResumesHolds DEF Reconcile
<1>6. CASE Retry
  BY <1>1, <1>6, RetryHolds DEF Retry
<1>7. CASE Settle
  BY <1>1, <1>7, HostAcceptsHolds, HostRefusesHolds, AnswerHolds DEF Settle
<1>8. CASE HostNext
  BY <1>1, <1>8, HostInterruptsHolds, ThreadGoesOnHolds, EditHolds DEF HostNext
<1>9. CASE SettingsChange \/ TimePasses \/ Restart
  BY <1>1, <1>9, EditHolds, TimePassesHolds, RestartHolds
<1> QED BY <1>1, <1>2, <1>3, <1>4, <1>5, <1>6, <1>7, <1>8, <1>9 DEF Next

\* The attempts table, the log, the sends under way and the reads of the log
\* that are being decided on fit together, whatever interleaves, fails or
\* restarts.
THEOREM ResumeInvariant == Spec => []ResumeInv
<1>1. Init => ResumeInv
  BY InitHolds
<1>2. ResumeInv /\ [Next]_vars => ResumeInv'
  BY NextHolds
<1> QED BY <1>1, <1>2, PTL DEF Spec

\* No two requests for one interruption are awaited at a time, by callers of one
\* instance or of two (claim, activeSends, renewLease), however late they are.
THEOREM ResumeSendsAlone == Spec => []ExclusiveSend
<1>1. ResumeInv => ExclusiveSend
  BY DEF ResumeInv, SendsUnique, Watched, ExclusiveSend
<1> QED BY <1>1, ResumeInvariant, PTL

\* The host never holds two requests made for one interruption of a thread, as
\* long as no retry delay went by while a call decided on a log of the thread
\* read before, or while a request of a dead process was on its way to it.
THEOREM ResumeAtMostOnce == Spec => []ResumedOnce
<1>1. ResumeInv => ResumedOnce
  <2>1. SUFFICES ASSUME ResumeInv, NEW t \in Threads \ late, NEW s \in Seqs
                 PROVE  Cardinality({i \in DOMAIN log[t] : log[t][i].by = s}) <= 1
    BY DEF ResumedOnce
  <2> DEFINE S == {i \in DOMAIN log[t] : log[t][i].by = s}
  <2>2. \A i, j \in S : i = j
    BY <2>1 DEF ResumeInv, LogsOrdered, LogOrdered, Seqs
  <2> SUFFICES Cardinality(S) <= 1
    OBVIOUS
  <2> HIDE DEF S
  <2>3. CASE S = {}
    BY <2>3, FS_EmptySet
  <2>4. CASE S # {}
    <3>1. PICK i \in S : S = {i}
      BY <2>2, <2>4
    <3>2. Cardinality(S) = 1
      BY <3>1, FS_Singleton, Zenon
    <3> QED BY <3>2
  <2> QED BY <2>3, <2>4
<1> QED BY <1>1, ResumeInvariant, PTL

\* A row that says "sent" is backed by a request in the thread's log.
THEOREM ResumeSentIsTrue == Spec => []SentIsTrue
<1>1. ResumeInv => SentIsTrue
  BY DEF ResumeInv
<1> QED BY <1>1, ResumeInvariant, PTL
=============================================================================
