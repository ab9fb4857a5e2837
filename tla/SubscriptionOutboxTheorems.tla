---------------------- MODULE SubscriptionOutboxTheorems --------------------
(***************************************************************************)
(* The findings of the subscription service, proved from one inductive     *)
(* invariant: they only move forward, each is sent at most once and not    *)
(* after a cancellation, and the end of a subscription is told once.       *)
(*                                                                         *)
(* Outside tick() a step does one of three things to the outbox: nothing,  *)
(* it files one finding, or it cancels those of one subscription.          *)
(***************************************************************************)
EXTENDS SubscriptionTheorems, FiniteSetTheorems

Silenced(k) == rec[k[1]].notifications_cancelled

\* What a finding's delivery says: a pending one was never handed to the
\* owner, and only a cancelled subscription drops or withdraws.
FindingInv(k) ==
    /\ fnd[k].delivery = "pending" => k \notin handed
    /\ fnd[k].withdraw_pending => fnd[k].delivery = "accepted" /\ Silenced(k)
    /\ fnd[k].delivery = "cancelled" => Silenced(k)

\* What the copies that a suspended tick() works on are by now: the findings
\* it withdraws are accepted, those it will send pending or cancelled.
TickInv ==
    /\ tick.pc = "withdraw" =>
         \A k \in tick.todo : fnd[k].delivery = "accepted" /\ Silenced(k)
    /\ tick.pc \in {"deliver", "owner", "send"} =>
         \A k \in tick.todo : fnd[k].delivery \in {"pending", "cancelled"}
    /\ tick.pc \in {"owner", "send"} => tick.cur \notin tick.todo
    /\ tick.pc = "owner" => fnd[tick.cur].delivery \in {"pending", "cancelled"}
    /\ tick.pc = "send" => fnd[tick.cur].delivery = "sending"

RowInv(s) ==
    /\ rec[s].state = "cancelled" => rec[s].notifications_cancelled
    /\ rec[s].state = "absent" =>
         /\ ~rec[s].notifications_cancelled /\ \A k \in DOMAIN fnd : k[1] # s
         /\ step[s].pc = "idle" /\ s \notin spawn

\* One conclusion for a subscription that ended with one, none before.
ToldInv(s) ==
    /\ rec[s].state \in Told => \E k \in DOMAIN fnd : Conclusions(s) = {k}
    /\ rec[s].state \notin Told => Conclusions(s) = {}

\* The inductive invariant.
OutboxInv ==
    /\ TypeOK /\ TickInv
    /\ \A k \in DOMAIN fnd : FindingInv(k)
    /\ \A s \in Subs : RowInv(s) /\ ToldInv(s)

-----------------------------------------------------------------------------
(* How a step treats rows and findings.                                     *)

\* A row and its successor, as far as the outbox depends on them.
Succeeds(r, c) ==
    /\ r.notifications_cancelled => c.notifications_cancelled
    /\ c.state = "cancelled" => c.notifications_cancelled \/ r.state = "cancelled"
    /\ c.state = "absent" => r.state = "absent" /\ c.notifications_cancelled = r.notifications_cancelled
    /\ r.state # "absent" => c.mode = r.mode
Moves == \A t \in Subs : Succeeds(rec[t], rec'[t])
\* Nothing is begun for a subscription that was never created.
Undisturbed ==
    \A t \in Subs : rec[t].state = "absent" => /\ step'[t].pc # "idle" => step[t].pc # "idle"
                                               /\ t \in spawn' => t \in spawn
ToldKept(t) == rec'[t].state \in Told <=> rec[t].state \in Told

Quiet == fnd' = fnd /\ \A t \in Subs : ToldKept(t)

Concludes(s, occurrence) ==
    occurrence # "attention" /\ (occurrence = "run" => rec[s].mode = "until")

Files(s, key) ==
    /\ key \in Keys /\ key[1] = s /\ fnd' = WithFinding(key)
    /\ rec[s].state \notin Told \cup {"absent"} /\ rec'[s].state # "absent"
    /\ Concludes(s, key[2]) => rec'[s].state \in Told
    /\ ~Concludes(s, key[2]) => rec'[s].state \notin Told
    /\ \A t \in Subs : t # s => ToldKept(t)

Cancels(s) ==
    /\ CancelFindings(s) /\ rec'[s].notifications_cancelled
    /\ \A t \in Subs : ToldKept(t)

\* What no step may do to a finding.
Advances == \A k \in DOMAIN fnd : k \in DOMAIN fnd' /\ fnd'[k].delivery \in Onward[fnd[k].delivery]
SendsFirst ==
    \A k \in DOMAIN fnd : fnd[k].delivery # "sending" /\ fnd'[k].delivery = "sending"
                            => k \notin handed /\ ~Silenced(k)

\* Where a finding may stay, and where it may go.
LEMMA OnwardSteps ==
    /\ \A d \in {"pending", "sending", "accepted", "uncertain", "cancelled"} : d \in Onward[d]
    /\ "sending" \in Onward["pending"] /\ "cancelled" \in Onward["pending"]
    /\ "accepted" \in Onward["sending"] /\ "uncertain" \in Onward["sending"]
    /\ "cancelled" \in Onward["accepted"]
BY DEF Onward

\* The key of a finding names a subscription.
LEMMA KeyOwner ==
    ASSUME TypeOK, NEW k \in DOMAIN fnd
    PROVE  /\ k \in Keys /\ k[1] \in Subs /\ fnd[k] \in FindingType /\ rec[k[1]] \in RecordType
           /\ fnd[k].delivery \in {"pending", "sending", "accepted", "uncertain", "cancelled"}
BY DEF TypeOK, OutboxOK, Keys, FindingType

\* Rows that only move on keep what is said of rows.
LEMMA MovesKeepRows ==
    ASSUME TypeOK, TypeOK', Moves, Undisturbed, NEW s \in Subs, RowInv(s),
           \A k \in DOMAIN fnd' : k \in DOMAIN fnd \/ rec'[k[1]].state # "absent"
    PROVE  RowInv(s)'
BY DEF RowInv, Moves, Succeeds, Undisturbed

\* The conclusions depend on the keys of the outbox and on the mode.
LEMMA ConclusionsKept ==
    ASSUME Moves, NEW s \in Subs, rec[s].state # "absent", DOMAIN fnd' = DOMAIN fnd
    PROVE  Conclusions(s)' = Conclusions(s)
<1>1. rec'[s].mode = rec[s].mode
  BY DEF Moves, Succeeds
<1> QED BY <1>1 DEF Conclusions

\* Nothing is told of a subscription while no finding is filed.
LEMMA ToldKeeps ==
    ASSUME Moves, NEW s \in Subs, RowInv(s), ToldInv(s), ToldKept(s), DOMAIN fnd' = DOMAIN fnd
    PROVE  ToldInv(s)'
<1>1. CASE rec[s].state # "absent"
  BY <1>1, ConclusionsKept DEF ToldInv, ToldKept
<1>2. CASE rec[s].state = "absent"
  <2>1. Conclusions(s)' = {} /\ rec[s].state \notin Told
    BY <1>2 DEF RowInv, Conclusions, Told
  <2> QED BY <2>1 DEF ToldInv, ToldKept
<1> QED BY <1>1, <1>2

\* The copies a suspended tick() holds stand for findings that others leave
\* alone, or cancel.
LEMMA TickKeeps ==
    ASSUME TypeOK, TickInv, Moves, tick' = tick, DOMAIN fnd \subseteq DOMAIN fnd',
           \A k \in DOMAIN fnd : \/ fnd'[k].delivery = fnd[k].delivery
                                 \/ fnd[k].delivery = "pending" /\ fnd'[k].delivery = "cancelled"
    PROVE  TickInv'
<1>1. /\ tick.todo \subseteq DOMAIN fnd
      /\ tick.pc \in {"owner", "send"} => tick.cur \in DOMAIN fnd
  BY DEF TypeOK, OutboxOK
<1>2. \A k \in DOMAIN fnd : Silenced(k) => Silenced(k)'
  BY KeyOwner DEF Moves, Succeeds, Silenced
<1> QED BY <1>1, <1>2 DEF TickInv

\* A step that leaves the outbox alone, apart from where tick() stands.
LEMMA SettledKeeps ==
    ASSUME OutboxInv, TypeOK', TickInv', Moves, Undisturbed, Quiet, handed' = handed
    PROVE  OutboxInv' /\ Advances /\ SendsFirst
<1>1. TypeOK /\ DOMAIN fnd' = DOMAIN fnd
  BY DEF OutboxInv, Quiet
<1>3. ASSUME NEW k \in DOMAIN fnd' PROVE FindingInv(k)'
  <2>1. FindingInv(k) /\ (Silenced(k) => Silenced(k)')
    BY <1>1, <1>3, KeyOwner DEF OutboxInv, Moves, Succeeds, Silenced
  <2> QED BY <2>1 DEF FindingInv, Quiet
<1>4. ASSUME NEW s \in Subs PROVE RowInv(s)' /\ ToldInv(s)'
  <2>1. RowInv(s) /\ ToldInv(s) /\ ToldKept(s)
    BY DEF OutboxInv, Quiet
  <2> QED BY <1>1, <2>1, MovesKeepRows, ToldKeeps
<1>5. Advances /\ SendsFirst
  BY <1>1, KeyOwner, OnwardSteps DEF Advances, SendsFirst, Quiet
<1> QED BY <1>3, <1>4, <1>5 DEF OutboxInv

\* A step that leaves the outbox alone.
LEMMA QuietKeeps ==
    ASSUME OutboxInv, TypeOK', Moves, Undisturbed, Quiet, UNCHANGED <<tick, handed>>
    PROVE  OutboxInv' /\ Advances /\ SendsFirst
<1>1. TickInv'
  BY TickKeeps DEF Quiet, OutboxInv
<1> QED BY <1>1, SettledKeeps

\* A step that files a finding.
LEMMA FilesKeeps ==
    ASSUME OutboxInv, TypeOK', Moves, Undisturbed, NEW s \in Subs, NEW key, Files(s, key), UNCHANGED <<tick, handed>>
    PROVE  OutboxInv' /\ Advances /\ SendsFirst
<1>1. TypeOK /\ TickInv /\ OutboxOK /\ handed \subseteq DOMAIN fnd
  BY DEF OutboxInv, TypeOK, OutboxOK
<1>2. /\ key \in Keys /\ key[1] = s /\ fnd' = WithFinding(key)
      /\ rec[s].state \notin Told \cup {"absent"} /\ rec'[s].state # "absent"
      /\ Concludes(s, key[2]) => rec'[s].state \in Told
      /\ ~Concludes(s, key[2]) => rec'[s].state \notin Told
      /\ \A t \in Subs : t # s => ToldKept(t)
  BY DEF Files
<1>3. /\ DOMAIN fnd' = DOMAIN fnd \cup {key}
      /\ \A k \in DOMAIN fnd : fnd'[k] = fnd[k]
      /\ key \notin DOMAIN fnd => fnd'[key].delivery = "pending" /\ fnd'[key].withdraw_pending = FALSE
  <2>1. CASE key \in DOMAIN fnd
    BY <1>2, <2>1 DEF WithFinding
  <2>2. CASE key \notin DOMAIN fnd
    BY <1>2, <2>2 DEF WithFinding, Pending
  <2> QED BY <2>1, <2>2
<1>4. TickInv'
  BY <1>1, <1>3, TickKeeps
<1>5. ASSUME NEW k \in DOMAIN fnd' PROVE FindingInv(k)'
  <2>1. CASE k \in DOMAIN fnd
    <3>1. FindingInv(k) /\ (Silenced(k) => Silenced(k)')
      BY <1>1, <2>1, KeyOwner DEF OutboxInv, Moves, Succeeds, Silenced
    <3> QED BY <1>3, <2>1, <3>1 DEF FindingInv
  <2>2. CASE k \notin DOMAIN fnd
    BY <1>1, <1>3, <1>5, <2>2 DEF FindingInv
  <2> QED BY <2>1, <2>2
<1>6. ASSUME NEW t \in Subs PROVE RowInv(t)'
  <2>1. \A k \in DOMAIN fnd' : k \in DOMAIN fnd \/ rec'[k[1]].state # "absent"
    BY <1>2, <1>3
  <2> QED BY <1>1, <2>1, MovesKeepRows DEF OutboxInv
<1>7. ASSUME NEW t \in Subs, t # s PROVE ToldInv(t)'
  <2>1. CASE rec[t].state # "absent"
    <3>1. rec'[t].mode = rec[t].mode
      BY <2>1 DEF Moves, Succeeds
    <3>2. Conclusions(t)' = Conclusions(t)
      BY <1>2, <1>3, <1>7, <3>1 DEF Conclusions
    <3> QED BY <1>2, <1>3, <1>7, <3>2 DEF OutboxInv, ToldInv, ToldKept
  <2>2. CASE rec[t].state = "absent"
    <3>1. Conclusions(t)' = {}
      BY <1>2, <1>3, <1>7, <2>2 DEF OutboxInv, RowInv, Conclusions
    <3>2. rec'[t].state \notin Told
      BY <1>2, <1>7, <2>2 DEF ToldKept, Told
    <3> QED BY <3>1, <3>2 DEF ToldInv
  <2> QED BY <2>1, <2>2
<1>8. ToldInv(s)'
  <2>1. Conclusions(s) = {} /\ rec'[s].mode = rec[s].mode
    BY <1>2 DEF OutboxInv, ToldInv, Moves, Succeeds
  <2>2. CASE Concludes(s, key[2])
    <3>1. Conclusions(s)' = {key}
      BY <1>2, <1>3, <2>1, <2>2 DEF Conclusions, Concludes
    <3> QED BY <1>2, <1>3, <2>2, <3>1 DEF ToldInv
  <2>3. CASE ~Concludes(s, key[2])
    <3>1. Conclusions(s)' = {}
      BY <1>2, <1>3, <2>1, <2>3 DEF Conclusions, Concludes
    <3> QED BY <1>2, <2>3, <3>1 DEF ToldInv
  <2> QED BY <2>2, <2>3
<1>9. Advances /\ SendsFirst
  BY <1>1, <1>3, KeyOwner, OnwardSteps DEF Advances, SendsFirst
<1> QED BY <1>4, <1>5, <1>6, <1>7, <1>8, <1>9 DEF OutboxInv

\* A step that cancels the findings of a subscription.
LEMMA CancelsKeeps ==
    ASSUME OutboxInv, TypeOK', Moves, Undisturbed, NEW s \in Subs, Cancels(s), UNCHANGED <<tick, handed>>
    PROVE  OutboxInv' /\ Advances /\ SendsFirst
<1>1. TypeOK /\ TickInv /\ OutboxOK
  BY DEF OutboxInv, TypeOK
<1>2. PICK page \in Pages({k \in DOMAIN fnd : k[1] = s}) :
        fnd' = [k \in DOMAIN fnd |->
                  IF k \notin page THEN fnd[k]
                  ELSE [delivery |-> IF fnd[k].delivery = "pending"
                                     THEN "cancelled" ELSE fnd[k].delivery,
                        withdraw_pending |-> \/ fnd[k].withdraw_pending
                                             \/ fnd[k].delivery = "accepted"]]
  BY DEF Cancels, CancelFindings
<1>3. DOMAIN fnd' = DOMAIN fnd /\ page \subseteq {k \in DOMAIN fnd : k[1] = s}
  BY <1>2, PagesSubset
<1>4. ASSUME NEW k \in DOMAIN fnd
      PROVE  \/ fnd'[k] = fnd[k]
             \/ /\ k[1] = s
                /\ fnd'[k].delivery = IF fnd[k].delivery = "pending" THEN "cancelled" ELSE fnd[k].delivery
                /\ fnd'[k].withdraw_pending => fnd[k].withdraw_pending \/ fnd[k].delivery = "accepted"
  BY <1>2, <1>3
<1>5. ASSUME NEW k \in DOMAIN fnd
      PROVE  \/ fnd'[k].delivery = fnd[k].delivery
             \/ fnd[k].delivery = "pending" /\ fnd'[k].delivery = "cancelled"
  BY <1>4
<1>6. TickInv'
  BY <1>1, <1>3, <1>5, TickKeeps
<1>7. ASSUME NEW k \in DOMAIN fnd' PROVE FindingInv(k)'
  <2>1. k \in DOMAIN fnd /\ FindingInv(k) /\ (Silenced(k) => Silenced(k)') /\ (k[1] = s => Silenced(k)')
    BY <1>1, <1>3, <1>7, KeyOwner DEF OutboxInv, Moves, Succeeds, Silenced, Cancels
  <2> QED BY <1>4, <2>1 DEF FindingInv
<1>8. ASSUME NEW t \in Subs PROVE RowInv(t)' /\ ToldInv(t)'
  <2>1. RowInv(t) /\ ToldInv(t) /\ ToldKept(t)
    BY DEF OutboxInv, Cancels
  <2> QED BY <1>1, <1>3, <2>1, MovesKeepRows, ToldKeeps
<1>9. Advances /\ SendsFirst
  <2>1. ASSUME NEW k \in DOMAIN fnd PROVE k \in DOMAIN fnd' /\ fnd'[k].delivery \in Onward[fnd[k].delivery]
    BY <1>1, <1>3, <1>5, KeyOwner, OnwardSteps
  <2>2. ASSUME NEW k \in DOMAIN fnd, fnd[k].delivery # "sending" PROVE fnd'[k].delivery # "sending"
    BY <1>5, <2>2
  <2> QED BY <2>1, <2>2 DEF Advances, SendsFirst
<1> QED BY <1>6, <1>7, <1>8, <1>9 DEF OutboxInv

-----------------------------------------------------------------------------
(* tick().                                                                  *)

\* A step that leaves the rows alone and rewrites at most one finding.
LEMMA RewriteKeeps ==
    ASSUME OutboxInv, TypeOK', TickInv', rec' = rec, Undisturbed, NEW k \in DOMAIN fnd, NEW f,
           fnd' = [fnd EXCEPT ![k] = f],
           f.delivery # "pending", f.delivery \in Onward[fnd[k].delivery],
           f.withdraw_pending => f.delivery = "accepted" /\ Silenced(k),
           f.delivery = "cancelled" => Silenced(k),
           f.delivery = "sending" => k \notin handed /\ ~Silenced(k),
           handed' \subseteq handed \cup {k}
    PROVE  OutboxInv' /\ Advances /\ SendsFirst
<1>1. TypeOK /\ DOMAIN fnd' = DOMAIN fnd /\ fnd'[k] = f /\ \A l \in DOMAIN fnd : l # k => fnd'[l] = fnd[l]
  BY DEF OutboxInv
<1>2. Moves /\ \A s \in Subs : ToldKept(s)
  BY DEF Moves, Succeeds, ToldKept
<1>3. ASSUME NEW l \in DOMAIN fnd' PROVE FindingInv(l)'
  <2>1. FindingInv(l) /\ Silenced(l)' = Silenced(l)
    BY <1>1, <1>3 DEF OutboxInv, Silenced
  <2>2. CASE l # k
    BY <1>1, <1>3, <2>1, <2>2 DEF FindingInv
  <2>3. CASE l = k
    BY <1>1, <2>1, <2>3 DEF FindingInv
  <2> QED BY <2>2, <2>3
<1>4. ASSUME NEW s \in Subs PROVE RowInv(s)' /\ ToldInv(s)'
  BY <1>1, <1>2, MovesKeepRows, ToldKeeps DEF OutboxInv
<1>5. Advances /\ SendsFirst
  BY <1>1, KeyOwner, OnwardSteps DEF Advances, SendsFirst
<1> QED BY <1>3, <1>4, <1>5 DEF OutboxInv

\* A step that leaves rows and findings alone.
LEMMA ReadKeeps ==
    ASSUME OutboxInv, TypeOK', TickInv', rec' = rec, Undisturbed, fnd' = fnd, handed' = handed
    PROVE  OutboxInv' /\ Advances /\ SendsFirst
<1>1. Moves /\ Quiet
  BY DEF Moves, Succeeds, Quiet, ToldKept
<1> QED BY <1>1, SettledKeeps

\* The page that tick() delivers, and the rest of it.
LEMMA DeliveringTick ==
    ASSUME NEW page
    PROVE  /\ Delivering(page).pc \in {"idle", "deliver"}
           /\ Delivering(page).todo = page
<1>1. CASE page = {}
  BY <1>1 DEF Delivering, TickIdle
<1>2. CASE page # {}
  BY <1>2 DEF Delivering, TickIdle
<1> QED BY <1>1, <1>2

\* tick() begins checks, and goes on to its deliveries, which are pending.
LEMMA EnterDispatchTick ==
    ASSUME NEW now, EnterDispatch(now)
    PROVE  /\ \A t \in Subs : rec[t].state = "absent" => step'[t] = step[t]
           /\ tick'.pc \in {"idle", "deliver"}
           /\ \A k \in tick'.todo : k \in DOMAIN fnd /\ fnd[k].delivery = "pending"
<1>1. PICK page \in Pages(findings) :
        tick' = Delivering({k \in page : fnd[k].delivery = "pending"})
  BY DEF EnterDispatch
<1>2. page \subseteq DOMAIN fnd
  BY <1>1, PagesSubset DEF findings
<1>3. PICK begun \in SUBSET {s \in Active \ Busy : Due(rec[s], now)} :
        step' = [s \in Subs |-> IF s \in begun
                               THEN [Idle EXCEPT !.pc = "owner", !.now = now]
                               ELSE step[s]]
  BY DEF EnterDispatch
<1>4. \A t \in Subs : rec[t].state = "absent" => step'[t] = step[t]
  BY <1>3 DEF Active
<1> QED BY <1>1, <1>2, <1>4, DeliveringTick
\* As before, with the owed stops first.
LEMMA EnterCleanupTick ==
    ASSUME NEW now, EnterCleanup(now)
    PROVE  /\ \A t \in Subs : rec[t].state = "absent" => step'[t] = step[t]
           /\ tick'.pc \in {"idle", "deliver", "cleanup"}
           /\ tick'.pc = "deliver" => \A k \in tick'.todo : k \in DOMAIN fnd /\ fnd[k].delivery = "pending"
<1>1. CASE EnterDispatch(now)
  BY <1>1, EnterDispatchTick
<1>2. ASSUME NEW page, step' = step, tick' = [TickIdle EXCEPT !.pc = "cleanup", !.now = now, !.stops = page]
      PROVE  tick'.pc = "cleanup" /\ step' = step
  BY <1>2 DEF TickIdle
<1> QED BY <1>1, <1>2 DEF EnterCleanup

\* The sweep, where it does not touch the rows.
LEMMA SweepKeeps ==
    ASSUME OutboxInv, TypeOK', TickBegins \/ \E k \in tick.todo : TickWithdraws(k)
    PROVE  OutboxInv' /\ Advances /\ SendsFirst
<1>1. TypeOK /\ tick \in TickType /\ tick.todo \subseteq DOMAIN fnd
  BY DEF OutboxInv, TypeOK, OutboxOK
<1>2. CASE TickBegins
  <2>1. UNCHANGED <<rec, fnd, handed, spawn>>
    BY <1>2 DEF TickBegins, durable, host
  <2>2. PICK page \in Pages(withdrawals) :
          IF page = {} THEN EnterCleanup(clock)
          ELSE step' = step /\ tick' = [TickIdle EXCEPT !.pc = "withdraw", !.now = clock, !.todo = page]
    BY <1>2 DEF TickBegins
  <2>3. CASE page = {}
    <3>1. /\ tick'.pc \in {"idle", "deliver", "cleanup"}
          /\ tick'.pc = "deliver" => \A k \in tick'.todo : fnd[k].delivery = "pending"
      BY <2>2, <2>3, EnterCleanupTick
    <3>2. Undisturbed
      BY <2>1, <2>2, <2>3, EnterCleanupTick DEF Undisturbed
    <3> QED BY <2>1, <3>1, <3>2, ReadKeeps DEF TickInv
  <2>4. CASE page # {}
    <3>1. tick'.pc = "withdraw" /\ tick'.todo = page
      BY <2>2, <2>4 DEF TickIdle
    <3>2. page \subseteq withdrawals
      BY <2>2, PagesSubset
    <3>3. \A k \in page : fnd[k].delivery = "accepted" /\ Silenced(k)
      BY <3>2 DEF withdrawals, OutboxInv, FindingInv
    <3>4. \A k \in page : Silenced(k)'
      BY <2>1, <3>3 DEF Silenced
    <3>5. Undisturbed
      BY <2>1, <2>2, <2>4 DEF Undisturbed
    <3> QED BY <2>1, <3>1, <3>3, <3>4, <3>5, ReadKeeps DEF TickInv
  <2> QED BY <2>3, <2>4
<1>3. ASSUME NEW k \in tick.todo, TickWithdraws(k)
      PROVE  OutboxInv' /\ Advances /\ SendsFirst
  <2>1. UNCHANGED <<rec, handed, spawn>> /\ tick.pc = "withdraw"
    BY <1>3 DEF TickWithdraws, InTick
  <2>2. /\ \A l \in tick.todo : fnd[l].delivery = "accepted" /\ Silenced(l)
        /\ k \in DOMAIN fnd
    BY <1>1, <1>3, <2>1 DEF OutboxInv, TickInv
  <2>3. \A l : Silenced(l)' = Silenced(l)
    BY <2>1 DEF Silenced
  <2>4. \/ fnd' = fnd
        \/ fnd' = [fnd EXCEPT ![k] = [delivery |-> "cancelled", withdraw_pending |-> FALSE]]
        \/ fnd' = [fnd EXCEPT ![k] = [delivery |-> "accepted", withdraw_pending |-> FALSE]]
    BY <1>3 DEF TickWithdraws
  <2>5. \A l \in DOMAIN fnd : l # k => fnd'[l] = fnd[l]
    BY <2>4
  <2>6. TickInv'
    <3>1. CASE tick.todo = {k}
      <4>1. EnterCleanup(tick.now)
        BY <1>3, <3>1 DEF TickWithdraws
      <4>2. /\ tick'.pc \in {"idle", "deliver", "cleanup"}
            /\ tick'.pc = "deliver" => \A l \in tick'.todo : l \in DOMAIN fnd /\ fnd[l].delivery = "pending"
        BY <4>1, EnterCleanupTick
      <4>3. tick'.pc = "deliver" => \A l \in tick'.todo : fnd'[l].delivery = "pending"
        BY <2>2, <2>5, <1>3, <4>2
      <4> QED BY <4>2, <4>3 DEF TickInv
    <3>2. CASE tick.todo # {k}
      <4>1. tick'.pc = "withdraw" /\ tick'.todo = tick.todo \ {k}
        BY <1>1, <1>3, <2>1, <3>2 DEF TickWithdraws, TickType
      <4> QED BY <1>1, <2>2, <2>3, <2>5, <4>1 DEF TickInv
    <3> QED BY <3>1, <3>2
  <2>7. Undisturbed
    BY <1>3, <2>1, EnterCleanupTick DEF TickWithdraws, Undisturbed
  <2>8. CASE fnd' = fnd
    BY <2>1, <2>6, <2>7, <2>8, ReadKeeps
  <2>9. ASSUME NEW d \in {"cancelled", "accepted"},
               fnd' = [fnd EXCEPT ![k] = [delivery |-> d, withdraw_pending |-> FALSE]]
        PROVE  OutboxInv' /\ Advances /\ SendsFirst
    <3> DEFINE f == [delivery |-> d, withdraw_pending |-> FALSE]
    <3>1. f.delivery = d /\ f.withdraw_pending = FALSE
      OBVIOUS
    <3>2. d \in Onward[fnd[k].delivery] /\ Silenced(k)
      BY <1>3, <2>2, OnwardSteps
    <3>3. fnd' = [fnd EXCEPT ![k] = f]
      BY <2>9
    <3> HIDE DEF f
    <3> QED BY <2>1, <2>2, <2>6, <2>7, <3>1, <3>2, <3>3, RewriteKeeps
  <2> QED BY <2>4, <2>8, <2>9
<1> QED BY <1>2, <1>3

\* The delivery loop.
LEMMA DeliveryKeeps ==
    ASSUME OutboxInv, TypeOK', Delivery
    PROVE  OutboxInv' /\ Advances /\ SendsFirst
<1>1. /\ TypeOK /\ tick \in TickType /\ tick.todo \subseteq DOMAIN fnd
      /\ tick.pc \in {"owner", "send"} => tick.cur \in DOMAIN fnd
  BY DEF OutboxInv, TypeOK, OutboxOK
<1>2. rec' = rec /\ Undisturbed
  <2>1. UNCHANGED <<rec, step, spawn>>
    BY DEF Delivery, TickPicks, TickOwnerAway, TickSends, TickSent, TickSendFails, durable
  <2> QED BY <2>1 DEF Undisturbed
<1>3. \A d \in {"sending", "accepted", "uncertain", "cancelled"} :
        [Pending EXCEPT !.delivery = d].delivery = d /\ [Pending EXCEPT !.delivery = d].withdraw_pending = FALSE
  BY DEF Pending
<1>4. /\ tick.pc \in {"deliver", "owner", "send"} =>
           \A k \in tick.todo : fnd[k].delivery \in {"pending", "cancelled"}
      /\ tick.pc \in {"owner", "send"} => tick.cur \notin tick.todo
      /\ tick.pc = "owner" => fnd[tick.cur].delivery \in {"pending", "cancelled"}
      /\ tick.pc = "send" => fnd[tick.cur].delivery = "sending"
  BY DEF OutboxInv, TickInv
\* the rest of the page, when one finding of it or none was rewritten
<1>5. ASSUME NEW k, NEW rest \in SUBSET tick.todo, k \notin rest, tick.pc \in {"deliver", "owner", "send"},
             \A l \in DOMAIN fnd : l # k => fnd'[l] = fnd[l], tick' = Delivering(rest)
      PROVE  TickInv'
  <2>1. tick'.pc \in {"idle", "deliver"} /\ tick'.todo = rest
    BY <1>5, DeliveringTick
  <2>2. \A l \in rest : fnd'[l].delivery \in {"pending", "cancelled"}
    BY <1>1, <1>4, <1>5
  <2> QED BY <2>1, <2>2 DEF TickInv
<1>6. ASSUME NEW k \in tick.todo, TickPicks(k)
      PROVE  OutboxInv' /\ Advances /\ SendsFirst
  <2>1. handed' = handed /\ tick.pc = "deliver" /\ k \in DOMAIN fnd
    BY <1>1, <1>6 DEF TickPicks, host, InTick
  <2>2. CASE rec[k[1]].state = "cancelled" \/ rec[k[1]].notifications_cancelled
    <3> DEFINE f == [Pending EXCEPT !.delivery = "cancelled"]
               rest == tick.todo \ {k}
    <3>1. fnd' = [fnd EXCEPT ![k] = f] /\ tick' = Delivering(rest)
      BY <1>6, <2>2 DEF TickPicks
    <3>2. f.delivery = "cancelled" /\ f.withdraw_pending = FALSE
      BY <1>3
    <3>3. Silenced(k)
      BY <1>1, <2>1, <2>2, KeyOwner DEF OutboxInv, RowInv, Silenced
    <3>4. "cancelled" \in Onward[fnd[k].delivery]
      BY <1>4, <1>6, <2>1, OnwardSteps
    <3> HIDE DEF f
    <3>5. \A l \in DOMAIN fnd : l # k => fnd'[l] = fnd[l]
      BY <3>1
    <3>6. rest \in SUBSET tick.todo /\ k \notin rest
      OBVIOUS
    <3> HIDE DEF rest
    <3>7. TickInv'
      BY <1>5, <2>1, <3>1, <3>5, <3>6
    <3> QED BY <1>2, <2>1, <3>1, <3>2, <3>3, <3>4, <3>7, RewriteKeeps
  <2>3. CASE ~(rec[k[1]].state = "cancelled" \/ rec[k[1]].notifications_cancelled)
    <3>1. fnd' = fnd /\ tick' = [tick EXCEPT !.todo = @ \ {k}, !.cur = k, !.pc = "owner"]
      BY <1>6, <2>3 DEF TickPicks
    <3>2. tick'.pc = "owner" /\ tick'.cur = k /\ tick'.todo = tick.todo \ {k}
      BY <1>1, <3>1 DEF TickType
    <3>3. TickInv'
      BY <1>4, <1>6, <2>1, <3>1, <3>2 DEF TickInv
    <3> QED BY <1>2, <2>1, <3>1, <3>3, ReadKeeps
  <2> QED BY <2>2, <2>3
<1>7. CASE TickOwnerAway
  <2>1. UNCHANGED <<fnd, handed>> /\ tick.pc = "owner" /\ tick' = Delivering(tick.todo)
    BY <1>7 DEF TickOwnerAway, durable, host, InTick
  <2>2. TickInv'
    BY <1>4, <1>5, <2>1
  <2> QED BY <1>2, <2>1, <2>2, ReadKeeps
<1>8. CASE TickSends
  <2> DEFINE k == tick.cur
  <2>1. tick.pc = "owner" /\ k \in DOMAIN fnd /\ k \notin tick.todo /\ fnd[k].delivery \in {"pending", "cancelled"}
    BY <1>1, <1>4, <1>8 DEF TickSends, InTick
  <2>2. CASE rec[k[1]].notifications_cancelled
    <3> DEFINE f == [Pending EXCEPT !.delivery = "cancelled"]
    <3>1. fnd' = [fnd EXCEPT ![k] = f] /\ tick' = Delivering(tick.todo) /\ handed' = handed
      BY <1>8, <2>2 DEF TickSends
    <3>2. f.delivery = "cancelled" /\ f.withdraw_pending = FALSE
      BY <1>3
    <3>3. "cancelled" \in Onward[fnd[k].delivery] /\ Silenced(k)
      BY <2>1, <2>2, OnwardSteps DEF Silenced
    <3> HIDE DEF f, k
    <3>4. \A l \in DOMAIN fnd : l # k => fnd'[l] = fnd[l]
      BY <3>1
    <3>5. TickInv'
      BY <1>5, <2>1, <3>1, <3>4
    <3> QED BY <1>2, <2>1, <3>1, <3>2, <3>3, <3>5, RewriteKeeps
  <2>3. CASE ~rec[k[1]].notifications_cancelled
    <3> DEFINE f == [Pending EXCEPT !.delivery = "sending"]
    <3>1. /\ fnd' = [fnd EXCEPT ![k] = f] /\ tick' = [tick EXCEPT !.pc = "send"]
          /\ handed' = handed \cup {k}
      BY <1>8, <2>3 DEF TickSends
    <3>2. f.delivery = "sending" /\ f.withdraw_pending = FALSE
      BY <1>3
    <3>3. ~Silenced(k) /\ FindingInv(k)
      BY <2>1, <2>3 DEF Silenced, OutboxInv
    <3>4. fnd[k].delivery = "pending" /\ k \notin handed
      BY <2>1, <3>3 DEF FindingInv
    <3>5. "sending" \in Onward[fnd[k].delivery]
      BY <3>4, OnwardSteps
    <3>6. tick'.pc = "send" /\ tick'.cur = k /\ tick'.todo = tick.todo
      BY <1>1, <3>1 DEF TickType
    <3> HIDE DEF f, k
    <3>7. fnd'[k] = f /\ \A l \in DOMAIN fnd : l # k => fnd'[l] = fnd[l]
      BY <2>1, <3>1
    <3>8. TickInv'
      BY <1>1, <1>4, <2>1, <3>2, <3>6, <3>7 DEF TickInv
    <3> QED BY <1>2, <2>1, <3>1, <3>2, <3>3, <3>4, <3>5, <3>8, RewriteKeeps
  <2> QED BY <2>2, <2>3
<1>9. CASE TickSent \/ TickSendFails
  <2> DEFINE k == tick.cur
  <2>1. tick.pc = "send" /\ k \in DOMAIN fnd /\ k \notin tick.todo /\ fnd[k].delivery = "sending"
    BY <1>1, <1>4, <1>9 DEF TickSent, TickSendFails, InTick
  <2>2. handed' = handed /\ tick' = Delivering(tick.todo)
    BY <1>9 DEF TickSent, TickSendFails
  <2>3. PICK f : /\ fnd' = [fnd EXCEPT ![k] = f]
                 /\ f.delivery \in {"accepted", "uncertain"}
                 /\ f.withdraw_pending => f.delivery = "accepted" /\ Silenced(k)
    <3> DEFINE n == rec[k[1]].notifications_cancelled
               a == [delivery |-> "accepted", withdraw_pending |-> n]
               u == [Pending EXCEPT !.delivery = "uncertain"]
    <3>1. a.delivery = "accepted" /\ (a.withdraw_pending => Silenced(k))
      BY DEF Silenced
    <3>2. u.delivery = "uncertain" /\ u.withdraw_pending = FALSE
      BY <1>3
    <3>3. fnd' = [fnd EXCEPT ![k] = a] \/ fnd' = [fnd EXCEPT ![k] = u]
      BY <1>9 DEF TickSent, TickSendFails
    <3> HIDE DEF a, u, n, k
    <3> QED BY <3>1, <3>2, <3>3
  <2>4. f.delivery \in Onward[fnd[k].delivery]
    BY <2>1, <2>3, OnwardSteps
  <2> HIDE DEF k
  <2>5. \A l \in DOMAIN fnd : l # k => fnd'[l] = fnd[l]
    BY <2>3
  <2>6. TickInv'
    BY <1>5, <2>1, <2>2, <2>5
  <2> QED BY <1>2, <2>1, <2>2, <2>3, <2>4, <2>6, RewriteKeeps
<1> QED BY <1>6, <1>7, <1>8, <1>9 DEF Delivery

-----------------------------------------------------------------------------
(* Rows.                                                                    *)

\* A saved row is the only one that moves.
LEMMA SavedMoves ==
    ASSUME TypeOK, NEW s \in Subs, NEW c \in RecordType, save(s, c), Succeeds(rec[s], c)
    PROVE  Moves /\ rec'[s] = c /\ \A t \in Subs : t # s => rec'[t] = rec[t] /\ ToldKept(t)
<1>1. rec'[s] = c /\ \A t \in Subs : t # s => rec'[t] = rec[t]
  BY SaveRow DEF TypeOK
<1>2. \A r : Succeeds(r, r)
  BY DEF Succeeds
<1> QED BY <1>1, <1>2 DEF Moves, ToldKept

\* A saved row that is told of neither before nor after, or as before.
LEMMA SavedQuiet ==
    ASSUME TypeOK, NEW s \in Subs, NEW c \in RecordType, save(s, c), Succeeds(rec[s], c),
           c.state \in Told <=> rec[s].state \in Told, fnd' = fnd
    PROVE  Moves /\ Quiet
<1>1. Moves /\ rec'[s] = c /\ \A t \in Subs : t # s => ToldKept(t)
  BY SavedMoves
<1> QED BY <1>1 DEF Quiet, ToldKept

\* A row saved with the same state, mode and cancellation.
LEMMA SameRow ==
    ASSUME NEW r, NEW c, c.state = r.state, c.mode = r.mode,
           c.notifications_cancelled = r.notifications_cancelled
    PROVE  Succeeds(r, c) /\ (c.state \in Told <=> r.state \in Told)
BY DEF Succeeds

\* A row that goes on in an open state.
LEMMA OpenRow ==
    ASSUME NEW r, NEW c, c.mode = r.mode, c.notifications_cancelled = r.notifications_cancelled,
           ~terminal(r.state), ~terminal(c.state), c.state # "absent"
    PROVE  Succeeds(r, c) /\ (c.state \in Told <=> r.state \in Told)
BY DEF Succeeds, terminal, Terminals, Told

\* finding() closes a subscription, unless it goes on watching for changes.
LEMMA ConcludedKeeps ==
    ASSUME NEW r \in RecordType, NEW outcome \in {"matched", "failed", "expired"}, NEW now \in Nat
    PROVE  LET c == Concluded(r, outcome, now)
           IN  /\ c.mode = r.mode /\ c.notifications_cancelled = r.notifications_cancelled
               /\ outcome # "matched" => c.state = outcome
               /\ outcome = "matched" => c.state = IF r.mode = "until" THEN "fulfilled" ELSE "watching"
<1> DEFINE st == IF outcome \in {"expired", "failed"} THEN outcome
                 ELSE IF r.mode = "until" THEN "fulfilled" ELSE "watching"
           at == IF st = "watching" THEN now + Interval ELSE r.next_at
           stop == r.stop_pending \/ (terminal(st) /\ r.observer)
           c == [r EXCEPT !.state = st, !.next_at = at, !.stop_pending = stop, !.review_wake = "none"]
<1>1. Concluded(r, outcome, now) = c
  BY DEF Concluded
<1>2. /\ outcome # "matched" => st = outcome
      /\ outcome = "matched" => st = IF r.mode = "until" THEN "fulfilled" ELSE "watching"
  OBVIOUS
<1> HIDE DEF st, at, stop
<1>3. c.state = st /\ c.mode = r.mode /\ c.notifications_cancelled = r.notifications_cancelled
  BY DEF RecordType
<1> QED BY <1>1, <1>2, <1>3

\* A finding filed on an open row.
LEMMA FindingFiles ==
    ASSUME TypeOK, NEW s \in Subs, ~terminal(rec[s].state), rec[s].state # "absent",
           NEW r \in RecordType, r.mode = rec[s].mode,
           r.notifications_cancelled = rec[s].notifications_cancelled,
           NEW outcome \in {"matched", "failed", "expired"},
           NEW occurrence \in {"expiry", "budget", "observer-timeout", "failed", "run"}, NEW ordinal \in Nat,
           occurrence = "run" <=> outcome = "matched",
           finding(s, r, outcome, occurrence, ordinal)
    PROVE  Moves /\ \E key : Files(s, key)
<1> DEFINE c == Concluded(r, outcome, clock)
           key == <<s, occurrence, ordinal>>
<1>1. clock \in Nat /\ rec[s] \in RecordType
  BY DEF TypeOK, ProcessOK
<1>2. /\ c.mode = r.mode /\ c.notifications_cancelled = r.notifications_cancelled
      /\ outcome # "matched" => c.state = outcome
      /\ outcome = "matched" => c.state = IF r.mode = "until" THEN "fulfilled" ELSE "watching"
  BY <1>1, ConcludedKeeps
<1>3. c \in RecordType /\ save(s, c) /\ fnd' = WithFinding(key)
  BY <1>1, ConcludedRow DEF finding
<1> HIDE DEF c
<1>4. c.state \notin {"absent", "cancelled"}
  BY <1>2
<1>5. Succeeds(rec[s], c)
  BY <1>2, <1>4 DEF Succeeds
<1>6. Moves /\ rec'[s] = c /\ \A t \in Subs : t # s => ToldKept(t)
  BY <1>3, <1>5, SavedMoves
<1>7. key \in Keys /\ key[1] = s /\ key[2] = occurrence
  BY DEF Keys
<1>8. Concludes(s, occurrence) <=> c.state \in Told
  BY <1>2 DEF Concludes, Told
<1>9. rec[s].state \notin Told \cup {"absent"}
  BY DEF terminal, Terminals, Told
<1> HIDE DEF key
<1>10. Files(s, key)
  BY <1>3, <1>4, <1>6, <1>7, <1>8, <1>9 DEF Files
<1> QED BY <1>6, <1>10

\* cancel() and the close of the owner's thread.
LEMMA CancelCancels ==
    ASSUME TypeOK, NEW s \in Subs, rec[s].state # "absent", save(s, Cancelled(rec[s])), CancelFindings(s)
    PROVE  Moves /\ Cancels(s)
<1> DEFINE c == Cancelled(rec[s])
<1>1. rec[s] \in RecordType
  BY DEF TypeOK
<1>2. c \in RecordType /\ terminal(c.state) /\ (terminal(rec[s].state) => c.state = rec[s].state)
  BY <1>1, CancelledRow
<1>3. c.mode = rec[s].mode /\ c.notifications_cancelled = TRUE
  BY <1>1 DEF Cancelled, RecordType
<1>4. ~terminal(rec[s].state) => c.state = "cancelled"
  BY <1>1 DEF Cancelled, RecordType
<1>5. save(s, c)
  OBVIOUS
<1> HIDE DEF c
<1>6. Succeeds(rec[s], c)
  BY <1>2, <1>3 DEF Succeeds, terminal, Terminals
<1>7. c.state \in Told <=> rec[s].state \in Told
  BY <1>2, <1>4 DEF terminal, Terminals, Told
<1>8. Moves /\ rec'[s] = c /\ \A t \in Subs : t # s => ToldKept(t)
  BY <1>2, <1>5, <1>6, SavedMoves
<1> QED BY <1>3, <1>7, <1>8 DEF Cancels, ToldKept

\* A stop that was answered.
LEMMA StopQuiet ==
    ASSUME TypeOK, NEW s \in Subs, save(s, [rec[s] EXCEPT !.stop_pending = FALSE]), fnd' = fnd
    PROVE  Moves /\ Quiet
<1> DEFINE c == [rec[s] EXCEPT !.stop_pending = FALSE]
<1>1. rec[s] \in RecordType
  BY DEF TypeOK
<1>2. /\ c \in RecordType /\ c.state = rec[s].state /\ c.mode = rec[s].mode
      /\ c.notifications_cancelled = rec[s].notifications_cancelled
  BY <1>1 DEF RecordType
<1> HIDE DEF c
<1>3. Succeeds(rec[s], c) /\ save(s, c)
  BY <1>2, SameRow DEF c
<1> QED BY <1>2, <1>3, SavedQuiet

\* A row saved in the same state, or in another open one.
LEMMA RowQuiet ==
    ASSUME TypeOK, NEW s \in Subs, NEW c, save(s, c), fnd' = fnd, c.mode = rec[s].mode,
           c.notifications_cancelled = rec[s].notifications_cancelled,
           \/ c.state = rec[s].state
           \/ ~terminal(rec[s].state) /\ ~terminal(c.state) /\ c.state # "absent"
    PROVE  Moves /\ Quiet
<1>1. rec'[s] = c /\ \A t \in Subs : t # s => rec'[t] = rec[t]
  BY DEF save, TypeOK
<1>2. Succeeds(rec[s], c) /\ (c.state \in Told <=> rec[s].state \in Told)
  BY SameRow, OpenRow
<1>3. \A r : Succeeds(r, r)
  BY DEF Succeeds
<1> QED BY <1>1, <1>2, <1>3 DEF Moves, Quiet, ToldKept

\* No row is saved.
LEMMA NoRowQuiet ==
    ASSUME UNCHANGED <<rec, fnd>>
    PROVE  Moves /\ Quiet
<1>1. \A r : Succeeds(r, r)
  BY DEF Succeeds
<1> QED BY <1>1 DEF Moves, Quiet, ToldKept

\* A step outside tick(): it moves rows on, and it leaves the outbox alone,
\* files one finding or cancels those of one subscription.
Calm(s) ==
    /\ Moves /\ Undisturbed /\ UNCHANGED <<tick, handed>>
    /\ Quiet \/ (\E key : Files(s, key)) \/ Cancels(s)

LEMMA CalmKeeps ==
    ASSUME OutboxInv, TypeOK', NEW s \in Subs, Calm(s)
    PROVE  OutboxInv' /\ Advances /\ SendsFirst
<1>1. Moves /\ Undisturbed /\ UNCHANGED <<tick, handed>>
  BY DEF Calm
<1>2. CASE Quiet
  BY <1>1, <1>2, QuietKeeps
<1>3. ASSUME NEW key, Files(s, key) PROVE OutboxInv' /\ Advances /\ SendsFirst
  BY <1>1, <1>3, FilesKeeps
<1>4. CASE Cancels(s)
  BY <1>1, <1>4, CancelsKeeps
<1> QED BY <1>2, <1>3, <1>4 DEF Calm

\* A step of a subscription begins nothing for another.
Own(s) == \A t \in Subs : t # s => step'[t] = step[t]

LEMMA OwnSteps ==
    ASSUME TypeOK, NEW s \in Subs
    PROVE  /\ Return(s) => Own(s)
           /\ \A pc : Await(s, pc) => Own(s)
           /\ \A pc : Goto(s, pc) => Own(s)
           /\ UNCHANGED step => Own(s)
BY DEF TypeOK, ProcessOK, Return, Await, Goto, Own

LEMMA OwnUndisturbed ==
    ASSUME NEW s \in Subs, rec[s].state # "absent", Own(s), spawn' \subseteq spawn \cup {s}
    PROVE  Undisturbed
BY DEF Own, Undisturbed

\* Work is under way only for subscriptions that were created.
LEMMA Present ==
    ASSUME OutboxInv, NEW s \in Subs, step[s].pc # "idle" \/ s \in spawn
    PROVE  rec[s].state # "absent"
BY DEF OutboxInv, RowInv

-----------------------------------------------------------------------------
(* The calls and the steps, one by one.                                     *)

\* Requests of the owner.
LEMMA OwnerCalm ==
    ASSUME OutboxInv, NEW s \in Subs, Owner(s)
    PROVE  Calm(s)
<1> USE DEF volatile, host
<1>1. TypeOK /\ rec[s] \in RecordType /\ RowInv(s)
  BY DEF OutboxInv, TypeOK
<1>2. Undisturbed /\ UNCHANGED <<tick, handed>>
  <2>1. UNCHANGED <<step, spawn, tick, handed>>
    BY DEF Owner, create, cancel, CancelStopped
  <2> QED BY <2>1 DEF Undisturbed
<1>3. CASE create(s)
  <2>1. PICK m \in Modes, life \in Lifetimes :
          save(s, [Absent EXCEPT !.state = "preparing", !.mode = m,
                     !.expires_at = IF life = 0 THEN 0 ELSE clock + life,
                     !.next_at = clock])
    BY <1>3 DEF create
  <2> DEFINE c == [Absent EXCEPT !.state = "preparing", !.mode = m,
                     !.expires_at = IF life = 0 THEN 0 ELSE clock + life,
                     !.next_at = clock]
  <2>2. c.state = "preparing"
    BY DEF Absent
  <2>3. rec[s].state = "absent" /\ ~rec[s].notifications_cancelled /\ fnd' = fnd
    BY <1>1, <1>3 DEF create, RowInv
  <2>4. save(s, c)
    BY <2>1
  <2> HIDE DEF c
  <2>5. rec'[s] = c /\ \A t \in Subs : t # s => rec'[t] = rec[t]
    BY <1>1, <2>4 DEF save, TypeOK
  <2>6. Succeeds(rec[s], c) /\ \A r : Succeeds(r, r)
    BY <2>2, <2>3 DEF Succeeds
  <2>7. Moves /\ Quiet
    BY <2>2, <2>3, <2>5, <2>6 DEF Moves, Quiet, ToldKept, Told
  <2> QED BY <1>2, <2>7 DEF Calm
<1>4. CASE cancel(s)
  <2>1. Moves /\ Cancels(s)
    BY <1>1, <1>4, CancelCancels DEF cancel
  <2> QED BY <1>2, <2>1 DEF Calm
<1>5. CASE CancelStopped(s)
  <2>1. /\ fnd' = fnd
        /\ rec' = rec \/ save(s, [rec[s] EXCEPT !.stop_pending = FALSE])
    BY <1>5 DEF CancelStopped
  <2>2. Moves /\ Quiet
    BY <1>1, <2>1, StopQuiet, NoRowQuiet
  <2> QED BY <1>2, <2>2 DEF Calm
<1> QED BY <1>3, <1>4, <1>5 DEF Owner

\* Tools of the observer.
LEMMA ObserverCalm ==
    ASSUME OutboxInv, NEW s \in Subs, Observer(s)
    PROVE  Calm(s)
<1> USE DEF volatile, host
<1> DEFINE r == rec[s]
<1>1. TypeOK /\ r \in RecordType /\ clock \in Nat
  BY DEF OutboxInv, TypeOK, ProcessOK
<1>2. Undisturbed /\ UNCHANGED <<tick, handed>>
  <2>1. UNCHANGED <<step, spawn, tick, handed>>
    BY DEF Observer, authorize, install, wait, report, fail
  <2> QED BY <2>1 DEF Undisturbed
<1>3. ~terminal(r.state) /\ r.state # "absent"
  BY DEF Observer, authorize, install, wait, report, fail, observer, Active, terminal
<1>4. ASSUME NEW c, save(s, c), fnd' = fnd, c.mode = r.mode,
             c.notifications_cancelled = r.notifications_cancelled,
             c.state \in {"preparing", "watching"}
      PROVE  Calm(s)
  <2>1. ~terminal(c.state) /\ c.state # "absent"
    BY <1>4 DEF terminal, Terminals
  <2>2. Moves /\ Quiet
    BY <1>1, <1>3, <1>4, <2>1, RowQuiet
  <2> QED BY <1>2, <2>2 DEF Calm
<1>5. CASE authorize(s)
  <2> DEFINE c == [r EXCEPT !.observer = TRUE, !.launch = "confirmed", !.state = "preparing",
                            !.review_due = clock + ReviewWindow]
  <2>1. save(s, c) /\ fnd' = fnd
    BY <1>5 DEF authorize
  <2>2. c.mode = r.mode /\ c.notifications_cancelled = r.notifications_cancelled /\ c.state = "preparing"
    BY <1>1 DEF RecordType
  <2> HIDE DEF c
  <2> QED BY <1>4, <2>1, <2>2
<1>6. CASE install(s)
  <2>1. PICK kind \in Kinds : save(s, Installed(r, kind, clock))
    BY <1>6 DEF install
  <2> DEFINE c == Installed(r, kind, clock)
  <2>2. c.mode = r.mode /\ c.notifications_cancelled = r.notifications_cancelled /\ c.state = "watching"
    BY <1>1 DEF Installed, RecordType
  <2>3. save(s, c) /\ fnd' = fnd
    BY <1>6, <2>1 DEF install
  <2> HIDE DEF c
  <2> QED BY <1>4, <2>2, <2>3
<1>7. CASE wait(s)
  <2> DEFINE c == Waiting(r, clock)
  <2>1. c.mode = r.mode /\ c.notifications_cancelled = r.notifications_cancelled /\ c.state = "watching"
    BY <1>1 DEF Waiting, RecordType
  <2>2. save(s, c) /\ fnd' = fnd
    BY <1>7 DEF wait
  <2> HIDE DEF c
  <2> QED BY <1>4, <2>1, <2>2
<1>8. CASE report(s)
  <2> DEFINE c == Reported(r)
  <2>1. c \in RecordType /\ c.mode = r.mode
    BY <1>1, ReportedRow
  <2>2. c.notifications_cancelled = r.notifications_cancelled
    BY <1>1 DEF Reported, RecordType
  <2>3. finding(s, c, "matched", "run", r.run.id)
    BY <1>8 DEF report
  <2>4. r.run.id \in Nat
    BY <1>1 DEF RecordType, RunType
  <2> HIDE DEF c
  <2>5. Moves /\ \E key : Files(s, key)
    BY <1>1, <1>3, <2>1, <2>2, <2>3, <2>4, FindingFiles
  <2> QED BY <1>2, <2>5 DEF Calm
<1>9. CASE fail(s)
  <2>1. r.generation \in Nat
    BY <1>1 DEF RecordType
  <2>2. finding(s, r, "failed", "failed", r.generation)
    BY <1>9 DEF fail
  <2>3. Moves /\ \E key : Files(s, key)
    BY <1>1, <1>3, <2>1, <2>2, FindingFiles
  <2> QED BY <1>2, <2>3 DEF Calm
<1> QED BY <1>5, <1>6, <1>7, <1>8, <1>9 DEF Observer

\* Calls of the collector.
LEMMA CollectorCalm ==
    ASSUME OutboxInv, NEW s \in Subs, Collector(s)
    PROVE  Calm(s)
<1> USE DEF volatile, host
<1> DEFINE r == rec[s]
<1>1. TypeOK /\ r \in RecordType
  BY DEF OutboxInv, TypeOK
<1>2. Undisturbed /\ UNCHANGED <<tick, handed, fnd>>
  <2>1. UNCHANGED <<step, spawn, tick, handed, fnd>>
    BY DEF Collector, poll, submit
  <2> QED BY <2>1 DEF Undisturbed
<1>3. PICK c : /\ save(s, c) /\ c.mode = r.mode /\ c.state = r.state
               /\ c.notifications_cancelled = r.notifications_cancelled
  <2>1. CASE poll(s)
    <3> DEFINE c == [r EXCEPT !.worker = TRUE,
                              !.task.claimed = @ \/ (r.state = "running" /\ r.task.id # 0 /\ ~Sealed(r.task))]
    <3>1. save(s, c)
      BY <2>1 DEF poll
    <3>2. c.mode = r.mode /\ c.state = r.state /\ c.notifications_cancelled = r.notifications_cancelled
      BY <1>1 DEF RecordType
    <3> HIDE DEF c
    <3> QED BY <3>1, <3>2
  <2>2. CASE submit(s)
    <3>1. PICK ok \in BOOLEAN, out \in Outputs :
            save(s, [r EXCEPT !.task.result = Run(r.task.id, r.generation, ok, out)])
      BY <2>2 DEF submit
    <3> DEFINE c == [r EXCEPT !.task.result = Run(r.task.id, r.generation, ok, out)]
    <3>2. c.mode = r.mode /\ c.state = r.state /\ c.notifications_cancelled = r.notifications_cancelled
      BY <1>1 DEF RecordType
    <3>3. save(s, c)
      BY <3>1
    <3> HIDE DEF c
    <3> QED BY <3>2, <3>3
  <2> QED BY <2>1, <2>2 DEF Collector
<1>4. Moves /\ Quiet
  BY <1>1, <1>2, <1>3, RowQuiet
<1> QED BY <1>2, <1>4 DEF Calm

\* The branches of step() up to the first port call.
LEMMA CheckCalm ==
    ASSUME OutboxInv, NEW s \in Subs, Check(s)
    PROVE  Calm(s)
<1> USE DEF host
<1> DEFINE r == rec[s]
<1>1. TypeOK /\ r \in RecordType /\ clock \in Nat
  BY DEF OutboxInv, TypeOK, ProcessOK
<1>2. step[s].pc # "idle"
  BY DEF Check, StepFindsNothing, StepOwnerClosed, StepExpires, StepOutOfTurns, StepLaunches,
         StepObserverTimedOut, StepWakes, StepCollects, StepStopped, Unexpired, Resumed, At
<1>3. r.state # "absent"
  BY <1>2, Present
<1>4. UNCHANGED <<tick, handed, spawn>>
  BY DEF Check, StepFindsNothing, StepOwnerClosed, StepExpires, StepOutOfTurns, StepLaunches,
         StepObserverTimedOut, StepWakes, StepCollects, StepStopped
<1>5. Own(s)
  <2>1. CASE StepCollects(s)
    BY <1>1, <2>1 DEF StepCollects, Own, TypeOK, ProcessOK
  <2>2. CASE ~StepCollects(s)
    BY <1>1, <2>2, OwnSteps DEF Check, StepFindsNothing, StepOwnerClosed, StepExpires, StepOutOfTurns,
         StepLaunches, StepObserverTimedOut, StepWakes, StepStopped
  <2> QED BY <2>1, <2>2
<1>6. Undisturbed
  BY <1>3, <1>4, <1>5, OwnUndisturbed
<1>7. ASSUME NEW c, save(s, c), fnd' = fnd, c.mode = r.mode,
             c.notifications_cancelled = r.notifications_cancelled,
             c.state = r.state \/ (r.state = "watching" /\ c.state = "running")
      PROVE  Calm(s)
  <2>1. c.state = r.state \/ (~terminal(r.state) /\ ~terminal(c.state) /\ c.state # "absent")
    BY <1>7 DEF terminal, Terminals
  <2>2. Moves /\ Quiet
    BY <1>1, <1>7, <2>1, RowQuiet
  <2> QED BY <1>4, <1>6, <2>2 DEF Calm
<1>8. ASSUME UNCHANGED <<rec, fnd>> PROVE Calm(s)
  <2>1. Moves /\ Quiet
    BY <1>8, NoRowQuiet
  <2> QED BY <1>4, <1>6, <2>1 DEF Calm
<1>9. ASSUME ~terminal(r.state), NEW outcome \in {"failed", "expired"},
             NEW occurrence \in {"expiry", "budget", "observer-timeout"},
             finding(s, r, outcome, occurrence, 0)
      PROVE  Calm(s)
  <2>1. Moves /\ \E key : Files(s, key)
    BY <1>1, <1>3, <1>9, FindingFiles
  <2> QED BY <1>4, <1>6, <2>1 DEF Calm
<1>10. CASE StepFindsNothing(s)
  BY <1>8, <1>10 DEF StepFindsNothing, durable
<1>11. CASE StepOwnerClosed(s)
  <2>1. Moves /\ Cancels(s)
    BY <1>1, <1>3, <1>11, CancelCancels DEF StepOwnerClosed
  <2> QED BY <1>4, <1>6, <2>1 DEF Calm
<1>12. CASE StepExpires(s) \/ StepOutOfTurns(s) \/ StepObserverTimedOut(s)
  <2>1. ~terminal(r.state)
    BY <1>12 DEF StepExpires, StepOutOfTurns, StepObserverTimedOut, Unexpired, Resumed
  <2> QED BY <1>9, <1>12, <2>1 DEF StepExpires, StepOutOfTurns, StepObserverTimedOut
<1>13. CASE StepLaunches(s)
  <2> DEFINE c == [r EXCEPT !.launch = "intent", !.observer_turns = @ + 1]
  <2>1. save(s, c) /\ fnd' = fnd
    BY <1>13 DEF StepLaunches
  <2>2. c.mode = r.mode /\ c.notifications_cancelled = r.notifications_cancelled /\ c.state = r.state
    BY <1>1 DEF RecordType
  <2> HIDE DEF c
  <2> QED BY <1>7, <2>1, <2>2
<1>14. CASE StepWakes(s)
  <2> DEFINE c == [r EXCEPT !.review_wake = "sending", !.observer_turns = @ + 1,
                            !.review_due = step[s].now + ReviewWindow]
  <2>1. save(s, c) /\ fnd' = fnd
    BY <1>14 DEF StepWakes
  <2>2. c.mode = r.mode /\ c.notifications_cancelled = r.notifications_cancelled /\ c.state = r.state
    BY <1>1 DEF RecordType
  <2> HIDE DEF c
  <2> QED BY <1>7, <2>1, <2>2
<1>15. CASE StepCollects(s)
  <2> DEFINE c == [r EXCEPT !.state = "running", !.report_blocked = TRUE, !.task = NoTask]
  <2>1. save(s, c) /\ fnd' = fnd /\ r.state = "watching"
    BY <1>15 DEF StepCollects, NeedsRun
  <2>2. c.mode = r.mode /\ c.notifications_cancelled = r.notifications_cancelled /\ c.state = "running"
    BY <1>1 DEF RecordType
  <2> HIDE DEF c
  <2> QED BY <1>7, <2>1, <2>2
<1>16. CASE StepStopped(s)
  <2>1. fnd' = fnd /\ (rec' = rec \/ save(s, [r EXCEPT !.stop_pending = FALSE]))
    BY <1>16 DEF StepStopped
  <2>2. CASE save(s, [r EXCEPT !.stop_pending = FALSE])
    <3>1. Moves /\ Quiet
      BY <1>1, <2>1, <2>2, StopQuiet
    <3> QED BY <1>4, <1>6, <3>1 DEF Calm
  <2> QED BY <1>8, <2>1, <2>2
<1> QED BY <1>10, <1>11, <1>12, <1>13, <1>14, <1>15, <1>16 DEF Check

\* The launch of the observer.
LEMMA LaunchCalm ==
    ASSUME OutboxInv, NEW s \in Subs, Launch(s)
    PROVE  Calm(s)
<1> USE DEF host, volatile
<1> DEFINE r == rec[s]
<1>1. TypeOK /\ r \in RecordType /\ clock \in Nat
  BY DEF OutboxInv, TypeOK, ProcessOK
<1>2. CASE HostSpawns(s)
  <2>1. UNCHANGED <<rec, fnd, tick, handed, step, spawn>>
    BY <1>2 DEF HostSpawns, durable
  <2>2. Moves /\ Quiet /\ Undisturbed
    BY <2>1, NoRowQuiet DEF Undisturbed
  <2> QED BY <2>1, <2>2 DEF Calm
<1>3. ASSUME ~HostSpawns(s) PROVE Calm(s)
  <2>1. r.state # "absent"
    <3>1. step[s].pc # "idle" \/ s \in spawn
      BY <1>3 DEF Launch, LaunchRefused, RequestSpawn, LaunchTimesOut, SpawnResolves, SpawnRejects, At
    <3> QED BY <3>1, Present
  <2>2. UNCHANGED <<tick, handed>> /\ spawn' \subseteq spawn \cup {s}
    BY <1>3 DEF Launch, LaunchRefused, RequestSpawn, LaunchTimesOut, SpawnResolves, SpawnRejects
  <2>3. Own(s)
    BY <1>1, <1>3, OwnSteps DEF Launch, LaunchRefused, RequestSpawn, LaunchTimesOut, SpawnResolves,
         SpawnRejects, LaunchUncertain
  <2>4. Undisturbed
    BY <2>1, <2>2, <2>3, OwnUndisturbed
  <2>5. ASSUME UNCHANGED <<rec, fnd>> PROVE Calm(s)
    BY <2>2, <2>4, <2>5, NoRowQuiet DEF Calm
  <2>6. ASSUME LaunchUncertain(s) PROVE Calm(s)
    <3>1. CASE terminal(r.state)
      BY <2>5, <2>6, <3>1 DEF LaunchUncertain, durable
    <3>2. CASE ~terminal(r.state)
      <4> DEFINE c == [r EXCEPT !.state = "uncertain"]
                 key == <<s, "attention", 0>>
      <4>1. save(s, c) /\ fnd' = WithFinding(key)
        BY <2>6, <3>2 DEF LaunchUncertain, attention
      <4>2. /\ c.mode = r.mode /\ c.notifications_cancelled = r.notifications_cancelled
            /\ c.state = "uncertain"
        BY <1>1 DEF RecordType
      <4>3. key \in Keys /\ key[1] = s /\ key[2] = "attention"
        BY DEF Keys
      <4> HIDE DEF c, key
      <4>4. rec'[s] = c /\ \A t \in Subs : t # s => rec'[t] = rec[t]
        BY <1>1, <4>1 DEF save, TypeOK
      <4>5. Succeeds(r, c) /\ \A q : Succeeds(q, q)
        BY <4>2 DEF Succeeds
      <4>6. Moves /\ \A t \in Subs : t # s => ToldKept(t)
        BY <4>4, <4>5 DEF Moves, ToldKept
      <4>7. r.state \notin Told \cup {"absent"}
        BY <2>1, <3>2 DEF terminal, Terminals, Told
      <4>8. Files(s, key)
        BY <4>1, <4>2, <4>3, <4>4, <4>6, <4>7 DEF Files, Concludes, Told
      <4> QED BY <2>2, <2>4, <4>6, <4>8 DEF Calm
    <3> QED BY <3>1, <3>2
  <2>7. ASSUME SpawnResolves(s) PROVE Calm(s)
    <3> DEFINE c == Bound(r, clock)
    <3>1. save(s, c) /\ fnd' = fnd
      BY <2>7 DEF SpawnResolves
    <3>2. c.mode = r.mode /\ c.notifications_cancelled = r.notifications_cancelled
      BY <1>1 DEF Bound, RecordType
    <3>3. c.state = r.state \/ (r.state = "uncertain" /\ c.state = "preparing")
      BY <1>1 DEF Bound, RecordType
    <3> HIDE DEF c
    <3>4. c.state = r.state \/ (~terminal(r.state) /\ ~terminal(c.state) /\ c.state # "absent")
      BY <3>3 DEF terminal, Terminals
    <3>5. Moves /\ Quiet
      BY <1>1, <3>1, <3>2, <3>4, RowQuiet
    <3> QED BY <2>2, <2>4, <3>5 DEF Calm
  <2> QED BY <1>3, <2>5, <2>6, <2>7
        DEF Launch, LaunchRefused, RequestSpawn, LaunchTimesOut, SpawnRejects, durable
<1> QED BY <1>2, <1>3

\* The answer of a review wake.
LEMMA WakeCalm ==
    ASSUME OutboxInv, NEW s \in Subs, Wake(s)
    PROVE  Calm(s)
<1> USE DEF host
<1> DEFINE r == rec[s]
<1>1. TypeOK /\ r \in RecordType
  BY DEF OutboxInv, TypeOK
<1>2. step[s].pc # "idle" /\ UNCHANGED <<tick, handed, spawn, fnd>> /\ Return(s)
  BY DEF Wake, WakeAccepted, WakeUncertain, At
<1>3. Undisturbed
  BY <1>1, <1>2, Present, OwnSteps, OwnUndisturbed
<1>4. \/ rec' = rec
      \/ \E w \in {"accepted", "uncertain"} : save(s, [r EXCEPT !.review_wake = w])
  BY DEF Wake, WakeAccepted, WakeUncertain
<1>5. ASSUME NEW w \in {"accepted", "uncertain"}, save(s, [r EXCEPT !.review_wake = w])
      PROVE  Moves /\ Quiet
  <2> DEFINE c == [r EXCEPT !.review_wake = w]
  <2>1. c.mode = r.mode /\ c.notifications_cancelled = r.notifications_cancelled /\ c.state = r.state
    BY <1>1 DEF RecordType
  <2>2. save(s, c)
    BY <1>5
  <2> HIDE DEF c
  <2> QED BY <1>1, <1>2, <2>1, <2>2, RowQuiet
<1>6. Moves /\ Quiet
  BY <1>2, <1>4, <1>5, NoRowQuiet
<1> QED BY <1>2, <1>3, <1>6 DEF Calm

\* The collection and what becomes of its result.
LEMMA CollectionCalm ==
    ASSUME OutboxInv, NEW s \in Subs, Collection(s)
    PROVE  Calm(s)
<1> USE DEF host
<1> DEFINE r == rec[s]
<1>1. TypeOK /\ r \in RecordType /\ clock \in Nat
  BY DEF OutboxInv, TypeOK, ProcessOK
<1>2. step[s].pc # "idle"
  BY DEF Collection, PortThrows, AssignTask, CollectAborts, CollectReturns, CollectTimesOut,
         CollectionDone, ClassificationDone, At
<1>3. r.state # "absent"
  BY <1>2, Present
<1>4. UNCHANGED <<tick, handed, spawn>>
  BY DEF Collection, PortThrows, AssignTask, CollectAborts, CollectReturns, CollectTimesOut,
         CollectionDone, ClassificationDone, StepThrows, Discarded, ExpiredMeanwhile
<1>5. Own(s)
  <2>1. CASE CollectReturns(s) \/ CollectTimesOut(s)
    BY <1>1, <2>1 DEF CollectReturns, CollectTimesOut, Own, TypeOK, ProcessOK
  <2>2. CASE ~(CollectReturns(s) \/ CollectTimesOut(s))
    BY <1>1, <2>2, OwnSteps DEF Collection, PortThrows, AssignTask, CollectAborts,
         CollectionDone, ClassificationDone, StepThrows, Discarded, ExpiredMeanwhile
  <2> QED BY <2>1, <2>2
<1>6. Undisturbed
  BY <1>3, <1>4, <1>5, OwnUndisturbed
<1>7. ASSUME NEW c, save(s, c), fnd' = fnd, c.mode = r.mode,
             c.notifications_cancelled = r.notifications_cancelled,
             c.state = r.state \/ (r.state = "running" /\ c.state \in {"reviewing", "watching"})
      PROVE  Calm(s)
  <2>1. c.state = r.state \/ (~terminal(r.state) /\ ~terminal(c.state) /\ c.state # "absent")
    BY <1>7 DEF terminal, Terminals
  <2>2. Moves /\ Quiet
    BY <1>1, <1>7, <2>1, RowQuiet
  <2> QED BY <1>4, <1>6, <2>2 DEF Calm
<1>8. ASSUME UNCHANGED <<rec, fnd>> PROVE Calm(s)
  <2>1. Moves /\ Quiet
    BY <1>8, NoRowQuiet
  <2> QED BY <1>4, <1>6, <2>1 DEF Calm
<1>9. CASE PortThrows(s) \/ CollectAborts(s)
  <2> DEFINE c == Thrown(r, step[s].now)
  <2>1. save(s, c) /\ fnd' = fnd
    BY <1>9 DEF PortThrows, CollectAborts, StepThrows
  <2>2. c.mode = r.mode /\ c.notifications_cancelled = r.notifications_cancelled
    BY <1>1 DEF Thrown, RecordType
  <2>3. c.state = r.state \/ (r.state = "running" /\ c.state = "reviewing")
    BY <1>1 DEF Thrown, RecordType
  <2> HIDE DEF c
  <2> QED BY <1>7, <2>1, <2>2, <2>3
<1>10. CASE AssignTask(s)
  <2> DEFINE c == [r EXCEPT !.task = [NoTask EXCEPT !.id = attempts[s]]]
  <2>1. save(s, c) /\ fnd' = fnd
    BY <1>10 DEF AssignTask
  <2>2. c.mode = r.mode /\ c.notifications_cancelled = r.notifications_cancelled /\ c.state = r.state
    BY <1>1 DEF RecordType
  <2> HIDE DEF c
  <2> QED BY <1>7, <2>1, <2>2
<1>11. CASE CollectReturns(s)
  BY <1>8, <1>11 DEF CollectReturns, durable
<1>12. CASE CollectTimesOut(s)
  <2> DEFINE c == [r EXCEPT !.task.result = Run(r.task.id, step[s].generation, FALSE, "garbled")]
  <2>1. save(s, c) /\ fnd' = fnd
    BY <1>12 DEF CollectTimesOut
  <2>2. c.mode = r.mode /\ c.notifications_cancelled = r.notifications_cancelled /\ c.state = r.state
    BY <1>1 DEF RecordType
  <2> HIDE DEF c
  <2> QED BY <1>7, <2>1, <2>2
<1>13. ASSUME ExpiredMeanwhile(s) PROVE Calm(s)
  <2>1. ~terminal(r.state) /\ finding(s, r, "expired", "expiry", 0)
    BY <1>13 DEF ExpiredMeanwhile, Withdrawn, terminal, Terminals
  <2>2. Moves /\ \E key : Files(s, key)
    BY <1>1, <1>3, <2>1, FindingFiles
  <2> QED BY <1>4, <1>6, <2>2 DEF Calm
<1>14. CASE CollectionDone(s)
  BY <1>8, <1>13, <1>14 DEF CollectionDone, Discarded, durable
<1>15. CASE ClassificationDone(s)
  <2>1. ASSUME NEW d, ~Withdrawn(s), fnd' = fnd, save(s, Classified(r, step[s].run, d, clock))
        PROVE  Calm(s)
    <3> DEFINE c == Classified(r, step[s].run, d, clock)
    <3>1. c.mode = r.mode /\ c.notifications_cancelled = r.notifications_cancelled
      BY <1>1 DEF Classified, RecordType
    <3>2. c.state \in {"reviewing", "watching"} /\ r.state = "running"
      BY <1>1, <2>1 DEF Classified, RecordType, Withdrawn
    <3>3. save(s, c)
      BY <2>1
    <3> HIDE DEF c
    <3> QED BY <1>7, <2>1, <3>1, <3>2, <3>3
  <2> QED BY <1>8, <1>13, <1>15, <2>1 DEF ClassificationDone, Discarded, durable
<1> QED BY <1>9, <1>10, <1>11, <1>12, <1>14, <1>15 DEF Collection

\* The stops that tick() makes.
LEMMA StopsKeep ==
    ASSUME OutboxInv, TypeOK', NEW s \in tick.stops, TickStops(s)
    PROVE  OutboxInv' /\ Advances /\ SendsFirst
<1>1. TypeOK /\ tick \in TickType /\ s \in Subs /\ tick.pc = "cleanup"
  BY DEF OutboxInv, TypeOK, OutboxOK, TickType, TickStops, InTick
<1>2. UNCHANGED <<fnd, handed, spawn>>
  BY DEF TickStops
<1>3. Moves /\ Quiet
  <2>1. rec' = rec \/ save(s, [rec[s] EXCEPT !.stop_pending = FALSE])
    BY DEF TickStops
  <2> QED BY <1>1, <1>2, <2>1, NoRowQuiet, StopQuiet
<1>4. CASE tick.stops = {s}
  <2>1. EnterDispatch(tick.now)
    BY <1>4 DEF TickStops
  <2>2. /\ tick'.pc \in {"idle", "deliver"}
        /\ tick'.pc = "deliver" => \A k \in tick'.todo : fnd[k].delivery = "pending"
    BY <2>1, EnterDispatchTick
  <2>3. TickInv'
    BY <1>2, <2>2 DEF TickInv
  <2>4. Undisturbed
    BY <1>2, <2>1, EnterDispatchTick DEF Undisturbed
  <2> QED BY <1>2, <1>3, <2>3, <2>4, SettledKeeps
<1>5. CASE tick.stops # {s}
  <2>1. tick'.pc = "cleanup" /\ step' = step
    BY <1>1, <1>5 DEF TickStops, TickType
  <2>2. TickInv' /\ Undisturbed
    BY <1>2, <2>1 DEF TickInv, Undisturbed
  <2> QED BY <1>2, <1>3, <2>2, SettledKeeps
<1> QED BY <1>4, <1>5

\* A crash and recover(): rows stay open, interrupted sends become
\* uncertain, lost launches are reported.
LEMMA RecoverKeeps ==
    ASSUME OutboxInv, TypeOK', recover
    PROVE  OutboxInv' /\ Advances /\ SendsFirst
<1>1. TypeOK /\ clock \in Nat /\ handed \subseteq DOMAIN fnd /\ handed' = handed
  BY DEF OutboxInv, TypeOK, OutboxOK, ProcessOK, recover, host
<1>2. ASSUME NEW t \in Subs
      PROVE  /\ Succeeds(rec[t], rec'[t]) /\ ToldKept(t)
             /\ rec[t].state # "absent" => rec'[t].mode = rec[t].mode
  <2>1. CASE t \notin Active
    <3>1. rec'[t] = rec[t]
      BY <2>1 DEF recover
    <3> QED BY <3>1 DEF Succeeds, ToldKept
  <2>2. CASE t \in Active
    <3> DEFINE r == rec[t]
               i == Interrupted(r, clock)
               c == Recovered(r, clock)
    <3>1. r \in RecordType /\ ~terminal(r.state) /\ r.state # "absent" /\ rec'[t] = c
      BY <1>1, <2>2 DEF TypeOK, Active, terminal, recover
    <3>2. c.state \in {"reviewing", "uncertain", r.state}
      BY <1>1, <3>1, RecoveredRow
    <3>3. /\ i \in RecordType
          /\ i.mode = r.mode /\ i.notifications_cancelled = r.notifications_cancelled
      <4>1. CASE r.state # "running"
        BY <3>1, <4>1 DEF Interrupted
      <4>2. CASE r.state = "running"
        <5> DEFINE sealed == Sealed(r.task) /\ r.task.result.generation = r.generation
                   run == IF sealed THEN r.task.result ELSE r.run
                   blocked == ~(sealed /\ r.task.result.ok)
                   due == clock + ReviewWindow
                   e == [r EXCEPT !.state = "reviewing", !.run = run, !.report_blocked = blocked,
                                  !.review_wake = "pending", !.review_due = due]
        <5>1. i = e
          BY <4>2 DEF Interrupted
        <5>2. run \in RunType /\ blocked \in BOOLEAN
          BY <3>1 DEF RecordType, TaskType
        <5>3. due \in Nat
          BY <1>1, DurationAssumption
        <5> HIDE DEF sealed, run, blocked, due
        <5>4. e \in RecordType /\ e.mode = r.mode /\ e.notifications_cancelled = r.notifications_cancelled
          BY <3>1, <5>2, <5>3 DEF RecordType, States, Wakes
        <5> QED BY <5>1, <5>4
      <4> QED BY <4>1, <4>2
    <3> HIDE DEF i
    <3>4. c.mode = i.mode /\ c.notifications_cancelled = i.notifications_cancelled
      BY <3>3 DEF Recovered, i, RecordType
    <3> HIDE DEF c
    <3>5. ~terminal(c.state) /\ c.state # "absent"
      BY <3>1, <3>2 DEF terminal, Terminals
    <3> QED BY <3>1, <3>3, <3>4, <3>5, OpenRow DEF ToldKept
  <2> QED BY <2>1, <2>2
<1>3. Moves /\ Undisturbed
  <2>1. step' = [t \in Subs |-> Idle] /\ spawn' = {}
    BY DEF recover
  <2>2. Idle.pc = "idle"
    BY DEF Idle
  <2> QED BY <1>2, <2>1, <2>2 DEF Moves, Undisturbed
<1>4. TickInv'
  <2>1. tick'.pc = "idle"
    BY DEF recover, TickIdle
  <2> QED BY <2>1 DEF TickInv
<1> DEFINE lost == {<<s, "attention", 0>> : s \in {t \in Active : rec[t].launch = "intent"}}
<1>5. PICK page : fnd' = [k \in DOMAIN fnd \cup lost |->
                            IF k \notin DOMAIN fnd THEN Pending
                            ELSE IF k \in page THEN RecoveredFinding(fnd[k])
                            ELSE fnd[k]]
  BY DEF recover
<1>6. \A k \in lost : k[1] \in Active /\ k[2] = "attention"
  OBVIOUS
<1> HIDE DEF lost
<1>7. /\ DOMAIN fnd' = DOMAIN fnd \cup lost
      /\ \A k \in DOMAIN fnd' : k \notin DOMAIN fnd => k \in lost /\ fnd'[k] = Pending
  BY <1>5
<1>8. ASSUME NEW k \in DOMAIN fnd
      PROVE  \/ fnd'[k] = fnd[k]
             \/ /\ fnd[k].delivery = "sending" /\ fnd'[k].delivery = "uncertain"
                /\ fnd'[k].withdraw_pending = fnd[k].withdraw_pending
  <2>1. fnd[k] \in FindingType
    BY <1>1, KeyOwner
  <2>2. fnd'[k] = fnd[k] \/ fnd'[k] = RecoveredFinding(fnd[k])
    BY <1>5
  <2> QED BY <2>1, <2>2 DEF RecoveredFinding, FindingType
<1>9. ASSUME NEW k \in DOMAIN fnd' PROVE FindingInv(k)'
  <2>1. CASE k \in DOMAIN fnd
    <3>1. FindingInv(k) /\ (Silenced(k) => Silenced(k)')
      BY <1>1, <1>3, <2>1, KeyOwner DEF OutboxInv, Moves, Succeeds, Silenced
    <3> QED BY <1>1, <1>8, <2>1, <3>1 DEF FindingInv
  <2>2. CASE k \notin DOMAIN fnd
    <3>1. fnd'[k].delivery = "pending" /\ fnd'[k].withdraw_pending = FALSE
      BY <1>7, <1>9, <2>2 DEF Pending
    <3> QED BY <1>1, <2>2, <3>1 DEF FindingInv
  <2> QED BY <2>1, <2>2
<1>10. ASSUME NEW t \in Subs PROVE RowInv(t)'
  <2>1. \A k \in DOMAIN fnd' : k \in DOMAIN fnd \/ rec'[k[1]].state # "absent"
    BY <1>3, <1>6, <1>7 DEF Active, Moves, Succeeds
  <2> QED BY <1>1, <1>3, <2>1, MovesKeepRows DEF OutboxInv
<1>11. ASSUME NEW t \in Subs PROVE ToldInv(t)'
  <2>1. Conclusions(t)' = Conclusions(t)
    <3>1. CASE rec[t].state = "absent"
      <4>1. \A k \in DOMAIN fnd : k[1] # t
        BY <3>1 DEF OutboxInv, RowInv
      <4>2. \A k \in lost : k[1] # t
        BY <1>6, <3>1 DEF Active
      <4> QED BY <1>7, <4>1, <4>2 DEF Conclusions
    <3>2. CASE rec[t].state # "absent"
      <4>1. rec'[t].mode = rec[t].mode
        BY <1>2, <3>2
      <4> QED BY <1>6, <1>7, <4>1 DEF Conclusions
    <3> QED BY <3>1, <3>2
  <2>2. ToldInv(t) /\ ToldKept(t)
    BY <1>2 DEF OutboxInv
  <2> QED BY <1>7, <2>1, <2>2 DEF ToldInv, ToldKept
<1>12. Advances /\ SendsFirst
  <2>1. ASSUME NEW k \in DOMAIN fnd PROVE k \in DOMAIN fnd' /\ fnd'[k].delivery \in Onward[fnd[k].delivery]
    BY <1>1, <1>7, <1>8, KeyOwner, OnwardSteps
  <2>2. ASSUME NEW k \in DOMAIN fnd, fnd[k].delivery # "sending" PROVE fnd'[k].delivery # "sending"
    BY <1>8, <2>2
  <2> QED BY <2>1, <2>2 DEF Advances, SendsFirst
<1> QED BY <1>4, <1>9, <1>10, <1>11, <1>12 DEF OutboxInv

-----------------------------------------------------------------------------
(* The invariant and its consequences.                                      *)

\* The outbox starts empty.
LEMMA InitKeeps == Init => OutboxInv
<1> SUFFICES ASSUME Init PROVE OutboxInv
  OBVIOUS
<1>1. TypeOK
  BY InitType
<1>2. DOMAIN fnd = {} /\ tick.pc = "idle" /\ spawn = {}
  BY DEF Init, TickIdle
<1>3. ASSUME NEW s \in Subs PROVE RowInv(s) /\ ToldInv(s)
  <2>1. rec[s].state = "absent" /\ rec[s].notifications_cancelled = FALSE /\ step[s].pc = "idle"
    BY DEF Init, Absent, Idle
  <2>2. Conclusions(s) = {}
    BY <1>2 DEF Conclusions
  <2> QED BY <1>2, <2>1, <2>2 DEF RowInv, ToldInv, Told
<1> QED BY <1>1, <1>2, <1>3 DEF OutboxInv, TickInv

\* Every step keeps the invariant and moves findings forward.
LEMMA NextKeeps ==
    ASSUME OutboxInv, [Next]_vars
    PROVE  OutboxInv' /\ Advances /\ SendsFirst
<1>1. TypeOK'
  BY NextType DEF OutboxInv
<1>2. CASE UNCHANGED vars
  <2>1. UNCHANGED <<rec, fnd, tick, handed, step, spawn>>
    BY <1>2 DEF vars
  <2>2. Undisturbed /\ Moves /\ Quiet
    BY <2>1, NoRowQuiet DEF Undisturbed
  <2> QED BY <1>1, <2>1, <2>2, QuietKeeps
<1>3. ASSUME NEW s \in Subs,
             \/ Owner(s) \/ Observer(s) \/ Collector(s) \/ Check(s)
             \/ Launch(s) \/ Wake(s) \/ Collection(s)
      PROVE  OutboxInv' /\ Advances /\ SendsFirst
  <2>1. Calm(s)
    BY <1>3, OwnerCalm, ObserverCalm, CollectorCalm, CheckCalm, LaunchCalm, WakeCalm, CollectionCalm
  <2> QED BY <1>1, <2>1, CalmKeeps
<1>4. CASE Sweep
  BY <1>1, <1>4, SweepKeeps, StopsKeep DEF Sweep
<1>5. CASE Delivery
  BY <1>1, <1>5, DeliveryKeeps
<1>6. CASE Environment
  <2>1. CASE recover
    BY <1>1, <2>1, RecoverKeeps
  <2>2. CASE ~recover
    <3>1. UNCHANGED <<rec, fnd, tick, handed, step, spawn>>
      BY <1>6, <2>2 DEF Environment, TimePasses, Dispatched, durable, volatile, host
    <3>2. Undisturbed /\ Moves /\ Quiet
      BY <3>1, NoRowQuiet DEF Undisturbed
    <3> QED BY <1>1, <3>1, <3>2, QuietKeeps
  <2> QED BY <2>1, <2>2
<1> QED BY <1>2, <1>3, <1>4, <1>5, <1>6 DEF Next

\* The invariant of the outbox holds in every state.
THEOREM OutboxInvariant == Spec => []OutboxInv
<1>1. OutboxInv /\ [Next]_vars => OutboxInv'
  BY NextKeeps
<1> QED BY <1>1, InitKeeps, PTL DEF Spec

\* A finding only moves forward, whatever stale copy tick() or recover()
\* writes back after an await, a cancellation or a crash.
THEOREM DeliveriesAdvance == Spec => DeliveryAdvances
<1>1. OutboxInv /\ [Next]_vars => [Advances]_vars
  BY NextKeeps
<1>2. [Advances]_vars => [\A k \in DOMAIN fnd : /\ k \in DOMAIN fnd'
                                                /\ fnd'[k].delivery \in Onward[fnd[k].delivery]]_vars
  BY DEF Advances
<1> QED BY <1>1, <1>2, OutboxInvariant, PTL DEF Spec, DeliveryAdvances

\* ports.send is called at most once for a finding, over crashes too, and
\* never after its subscription was cancelled.
THEOREM SendsOnce == Spec => SentOnceUnlessCancelled
<1>1. OutboxInv /\ [Next]_vars => [SendsFirst]_vars
  BY NextKeeps
<1>2. [SendsFirst]_vars =>
        [\A k \in DOMAIN fnd :
            fnd[k].delivery # "sending" /\ fnd'[k].delivery = "sending" =>
                k \notin handed /\ ~rec[k[1]].notifications_cancelled]_vars
  BY DEF SendsFirst, Silenced
<1> QED BY <1>1, <1>2, OutboxInvariant, PTL DEF Spec, SentOnceUnlessCancelled

\* The end of a subscription is told exactly once, however steps, tool calls
\* and restarts race to close it.
THEOREM ConclusionToldOnce == Spec => []ToldOnce
<1>1. OutboxInv => ToldOnce
  <2> SUFFICES ASSUME OutboxInv, NEW s \in Subs
               PROVE  Cardinality(Conclusions(s)) = IF rec[s].state \in Told THEN 1 ELSE 0
    BY DEF ToldOnce
  <2>1. ToldInv(s)
    BY DEF OutboxInv
  <2>2. CASE rec[s].state \in Told
    <3>1. PICK k \in DOMAIN fnd : Conclusions(s) = {k}
      BY <2>1, <2>2 DEF ToldInv
    <3>2. Cardinality({k}) = 1
      BY FS_Singleton
    <3> QED BY <2>2, <3>1, <3>2
  <2>3. CASE rec[s].state \notin Told
    <3>1. Conclusions(s) = {}
      BY <2>1, <2>3 DEF ToldInv
    <3>2. Cardinality({}) = 0
      BY FS_EmptySet
    <3> QED BY <2>3, <3>1, <3>2
  <2> QED BY <2>2, <2>3
<1> QED BY <1>1, OutboxInvariant, PTL

-----------------------------------------------------------------------------
(* The two properties that rest on reading a whole page.  The queries of    *)
(* cancel() and recover() read a limited page of rows in one go, so they    *)
(* are proved under the hypothesis that the rows fit on it.                 *)

\* cancel() reads every finding of the subscription.
CancelFits == \A s \in Subs : Cardinality({k \in DOMAIN fnd : k[1] = s}) <= PageLimit
\* recover() reads every finding in the outbox, those it files included.
RecoverFits ==
    LET lost == {<<s, "attention", 0>> : s \in {t \in Active : rec[t].launch = "intent"}}
    IN  Cardinality(findings \cup (lost \ DOMAIN fnd)) <= PageLimit

\* Outside tick(), no finding becomes sending or accepted.
LEMMA CalmFindings ==
    ASSUME NEW s \in Subs, Calm(s), NEW k \in DOMAIN fnd', fnd'[k].delivery \in {"sending", "accepted"}
    PROVE  /\ k \in DOMAIN fnd /\ fnd'[k].delivery = fnd[k].delivery
           /\ fnd[k].withdraw_pending => fnd'[k].withdraw_pending
<1>1. CASE Quiet
  BY <1>1 DEF Quiet
<1>2. ASSUME NEW key, Files(s, key)
      PROVE  k \in DOMAIN fnd /\ fnd'[k] = fnd[k]
  <2>1. fnd' = WithFinding(key) /\ Pending.delivery = "pending"
    BY <1>2 DEF Files, Pending
  <2> QED BY <2>1 DEF WithFinding
<1>3. CASE Cancels(s)
  <2>1. PICK page : fnd' = [l \in DOMAIN fnd |->
                  IF l \notin page THEN fnd[l]
                  ELSE [delivery |-> IF fnd[l].delivery = "pending"
                                     THEN "cancelled" ELSE fnd[l].delivery,
                        withdraw_pending |-> \/ fnd[l].withdraw_pending
                                             \/ fnd[l].delivery = "accepted"]]
    BY <1>3 DEF Cancels, CancelFindings
  <2>2. k \in DOMAIN fnd
    BY <2>1
  <2>3. CASE k \in page
    BY <2>1, <2>2, <2>3
  <2>4. CASE k \notin page
    BY <2>1, <2>2, <2>4
  <2> QED BY <2>3, <2>4
<1> QED BY <1>1, <1>2, <1>3 DEF Calm

\* A whole page: every accepted finding is marked.
LEMMA CancelMarks ==
    ASSUME NEW s \in Subs, CancelFits, CancelFindings(s), NEW k \in DOMAIN fnd, k[1] = s,
           fnd[k].delivery = "accepted"
    PROVE  fnd'[k].withdraw_pending
<1> DEFINE rows == {l \in DOMAIN fnd : l[1] = s}
<1>1. Pages(rows) = {rows}
  BY DEF CancelFits, Pages
<1>2. fnd' = [l \in DOMAIN fnd |->
                  IF l \notin rows THEN fnd[l]
                  ELSE [delivery |-> IF fnd[l].delivery = "pending"
                                     THEN "cancelled" ELSE fnd[l].delivery,
                        withdraw_pending |-> \/ fnd[l].withdraw_pending
                                             \/ fnd[l].delivery = "accepted"]]
  BY <1>1 DEF CancelFindings
<1>3. k \in rows
  OBVIOUS
<1> HIDE DEF rows
<1> QED BY <1>2, <1>3

\* A sending finding is the one tick() awaits: every step keeps it so.
LEMMA NextInterrupts ==
    ASSUME OutboxInv, InterruptedSendsAreUncertain, RecoverFits, [Next]_vars
    PROVE  InterruptedSendsAreUncertain'
<1>1. TypeOK /\ tick \in TickType /\ tick.todo \subseteq DOMAIN fnd
  BY DEF OutboxInv, TypeOK, OutboxOK
<1>2. CASE UNCHANGED <<fnd, tick>>
  BY <1>2 DEF InterruptedSendsAreUncertain
<1>3. ASSUME NEW s \in Subs,
             \/ Owner(s) \/ Observer(s) \/ Collector(s) \/ Check(s)
             \/ Launch(s) \/ Wake(s) \/ Collection(s)
      PROVE  InterruptedSendsAreUncertain'
  <2>1. Calm(s) /\ tick' = tick
    BY <1>3, OwnerCalm, ObserverCalm, CollectorCalm, CheckCalm, LaunchCalm, WakeCalm, CollectionCalm DEF Calm
  <2> QED BY <2>1, CalmFindings DEF InterruptedSendsAreUncertain
\* a tick that awaits no send, and makes none
<1>4. ASSUME tick.pc # "send", DOMAIN fnd' = DOMAIN fnd,
             \A k \in DOMAIN fnd : fnd'[k].delivery = "sending" => fnd[k].delivery = "sending"
      PROVE  InterruptedSendsAreUncertain'
  BY <1>4 DEF InterruptedSendsAreUncertain
<1>5. CASE Sweep
  <2>1. tick.pc \in {"idle", "withdraw", "cleanup"}
    BY <1>5 DEF Sweep, TickBegins, TickWithdraws, TickStops, InTick
  <2>2. CASE fnd' = fnd
    BY <1>4, <2>1, <2>2
  <2>3. ASSUME NEW k \in tick.todo, TickWithdraws(k) PROVE InterruptedSendsAreUncertain'
    <3>1. k \in DOMAIN fnd
      BY <1>1, <2>3
    <3>2. \/ fnd' = fnd
          \/ fnd' = [fnd EXCEPT ![k] = [delivery |-> "cancelled", withdraw_pending |-> FALSE]]
          \/ fnd' = [fnd EXCEPT ![k] = [delivery |-> "accepted", withdraw_pending |-> FALSE]]
      BY <2>3 DEF TickWithdraws
    <3> QED BY <1>4, <2>1, <3>1, <3>2
  <2> QED BY <1>5, <2>2, <2>3 DEF Sweep, TickBegins, TickStops, durable
<1>6. CASE Delivery
  <2>1. ASSUME NEW k \in tick.todo, TickPicks(k) PROVE InterruptedSendsAreUncertain'
    <3>1. tick.pc = "deliver" /\ k \in DOMAIN fnd
      BY <1>1, <2>1 DEF TickPicks, InTick
    <3>2. fnd' = fnd \/ fnd' = [fnd EXCEPT ![k] = [Pending EXCEPT !.delivery = "cancelled"]]
      BY <2>1 DEF TickPicks
    <3>3. [Pending EXCEPT !.delivery = "cancelled"].delivery = "cancelled"
      BY DEF Pending
    <3> QED BY <1>4, <3>1, <3>2, <3>3
  <2>2. CASE TickOwnerAway
    <3>1. tick.pc = "owner" /\ fnd' = fnd
      BY <2>2 DEF TickOwnerAway, InTick, durable
    <3> QED BY <1>4, <3>1
  <2>3. CASE TickSends
    <3>1. tick.pc = "owner"
      BY <2>3 DEF TickSends, InTick
    <3>2. CASE fnd' = [fnd EXCEPT ![tick.cur] = [Pending EXCEPT !.delivery = "cancelled"]]
      <4>1. [Pending EXCEPT !.delivery = "cancelled"].delivery = "cancelled"
        BY DEF Pending
      <4> QED BY <1>4, <3>1, <3>2, <4>1
    <3>3. CASE /\ fnd' = [fnd EXCEPT ![tick.cur] = [Pending EXCEPT !.delivery = "sending"]]
               /\ tick' = [tick EXCEPT !.pc = "send"]
      <4>1. tick'.pc = "send" /\ tick'.cur = tick.cur
        BY <1>1, <3>3 DEF TickType
      <4>2. \A k \in DOMAIN fnd : k # tick.cur => fnd'[k] = fnd[k]
        BY <3>3
      <4>3. \A k \in DOMAIN fnd : fnd[k].delivery # "sending"
        BY <3>1 DEF InterruptedSendsAreUncertain
      <4>4. DOMAIN fnd' = DOMAIN fnd
        BY <3>3
      <4> QED BY <4>1, <4>2, <4>3, <4>4 DEF InterruptedSendsAreUncertain
    <3> QED BY <2>3, <3>2, <3>3 DEF TickSends
  <2>4. CASE TickSent \/ TickSendFails
    <3>1. tick.pc = "send" /\ tick.cur \in DOMAIN fnd
      BY <1>1, <2>4 DEF TickSent, TickSendFails, InTick, TypeOK, OutboxOK
    <3>2. PICK f : fnd' = [fnd EXCEPT ![tick.cur] = f] /\ f.delivery # "sending"
      <4>1. [Pending EXCEPT !.delivery = "uncertain"].delivery = "uncertain"
        BY DEF Pending
      <4>2. CASE TickSendFails
        BY <4>1, <4>2 DEF TickSendFails
      <4>3. CASE TickSent
        <5> DEFINE f == [delivery |-> "accepted", withdraw_pending |-> rec[tick.cur[1]].notifications_cancelled]
        <5>1. fnd' = [fnd EXCEPT ![tick.cur] = f]
          BY <4>3 DEF TickSent
        <5>2. f.delivery # "sending"
          OBVIOUS
        <5> HIDE DEF f
        <5> QED BY <5>1, <5>2
      <4> QED BY <2>4, <4>2, <4>3
    <3>3. \A k \in DOMAIN fnd : fnd[k].delivery = "sending" => k = tick.cur
      BY DEF InterruptedSendsAreUncertain
    <3>4. \A k \in DOMAIN fnd' : fnd'[k].delivery # "sending"
      BY <3>1, <3>2, <3>3
    <3> QED BY <3>4 DEF InterruptedSendsAreUncertain
  <2> QED BY <1>6, <2>1, <2>2, <2>3, <2>4 DEF Delivery
<1>7. CASE recover
  <2> DEFINE lost == {<<s, "attention", 0>> : s \in {t \in Active : rec[t].launch = "intent"}}
             rows == findings \cup (lost \ DOMAIN fnd)
  <2>1. Pages(rows) = {rows}
    BY DEF RecoverFits, Pages
  <2>2. fnd' = [k \in DOMAIN fnd \cup lost |->
                  IF k \notin DOMAIN fnd THEN Pending
                  ELSE IF k \in rows THEN RecoveredFinding(fnd[k])
                  ELSE fnd[k]]
    BY <1>7, <2>1 DEF recover
  <2>3. \A k \in DOMAIN fnd : fnd[k].delivery = "sending" => k \in rows
    BY DEF findings
  <2> HIDE DEF lost, rows
  <2>4. ASSUME NEW k \in DOMAIN fnd PROVE fnd'[k].delivery # "sending"
    <3>1. fnd[k] \in FindingType
      BY <1>1, KeyOwner
    <3>2. RecoveredFinding(fnd[k]).delivery # "sending"
      BY <3>1 DEF RecoveredFinding, FindingType
    <3> QED BY <2>2, <2>3, <3>2
  <2>5. \A k \in DOMAIN fnd' : k \notin DOMAIN fnd => fnd'[k].delivery = "pending"
    BY <2>2 DEF Pending
  <2> QED BY <2>4, <2>5 DEF InterruptedSendsAreUncertain
<1>8. CASE Environment /\ ~recover
  <2>1. UNCHANGED <<fnd, tick>>
    BY <1>8 DEF Environment, TimePasses, Dispatched, durable, volatile
  <2> QED BY <1>2, <2>1
<1>9. UNCHANGED vars => UNCHANGED <<fnd, tick>>
  BY DEF vars
<1> QED BY <1>2, <1>3, <1>5, <1>6, <1>7, <1>8, <1>9 DEF Next

\* While recover() reads the whole outbox, a finding says "sending" only while
\* tick() awaits that send.
THEOREM InterruptedSends == Spec /\ []RecoverFits => []InterruptedSendsAreUncertain
<1>1. Init => InterruptedSendsAreUncertain
  BY DEF Init, InterruptedSendsAreUncertain
<1>2. OutboxInv /\ RecoverFits /\ InterruptedSendsAreUncertain /\ [Next]_vars => InterruptedSendsAreUncertain'
  BY NextInterrupts
<1> QED BY <1>1, <1>2, OutboxInvariant, PTL DEF Spec

\* Only cancel() silences a subscription, and it goes through its findings.
SilenceKept(s) ==
    \A t \in Subs : rec'[t].notifications_cancelled =>
                        rec[t].notifications_cancelled \/ (t = s /\ CancelFindings(s))

LEMMA SavedSilence ==
    ASSUME TypeOK, NEW s \in Subs, NEW c, save(s, c),
           c.notifications_cancelled = rec[s].notifications_cancelled
    PROVE  SilenceKept(s)
BY DEF TypeOK, save, SilenceKept

LEMMA CancelSilence ==
    ASSUME TypeOK, NEW s \in Subs, NEW c, save(s, c), CancelFindings(s)
    PROVE  SilenceKept(s)
BY DEF TypeOK, save, SilenceKept

\* The calls of owner, observer and collector.
LEMMA CallSilence ==
    ASSUME OutboxInv, NEW s \in Subs, Owner(s) \/ Observer(s) \/ Collector(s)
    PROVE  SilenceKept(s) /\ queued' = queued
<1> USE DEF volatile, host
<1> DEFINE r == rec[s]
<1>1. TypeOK /\ r \in RecordType /\ RowInv(s)
  BY DEF OutboxInv, TypeOK
<1>2. queued' = queued
  <2>1. CASE Owner(s)
    BY <2>1 DEF Owner, create, cancel, CancelStopped
  <2>2. CASE Observer(s)
    BY <2>2 DEF Observer, authorize, install, wait, report, fail
  <2>3. CASE Collector(s)
    BY <2>3 DEF Collector, poll, submit
  <2> QED BY <2>1, <2>2, <2>3
<1> SUFFICES SilenceKept(s)
  BY <1>2
<1>3. CASE rec' = rec
  BY <1>3 DEF SilenceKept
<1>4. CASE create(s)
  <2>1. PICK m \in Modes, life \in Lifetimes :
          save(s, [Absent EXCEPT !.state = "preparing", !.mode = m,
                     !.expires_at = IF life = 0 THEN 0 ELSE clock + life,
                     !.next_at = clock])
    BY <1>4 DEF create
  <2> DEFINE c == [Absent EXCEPT !.state = "preparing", !.mode = m,
                     !.expires_at = IF life = 0 THEN 0 ELSE clock + life,
                     !.next_at = clock]
  <2>2. c.notifications_cancelled = FALSE
    BY DEF Absent
  <2>3. r.notifications_cancelled = FALSE
    BY <1>1, <1>4 DEF create, RowInv, RecordType
  <2>4. save(s, c)
    BY <2>1
  <2> HIDE DEF c
  <2> QED BY <1>1, <2>2, <2>3, <2>4, SavedSilence
<1>5. CASE cancel(s)
  BY <1>1, <1>5, CancelSilence DEF cancel
<1>6. CASE CancelStopped(s)
  <2>1. rec' = rec \/ save(s, [r EXCEPT !.stop_pending = FALSE])
    BY <1>6 DEF CancelStopped
  <2>2. [r EXCEPT !.stop_pending = FALSE].notifications_cancelled = r.notifications_cancelled
    BY <1>1 DEF RecordType
  <2> QED BY <1>1, <1>3, <2>1, <2>2, SavedSilence
<1>7. CASE authorize(s)
  <2> DEFINE c == [r EXCEPT !.observer = TRUE, !.launch = "confirmed", !.state = "preparing",
                            !.review_due = clock + ReviewWindow]
  <2>1. save(s, c) /\ c.notifications_cancelled = r.notifications_cancelled
    BY <1>1, <1>7 DEF authorize, RecordType
  <2> HIDE DEF c
  <2> QED BY <1>1, <2>1, SavedSilence
<1>8. CASE install(s)
  <2>1. PICK kind : save(s, Installed(r, kind, clock))
    BY <1>8 DEF install
  <2>2. Installed(r, kind, clock).notifications_cancelled = r.notifications_cancelled
    BY <1>1 DEF Installed, RecordType
  <2> QED BY <1>1, <2>1, <2>2, SavedSilence
<1>9. CASE wait(s)
  <2>1. save(s, Waiting(r, clock))
    BY <1>9 DEF wait
  <2>2. Waiting(r, clock).notifications_cancelled = r.notifications_cancelled
    BY <1>1 DEF Waiting, RecordType
  <2> QED BY <1>1, <2>1, <2>2, SavedSilence
<1>10. CASE report(s)
  <2> DEFINE q == Reported(r)
  <2>1. save(s, Concluded(q, "matched", clock))
    BY <1>10 DEF report, finding
  <2>2. q \in RecordType
    BY <1>1, ReportedRow
  <2>3. q.notifications_cancelled = r.notifications_cancelled
    BY <1>1 DEF Reported, RecordType
  <2> HIDE DEF q
  <2>4. Concluded(q, "matched", clock).notifications_cancelled = q.notifications_cancelled
    BY <2>2 DEF Concluded, RecordType
  <2> QED BY <1>1, <2>1, <2>3, <2>4, SavedSilence
<1>11. CASE fail(s)
  <2>1. save(s, Concluded(r, "failed", clock))
    <3>1. finding(s, r, "failed", "failed", r.generation)
      BY <1>11 DEF fail
    <3> QED BY <3>1 DEF finding
  <2>2. Concluded(r, "failed", clock).notifications_cancelled = r.notifications_cancelled
    BY <1>1 DEF Concluded, RecordType
  <2> QED BY <1>1, <2>1, <2>2, SavedSilence
<1>12. CASE poll(s)
  <2> DEFINE c == [r EXCEPT !.worker = TRUE,
                             !.task.claimed = @ \/ ( /\ r.state = "running"
                                                     /\ r.task.id # 0
                                                     /\ ~Sealed(r.task) )]
  <2>1. save(s, c)
    BY <1>12 DEF poll
  <2>2. c.notifications_cancelled = r.notifications_cancelled
    BY <1>1 DEF RecordType
  <2> HIDE DEF c
  <2> QED BY <1>1, <2>1, <2>2, SavedSilence
<1>13. CASE submit(s)
  <2>1. PICK run : save(s, [r EXCEPT !.task.result = run])
    BY <1>13 DEF submit
  <2>2. [r EXCEPT !.task.result = run].notifications_cancelled = r.notifications_cancelled
    BY <1>1 DEF RecordType
  <2> QED BY <1>1, <2>1, <2>2, SavedSilence
<1> QED BY <1>4, <1>5, <1>6, <1>7, <1>8, <1>9, <1>10, <1>11, <1>12, <1>13 DEF Owner, Observer, Collector

\* step(), from its first await to its last.
LEMMA StepSilence ==
    ASSUME OutboxInv, NEW s \in Subs, Check(s) \/ Launch(s) \/ Wake(s) \/ Collection(s)
    PROVE  SilenceKept(s) /\ queued' = queued
<1> USE DEF volatile, durable, host
<1> DEFINE r == rec[s]
<1>1. TypeOK /\ r \in RecordType
  BY DEF OutboxInv, TypeOK
<1>2. queued' = queued
  <2>1. CASE Check(s)
    BY <2>1 DEF Check, StepFindsNothing, StepOwnerClosed, StepExpires, StepOutOfTurns, StepLaunches,
                StepObserverTimedOut, StepWakes, StepCollects, StepStopped
  <2>2. CASE Launch(s)
    BY <2>2 DEF Launch, LaunchRefused, RequestSpawn, LaunchTimesOut, SpawnResolves, SpawnRejects, HostSpawns
  <2>3. CASE Wake(s)
    BY <2>3 DEF Wake, WakeAccepted, WakeUncertain
  <2>4. CASE Collection(s)
    BY <2>4 DEF Collection, PortThrows, AssignTask, CollectAborts, CollectReturns, CollectTimesOut,
                CollectionDone, ClassificationDone, StepThrows, Discarded, ExpiredMeanwhile
  <2> QED BY <2>1, <2>2, <2>3, <2>4
<1> SUFFICES SilenceKept(s)
  BY <1>2
<1>3. CASE rec' = rec
  BY <1>3 DEF SilenceKept
<1>4. ASSUME NEW outcome, NEW occurrence, NEW ordinal, finding(s, r, outcome, occurrence, ordinal)
      PROVE  SilenceKept(s)
  <2>1. save(s, Concluded(r, outcome, clock))
    BY <1>4 DEF finding
  <2>2. Concluded(r, outcome, clock).notifications_cancelled = r.notifications_cancelled
    BY <1>1 DEF Concluded, RecordType
  <2> QED BY <1>1, <2>1, <2>2, SavedSilence
<1>5. ASSUME NEW c, save(s, c), c.notifications_cancelled = r.notifications_cancelled
      PROVE  SilenceKept(s)
  BY <1>1, <1>5, SavedSilence
<1>6. CASE Check(s)
  <2>1. CASE StepFindsNothing(s)
    BY <1>3, <2>1 DEF StepFindsNothing
  <2>2. CASE StepOwnerClosed(s)
    BY <1>1, <2>2, CancelSilence DEF StepOwnerClosed
  <2>3. CASE StepExpires(s) \/ StepOutOfTurns(s) \/ StepObserverTimedOut(s)
    BY <1>4, <2>3 DEF StepExpires, StepOutOfTurns, StepObserverTimedOut
  <2>4. CASE StepLaunches(s)
    <3> DEFINE c == [r EXCEPT !.launch = "intent", !.observer_turns = @ + 1]
    <3>1. save(s, c) /\ c.notifications_cancelled = r.notifications_cancelled
      BY <1>1, <2>4 DEF StepLaunches, RecordType
    <3> HIDE DEF c
    <3> QED BY <1>5, <3>1
  <2>5. CASE StepWakes(s)
    <3> DEFINE c == [r EXCEPT !.review_wake = "sending", !.observer_turns = @ + 1,
                              !.review_due = step[s].now + ReviewWindow]
    <3>1. save(s, c) /\ c.notifications_cancelled = r.notifications_cancelled
      BY <1>1, <2>5 DEF StepWakes, RecordType
    <3> HIDE DEF c
    <3> QED BY <1>5, <3>1
  <2>6. CASE StepCollects(s)
    <3> DEFINE c == [r EXCEPT !.state = "running", !.report_blocked = TRUE, !.task = NoTask]
    <3>1. save(s, c) /\ c.notifications_cancelled = r.notifications_cancelled
      BY <1>1, <2>6 DEF StepCollects, RecordType
    <3> HIDE DEF c
    <3> QED BY <1>5, <3>1
  <2>7. CASE StepStopped(s)
    <3>1. rec' = rec \/ save(s, [r EXCEPT !.stop_pending = FALSE])
      BY <2>7 DEF StepStopped
    <3>2. [r EXCEPT !.stop_pending = FALSE].notifications_cancelled = r.notifications_cancelled
      BY <1>1 DEF RecordType
    <3> QED BY <1>3, <1>5, <3>1, <3>2
  <2> QED BY <1>6, <2>1, <2>2, <2>3, <2>4, <2>5, <2>6, <2>7 DEF Check
<1>7. CASE Launch(s)
  <2>1. CASE SpawnResolves(s)
    <3>1. save(s, Bound(r, clock))
      BY <2>1 DEF SpawnResolves
    <3>2. Bound(r, clock).notifications_cancelled = r.notifications_cancelled
      BY <1>1 DEF Bound, RecordType
    <3> QED BY <1>5, <3>1, <3>2
  <2>2. CASE ~SpawnResolves(s)
    <3>1. rec' = rec \/ save(s, [r EXCEPT !.state = "uncertain"])
      BY <1>7, <2>2 DEF Launch, LaunchRefused, RequestSpawn, LaunchTimesOut, SpawnRejects, HostSpawns, LaunchUncertain
    <3>2. [r EXCEPT !.state = "uncertain"].notifications_cancelled = r.notifications_cancelled
      BY <1>1 DEF RecordType
    <3> QED BY <1>3, <1>5, <3>1, <3>2
  <2> QED BY <2>1, <2>2
<1>8. CASE Wake(s)
  <2>1. \/ rec' = rec
        \/ save(s, [r EXCEPT !.review_wake = "accepted"])
        \/ save(s, [r EXCEPT !.review_wake = "uncertain"])
    BY <1>8 DEF Wake, WakeAccepted, WakeUncertain
  <2>2. /\ [r EXCEPT !.review_wake = "accepted"].notifications_cancelled = r.notifications_cancelled
        /\ [r EXCEPT !.review_wake = "uncertain"].notifications_cancelled = r.notifications_cancelled
    BY <1>1 DEF RecordType
  <2> QED BY <1>3, <1>5, <2>1, <2>2
<1>9. CASE Collection(s)
  <2>1. CASE StepThrows(s)
    <3>1. save(s, Thrown(r, step[s].now))
      BY <2>1 DEF StepThrows
    <3>2. Thrown(r, step[s].now).notifications_cancelled = r.notifications_cancelled
      BY <1>1 DEF Thrown, RecordType
    <3> QED BY <1>5, <3>1, <3>2
  <2>2. CASE AssignTask(s)
    <3>1. PICK task : save(s, [r EXCEPT !.task = task])
      BY <2>2 DEF AssignTask
    <3>2. [r EXCEPT !.task = task].notifications_cancelled = r.notifications_cancelled
      BY <1>1 DEF RecordType
    <3> QED BY <1>5, <3>1, <3>2
  <2>3. CASE CollectReturns(s) \/ Discarded(s)
    BY <1>3, <2>3 DEF CollectReturns, Discarded
  <2>4. CASE CollectTimesOut(s)
    <3>1. PICK run : save(s, [r EXCEPT !.task.result = run])
      BY <2>4 DEF CollectTimesOut
    <3>2. [r EXCEPT !.task.result = run].notifications_cancelled = r.notifications_cancelled
      BY <1>1 DEF RecordType
    <3> QED BY <1>5, <3>1, <3>2
  <2>5. CASE ExpiredMeanwhile(s)
    BY <1>4, <2>5 DEF ExpiredMeanwhile
  <2>6. CASE CollectionDone(s) /\ ~Discarded(s) /\ ~ExpiredMeanwhile(s)
    BY <1>3, <2>6 DEF CollectionDone
  <2>7. CASE ClassificationDone(s) /\ ~Discarded(s) /\ ~ExpiredMeanwhile(s)
    <3>1. PICK d : save(s, Classified(r, step[s].run, d, clock))
      BY <2>7 DEF ClassificationDone
    <3>2. Classified(r, step[s].run, d, clock).notifications_cancelled = r.notifications_cancelled
      BY <1>1 DEF Classified, RecordType
    <3> QED BY <1>5, <3>1, <3>2
  <2>8. StepThrows(s) \/ AssignTask(s) \/ CollectReturns(s) \/ CollectTimesOut(s)
          \/ CollectionDone(s) \/ ClassificationDone(s)
    BY <1>9 DEF Collection, PortThrows, CollectAborts
  <2> QED BY <2>1, <2>2, <2>3, <2>4, <2>5, <2>6, <2>7, <2>8
<1> QED BY <1>6, <1>7, <1>8, <1>9

\* recover() silences nothing, and leaves accepted findings alone.
LEMMA RecoverSilence ==
    ASSUME OutboxInv, recover
    PROVE  /\ \A t \in Subs : rec'[t].notifications_cancelled => rec[t].notifications_cancelled
           /\ \A k \in DOMAIN fnd' : fnd'[k].delivery = "accepted" => k \in DOMAIN fnd /\ fnd'[k] = fnd[k]
<1>1. TypeOK
  BY DEF OutboxInv
<1>2. ASSUME NEW t \in Subs PROVE rec'[t].notifications_cancelled => rec[t].notifications_cancelled
  <2> DEFINE r == rec[t]
             i == Interrupted(r, clock)
             c == Recovered(r, clock)
  <2>1. r \in RecordType
    BY <1>1 DEF TypeOK
  <2>2. DOMAIN i = DOMAIN r /\ i.notifications_cancelled = r.notifications_cancelled
    BY <2>1 DEF Interrupted, RecordType
  <2>3. c.notifications_cancelled = i.notifications_cancelled
    BY DEF Recovered, i
  <2>4. rec'[t] = IF t \in Active THEN c ELSE r
    BY DEF recover
  <2> HIDE DEF c, i
  <2> QED BY <2>2, <2>3, <2>4
<1> DEFINE lost == {<<s, "attention", 0>> : s \in {t \in Active : rec[t].launch = "intent"}}
<1>3. PICK page : fnd' = [k \in DOMAIN fnd \cup lost |->
                            IF k \notin DOMAIN fnd THEN Pending
                            ELSE IF k \in page THEN RecoveredFinding(fnd[k])
                            ELSE fnd[k]]
  BY DEF recover
<1> HIDE DEF lost
<1>4. ASSUME NEW k \in DOMAIN fnd', fnd'[k].delivery = "accepted"
      PROVE  k \in DOMAIN fnd /\ fnd'[k] = fnd[k]
  <2>1. k \in DOMAIN fnd
    BY <1>3, <1>4 DEF Pending
  <2>2. fnd[k] \in FindingType
    BY <1>1, <2>1, KeyOwner
  <2>3. fnd'[k] = fnd[k] \/ fnd'[k] = RecoveredFinding(fnd[k])
    BY <1>3, <2>1
  <2> QED BY <1>4, <2>1, <2>2, <2>3 DEF RecoveredFinding, FindingType
<1> QED BY <1>2, <1>4

\* Every step keeps the withdrawals that are owed marked.
LEMMA NextWithdraws ==
    ASSUME OutboxInv, WithdrawalOwed, CancelFits, [Next]_vars
    PROVE  WithdrawalOwed'
<1>1. TypeOK /\ tick \in TickType /\ tick.todo \subseteq DOMAIN fnd
  BY DEF OutboxInv, TypeOK, OutboxOK
\* a step that accepts nothing and silences nothing
<1>2. ASSUME queued' \subseteq queued,
             \A t \in Subs : rec'[t].notifications_cancelled => rec[t].notifications_cancelled,
             \A k \in DOMAIN fnd' : fnd'[k].delivery = "accepted" => k \in DOMAIN fnd /\ fnd'[k] = fnd[k]
      PROVE  WithdrawalOwed'
  BY <1>1, <1>2, KeyOwner DEF WithdrawalOwed
<1>3. CASE UNCHANGED <<rec, fnd>> /\ queued' \subseteq queued
  BY <1>2, <1>3
<1>4. ASSUME NEW s \in Subs,
             \/ Owner(s) \/ Observer(s) \/ Collector(s) \/ Check(s)
             \/ Launch(s) \/ Wake(s) \/ Collection(s)
      PROVE  WithdrawalOwed'
  <2>1. Calm(s)
    BY <1>4, OwnerCalm, ObserverCalm, CollectorCalm, CheckCalm, LaunchCalm, WakeCalm, CollectionCalm
  <2>2. SilenceKept(s) /\ queued' = queued
    BY <1>4, CallSilence, StepSilence
  <2> SUFFICES ASSUME NEW k \in DOMAIN fnd', rec'[k[1]].notifications_cancelled,
                      fnd'[k].delivery = "accepted", k \in queued
               PROVE  fnd'[k].withdraw_pending
    BY <2>2 DEF WithdrawalOwed
  <2>3. /\ k \in DOMAIN fnd /\ fnd[k].delivery = "accepted"
        /\ fnd[k].withdraw_pending => fnd'[k].withdraw_pending
    BY <2>1, CalmFindings
  <2>4. k[1] \in Subs
    BY <1>1, <2>3, KeyOwner
  <2>5. CASE rec[k[1]].notifications_cancelled
    BY <2>3, <2>5 DEF WithdrawalOwed
  <2>6. CASE k[1] = s /\ CancelFindings(s)
    BY <2>3, <2>6, CancelMarks
  <2> QED BY <2>2, <2>4, <2>5, <2>6 DEF SilenceKept
\* a tick that rewrites one finding
<1>5. ASSUME rec' = rec, NEW k, NEW f, fnd' = [fnd EXCEPT ![k] = f], queued' \subseteq queued \cup {k},
             f.delivery = "accepted" /\ k \in queued' /\ rec[k[1]].notifications_cancelled => f.withdraw_pending
      PROVE  WithdrawalOwed'
  <2> SUFFICES ASSUME NEW l \in DOMAIN fnd', rec[l[1]].notifications_cancelled,
                      fnd'[l].delivery = "accepted", l \in queued'
               PROVE  fnd'[l].withdraw_pending
    BY <1>5 DEF WithdrawalOwed
  <2>1. CASE l = k
    BY <1>5, <2>1
  <2>2. CASE l # k
    <3>1. l \in DOMAIN fnd /\ fnd'[l] = fnd[l] /\ l \in queued
      BY <1>5, <2>2
    <3> QED BY <3>1 DEF WithdrawalOwed
  <2> QED BY <2>1, <2>2
<1>6. CASE Sweep
  <2>1. CASE TickBegins
    BY <1>3, <2>1 DEF TickBegins, durable, host
  <2>2. ASSUME NEW k \in tick.todo, TickWithdraws(k) PROVE WithdrawalOwed'
    <3>1. rec' = rec
      BY <2>2 DEF TickWithdraws
    <3>2. CASE fnd' = fnd /\ queued' \subseteq queued
      BY <1>3, <3>1, <3>2
    <3>3. CASE /\ fnd' = [fnd EXCEPT ![k] = [delivery |-> "cancelled", withdraw_pending |-> FALSE]]
               /\ queued' \subseteq queued
      <4> DEFINE f == [delivery |-> "cancelled", withdraw_pending |-> FALSE]
      <4>1. fnd' = [fnd EXCEPT ![k] = f] /\ f.delivery # "accepted" /\ queued' \subseteq queued \cup {k}
        BY <3>3
      <4> HIDE DEF f
      <4> QED BY <1>5, <3>1, <4>1
    <3>4. CASE /\ fnd' = [fnd EXCEPT ![k] = [delivery |-> "accepted", withdraw_pending |-> FALSE]]
               /\ queued' = queued /\ k \notin queued
      <4> DEFINE f == [delivery |-> "accepted", withdraw_pending |-> FALSE]
      <4>1. fnd' = [fnd EXCEPT ![k] = f] /\ k \notin queued' /\ queued' \subseteq queued \cup {k}
        BY <3>4
      <4> HIDE DEF f
      <4> QED BY <1>5, <3>1, <4>1
    <3> QED BY <2>2, <3>2, <3>3, <3>4 DEF TickWithdraws
  <2>3. ASSUME NEW s \in tick.stops, TickStops(s) PROVE WithdrawalOwed'
    <3>1. s \in Subs /\ rec[s] \in RecordType
      BY <1>1 DEF TypeOK, OutboxOK, TickType
    <3>2. UNCHANGED <<fnd, queued>>
      BY <2>3 DEF TickStops
    <3>3. rec' = rec \/ save(s, [rec[s] EXCEPT !.stop_pending = FALSE])
      BY <2>3 DEF TickStops
    <3>4. \A t \in Subs : rec'[t].notifications_cancelled => rec[t].notifications_cancelled
      <4>1. [rec[s] EXCEPT !.stop_pending = FALSE].notifications_cancelled = rec[s].notifications_cancelled
        BY <3>1 DEF RecordType
      <4> QED BY <1>1, <3>1, <3>3, <4>1 DEF save, TypeOK
    <3> QED BY <1>2, <3>2, <3>4
  <2> QED BY <1>6, <2>1, <2>2, <2>3 DEF Sweep
<1>7. CASE Delivery
  <2>1. /\ [Pending EXCEPT !.delivery = "cancelled"].delivery = "cancelled"
        /\ [Pending EXCEPT !.delivery = "sending"].delivery = "sending"
        /\ [Pending EXCEPT !.delivery = "uncertain"].delivery = "uncertain"
    BY DEF Pending
  <2>2. ASSUME rec' = rec, NEW k, NEW d \in {"cancelled", "sending", "uncertain"},
               fnd' = [fnd EXCEPT ![k] = [Pending EXCEPT !.delivery = d]],
               queued' \subseteq queued \cup {k}
        PROVE  WithdrawalOwed'
    <3> DEFINE f == [Pending EXCEPT !.delivery = d]
    <3>1. f.delivery # "accepted" /\ fnd' = [fnd EXCEPT ![k] = f]
      BY <2>1, <2>2
    <3> HIDE DEF f
    <3> QED BY <1>5, <2>2, <3>1
  <2>3. ASSUME NEW k \in tick.todo, TickPicks(k) PROVE WithdrawalOwed'
    <3>1. UNCHANGED <<rec, queued>>
      BY <2>3 DEF TickPicks, host
    <3>2. fnd' = fnd \/ fnd' = [fnd EXCEPT ![k] = [Pending EXCEPT !.delivery = "cancelled"]]
      BY <2>3 DEF TickPicks
    <3> QED BY <1>3, <2>2, <3>1, <3>2
  <2>4. CASE TickOwnerAway
    BY <1>3, <2>4 DEF TickOwnerAway, durable, host
  <2>5. CASE TickSends
    <3>1. UNCHANGED <<rec, queued>>
      BY <2>5 DEF TickSends
    <3>2. PICK d \in {"cancelled", "sending"} : fnd' = [fnd EXCEPT ![tick.cur] = [Pending EXCEPT !.delivery = d]]
      BY <2>5 DEF TickSends
    <3> QED BY <2>2, <3>1, <3>2
  <2>6. CASE TickSent
    <3> DEFINE f == [delivery |-> "accepted", withdraw_pending |-> rec[tick.cur[1]].notifications_cancelled]
    <3>1. rec' = rec /\ fnd' = [fnd EXCEPT ![tick.cur] = f] /\ queued' \subseteq queued \cup {tick.cur}
      BY <2>6 DEF TickSent
    <3>2. rec[tick.cur[1]].notifications_cancelled => f.withdraw_pending
      OBVIOUS
    <3> HIDE DEF f
    <3> QED BY <1>5, <3>1, <3>2
  <2>7. CASE TickSendFails
    BY <2>2, <2>7 DEF TickSendFails
  <2> QED BY <1>7, <2>3, <2>4, <2>5, <2>6, <2>7 DEF Delivery
<1>8. CASE recover
  <2>1. queued' = queued
    BY <1>8 DEF recover, host
  <2> QED BY <1>2, <1>8, <2>1, RecoverSilence
<1>9. CASE Environment /\ ~recover
  <2>1. UNCHANGED <<rec, fnd>> /\ queued' \subseteq queued
    BY <1>9 DEF Environment, TimePasses, Dispatched, durable, host
  <2> QED BY <1>3, <2>1
<1>10. UNCHANGED vars => UNCHANGED <<rec, fnd>> /\ queued' \subseteq queued
  BY DEF vars
<1> QED BY <1>3, <1>4, <1>6, <1>7, <1>8, <1>9, <1>10 DEF Next

\* While cancel() reads all findings of its subscription, a notification of a
\* cancelled subscription that waits in the owner's queue is marked for
\* withdrawal, also when the cancel came while ports.send was awaited.
THEOREM WithdrawalsOwed == Spec /\ []CancelFits => []WithdrawalOwed
<1>1. Init => WithdrawalOwed
  BY DEF Init, WithdrawalOwed
<1>2. OutboxInv /\ CancelFits /\ WithdrawalOwed /\ [Next]_vars => WithdrawalOwed'
  BY NextWithdraws
<1> QED BY <1>1, <1>2, OutboxInvariant, PTL DEF Spec
=============================================================================
