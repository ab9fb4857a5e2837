------------------------ MODULE RetainedStagesTheorems ------------------------
(***************************************************************************)
(* The managed candidate epoch of the analytics store implements its ledger *)
(* and the accounting is exact: for any number of threads, pages, facts and *)
(* rows per chunk, and for every request a caller may hold and repeat.      *)
(***************************************************************************)
EXTENDS RetainedStages, SequenceTheorems, FiniteSetTheorems, TLAPS

PageType == [facts : SUBSET Facts, exhausted : BOOLEAN, nth : Nat]
StageType == [state : {None, "collecting", "failed", "terminal", "alien"}, pages : Seq(PageType)]
MemberType == {NoMember} \cup [pin : {"bound", "pinned"}, rev : Nat, seen : Seq(PageType)]

\* An epoch that was opened.
IsEpoch(e) ==
    /\ DOMAIN e = {"state", "rev", "last", "cursor", "rolling", "membership", "pinCursor", "sealRolling", "pinRolling"}
    /\ e.state \in {"open", "freezing", "frozen", "sealing", "sealed"}
    /\ e.cursor \in Nat /\ e.pinCursor \in Nat
    /\ e.rolling \in Seq(Threads) /\ e.membership \in Seq(Threads) /\ e.sealRolling \in Seq(Threads)
    /\ e.pinRolling \in Seq(Threads \X Seq(PageType))

\* A request that some caller may submit.
IsRequest(r) ==
    /\ r.op = "append" => r.t \in Threads /\ r.body.facts \subseteq Facts /\ r.body.exhausted \in BOOLEAN
    /\ r.op = "pin" => r.t \in Threads /\ r.rev \in Nat

StageTyped ==
    /\ stage \in [Threads -> StageType] /\ facts \in [Threads -> SUBSET Facts]
    /\ \A t \in Threads : /\ stage[t].state = None => stage[t].pages = <<>>
                          /\ Len(stage[t].pages) <= MaxPages
EpochTyped == epoch = NoEpoch \/ IsEpoch(epoch)
Typed ==
    /\ StageTyped /\ EpochTyped /\ member \in [Threads -> MemberType] /\ IsRequest(held)

\* The rows d are those of keys up to the cursor, each once and in order.
Covers(d, keys, cursor) == Ascending(d) /\ Range(d) = {k \in keys : k <= cursor}

\* The digest of the membership has rolled over the members up to the cursor.
FreezeInv ==
    /\ epoch.state = "open" => epoch.cursor = 0
    /\ epoch.state \in {"open", "freezing"} => Covers(epoch.rolling, MemberKeys, epoch.cursor)
    /\ FrozenCoversMembers

\* The seal has passed pinned members only, and holds what they were pinned to.
SealInv ==
    epoch.state \in {"frozen", "sealing"} =>
        /\ Covers(epoch.sealRolling, MemberKeys, epoch.pinCursor)
        /\ Len(epoch.pinRolling) = Len(epoch.sealRolling)
        /\ \A i \in 1..Len(epoch.sealRolling) :
             /\ member[epoch.sealRolling[i]].pin = "pinned"
             /\ epoch.pinRolling[i] = <<epoch.sealRolling[i], member[epoch.sealRolling[i]].seen>>

StagesInv == Typed /\ OneHistory /\ FreezeInv /\ SealInv

-----------------------------------------------------------------------------
(* Chunks of rows.                                                          *)

\* What a chunk holds: the rows behind the cursor up to its last one.
LEMMA ChunkRows ==
    ASSUME NEW keys, keys \subseteq Nat, NEW cursor \in Nat, NEW c \in Chunks(keys, cursor)
    PROVE  /\ c \in Seq(keys) /\ Len(c) \in Nat \ {0} /\ DOMAIN c = 1..Len(c) /\ Ascending(c)
           /\ Last(c) \in keys /\ Last(c) > cursor
           /\ \A k : k \in Range(c) <=> k \in keys /\ k > cursor /\ k <= Last(c)
<1> DEFINE rows == RowsAfter(keys, cursor)
<1>1. PICK n \in 1..ScanLimit : c \in [1..n -> rows]
  BY DEF Chunks
<1>2. Ascending(c) /\ \A k \in rows : k > Last(c) \/ k \in Range(c)
  BY DEF Chunks
<1>3. n \in Nat /\ n > 0
  BY <1>1, StagesAssumption
<1>4. c \in Seq(rows) /\ Len(c) = n
  BY <1>1, <1>3
<1>5. rows \subseteq keys /\ \A k \in rows : k \in Nat /\ k > cursor
  BY DEF RowsAfter
<1>6. c \in Seq(keys) /\ DOMAIN c = 1..n
  BY <1>1, <1>3, <1>4, <1>5
<1>7. \A i \in 1..n : c[i] \in rows
  BY <1>1
<1>8. Last(c) = c[n] /\ c[n] \in rows
  BY <1>3, <1>4, <1>7 DEF Last
<1>9. \A i \in 1..n : c[i] <= Last(c)
  BY <1>2, <1>3, <1>5, <1>6, <1>7, <1>8 DEF Ascending
<1>10. \A k \in Range(c) : k \in rows /\ k <= Last(c)
  BY <1>6, <1>7, <1>9 DEF Range
<1>11. \A k \in keys : k > cursor => k \in rows
  BY DEF RowsAfter
<1>12. \A k \in keys : k > cursor /\ k <= Last(c) => k \in Range(c)
  <2>1. SUFFICES ASSUME NEW k \in keys, k > cursor, k <= Last(c) PROVE k \in Range(c)
    OBVIOUS
  <2>2. k \in rows /\ k \in Nat /\ Last(c) \in Nat
    BY <1>5, <1>8, <1>11, <2>1
  <2> QED BY <1>2, <2>1, <2>2
<1>13. \A k : k \in Range(c) <=> k \in keys /\ k > cursor /\ k <= Last(c)
  <2> HIDE DEF rows
  <2>1. \A k \in Range(c) : k \in keys /\ k > cursor /\ k <= Last(c)
    BY <1>5, <1>10
  <2> QED BY <1>12, <2>1
<1> HIDE DEF rows
<1>14. Len(c) \in Nat \ {0} /\ DOMAIN c = 1..Len(c)
  BY <1>3, <1>4, <1>6
<1>15. Last(c) \in keys /\ Last(c) > cursor
  BY <1>5, <1>8
<1> QED BY <1>2, <1>6, <1>13, <1>14, <1>15, Zenon

\* Rows already covered, and the next chunk.
LEMMA ChunkCovers ==
    ASSUME NEW keys, keys \subseteq Nat, NEW cursor \in Nat, NEW d \in Seq(keys), Covers(d, keys, cursor),
           NEW c \in Chunks(keys, cursor)
    PROVE  d \o c \in Seq(keys) /\ Last(c) \in Nat /\ Covers(d \o c, keys, Last(c))
<1> DEFINE e == d \o c
           last == Last(c)
<1>1. /\ c \in Seq(keys) /\ Len(c) \in Nat \ {0} /\ Ascending(c) /\ last \in keys /\ last > cursor
      /\ (\A k : k \in Range(c) <=> k \in keys /\ k > cursor /\ k <= last) /\ DOMAIN c = 1..Len(c)
  BY ChunkRows
<1> HIDE DEF last
<1>2. Len(d) \in Nat /\ DOMAIN d = 1..Len(d) /\ Ascending(d) /\ Range(d) = {k \in keys : k <= cursor}
  BY DEF Covers
<1>3. e \in Seq(keys) /\ Len(e) = Len(d) + Len(c) /\ DOMAIN e = 1..(Len(d) + Len(c))
  BY <1>1, <1>2
<1>4. \A i \in 1..Len(d) : e[i] = d[i] /\ d[i] \in keys /\ d[i] \in Nat /\ d[i] <= cursor
  <2>1. \A i \in 1..Len(d) : e[i] = d[i]
    BY <1>1, <1>2
  <2>2. \A i \in 1..Len(d) : d[i] \in Range(d)
    BY <1>2 DEF Range
  <2> QED BY <1>2, <2>1, <2>2
<1>5. \A i \in 1..Len(c) : c[i] \in keys /\ c[i] \in Nat /\ c[i] > cursor /\ c[i] <= last
  <2>1. \A i \in 1..Len(c) : c[i] \in Range(c)
    BY <1>1 DEF Range
  <2> QED BY <1>1, <2>1
<1>6. \A i \in 1..Len(e) : i > Len(d) => i - Len(d) \in 1..Len(c) /\ e[i] = c[i - Len(d)]
  BY <1>1, <1>2, <1>3
<1> HIDE DEF e
<1>7. Ascending(e)
  <2>1. SUFFICES ASSUME NEW i \in 1..Len(e), NEW j \in 1..Len(e), i < j PROVE e[i] < e[j]
    BY <1>1, <1>2, <1>3 DEF Ascending
  <2>2. CASE j <= Len(d)
    <3>1. i \in 1..Len(d) /\ j \in 1..Len(d)
      BY <1>2, <2>1, <2>2
    <3>2. e[i] = d[i] /\ e[j] = d[j]
      BY <1>4, <3>1
    <3>3. d[i] < d[j]
      BY <1>2, <2>1, <3>1 DEF Ascending
    <3> QED BY <3>2, <3>3
  <2>3. CASE i > Len(d)
    <3>1. i - Len(d) \in 1..Len(c) /\ j - Len(d) \in 1..Len(c) /\ i - Len(d) < j - Len(d)
          /\ e[i] = c[i - Len(d)] /\ e[j] = c[j - Len(d)]
      BY <1>1, <1>2, <1>3, <1>6, <2>1, <2>3
    <3> QED BY <1>1, <3>1 DEF Ascending
  <2>4. CASE i <= Len(d) /\ j > Len(d)
    <3>1. e[i] = d[i] /\ d[i] \in Nat /\ d[i] <= cursor
      BY <1>2, <1>4, <2>4
    <3>2. e[j] \in Nat /\ e[j] > cursor
      BY <1>5, <1>6, <2>4
    <3> QED BY <3>1, <3>2
  <2> QED BY <1>1, <1>2, <1>3, <2>1, <2>2, <2>3, <2>4
<1>8. Range(e) = Range(d) \cup Range(c)
  <2>1. ASSUME NEW k \in Range(e) PROVE k \in Range(d) \cup Range(c)
    <3>1. PICK i \in 1..Len(e) : k = e[i]
      BY <1>3, <2>1 DEF Range
    <3>2. CASE i <= Len(d)
      BY <1>2, <1>4, <3>1, <3>2 DEF Range
    <3>3. CASE i > Len(d)
      BY <1>1, <1>6, <3>1, <3>3 DEF Range
    <3> QED BY <1>2, <3>2, <3>3
  <2>2. ASSUME NEW k \in Range(d) PROVE k \in Range(e)
    <3>1. PICK i \in 1..Len(d) : k = d[i]
      BY <1>2, <2>2 DEF Range
    <3> QED BY <1>1, <1>2, <1>3, <1>4, <3>1 DEF Range
  <2>3. ASSUME NEW k \in Range(c) PROVE k \in Range(e)
    <3>1. PICK i \in 1..Len(c) : k = c[i]
      BY <1>1, <2>3 DEF Range
    <3>2. i + Len(d) \in 1..Len(e) /\ i + Len(d) > Len(d) /\ (i + Len(d)) - Len(d) = i
      BY <1>1, <1>2, <1>3
    <3>3. e[i + Len(d)] = c[i]
      BY <1>6, <3>2
    <3> QED BY <1>3, <3>1, <3>2, <3>3 DEF Range
  <2> QED BY <2>1, <2>2, <2>3
<1>9. Range(e) = {k \in keys : k <= last}
  <2>1. cursor \in Nat /\ last \in Nat /\ last > cursor
    BY <1>1
  <2>2. \A k \in keys : k \in Nat /\ (k <= last <=> k <= cursor \/ (k > cursor /\ k <= last))
    BY <2>1
  <2>3. \A k : k \in Range(e) <=> k \in keys /\ (k <= cursor \/ (k > cursor /\ k <= last))
    BY <1>1, <1>2, <1>8
  <2> QED BY <2>2, <2>3
<1> QED BY <1>1, <1>3, <1>7, <1>9 DEF Covers, e, last

\* Nothing is behind the cursor: all rows are covered.
LEMMA CoversAll ==
    ASSUME NEW keys, keys \subseteq Nat, NEW cursor \in Nat, NEW d, Covers(d, keys, cursor),
           RowsAfter(keys, cursor) = {}
    PROVE  Ascending(d) /\ Range(d) = keys
<1>1. \A k \in keys : k \in Nat /\ ~(k > cursor)
  BY DEF RowsAfter
<1>2. \A k \in keys : k <= cursor
  BY <1>1
<1> QED BY <1>2 DEF Covers

\* No row is covered at the start.
LEMMA CoversNone ==
    ASSUME NEW keys, keys \subseteq Nat \ {0}
    PROVE  Covers(<<>>, keys, 0)
<1>1. DOMAIN <<>> = {}
  OBVIOUS
<1>2. Ascending(<<>>) /\ Range(<<>>) = {}
  BY <1>1 DEF Ascending, Range
<1>3. \A k \in keys : ~(k <= 0)
  OBVIOUS
<1> QED BY <1>2, <1>3 DEF Covers

-----------------------------------------------------------------------------
(* What callers ask for, and steps that leave the epoch alone.              *)

\* Whoever reads the store asks for a page, a pin, a chunk of the epoch or of
\* the accounting.
LEMMA RequestsTyped ==
    ASSUME Typed, NEW r \in Requests
    PROVE  IsRequest(r)
<1>1. r \in PageRequests \/ r \in EpochRequests \/ r \in PinRequests \/ r \in AccountRequests
  BY DEF Requests
<1>2. r \in PageRequests => \E t \in Threads : \E b \in Bodies[Len(stage[t].pages) + 1] : r = PageRequest(t, b)
  BY DEF PageRequests
<1>3. r \in EpochRequests => \E o \in {"freeze", "seal"} : r = [op |-> o, rev |-> epoch.rev]
  BY DEF EpochRequests
<1>4. r \in PinRequests =>
        \E t \in Threads : member[t].pin = "bound" /\ r = [op |-> "pin", t |-> t, rev |-> member[t].rev]
  BY DEF PinRequests
<1>5. r \in AccountRequests => r = [op |-> "account", rev |-> acct.rev]
  BY DEF AccountRequests
<1>6. ASSUME NEW t \in Threads, NEW b \in Bodies[Len(stage[t].pages) + 1],
             r = PageRequest(t, b)
      PROVE  IsRequest(r)
  <2>1. Len(stage[t].pages) \in Nat /\ Len(stage[t].pages) <= MaxPages
    BY DEF Typed, StageTyped, StageType
  <2>2. Len(stage[t].pages) + 1 \in DOMAIN Bodies
    BY <2>1, StagesAssumption
  <2>3. b \in UNION Range(Bodies)
    BY <2>2 DEF Range
  <2>4. b.facts \subseteq Facts /\ b.exhausted \in BOOLEAN
    BY <2>3, StagesAssumption
  <2>5. r.op = "append" /\ r.t = t /\ r.body = b
    BY <1>6 DEF PageRequest
  <2> QED BY <2>4, <2>5 DEF IsRequest
<1>7. ASSUME NEW o \in {"freeze", "seal"}, r = [op |-> o, rev |-> epoch.rev]
      PROVE  IsRequest(r)
  BY <1>7 DEF IsRequest
<1>8. ASSUME NEW t \in Threads, member[t].pin = "bound", r = [op |-> "pin", t |-> t, rev |-> member[t].rev]
      PROVE  IsRequest(r)
  <2>1. member[t].rev \in Nat
    BY DEF Typed, MemberType, NoMember
  <2>2. r.op = "pin" /\ r.t = t /\ r.rev = member[t].rev
    BY <1>8
  <2> QED BY <2>1, <2>2 DEF IsRequest
<1>9. CASE r = [op |-> "account", rev |-> acct.rev]
  BY <1>9 DEF IsRequest
<1> QED BY <1>1, <1>2, <1>3, <1>4, <1>5, <1>6, <1>7, <1>8, <1>9

\* The tables stay as they are.
LEMMA TablesKept ==
    ASSUME StagesInv, UNCHANGED <<stage, facts, epoch, member>>, IsRequest(held')
    PROVE  StagesInv'
<1>1. MemberKeys' = MemberKeys
  BY DEF MemberKeys
<1>2. Typed' /\ OneHistory'
  BY DEF StagesInv, Typed, StageTyped, EpochTyped, OneHistory
<1>3. FreezeInv' /\ SealInv'
  BY <1>1 DEF StagesInv, FreezeInv, FrozenCoversMembers, SealInv
<1> QED BY <1>2, <1>3 DEF StagesInv

\* One stage changes, and stays a history.
LEMMA StageKept ==
    ASSUME StagesInv, NEW t \in Threads, NEW s \in StageType, NEW f \in SUBSET Facts,
           stage' = [stage EXCEPT ![t] = s], facts' = [facts EXCEPT ![t] = f],
           s.state = None => s.pages = <<>>, Len(s.pages) <= MaxPages,
           \A p \in DOMAIN s.pages : s.pages[p].nth = p,
           f = FactsOf(s.pages),
           UNCHANGED <<epoch, member>>, IsRequest(held')
    PROVE  StagesInv'
<1>1. stage \in [Threads -> StageType] /\ facts \in [Threads -> SUBSET Facts]
  BY DEF StagesInv, Typed, StageTyped
<1>2. stage' \in [Threads -> StageType] /\ facts' \in [Threads -> SUBSET Facts]
  BY <1>1
<1>3. /\ stage'[t] = s /\ facts'[t] = f
      /\ \A u \in Threads : u # t => stage'[u] = stage[u] /\ facts'[u] = facts[u]
  BY <1>1
<1>4. StageTyped'
  BY <1>2, <1>3 DEF StagesInv, Typed, StageTyped
<1>5. Typed'
  BY <1>4 DEF StagesInv, Typed, EpochTyped
<1>6. OneHistory'
  <2>1. SUFFICES ASSUME NEW u \in Threads
                 PROVE  /\ \A p \in DOMAIN stage'[u].pages : stage'[u].pages[p].nth = p
                        /\ facts'[u] = FactsOf(stage'[u].pages)
    BY DEF OneHistory
  <2>2. CASE u = t
    BY <1>3, <2>2
  <2>3. CASE u # t
    BY <1>3, <2>3 DEF StagesInv, OneHistory
  <2> QED BY <2>2, <2>3
<1>7. MemberKeys' = MemberKeys
  BY DEF MemberKeys
<1>8. FreezeInv' /\ SealInv'
  BY <1>7 DEF StagesInv, FreezeInv, FrozenCoversMembers, SealInv
<1> QED BY <1>5, <1>6, <1>8 DEF StagesInv

\* A stage is opened, fails, goes on or is closed: its pages stay.
LEMMA StateHolds ==
    ASSUME StagesInv, NEW t \in Threads,
           NEW x \in {"collecting", "failed", "terminal"},
           stage' = [stage EXCEPT ![t] = [stage[t] EXCEPT !.state = x]],
           UNCHANGED <<facts, epoch, member>>, IsRequest(held')
    PROVE  StagesInv'
<1> DEFINE s == [stage[t] EXCEPT !.state = x]
<1>1. stage[t] \in StageType /\ facts \in [Threads -> SUBSET Facts] /\ Len(stage[t].pages) <= MaxPages
  BY DEF StagesInv, Typed, StageTyped
<1>2. s \in StageType /\ s.state = x /\ s.pages = stage[t].pages
  BY <1>1 DEF StageType
<1>3. s.state # None /\ Len(s.pages) <= MaxPages
  BY <1>1, <1>2 DEF None
<1>4. /\ \A p \in DOMAIN stage[t].pages : stage[t].pages[p].nth = p
      /\ facts[t] = FactsOf(stage[t].pages)
  BY DEF StagesInv, OneHistory
<1>5. facts' = [facts EXCEPT ![t] = facts[t]] /\ facts[t] \in SUBSET Facts
  BY <1>1
<1>6. stage' = [stage EXCEPT ![t] = s]
  OBVIOUS
<1> HIDE DEF s
<1>7. /\ \A p \in DOMAIN s.pages : s.pages[p].nth = p
      /\ facts[t] = FactsOf(s.pages)
  BY <1>2, <1>4
<1> QED BY <1>2, <1>3, <1>5, <1>6, <1>7, StageKept

-----------------------------------------------------------------------------
(* The actions on stages.                                                   *)

\* A stage is opened.
LEMMA OpenStageHolds ==
    ASSUME StagesInv, NEW t \in Threads, openRetainedProjectionStage(t)
    PROVE  StagesInv'
<1> DEFINE s == [state |-> "collecting", pages |-> <<>>]
<1>1. s \in StageType /\ s.state # None /\ s.pages = <<>>
  BY DEF StageType, None
<1>2. stage[t].pages = <<>>
  BY DEF openRetainedProjectionStage, Opened, StagesInv, Typed, StageTyped
<1>3. facts[t] = FactsOf(s.pages)
  BY <1>1, <1>2 DEF StagesInv, OneHistory
<1>4. facts \in [Threads -> SUBSET Facts]
  BY DEF StagesInv, Typed, StageTyped
<1>5. stage' = [stage EXCEPT ![t] = s] /\ UNCHANGED <<facts, epoch, member, held>>
  BY DEF openRetainedProjectionStage
<1> HIDE DEF s
<1>6. facts' = [facts EXCEPT ![t] = facts[t]] /\ facts[t] \in SUBSET Facts
  BY <1>4, <1>5
<1>7. Len(s.pages) <= MaxPages /\ \A p \in DOMAIN s.pages : s.pages[p].nth = p
  BY <1>1, StagesAssumption
<1>8. IsRequest(held')
  BY <1>5 DEF StagesInv, Typed
<1> QED BY <1>1, <1>3, <1>5, <1>6, <1>7, <1>8, StageKept

\* The pages with another behind them.
LEMMA PageAppended ==
    ASSUME NEW l \in Seq(PageType), NEW p \in PageType
    PROVE  /\ Append(l, p) \in Seq(PageType) /\ Len(Append(l, p)) = Len(l) + 1
           /\ \A i \in 1..Len(l) : Append(l, p)[i] = l[i]
           /\ Append(l, p)[Len(l) + 1] = p
           /\ Range(Append(l, p)) = Range(l) \cup {p}
           /\ FactsOf(Append(l, p)) = FactsOf(l) \cup p.facts
<1> DEFINE m == Append(l, p)
<1>1. /\ m \in Seq(PageType) /\ Len(m) = Len(l) + 1 /\ Len(l) \in Nat
      /\ \A i \in 1..Len(l) : m[i] = l[i]
      /\ m[Len(l) + 1] = p
  OBVIOUS
<1>2. DOMAIN l = 1..Len(l) /\ DOMAIN m = 1..(Len(l) + 1)
  BY <1>1
<1> HIDE DEF m
<1>3. \A i \in DOMAIN m : i \in DOMAIN l \/ i = Len(l) + 1
  BY <1>1, <1>2
<1>4. Range(m) = Range(l) \cup {p}
  <2>1. Len(l) + 1 \in DOMAIN m /\ \A i \in DOMAIN l : i \in DOMAIN m
    BY <1>1, <1>2
  <2> QED BY <1>1, <1>2, <1>3, <2>1 DEF Range
<1>5. FactsOf(m) = FactsOf(l) \cup p.facts
  <2>1. \A k \in Seq(PageType) : \A x : x \in FactsOf(k) <=> \E q \in Range(k) : x \in q.facts
    BY DEF FactsOf
  <2>2. \A x : (\E q \in Range(m) : x \in q.facts) <=> (\E q \in Range(l) : x \in q.facts) \/ x \in p.facts
    BY <1>4
  <2>3. \A x : x \in FactsOf(m) <=> x \in FactsOf(l) \/ x \in p.facts
    BY <1>1, <2>1, <2>2
  <2> QED BY <2>3
<1> QED BY <1>1, <1>4, <1>5 DEF m

\* A page is staged, or the stage closes over its budget.
LEMMA AppendHolds ==
    ASSUME StagesInv, NEW r, IsRequest(r), r.op = "append", appendRetainedProjectionStagePage(r),
           IsRequest(held')
    PROVE  StagesInv'
<1> DEFINE t == r.t
<1>1. t \in Threads /\ r.body.facts \subseteq Facts /\ r.body.exhausted \in BOOLEAN
  BY DEF IsRequest
<1>2. CASE closeRetainedProjectionBudget(t)
  BY <1>1, <1>2, StateHolds DEF appendRetainedProjectionStagePage, closeRetainedProjectionBudget
<1>3. CASE /\ Len(stage[t].pages) < MaxPages
           /\ stage' = [stage EXCEPT ![t].pages =
                  Append(@, [facts |-> r.body.facts, exhausted |-> r.body.exhausted, nth |-> Len(r.after) + 1])]
           /\ facts' = [facts EXCEPT ![t] = @ \cup r.body.facts]
  <2> DEFINE p == [facts |-> r.body.facts, exhausted |-> r.body.exhausted, nth |-> Len(r.after) + 1]
             l == stage[t].pages
             s == [stage[t] EXCEPT !.pages = Append(l, p)]
             f == facts[t] \cup r.body.facts
  <2>1. r.after = l
    BY DEF appendRetainedProjectionStagePage, InOrder
  <2>2. stage[t] \in StageType /\ l \in Seq(PageType) /\ Len(l) \in Nat /\ facts[t] \in SUBSET Facts
    BY <1>1 DEF StagesInv, Typed, StageTyped, StageType
  <2>3. p \in PageType /\ p.facts = r.body.facts /\ p.nth = Len(l) + 1
    BY <1>1, <2>1, <2>2 DEF PageType
  <2>4. stage' = [stage EXCEPT ![t] = s] /\ facts' = [facts EXCEPT ![t] = f]
    BY <1>3
  <2> HIDE DEF p
  <2>5. /\ Append(l, p) \in Seq(PageType) /\ Len(Append(l, p)) = Len(l) + 1
        /\ \A i \in 1..Len(l) : Append(l, p)[i] = l[i]
        /\ Append(l, p)[Len(l) + 1] = p
        /\ FactsOf(Append(l, p)) = FactsOf(l) \cup p.facts
    BY <2>2, <2>3, PageAppended
  <2>6. s \in StageType /\ s.pages = Append(l, p) /\ s.state = stage[t].state
    BY <2>2, <2>5 DEF StageType
  <2>7. s.state # None
    BY <2>6 DEF appendRetainedProjectionStagePage, None
  <2>8. Len(s.pages) <= MaxPages
    BY <1>3, <2>2, <2>5, <2>6, StagesAssumption
  <2>9. \A i \in 1..Len(l) : l[i].nth = i
    BY <1>1, <2>2 DEF StagesInv, OneHistory
  <2>10. \A i \in DOMAIN s.pages : s.pages[i].nth = i
    <3>1. SUFFICES ASSUME NEW i \in 1..(Len(l) + 1) PROVE Append(l, p)[i].nth = i
      BY <2>5, <2>6
    <3>2. CASE i <= Len(l)
      BY <2>2, <2>5, <2>9, <3>2
    <3>3. CASE i = Len(l) + 1
      BY <2>3, <2>5, <3>3
    <3> QED BY <2>2, <3>2, <3>3
  <2>11. f \in SUBSET Facts
    BY <1>1, <2>2
  <2>12. f = FactsOf(s.pages)
    <3>1. facts[t] = FactsOf(l)
      BY <1>1 DEF StagesInv, OneHistory
    <3>2. f = FactsOf(Append(l, p))
      BY <2>3, <2>5, <3>1
    <3> QED BY <2>6, <3>2
  <2>13. UNCHANGED <<epoch, member>>
    BY DEF appendRetainedProjectionStagePage
  <2> HIDE DEF s, f, t
  <2> QED BY <1>1, <2>4, <2>6, <2>7, <2>8, <2>10, <2>11, <2>12, <2>13, StageKept
<1> QED BY <1>2, <1>3 DEF appendRetainedProjectionStagePage

\* A stage fails, goes on, or reaches the limit of pages.
LEMMA MoveStageHolds ==
    ASSUME StagesInv, NEW t \in Threads,
           \/ failRetainedProjectionStage(t) \/ resumeRetainedProjectionStage(t)
           \/ closeRetainedProjectionStageAtPageLimit(t)
    PROVE  StagesInv'
<1>1. UNCHANGED <<facts, epoch, member, held>>
  BY DEF failRetainedProjectionStage, resumeRetainedProjectionStage, closeRetainedProjectionStageAtPageLimit
<1>2. IsRequest(held')
  BY <1>1 DEF StagesInv, Typed
<1>3. \E x \in {"collecting", "failed", "terminal"} : stage' = [stage EXCEPT ![t] = [stage[t] EXCEPT !.state = x]]
  BY DEF failRetainedProjectionStage, resumeRetainedProjectionStage, closeRetainedProjectionStageAtPageLimit
<1> QED BY <1>1, <1>2, <1>3, StateHolds

-----------------------------------------------------------------------------
(* The actions on the epoch.                                                *)

\* The members are threads, and so rows in the order of numbers.
LEMMA MembersAreRows == MemberKeys \subseteq Threads /\ MemberKeys \subseteq Nat \ {0}
BY StagesAssumption DEF MemberKeys

\* The epoch is opened, with the members there are.
LEMMA OpenEpochHolds ==
    ASSUME StagesInv, openRetainedCandidateEpoch
    PROVE  StagesInv'
<1>1. UNCHANGED <<stage, facts, member, held>>
  BY DEF openRetainedCandidateEpoch
<1>2. epoch'.state = "open" /\ epoch'.cursor = 0 /\ epoch'.rolling = <<>> /\ IsEpoch(epoch')
  BY DEF openRetainedCandidateEpoch, IsEpoch
<1>3. MemberKeys' = MemberKeys
  BY <1>1 DEF MemberKeys
<1>4. FreezeInv'
  BY <1>2, <1>3, CoversNone, MembersAreRows DEF FreezeInv, FrozenCoversMembers
<1>5. SealInv'
  BY <1>2 DEF SealInv
<1>6. Typed' /\ OneHistory'
  BY <1>1, <1>2 DEF StagesInv, Typed, StageTyped, EpochTyped, OneHistory
<1> QED BY <1>4, <1>5, <1>6 DEF StagesInv

\* A member is bound before the first chunk is read.
LEMMA BindHolds ==
    ASSUME StagesInv, NEW t \in Threads, bindRetainedCandidateMember(t)
    PROVE  StagesInv'
<1> DEFINE q == [pin |-> "bound", rev |-> 0, seen |-> <<>>]
<1>1. epoch.state = "open" /\ epoch # NoEpoch /\ IsEpoch(epoch)
  BY DEF bindRetainedCandidateMember, Bindable, StagesInv, Typed, EpochTyped, NoEpoch, None
<1>2. q \in MemberType /\ q # NoMember
  BY DEF MemberType, NoMember, None
<1>3. /\ member' = [member EXCEPT ![t] = q]
      /\ epoch' = [epoch EXCEPT !.rev = @ + 1, !.last = [op |-> "bind", t |-> t]]
      /\ UNCHANGED <<stage, facts, held>>
  BY DEF bindRetainedCandidateMember
<1> HIDE DEF q
<1>4. member \in [Threads -> MemberType] /\ member' \in [Threads -> MemberType]
  BY <1>2, <1>3 DEF StagesInv, Typed
<1>5. /\ IsEpoch(epoch') /\ epoch'.state = "open"
      /\ epoch'.cursor = epoch.cursor /\ epoch'.rolling = epoch.rolling
  BY <1>1, <1>3 DEF IsEpoch
<1>6. MemberKeys' = MemberKeys \cup {t}
  BY <1>2, <1>3, <1>4 DEF MemberKeys
<1>7. epoch.cursor = 0 /\ Covers(epoch.rolling, MemberKeys, 0)
  BY <1>1 DEF StagesInv, FreezeInv
<1>8. Covers(epoch.rolling, MemberKeys', 0)
  <2>1. t \in Nat \ {0}
    BY StagesAssumption
  <2> QED BY <1>6, <1>7, <2>1 DEF Covers
<1>9. FreezeInv'
  BY <1>5, <1>7, <1>8 DEF FreezeInv, FrozenCoversMembers
<1>10. SealInv'
  BY <1>5 DEF SealInv
<1>11. Typed' /\ OneHistory'
  BY <1>3, <1>4, <1>5 DEF StagesInv, Typed, StageTyped, EpochTyped, OneHistory
<1> QED BY <1>9, <1>10, <1>11 DEF StagesInv

\* An epoch that moved, with its members as they were.
LEMMA EpochMoved ==
    ASSUME StagesInv, UNCHANGED <<stage, facts, member>>, IsRequest(held'), IsEpoch(epoch'),
           FreezeInv', SealInv'
    PROVE  StagesInv'
<1>1. Typed' /\ OneHistory'
  BY DEF StagesInv, Typed, StageTyped, EpochTyped, OneHistory
<1> QED BY <1>1 DEF StagesInv

\* Member keys, one after another, are threads.
LEMMA MembersAreThreads ==
    ASSUME NEW d \in Seq(MemberKeys)
    PROVE  d \in Seq(Threads)
<1>1. \A i \in 1..Len(d) : d[i] \in MemberKeys
  OBVIOUS
<1>2. \A k \in MemberKeys : k \in Threads
  BY MembersAreRows
<1>3. \A i \in 1..Len(d) : d[i] \in Threads
  BY <1>1, <1>2
<1> QED BY <1>3

\* Rows covered are rows.
LEMMA CoveredRows ==
    ASSUME NEW keys, NEW S, NEW d \in Seq(S), NEW cursor, Covers(d, keys, cursor)
    PROVE  d \in Seq(keys)
<1>1. DOMAIN d = 1..Len(d) /\ Len(d) \in Nat
  OBVIOUS
<1>2. \A i \in 1..Len(d) : d[i] \in Range(d)
  BY <1>1 DEF Range
<1>3. \A k \in Range(d) : k \in keys
  BY DEF Covers
<1>4. \A i \in 1..Len(d) : d[i] \in keys
  BY <1>2, <1>3
<1> QED BY <1>1, <1>4

\* A chunk of the members, or the end of the freeze.
LEMMA FreezeHolds ==
    ASSUME StagesInv, NEW r, freezeRetainedCandidateEpoch(r), IsRequest(held')
    PROVE  StagesInv'
<1>1. /\ epoch.state \in {"open", "freezing"} /\ IsEpoch(epoch) /\ UNCHANGED <<stage, facts, member>>
      /\ MemberKeys' = MemberKeys
  BY DEF freezeRetainedCandidateEpoch, StagesInv, Typed, EpochTyped, MemberKeys
<1>2. Covers(epoch.rolling, MemberKeys, epoch.cursor) /\ epoch.cursor \in Nat /\ MemberKeys \subseteq Nat
  BY <1>1, MembersAreRows DEF StagesInv, FreezeInv, IsEpoch
<1>3. epoch.rolling \in Seq(MemberKeys)
  BY <1>1, <1>2, CoveredRows DEF IsEpoch
<1>4. CASE /\ RowsAfter(MemberKeys, epoch.cursor) = {}
           /\ epoch' = [Advanced(r) EXCEPT !.state = "frozen", !.membership = epoch.rolling,
                                           !.cursor = 0, !.pinCursor = 0, !.sealRolling = <<>>, !.pinRolling = <<>>]
  <2>1. /\ epoch'.state = "frozen" /\ epoch'.membership = epoch.rolling
        /\ epoch'.pinCursor = 0 /\ epoch'.sealRolling = <<>> /\ epoch'.pinRolling = <<>>
        /\ IsEpoch(epoch')
    BY <1>1, <1>4 DEF IsEpoch, Advanced
  <2>2. Ascending(epoch.rolling) /\ Range(epoch.rolling) = MemberKeys
    BY <1>2, <1>4, CoversAll
  <2>3. FreezeInv'
    BY <1>1, <2>1, <2>2 DEF FreezeInv, FrozenCoversMembers
  <2>4. SealInv'
    <3>1. Covers(<<>>, MemberKeys, 0)
      BY CoversNone, MembersAreRows
    <3>2. Len(<<>>) = 0
      OBVIOUS
    <3> QED BY <1>1, <2>1, <3>1, <3>2 DEF SealInv
  <2> QED BY <1>1, <2>1, <2>3, <2>4, EpochMoved
<1>5. ASSUME NEW c \in Chunks(MemberKeys, epoch.cursor),
             epoch' = [Advanced(r) EXCEPT !.state = "freezing", !.rolling = @ \o c, !.cursor = Last(c)]
      PROVE  StagesInv'
  <2> DEFINE d == epoch.rolling \o c
  <2>1. d \in Seq(MemberKeys) /\ Last(c) \in Nat /\ Covers(d, MemberKeys, Last(c))
    BY <1>2, <1>3, ChunkCovers
  <2>2. d \in Seq(Threads)
    BY <2>1, MembersAreThreads
  <2>3. epoch'.state = "freezing" /\ epoch'.rolling = d /\ epoch'.cursor = Last(c) /\ IsEpoch(epoch')
    <3> HIDE DEF d
    <3>1. epoch' = [Advanced(r) EXCEPT !.state = "freezing", !.rolling = d, !.cursor = Last(c)]
      BY <1>1, <1>5 DEF IsEpoch, Advanced, d
    <3> QED BY <1>1, <2>1, <2>2, <3>1 DEF IsEpoch, Advanced
  <2>4. FreezeInv'
    BY <1>1, <2>1, <2>3 DEF FreezeInv, FrozenCoversMembers
  <2>5. SealInv'
    BY <2>3 DEF SealInv
  <2> QED BY <1>1, <2>3, <2>4, <2>5, EpochMoved
<1> QED BY <1>4, <1>5 DEF freezeRetainedCandidateEpoch

\* A chunk of the seal, its start or its end.
LEMMA SealHolds ==
    ASSUME StagesInv, NEW r, sealRetainedCandidateEpoch(r), IsRequest(held')
    PROVE  StagesInv'
<1>1. /\ epoch.state \in {"frozen", "sealing"} /\ IsEpoch(epoch) /\ UNCHANGED <<stage, facts, member>>
      /\ MemberKeys' = MemberKeys
  BY DEF sealRetainedCandidateEpoch, StagesInv, Typed, EpochTyped, MemberKeys
<1>2. /\ Covers(epoch.sealRolling, MemberKeys, epoch.pinCursor) /\ epoch.pinCursor \in Nat
      /\ MemberKeys \subseteq Nat /\ epoch.sealRolling \in Seq(MemberKeys)
  BY <1>1, MembersAreRows, CoveredRows DEF StagesInv, SealInv, IsEpoch
<1>3. Ascending(epoch.membership) /\ Range(epoch.membership) = MemberKeys
  BY <1>1 DEF StagesInv, FreezeInv, FrozenCoversMembers
<1>4. ASSUME epoch'.state \in {"frozen", "sealing", "sealed"}, epoch'.membership = epoch.membership
      PROVE  FreezeInv'
  BY <1>1, <1>3, <1>4 DEF FreezeInv, FrozenCoversMembers
<1>5. CASE epoch' = [Advanced(r) EXCEPT !.state = "sealing", !.pinCursor = 0, !.sealRolling = <<>>, !.pinRolling = <<>>]
  <2>1. /\ epoch'.state = "sealing" /\ epoch'.membership = epoch.membership /\ IsEpoch(epoch')
        /\ epoch'.pinCursor = 0 /\ epoch'.sealRolling = <<>> /\ epoch'.pinRolling = <<>>
    BY <1>1, <1>5 DEF IsEpoch, Advanced
  <2>2. SealInv'
    <3>1. Covers(<<>>, MemberKeys, 0) /\ Len(<<>>) = 0
      BY CoversNone, MembersAreRows
    <3> QED BY <1>1, <2>1, <3>1 DEF SealInv
  <2> QED BY <1>1, <1>4, <2>1, <2>2, EpochMoved
<1>6. CASE epoch' = [Advanced(r) EXCEPT !.state = "sealed", !.pinCursor = 0]
  <2>1. epoch'.state = "sealed" /\ epoch'.membership = epoch.membership /\ IsEpoch(epoch')
    BY <1>1, <1>6 DEF IsEpoch, Advanced
  <2>2. SealInv'
    BY <2>1 DEF SealInv
  <2> QED BY <1>1, <1>4, <2>1, <2>2, EpochMoved
<1>7. ASSUME epoch.state = "sealing", NEW c \in Chunks(MemberKeys, epoch.pinCursor), Sealable(c),
             epoch' = [Advanced(r) EXCEPT
                     !.sealRolling = @ \o c, !.pinCursor = Last(c),
                     !.pinRolling = @ \o [i \in DOMAIN c |-> <<c[i], member[c[i]].seen>>]]
      PROVE  StagesInv'
  <2> DEFINE T == Threads \X Seq(PageType)
             f == [t \in Threads |-> <<t, member[t].seen>>]
             d == epoch.sealRolling
             b == d \o c
             x == [i \in DOMAIN c |-> f[c[i]]]
             e == epoch.pinRolling \o x
  <2>1. b \in Seq(MemberKeys) /\ Last(c) \in Nat /\ Covers(b, MemberKeys, Last(c))
    BY <1>2, ChunkCovers
  <2>2. c \in Seq(MemberKeys) /\ Len(c) \in Nat /\ DOMAIN c = 1..Len(c)
    BY <1>2, ChunkRows
  <2>3. c \in Seq(Threads) /\ d \in Seq(Threads) /\ b \in Seq(Threads)
    BY <1>2, <2>1, <2>2, MembersAreThreads
  <2>4. \A t \in Threads : f[t] = <<t, member[t].seen>> /\ (member[t].pin = "pinned" => f[t] \in T)
    BY DEF StagesInv, Typed, MemberType, NoMember, None
  <2>5. \A i \in 1..Len(c) : member[c[i]].pin = "pinned" /\ c[i] \in Threads
    BY <1>7, <2>2, <2>3 DEF Sealable, Range
  <2>6. /\ epoch.pinRolling \in Seq(T) /\ Len(epoch.pinRolling) = Len(d)
        /\ \A i \in 1..Len(d) : member[d[i]].pin = "pinned" /\ epoch.pinRolling[i] = f[d[i]]
    <3>1. epoch.pinRolling \in Seq(T) /\ Len(epoch.pinRolling) = Len(d)
      BY <1>1 DEF StagesInv, SealInv, IsEpoch
    <3>2. \A i \in 1..Len(d) : member[d[i]].pin = "pinned" /\ epoch.pinRolling[i] = <<d[i], member[d[i]].seen>>
      BY <1>1 DEF StagesInv, SealInv
    <3>3. \A i \in 1..Len(d) : d[i] \in Threads
      BY <2>3
    <3> HIDE DEF T, f
    <3> QED BY <2>4, <3>1, <3>2, <3>3
  <2>7. x = [i \in DOMAIN c |-> <<c[i], member[c[i]].seen>>]
    BY <2>2, <2>4, <2>5
  <2>8. x \in Seq(T) /\ Len(x) = Len(c) /\ \A i \in 1..Len(c) : x[i] = f[c[i]]
    <3> HIDE DEF T, f
    <3> QED BY <2>2, <2>4, <2>5
  <2> HIDE DEF T, f, x
  <2>9. e \in Seq(T) /\ Len(e) = Len(b) /\ \A i \in 1..Len(b) : e[i] = f[b[i]]
    <3> DEFINE o == epoch.pinRolling
    <3>1. o \in Seq(T) /\ Len(o) = Len(d) /\ \A i \in 1..Len(d) : o[i] = f[d[i]]
      BY <2>6
    <3>2. d \in Seq(Threads) /\ c \in Seq(Threads) /\ x \in Seq(T)
      BY <2>3, <2>8
    <3>3. Len(x) = Len(c) /\ \A i \in 1..Len(c) : x[i] = f[c[i]]
      BY <2>8
    <3> HIDE DEF o, d
    <3>4. o \o x \in Seq(T) /\ Len(o \o x) = Len(d) + Len(c) /\ Len(b) = Len(d) + Len(c)
      <4>1. o \o x \in Seq(T) /\ Len(o \o x) = Len(o) + Len(x)
        BY <3>1, <3>2, ConcatProperties
      <4>2. Len(b) = Len(d) + Len(c)
        BY <3>2, ConcatProperties
      <4> QED BY <3>1, <3>3, <4>1, <4>2
    <3>5. Len(d) \in Nat /\ Len(c) \in Nat
      BY <3>2
    <3>6. ASSUME NEW i \in 1..(Len(d) + Len(c)) PROVE (o \o x)[i] = f[b[i]]
      <4>1. CASE i <= Len(d)
        <5>1. i \in 1..Len(d) /\ (o \o x)[i] = o[i] /\ b[i] = d[i]
          BY <3>1, <3>2, <3>3, <3>5, <4>1, ConcatProperties
        <5> QED BY <3>1, <5>1
      <4>2. CASE i > Len(d)
        <5>1. i - Len(d) \in 1..Len(c)
          BY <3>5, <4>2
        <5>2. (o \o x)[i] = x[i - Len(d)] /\ b[i] = c[i - Len(d)]
          BY <3>1, <3>2, <3>3, <3>5, <4>2, ConcatProperties
        <5> QED BY <3>3, <5>1, <5>2
      <4>3. i <= Len(d) \/ i > Len(d)
        BY <3>5
      <4> QED BY <4>1, <4>2, <4>3, Zenon
    <3>7. e = o \o x
      BY DEF o
    <3> HIDE DEF b, e
    <3>8. 1..Len(b) = 1..(Len(d) + Len(c)) /\ Len(o \o x) = Len(b)
      BY <3>4
    <3>9. \A i \in 1..Len(b) : (o \o x)[i] = f[b[i]]
      BY <3>6, <3>8, Zenon
    <3> QED BY <3>4, <3>7, <3>8, <3>9, Zenon
  <2>10. epoch' = [Advanced(r) EXCEPT !.sealRolling = b, !.pinCursor = Last(c), !.pinRolling = e]
    BY <1>1, <1>7, <2>7 DEF IsEpoch, Advanced
  <2>11. \A i \in 1..Len(b) : b[i] \in Threads /\ member[b[i]].pin = "pinned"
    <3>1. SUFFICES ASSUME NEW i \in 1..Len(b) PROVE member[b[i]].pin = "pinned"
      BY <2>3
    <3>2. CASE i <= Len(d)
      BY <2>3, <2>6, <3>2
    <3>3. CASE i > Len(d)
      <4>1. i - Len(d) \in 1..Len(c) /\ b[i] = c[i - Len(d)]
        BY <2>3, <3>3
      <4> QED BY <2>5, <4>1
    <3> QED BY <2>3, <3>2, <3>3
  <2> HIDE DEF b, e
  <2>12. /\ epoch'.state = "sealing" /\ epoch'.membership = epoch.membership /\ IsEpoch(epoch')
         /\ epoch'.sealRolling = b /\ epoch'.pinCursor = Last(c) /\ epoch'.pinRolling = e
    BY <1>1, <1>7, <2>1, <2>3, <2>9, <2>10 DEF IsEpoch, Advanced, T
  <2>13. SealInv'
    BY <1>1, <2>1, <2>4, <2>9, <2>11, <2>12 DEF SealInv
  <2> QED BY <1>1, <1>4, <2>12, <2>13, EpochMoved
<1> QED BY <1>1, <1>5, <1>6, <1>7 DEF sealRetainedCandidateEpoch

\* A member is pinned: it is none of those the seal has passed.
LEMMA PinHolds ==
    ASSUME StagesInv, NEW r, IsRequest(r), r.op = "pin", pinRetainedCandidateMember(r), IsRequest(held')
    PROVE  StagesInv'
<1> DEFINE t == r.t
           q == [pin |-> "pinned", rev |-> r.rev + 1, seen |-> stage[t].pages]
<1>1. epoch.state \in {"frozen", "sealing"} /\ IsEpoch(epoch) /\ member[t].pin = "bound"
  BY DEF pinRetainedCandidateMember, StagesInv, Typed, EpochTyped
<1>2. t \in Threads /\ r.rev \in Nat
  BY DEF IsRequest
<1>3. stage[t].pages \in Seq(PageType)
  BY <1>2 DEF StagesInv, Typed, StageTyped, StageType
<1>4. q \in MemberType /\ q # NoMember
  BY <1>2, <1>3 DEF MemberType, NoMember, None
<1>5. /\ member' = [member EXCEPT ![t] = q]
      /\ epoch' = [epoch EXCEPT !.state = "sealing", !.rev = @ + 1, !.last = r]
      /\ UNCHANGED <<stage, facts>>
  BY DEF pinRetainedCandidateMember
<1> HIDE DEF q
<1>6. member \in [Threads -> MemberType] /\ member' \in [Threads -> MemberType]
  BY <1>2, <1>4, <1>5 DEF StagesInv, Typed
<1>7. \A u \in Threads : u # t => member'[u] = member[u]
  BY <1>5, <1>6
<1>8. MemberKeys' = MemberKeys
  <2>1. member[t] # NoMember
    BY <1>1 DEF NoMember, None
  <2>2. member'[t] # NoMember
    BY <1>2, <1>4, <1>5, <1>6
  <2> QED BY <1>2, <1>7, <2>1, <2>2 DEF MemberKeys
<1>9. /\ IsEpoch(epoch') /\ epoch'.state = "sealing" /\ epoch'.membership = epoch.membership
      /\ epoch'.sealRolling = epoch.sealRolling /\ epoch'.pinRolling = epoch.pinRolling
      /\ epoch'.pinCursor = epoch.pinCursor
  BY <1>1, <1>5 DEF IsEpoch
<1>10. FreezeInv'
  BY <1>1, <1>8, <1>9 DEF StagesInv, FreezeInv, FrozenCoversMembers
<1>11. SealInv'
  <2>1. \A i \in 1..Len(epoch.sealRolling) : epoch.sealRolling[i] \in Threads /\ member[epoch.sealRolling[i]].pin = "pinned"
    BY <1>1 DEF StagesInv, SealInv, IsEpoch
  <2>2. \A i \in 1..Len(epoch.sealRolling) : member'[epoch.sealRolling[i]] = member[epoch.sealRolling[i]]
    BY <1>1, <1>7, <2>1
  <2> QED BY <1>1, <1>8, <1>9, <2>2 DEF StagesInv, SealInv
<1>12. Typed' /\ OneHistory'
  BY <1>5, <1>6, <1>9 DEF StagesInv, Typed, StageTyped, EpochTyped, OneHistory
<1> QED BY <1>10, <1>11, <1>12 DEF StagesInv

-----------------------------------------------------------------------------
(* The invariant.                                                           *)

\* Any request, now or late.
LEMMA ExecuteHolds ==
    ASSUME StagesInv, NEW r, IsRequest(r), Execute(r), UNCHANGED held
    PROVE  StagesInv'
<1>1. IsRequest(held')
  BY DEF StagesInv, Typed
<1>2. CASE r.op = "append" /\ appendRetainedProjectionStagePage(r)
  BY <1>1, <1>2, AppendHolds
<1>3. CASE freezeRetainedCandidateEpoch(r)
  BY <1>1, <1>3, FreezeHolds
<1>4. CASE sealRetainedCandidateEpoch(r)
  BY <1>1, <1>4, SealHolds
<1>5. CASE r.op = "pin" /\ pinRetainedCandidateMember(r)
  BY <1>1, <1>5, PinHolds
<1>6. CASE advanceRetainedStageAccounting(r)
  BY <1>1, <1>6, TablesKept DEF advanceRetainedStageAccounting
<1> QED BY <1>2, <1>3, <1>4, <1>5, <1>6 DEF Execute

\* A database of an earlier version.
LEMMA InitStages == Init => StagesInv
<1>1. SUFFICES ASSUME Init PROVE StagesInv
  OBVIOUS
<1> DEFINE first(b) == [facts |-> b.facts, exhausted |-> b.exhausted, nth |-> 1]
<1>2. ASSUME NEW t \in Threads
      PROVE  /\ stage[t] \in StageType /\ facts[t] \in SUBSET Facts
             /\ stage[t].state = None => stage[t].pages = <<>>
             /\ Len(stage[t].pages) <= MaxPages
             /\ \A p \in DOMAIN stage[t].pages : stage[t].pages[p].nth = p
             /\ facts[t] = FactsOf(stage[t].pages)
  <2>1. CASE stage[t].pages = <<>> /\ stage[t].state \in {None, "collecting", "alien"}
             /\ stage[t] = [state |-> stage[t].state, pages |-> <<>>]
    <3>1. facts[t] = {}
      BY <1>1, <2>1 DEF Init
    <3>2. FactsOf(<<>>) = {} /\ <<>> \in Seq(PageType) /\ Len(<<>>) = 0 /\ DOMAIN <<>> = {}
      BY DEF FactsOf, Range
    <3>3. stage[t] \in StageType
      BY <2>1, <3>2 DEF StageType
    <3> QED BY <2>1, <3>1, <3>2, <3>3, StagesAssumption
  <2>2. ASSUME NEW b \in Bodies[1], stage[t] = [state |-> "collecting", pages |-> <<first(b)>>]
        PROVE  /\ stage[t] \in StageType /\ facts[t] \in SUBSET Facts
               /\ stage[t].state # None /\ Len(stage[t].pages) <= MaxPages
               /\ \A p \in DOMAIN stage[t].pages : stage[t].pages[p].nth = p
               /\ facts[t] = FactsOf(stage[t].pages)
    <3>1. b \in UNION Range(Bodies)
      <4>1. 1 \in DOMAIN Bodies
        BY StagesAssumption
      <4> QED BY <4>1 DEF Range
    <3>2. b.facts \subseteq Facts /\ b.exhausted \in BOOLEAN
      BY <3>1, StagesAssumption
    <3> DEFINE p == first(b)
    <3>3. p \in PageType /\ p.nth = 1 /\ p.facts = b.facts
      BY <3>2 DEF PageType
    <3> HIDE DEF p
    <3>4. stage[t].pages = <<p>> /\ stage[t].state = "collecting" /\ stage[t] = [state |-> "collecting", pages |-> <<p>>]
      BY <2>2 DEF p
    <3>5. <<p>> \in Seq(PageType) /\ Len(<<p>>) = 1 /\ DOMAIN <<p>> = {1} /\ <<p>>[1] = p /\ <<p>> # <<>>
      BY <3>3
    <3>6. stage[t] \in StageType
      BY <3>4, <3>5 DEF StageType
    <3>7. facts[t] = p.facts
      BY <1>1, <3>4, <3>5 DEF Init
    <3>8. FactsOf(<<p>>) = p.facts
      <4>1. Range(<<p>>) = {p}
        BY <3>5 DEF Range
      <4>2. \A x : x \in FactsOf(<<p>>) <=> \E q \in Range(<<p>>) : x \in q.facts
        BY DEF FactsOf
      <4>3. \A x : x \in FactsOf(<<p>>) <=> x \in p.facts
        BY <4>1, <4>2
      <4> QED BY <4>3
    <3>9. Len(stage[t].pages) <= MaxPages
      BY <3>4, <3>5, StagesAssumption
    <3> QED BY <3>2, <3>3, <3>4, <3>5, <3>6, <3>7, <3>8, <3>9 DEF None
  <2>3. \/ stage[t] = NoStage \/ stage[t] = [state |-> "collecting", pages |-> <<>>]
        \/ stage[t] = [state |-> "alien", pages |-> <<>>]
        \/ \E b \in Bodies[1] : stage[t] = [state |-> "collecting", pages |-> <<first(b)>>]
    BY <1>1 DEF Init
  <2> HIDE DEF first
  <2>4. ASSUME NEW x \in {None, "collecting", "alien"}, stage[t] = [state |-> x, pages |-> <<>>]
        PROVE  /\ stage[t].pages = <<>> /\ stage[t].state \in {None, "collecting", "alien"}
               /\ stage[t] = [state |-> stage[t].state, pages |-> <<>>]
    BY <2>4
  <2>5. CASE \E x \in {None, "collecting", "alien"} : stage[t] = [state |-> x, pages |-> <<>>]
    BY <2>1, <2>4, <2>5
  <2>6. CASE \E b \in Bodies[1] : stage[t] = [state |-> "collecting", pages |-> <<first(b)>>]
    BY <2>2, <2>6
  <2> QED BY <2>3, <2>5, <2>6 DEF NoStage
<1>3. stage = [t \in Threads |-> stage[t]] /\ facts = [t \in Threads |-> facts[t]]
  BY <1>1 DEF Init
<1>4. StageTyped /\ OneHistory
  BY <1>2, <1>3 DEF StageTyped, OneHistory
<1>5. epoch = NoEpoch /\ epoch.state = "none"
  BY <1>1 DEF Init, NoEpoch, None
<1>6. member \in [Threads -> MemberType] /\ IsRequest(held)
  BY <1>1 DEF Init, MemberType, IsRequest, None
<1>7. Typed
  BY <1>4, <1>5, <1>6 DEF Typed, EpochTyped
<1>8. FreezeInv /\ SealInv
  BY <1>5 DEF FreezeInv, FrozenCoversMembers, SealInv
<1> QED BY <1>4, <1>7, <1>8 DEF StagesInv

\* Every transaction keeps the invariant.
LEMMA NextStages == StagesInv /\ [Next]_vars => StagesInv'
<1>1. SUFFICES ASSUME StagesInv, [Next]_vars PROVE StagesInv'
  OBVIOUS
<1>2. IsRequest(held) /\ \A r \in Requests : IsRequest(r)
  BY <1>1, RequestsTyped DEF StagesInv, Typed
<1>3. CASE UNCHANGED vars
  BY <1>1, <1>2, <1>3, TablesKept DEF vars
<1>4. CASE bootstrapRetainedStageAccounting
  BY <1>1, <1>2, <1>4, TablesKept DEF bootstrapRetainedStageAccounting
<1>5. CASE openRetainedCandidateEpoch
  BY <1>1, <1>5, OpenEpochHolds
<1>6. ASSUME NEW t \in Threads,
             \/ openRetainedProjectionStage(t) \/ failRetainedProjectionStage(t) \/ resumeRetainedProjectionStage(t)
             \/ closeRetainedProjectionStageAtPageLimit(t) \/ bindRetainedCandidateMember(t)
      PROVE  StagesInv'
  BY <1>1, <1>6, OpenStageHolds, MoveStageHolds, BindHolds
<1>7. CASE Hold
  BY <1>1, <1>2, <1>7, TablesKept DEF Hold
<1>8. CASE SubmitHeld
  BY <1>1, <1>2, <1>8, ExecuteHolds DEF SubmitHeld
<1>9. CASE Submit
  BY <1>1, <1>2, <1>9, ExecuteHolds DEF Submit
<1> QED BY <1>1, <1>3, <1>4, <1>5, <1>6, <1>7, <1>8, <1>9 DEF Next

\* Stages, members and the rolling digests of the epoch fit together.
THEOREM StagesInvariant == Spec => []StagesInv
<1>1. Init => StagesInv
  BY InitStages
<1>2. StagesInv /\ [Next]_vars => StagesInv'
  BY NextStages
<1> QED BY <1>1, <1>2, PTL DEF Spec

\* The pages of a stage are one history, however appends race and repeat.
THEOREM StagesOneHistory == Spec => []OneHistory
<1>1. StagesInv => OneHistory
  BY DEF StagesInv
<1> QED BY <1>1, StagesInvariant, PTL

\* A frozen membership covers every member, in order, for every chunk size.
THEOREM StagesFrozenCovers == Spec => []FrozenCoversMembers
<1>1. StagesInv => FrozenCoversMembers
  BY DEF StagesInv, FreezeInv
<1> QED BY <1>1, StagesInvariant, PTL

-----------------------------------------------------------------------------
(* Every transaction is a step of the ledger, or none.                      *)

\* Stages and members stay, and the phase of the epoch.
LEMMA LedgerStutters ==
    ASSUME UNCHANGED <<stage, member>>, Phase' = Phase, Certificate' = Certificate
    PROVE  UNCHANGED Ledger!vars
<1>1. MemberKeys' = MemberKeys /\ Collected' = Collected /\ Over' = Over /\ Seen' = Seen
  BY DEF MemberKeys, Collected, Over, Seen
<1> QED BY <1>1 DEF Ledger!vars

\* A stage that is not pinned moves on.
LEMMA LedgerCollects ==
    ASSUME StagesInv, NEW t \in Threads, NEW s, stage' = [stage EXCEPT ![t] = s],
           member[t].pin # "pinned", IsPrefix(stage[t].pages, s.pages), UNCHANGED <<epoch, member>>
    PROVE  Ledger!Collect(t)
<1>1. stage \in [Threads -> StageType]
  BY DEF StagesInv, Typed, StageTyped
<1>2. stage'[t] = s /\ \A u \in Threads : u # t => stage'[u] = stage[u]
  BY <1>1
<1>3. \A o \in Seen : o[1] # t
  BY DEF Seen
<1>4. \A u \in Threads \ {t} : Collected'[u] = Collected[u]
  BY <1>2 DEF Collected
<1>5. IsPrefix(Collected[t], Collected'[t])
  BY <1>2 DEF Collected
<1>6. Over' \ {t} = Over \ {t}
  <2>1. \A u \in Threads : u # t => (u \in Over' <=> u \in Over)
    BY <1>2 DEF Over
  <2>2. Over' \subseteq Threads /\ Over \subseteq Threads
    BY DEF Over
  <2> QED BY <2>1, <2>2
<1>7. UNCHANGED <<Phase, MemberKeys, Seen, Certificate>>
  BY DEF Phase, MemberKeys, Seen, Certificate
<1>8. Ledger!IsPrefix(Collected[t], Collected'[t])
  BY <1>5 DEF IsPrefix, Ledger!IsPrefix
<1> QED BY <1>3, <1>4, <1>6, <1>7, <1>8 DEF Ledger!Collect

\* A prefix, with one more page or none.
LEMMA PagePrefix ==
    ASSUME NEW l \in Seq(PageType)
    PROVE  IsPrefix(l, l) /\ \A p \in PageType : IsPrefix(l, Append(l, p))
<1>1. IsPrefix(l, l)
  BY DEF IsPrefix
<1>2. ASSUME NEW p \in PageType PROVE IsPrefix(l, Append(l, p))
  <2> DEFINE m == Append(l, p)
  <2>1. m \in Seq(PageType) /\ Len(m) = Len(l) + 1 /\ Len(l) \in Nat /\ \A i \in 1..Len(l) : m[i] = l[i]
    OBVIOUS
  <2> HIDE DEF m
  <2>2. SubSeq(l, 1, Len(l)) = SubSeq(m, 1, Len(l))
    BY <2>1
  <2> QED BY <2>1, <2>2 DEF IsPrefix, m
<1> QED BY <1>1, <1>2

\* The operations on a stage.
LEMMA StageStep ==
    ASSUME StagesInv, NEW t \in Threads,
           \/ openRetainedProjectionStage(t) \/ failRetainedProjectionStage(t)
           \/ resumeRetainedProjectionStage(t) \/ closeRetainedProjectionStageAtPageLimit(t)
    PROVE  Ledger!Collect(t)
<1>1. member[t].pin # "pinned" /\ UNCHANGED <<epoch, member>>
  BY DEF openRetainedProjectionStage, failRetainedProjectionStage, resumeRetainedProjectionStage,
         closeRetainedProjectionStageAtPageLimit, StageWritable
<1>2. stage[t] \in StageType /\ stage[t].pages \in Seq(PageType)
      /\ (stage[t].state = None => stage[t].pages = <<>>)
  BY DEF StagesInv, Typed, StageTyped, StageType
<1>3. \E s : stage' = [stage EXCEPT ![t] = s] /\ s.pages = stage[t].pages
  <2>1. CASE openRetainedProjectionStage(t)
    <3> DEFINE s == [state |-> "collecting", pages |-> <<>>]
    <3>1. stage' = [stage EXCEPT ![t] = s] /\ stage[t].pages = <<>>
      BY <1>2, <2>1 DEF openRetainedProjectionStage, Opened
    <3>2. s.pages = <<>>
      OBVIOUS
    <3> HIDE DEF s
    <3> QED BY <3>1, <3>2
  <2>2. CASE \/ failRetainedProjectionStage(t) \/ resumeRetainedProjectionStage(t)
             \/ closeRetainedProjectionStageAtPageLimit(t)
    <3>1. \E x : stage' = [stage EXCEPT ![t] = [stage[t] EXCEPT !.state = x]]
      BY <2>2 DEF failRetainedProjectionStage, resumeRetainedProjectionStage, closeRetainedProjectionStageAtPageLimit
    <3> QED BY <1>2, <3>1 DEF StageType
  <2> QED BY <2>1, <2>2
<1>4. PICK s : stage' = [stage EXCEPT ![t] = s] /\ s.pages = stage[t].pages
  BY <1>3
<1>5. IsPrefix(stage[t].pages, s.pages)
  BY <1>2, <1>4, PagePrefix
<1> QED BY <1>1, <1>4, <1>5, LedgerCollects

\* A page is appended, or the stage is closed.
LEMMA AppendStep ==
    ASSUME StagesInv, NEW r, IsRequest(r), r.op = "append", appendRetainedProjectionStagePage(r)
    PROVE  r.t \in Threads /\ Ledger!Collect(r.t)
<1> DEFINE t == r.t
           l == stage[t].pages
           p == [facts |-> r.body.facts, exhausted |-> r.body.exhausted, nth |-> Len(r.after) + 1]
<1>1. t \in Threads /\ r.body.facts \subseteq Facts /\ r.body.exhausted \in BOOLEAN
  BY DEF IsRequest
<1>2. stage[t] \in StageType /\ l \in Seq(PageType) /\ Len(l) \in Nat /\ r.after = l
  BY <1>1 DEF StagesInv, Typed, StageTyped, StageType, appendRetainedProjectionStagePage, InOrder
<1>3. p \in PageType
  BY <1>1, <1>2 DEF PageType
<1>4. member[t].pin # "pinned" /\ UNCHANGED <<epoch, member>>
  BY DEF appendRetainedProjectionStagePage, StageWritable
<1>5. \/ stage' = [stage EXCEPT ![t] = [stage[t] EXCEPT !.state = "terminal"]]
      \/ stage' = [stage EXCEPT ![t] = [stage[t] EXCEPT !.pages = Append(l, p)]]
  BY DEF appendRetainedProjectionStagePage, closeRetainedProjectionBudget
<1> HIDE DEF p
<1>6. \E s : stage' = [stage EXCEPT ![t] = s] /\ (s.pages = l \/ s.pages = Append(l, p))
  BY <1>2, <1>5 DEF StageType
<1>7. PICK s : stage' = [stage EXCEPT ![t] = s] /\ (s.pages = l \/ s.pages = Append(l, p))
  BY <1>6
<1>8. IsPrefix(stage[t].pages, s.pages)
  BY <1>2, <1>3, <1>7, PagePrefix
<1> HIDE DEF t
<1> QED BY <1>1, <1>4, <1>7, <1>8, LedgerCollects DEF t

\* The epoch opens.
LEMMA OpenStep ==
    ASSUME StagesInv, openRetainedCandidateEpoch
    PROVE  Ledger!Open
<1>1. epoch.state = "none" /\ epoch'.state = "open" /\ UNCHANGED <<stage, member>>
  BY DEF openRetainedCandidateEpoch, NoEpoch, None
<1>2. Phase = "none" /\ Phase' = "open" /\ Certificate = {} /\ Certificate' = {}
  BY <1>1 DEF Phase, Certificate, None
<1>3. UNCHANGED <<MemberKeys, Collected, Over, Seen>>
  BY <1>1 DEF MemberKeys, Collected, Over, Seen
<1> QED BY <1>2, <1>3 DEF Ledger!Open

\* A member is bound.
LEMMA BindStep ==
    ASSUME StagesInv, NEW t \in Threads, bindRetainedCandidateMember(t)
    PROVE  Ledger!Bind(t)
<1>1. epoch.state = "open" /\ IsEpoch(epoch) /\ UNCHANGED stage
  BY DEF bindRetainedCandidateMember, Bindable, StagesInv, Typed, EpochTyped, NoEpoch, None
<1>2. epoch'.state = "open"
  BY <1>1 DEF bindRetainedCandidateMember, IsEpoch
<1>3. Phase = "open" /\ Phase' = "open" /\ Certificate = {} /\ Certificate' = {}
  BY <1>1, <1>2 DEF Phase, Certificate, None
<1> DEFINE q == [pin |-> "bound", rev |-> 0, seen |-> <<>>]
<1>4. member' = [member EXCEPT ![t] = q] /\ member[t] = NoMember
  BY DEF bindRetainedCandidateMember
<1>5. q # NoMember /\ q.pin # "pinned" /\ NoMember.pin # "pinned"
  BY DEF NoMember, None
<1> HIDE DEF q
<1>6. member'[t] = q /\ \A u \in Threads : u # t => member'[u] = member[u]
  BY <1>4 DEF StagesInv, Typed
<1>7. MemberKeys' = MemberKeys \cup {t}
  BY <1>5, <1>6 DEF MemberKeys
<1>8. {u \in Threads : member'[u].pin = "pinned"} = {u \in Threads : member[u].pin = "pinned"}
  BY <1>4, <1>5, <1>6
<1>9. Seen' = Seen
  <2>1. \A u \in Threads : member[u].pin = "pinned" => member'[u] = member[u]
    BY <1>4, <1>5, <1>6
  <2> QED BY <1>8, <2>1 DEF Seen
<1>10. UNCHANGED <<Collected, Over>>
  BY <1>1 DEF Collected, Over
<1> QED BY <1>3, <1>7, <1>9, <1>10 DEF Ledger!Bind

\* The freeze ends, or reads another chunk.
LEMMA FreezeStep ==
    ASSUME StagesInv, NEW r, freezeRetainedCandidateEpoch(r)
    PROVE  Ledger!Close \/ UNCHANGED Ledger!vars
<1>1. epoch.state \in {"open", "freezing"} /\ IsEpoch(epoch) /\ UNCHANGED <<stage, member>>
  BY DEF freezeRetainedCandidateEpoch, StagesInv, Typed, EpochTyped
<1>2. epoch'.state \in {"freezing", "frozen"}
  BY <1>1 DEF freezeRetainedCandidateEpoch, IsEpoch, Advanced
<1>3. Phase = "open" /\ Phase' \in {"open", "closed"} /\ Certificate = {} /\ Certificate' = {}
  BY <1>1, <1>2 DEF Phase, Certificate, None
<1>4. CASE Phase' = "open"
  BY <1>1, <1>3, <1>4, LedgerStutters
<1>5. CASE Phase' = "closed"
  <2>1. UNCHANGED <<MemberKeys, Collected, Over, Seen>>
    BY <1>1 DEF MemberKeys, Collected, Over, Seen
  <2> QED BY <1>3, <1>5, <2>1 DEF Ledger!Close
<1> QED BY <1>3, <1>4, <1>5

\* A member is observed.
LEMMA PinStep ==
    ASSUME StagesInv, NEW r, IsRequest(r), r.op = "pin", pinRetainedCandidateMember(r)
    PROVE  r.t \in Threads /\ Ledger!Observe(r.t)
<1> DEFINE t == r.t
           q == [pin |-> "pinned", rev |-> r.rev + 1, seen |-> stage[t].pages]
<1>1. /\ epoch.state \in {"frozen", "sealing"} /\ IsEpoch(epoch) /\ member[t].pin = "bound"
      /\ Ended(stage[t]) /\ UNCHANGED stage
  BY DEF pinRetainedCandidateMember, StagesInv, Typed, EpochTyped
<1>2. epoch'.state = "sealing"
  BY <1>1 DEF pinRetainedCandidateMember, IsEpoch
<1>3. Phase = "closed" /\ Phase' = "closed" /\ Certificate = {} /\ Certificate' = {}
  BY <1>1, <1>2 DEF Phase, Certificate, None
<1>4. t \in Threads
  BY DEF IsRequest
<1>5. member' = [member EXCEPT ![t] = q]
  BY DEF pinRetainedCandidateMember
<1>6. q.pin = "pinned" /\ q.seen = stage[t].pages /\ q # NoMember
  BY DEF NoMember, None
<1> HIDE DEF q
<1>7. member'[t] = q /\ \A u \in Threads : u # t => member'[u] = member[u]
  BY <1>4, <1>5 DEF StagesInv, Typed
<1>8. t \in MemberKeys /\ MemberKeys' = MemberKeys
  BY <1>1, <1>4, <1>6, <1>7 DEF MemberKeys, NoMember, None
<1>9. t \in Over
  <2>1. stage[t].pages \in Seq(PageType)
    BY <1>4 DEF StagesInv, Typed, StageTyped, StageType
  <2>2. stage[t].pages # <<>> => Last(stage[t].pages) \in Range(stage[t].pages)
    <3>1. SUFFICES ASSUME stage[t].pages # <<>> PROVE Last(stage[t].pages) \in Range(stage[t].pages)
      OBVIOUS
    <3>2. Len(stage[t].pages) \in DOMAIN stage[t].pages
      BY <2>1, <3>1
    <3> QED BY <3>2 DEF Last, Range
  <2> QED BY <1>1, <1>4, <2>2 DEF Ended, Over
<1>10. \A o \in Seen : o[1] # t
  BY <1>1 DEF Seen
<1>11. Seen' = Seen \cup {<<t, Collected[t]>>}
  <2>1. Collected[t] = stage[t].pages
    BY <1>4 DEF Collected
  <2>2. \A o : o \in Seen <=> \E u \in Threads : member[u].pin = "pinned" /\ o = <<u, member[u].seen>>
    BY DEF Seen
  <2>3. \A o : o \in Seen' <=> \E u \in Threads : member'[u].pin = "pinned" /\ o = <<u, member'[u].seen>>
    BY DEF Seen
  <2>4. ASSUME NEW o \in Seen' PROVE o \in Seen \/ o = <<t, stage[t].pages>>
    <3>1. PICK u \in Threads : member'[u].pin = "pinned" /\ o = <<u, member'[u].seen>>
      BY <2>3
    <3> QED BY <1>6, <1>7, <2>2, <3>1
  <2>5. ASSUME NEW o \in Seen PROVE o \in Seen'
    <3>1. PICK u \in Threads : member[u].pin = "pinned" /\ o = <<u, member[u].seen>>
      BY <2>2
    <3>2. u # t
      BY <1>1, <3>1
    <3> QED BY <1>7, <2>3, <3>1, <3>2
  <2>6. <<t, stage[t].pages>> \in Seen'
    BY <1>4, <1>6, <1>7, <2>3
  <2> QED BY <2>1, <2>4, <2>5, <2>6
<1>12. UNCHANGED <<Collected, Over>>
  BY <1>1 DEF Collected, Over
<1> QED BY <1>3, <1>4, <1>8, <1>9, <1>10, <1>11, <1>12 DEF Ledger!Observe

\* When nothing is left behind the cursor, the seal holds every observation.
LEMMA SealHoldsAll ==
    ASSUME StagesInv, epoch.state = "sealing", RowsAfter(MemberKeys, epoch.pinCursor) = {}
    PROVE  Range(epoch.pinRolling) = Seen /\ {o[1] : o \in Seen} = MemberKeys
<1> DEFINE d == epoch.sealRolling
           x == epoch.pinRolling
<1>1. IsEpoch(epoch)
  BY DEF StagesInv, Typed, EpochTyped, NoEpoch, None
<1>2. /\ Covers(d, MemberKeys, epoch.pinCursor) /\ Len(x) = Len(d)
      /\ \A i \in 1..Len(d) : member[d[i]].pin = "pinned" /\ x[i] = <<d[i], member[d[i]].seen>>
  BY DEF StagesInv, SealInv
<1>3. DOMAIN d = 1..Len(d) /\ DOMAIN x = 1..Len(x) /\ \A i \in 1..Len(d) : d[i] \in Threads
  BY <1>1 DEF IsEpoch
<1>4. MemberKeys \subseteq Nat /\ epoch.pinCursor \in Nat
  BY <1>1, MembersAreRows DEF IsEpoch
<1>5. Range(d) = MemberKeys
  BY <1>2, <1>4, CoversAll
<1>6. \A t \in MemberKeys : \E i \in 1..Len(d) : t = d[i]
  BY <1>3, <1>5 DEF Range
<1>7. \A t \in Threads : member[t].pin = "pinned" => t \in MemberKeys
  BY DEF MemberKeys, NoMember, None
<1>8. \A o : o \in Seen <=> \E t \in Threads : member[t].pin = "pinned" /\ o = <<t, member[t].seen>>
  BY DEF Seen
<1> HIDE DEF d, x
<1>9. \A o : o \in Range(x) <=> \E i \in 1..Len(d) : o = x[i]
  BY <1>2, <1>3 DEF Range
<1>10. Range(x) = Seen
  <2>1. ASSUME NEW o \in Range(x) PROVE o \in Seen
    <3>1. PICK i \in 1..Len(d) : o = x[i]
      BY <1>9
    <3> QED BY <1>2, <1>3, <1>8, <3>1
  <2>2. ASSUME NEW o \in Seen PROVE o \in Range(x)
    <3>1. PICK t \in Threads : member[t].pin = "pinned" /\ o = <<t, member[t].seen>>
      BY <1>8
    <3>2. PICK i \in 1..Len(d) : t = d[i]
      BY <1>6, <1>7, <3>1
    <3> QED BY <1>2, <1>9, <3>1, <3>2
  <2> QED BY <2>1, <2>2
<1>11. ASSUME NEW t \in MemberKeys PROVE \E o \in Seen : o[1] = t
  <2>1. PICK i \in 1..Len(d) : t = d[i]
    BY <1>6
  <2>2. x[i] \in Seen /\ x[i] = <<t, member[t].seen>>
    BY <1>2, <1>9, <1>10, <2>1
  <2> QED BY <2>2
<1>12. \A o \in Seen : o[1] \in MemberKeys
  BY <1>7, <1>8
<1> QED BY <1>10, <1>11, <1>12 DEF x

\* The seal ends, or reads another chunk.
LEMMA SealStep ==
    ASSUME StagesInv, NEW r, sealRetainedCandidateEpoch(r)
    PROVE  Ledger!Seal \/ UNCHANGED Ledger!vars
<1>1. epoch.state \in {"frozen", "sealing"} /\ IsEpoch(epoch) /\ UNCHANGED <<stage, member>>
  BY DEF sealRetainedCandidateEpoch, StagesInv, Typed, EpochTyped
<1>2. Phase = "closed" /\ Certificate = {}
  BY <1>1 DEF Phase, Certificate, None
<1>3. CASE epoch'.state = "sealing"
  <2>1. Phase' = "closed" /\ Certificate' = {}
    BY <1>3 DEF Phase, Certificate, None
  <2> QED BY <1>1, <1>2, <2>1, LedgerStutters
<1>4. CASE /\ epoch.state = "sealing" /\ RowsAfter(MemberKeys, epoch.pinCursor) = {}
           /\ epoch' = [Advanced(r) EXCEPT !.state = "sealed", !.pinCursor = 0]
  <2>1. epoch'.state = "sealed" /\ epoch'.pinRolling = epoch.pinRolling
    BY <1>1, <1>4 DEF IsEpoch, Advanced
  <2>2. Range(epoch.pinRolling) = Seen /\ {o[1] : o \in Seen} = MemberKeys
    BY <1>4, SealHoldsAll
  <2>3. Phase' = "sealed" /\ Certificate' = Seen
    BY <2>1, <2>2 DEF Phase, Certificate, None
  <2>4. UNCHANGED <<MemberKeys, Collected, Over, Seen>>
    BY <1>1 DEF MemberKeys, Collected, Over, Seen
  <2> QED BY <1>2, <2>2, <2>3, <2>4 DEF Ledger!Seal
<1>5. \/ epoch'.state = "sealing"
      \/ /\ epoch.state = "sealing" /\ RowsAfter(MemberKeys, epoch.pinCursor) = {}
         /\ epoch' = [Advanced(r) EXCEPT !.state = "sealed", !.pinCursor = 0]
  BY <1>1 DEF sealRetainedCandidateEpoch, IsEpoch, Advanced
<1> QED BY <1>3, <1>4, <1>5

\* A request that is executed.
LEMMA ExecuteStep ==
    ASSUME StagesInv, NEW r, IsRequest(r), Execute(r)
    PROVE  [Ledger!Next]_(Ledger!vars)
<1>1. CASE r.op = "append" /\ appendRetainedProjectionStagePage(r)
  BY <1>1, AppendStep DEF Ledger!Next
<1>2. CASE freezeRetainedCandidateEpoch(r)
  BY <1>2, FreezeStep DEF Ledger!Next
<1>3. CASE sealRetainedCandidateEpoch(r)
  BY <1>3, SealStep DEF Ledger!Next
<1>4. CASE r.op = "pin" /\ pinRetainedCandidateMember(r)
  BY <1>4, PinStep DEF Ledger!Next
<1>5. CASE advanceRetainedStageAccounting(r)
  <2>1. UNCHANGED <<stage, member, epoch>>
    BY <1>5 DEF advanceRetainedStageAccounting
  <2>2. Phase' = Phase /\ Certificate' = Certificate
    BY <2>1 DEF Phase, Certificate
  <2> QED BY <2>1, <2>2, LedgerStutters
<1> QED BY <1>1, <1>2, <1>3, <1>4, <1>5 DEF Execute

\* Every step of the store.
LEMMA NextStep == StagesInv /\ [Next]_vars => [Ledger!Next]_(Ledger!vars)
<1>1. SUFFICES ASSUME StagesInv, [Next]_vars PROVE [Ledger!Next]_(Ledger!vars)
  OBVIOUS
<1>2. IsRequest(held) /\ \A r \in Requests : IsRequest(r)
  BY <1>1, RequestsTyped DEF StagesInv, Typed
<1>3. CASE UNCHANGED vars \/ bootstrapRetainedStageAccounting \/ Hold
  <2>1. UNCHANGED <<stage, member, epoch>>
    BY <1>3 DEF vars, bootstrapRetainedStageAccounting, Hold
  <2>2. Phase' = Phase /\ Certificate' = Certificate
    BY <2>1 DEF Phase, Certificate
  <2> QED BY <2>1, <2>2, LedgerStutters
<1>4. CASE openRetainedCandidateEpoch
  BY <1>1, <1>4, OpenStep DEF Ledger!Next
<1>5. ASSUME NEW t \in Threads,
             \/ openRetainedProjectionStage(t) \/ failRetainedProjectionStage(t) \/ resumeRetainedProjectionStage(t)
             \/ closeRetainedProjectionStageAtPageLimit(t) \/ bindRetainedCandidateMember(t)
      PROVE  [Ledger!Next]_(Ledger!vars)
  BY <1>1, <1>5, StageStep, BindStep DEF Ledger!Next
<1>6. CASE SubmitHeld
  BY <1>1, <1>2, <1>6, ExecuteStep DEF SubmitHeld
<1>7. CASE Submit
  BY <1>1, <1>2, <1>7, ExecuteStep DEF Submit
<1> QED BY <1>1, <1>3, <1>4, <1>5, <1>6, <1>7 DEF Next

\* The epoch of the store implements CandidateLedger: it certifies exactly the
\* observations of exactly its members, and a pinned stage stands still.
THEOREM StagesImplementLedger == Spec => RefinesLedger
<1>1. Init => Ledger!Init
  <2>1. SUFFICES ASSUME Init PROVE Ledger!Init
    OBVIOUS
  <2>2. epoch.state = None /\ \A t \in Threads : member[t] = NoMember
    BY <2>1 DEF Init, NoEpoch
  <2>3. Phase = "none" /\ Certificate = {}
    BY <2>2 DEF Phase, Certificate, None
  <2>4. MemberKeys = {} /\ Seen = {}
    BY <2>2 DEF MemberKeys, Seen, NoMember, None
  <2> QED BY <2>3, <2>4 DEF Ledger!Init
<1>2. StagesInv /\ [Next]_vars => [Ledger!Next]_(Ledger!vars)
  BY NextStep
<1> QED BY <1>1, <1>2, StagesInvariant, PTL DEF Spec, RefinesLedger, Ledger!Spec
-----------------------------------------------------------------------------
(* The rows of the tables, and how many there are.                          *)

\* The rows of each table, as functions of what the table holds.
RunRows(s) == {Span * t : t \in {u \in Threads : s[u].state # None}}
PageRows(s) == UNION {{Span * t + p : p \in DOMAIN s[t].pages} : t \in Threads}
FactRows(f) == UNION {{Span * t + x : x \in f[t]} : t \in Threads}
EpochRows(e) == IF e = NoEpoch THEN {} ELSE {1}
MemberRows(m) == {Span * t : t \in {u \in Threads : m[u] # NoMember}}

\* Every row any table may hold.
AllRows == {Span * t + p : t \in Threads, p \in 0..(Span - 1)} \cup {1}

\* The keys of the tables, before and after a step.
LEMMA TableRows ==
    /\ Len(Tables) = 5 /\ DOMAIN Tables = 1..5
    /\ Keys(Tables[1]) = RunRows(stage) /\ Keys(Tables[2]) = PageRows(stage) /\ Keys(Tables[3]) = FactRows(facts)
    /\ Keys(Tables[4]) = EpochRows(epoch) /\ Keys(Tables[5]) = MemberRows(member)
    /\ Keys(Tables[1])' = RunRows(stage') /\ Keys(Tables[2])' = PageRows(stage') /\ Keys(Tables[3])' = FactRows(facts')
    /\ Keys(Tables[4])' = EpochRows(epoch') /\ Keys(Tables[5])' = MemberRows(member')
<1>1. /\ Len(Tables) = 5 /\ DOMAIN Tables = 1..5
      /\ Tables[1] = "runs" /\ Tables[2] = "pages" /\ Tables[3] = "facts"
      /\ Tables[4] = "candidate_epochs" /\ Tables[5] = "candidate_members"
  BY DEF Tables
<1>2. Keys("runs") = RunRows(stage) /\ Keys("runs")' = RunRows(stage')
  BY DEF Keys, RunRows, Opened
<1>3. Keys("pages") = PageRows(stage) /\ Keys("pages")' = PageRows(stage')
  BY DEF Keys, PageRows
<1>4. Keys("facts") = FactRows(facts) /\ Keys("facts")' = FactRows(facts')
  BY DEF Keys, FactRows
<1>5. Keys("candidate_epochs") = EpochRows(epoch) /\ Keys("candidate_epochs")' = EpochRows(epoch')
  BY DEF Keys, EpochRows
<1>6. Keys("candidate_members") = MemberRows(member) /\ Keys("candidate_members")' = MemberRows(member')
  BY DEF Keys, MemberRows
<1> QED BY <1>1, <1>2, <1>3, <1>4, <1>5, <1>6

\* A row tells its thread and what it is within the thread.
LEMMA RowsDiffer ==
    ASSUME NEW t \in Threads, NEW u \in Threads, NEW p \in 0..(Span - 1), NEW q \in 0..(Span - 1),
           Span * t + p = Span * u + q
    PROVE  t = u /\ p = q
<1>1. t \in Nat /\ u \in Nat /\ Span \in Nat
  BY StagesAssumption
<1>2. ASSUME NEW a \in Nat, NEW b \in Nat, a < b PROVE Span * b >= Span * a + Span
  <2>1. PICK d \in Nat : b = a + 1 + d
    <3>1. b - a - 1 \in Nat /\ b = a + 1 + (b - a - 1)
      BY <1>2
    <3> QED BY <3>1
  <2>2. Span * b = Span * a + Span + Span * d
    BY <1>1, <2>1
  <2>3. Span * d >= 0 /\ Span * d \in Nat /\ Span * a \in Nat
    BY <1>1
  <2> HIDE <2>1
  <2> QED BY <1>1, <2>2, <2>3
<1>3. Span * t \in Nat /\ Span * u \in Nat
  BY <1>1
<1>4. ~(t < u)
  <2>1. SUFFICES ASSUME t < u PROVE FALSE
    OBVIOUS
  <2>2. Span * u >= Span * t + Span
    BY <1>1, <1>2, <2>1
  <2> QED BY <1>1, <1>3, <2>2
<1>5. ~(u < t)
  <2>1. SUFFICES ASSUME u < t PROVE FALSE
    OBVIOUS
  <2>2. Span * t >= Span * u + Span
    BY <1>1, <1>2, <2>1
  <2> QED BY <1>1, <1>3, <2>2
<1>6. t = u
  BY <1>1, <1>4, <1>5
<1> QED BY <1>3, <1>6

\* Rows are positive numbers.
LEMMA RowPositive ==
    ASSUME NEW t \in Threads, NEW p \in Nat
    PROVE  Span * t \in Nat \ {0} /\ Span * t + p \in Nat \ {0} /\ Span * t + 0 = Span * t
<1>1. t \in Nat /\ t > 0 /\ Span \in Nat /\ Span > 0
  BY StagesAssumption
<1>2. Span * t \in Nat /\ Span * t > 0
  BY <1>1
<1> QED BY <1>2

\* There are finitely many rows.
LEMMA AllRowsFinite == IsFiniteSet(AllRows) /\ AllRows \subseteq Nat \ {0}
<1> DEFINE D == Threads \X (0..(Span - 1))
           R == {Span * t + p : t \in Threads, p \in 0..(Span - 1)}
           f == [d \in D |-> Span * d[1] + d[2]]
<1>1. IsFiniteSet(Threads) /\ Span \in Nat
  BY StagesAssumption
<1>2. IsFiniteSet(0..(Span - 1))
  BY <1>1, FS_Interval
<1>3. IsFiniteSet(D)
  BY <1>1, <1>2, FS_Product
<1>4. f \in Surjection(D, R)
  <2>1. f \in [D -> R]
    OBVIOUS
  <2>2. \A r \in R : \E d \in D : f[d] = r
    <3>1. SUFFICES ASSUME NEW r \in R PROVE \E d \in D : f[d] = r
      OBVIOUS
    <3>2. PICK t \in Threads, p \in 0..(Span - 1) : r = Span * t + p
      OBVIOUS
    <3>3. <<t, p>> \in D /\ f[<<t, p>>] = r
      BY <3>2
    <3> QED BY <3>3
  <2> QED BY <2>1, <2>2 DEF Surjection
<1>5. IsFiniteSet(R)
  <2> HIDE DEF D, R, f
  <2> QED BY <1>3, <1>4, FS_Surjection
<1>6. IsFiniteSet(R \cup {1})
  <2> HIDE DEF R
  <2> QED BY <1>5, FS_AddElement
<1>7. R \subseteq Nat \ {0}
  BY <1>1, RowPositive
<1> QED BY <1>6, <1>7 DEF AllRows

\* What the tables hold are such rows.
LEMMA RowsBounded ==
    ASSUME Typed
    PROVE  /\ RunRows(stage) \subseteq AllRows /\ PageRows(stage) \subseteq AllRows
           /\ FactRows(facts) \subseteq AllRows /\ EpochRows(epoch) \subseteq AllRows
           /\ MemberRows(member) \subseteq AllRows
<1>1. Span \in Nat /\ Span > 1 /\ 0 \in 0..(Span - 1) /\ MaxPages <= Span - 1 /\ MaxPages \in Nat
      /\ Facts \subseteq 0..(Span - 1)
  BY StagesAssumption
<1>2. \A t \in Threads : Span * t \in AllRows
  BY <1>1, RowPositive DEF AllRows
<1>3. \A t \in Threads : \A p \in 0..(Span - 1) : Span * t + p \in AllRows
  BY DEF AllRows
<1>4. RunRows(stage) \subseteq AllRows /\ MemberRows(member) \subseteq AllRows
  BY <1>2 DEF RunRows, MemberRows
<1>5. \A t \in Threads : DOMAIN stage[t].pages \subseteq 0..(Span - 1)
  <2>1. SUFFICES ASSUME NEW t \in Threads PROVE DOMAIN stage[t].pages \subseteq 0..(Span - 1)
    OBVIOUS
  <2>2. stage[t].pages \in Seq(PageType) /\ Len(stage[t].pages) <= MaxPages
    BY DEF Typed, StageTyped, StageType
  <2> QED BY <1>1, <2>2
<1>6. \A t \in Threads : facts[t] \subseteq 0..(Span - 1)
  BY <1>1 DEF Typed, StageTyped
<1>7. PageRows(stage) \subseteq AllRows
  BY <1>3, <1>5 DEF PageRows
<1>8. FactRows(facts) \subseteq AllRows
  BY <1>3, <1>6 DEF FactRows
<1>9. EpochRows(epoch) \subseteq AllRows
  BY DEF EpochRows, AllRows
<1> QED BY <1>4, <1>7, <1>8, <1>9

\* Every table holds finitely many rows.
LEMMA RowsFinite ==
    ASSUME Typed, NEW i \in 1..5
    PROVE  /\ Keys(Tables[i]) \subseteq Nat \ {0} /\ IsFiniteSet(Keys(Tables[i]))
           /\ Cardinality(Keys(Tables[i])) \in Nat
<1>1. i = 1 \/ i = 2 \/ i = 3 \/ i = 4 \/ i = 5
  OBVIOUS
<1>2. Keys(Tables[i]) \subseteq AllRows
  BY <1>1, TableRows, RowsBounded
<1>3. IsFiniteSet(Keys(Tables[i]))
  BY <1>2, AllRowsFinite, FS_Subset
<1> QED BY <1>2, <1>3, AllRowsFinite, FS_CardinalityType

-----------------------------------------------------------------------------
(* The accounting.                                                          *)

AcctType ==
    [state : {"unreconciled", "rebuilding", "ready", "blocked"}, rev : Nat, table : 0..5, cursor : Nat,
     work : [1..5 -> Nat], totals : [1..5 -> Nat]]

\* The rows a rebuild has read, of a table.
Scanned(i) == {k \in Keys(Tables[i]) : i < acct.table \/ (i = acct.table /\ k <= acct.cursor)}

\* A rebuild has counted what it has read; a ready account counts every row.
AcctInv ==
    /\ acct \in AcctType
    /\ acct.state = "rebuilding" => acct.table # 0 /\ \A i \in 1..5 : acct.work[i] = Cardinality(Scanned(i))
    /\ TotalsExact

\* An account that is prepared and ready is exact.
LEMMA PreparedExact ==
    ASSUME AcctInv, Ready
    PROVE  /\ Prepared \in AcctType /\ Prepared.state = "ready"
           /\ \A i \in 1..5 : Prepared.totals[i] = Cardinality(Keys(Tables[i]))
<1>1. acct \in AcctType /\ Prepared.state = "ready"
  BY DEF AcctInv, Ready
<1>2. CASE acct.state = "unreconciled" /\ ~Populated
  <2>1. NoRows \in [1..5 -> Nat] /\ \A i \in 1..5 : NoRows[i] = 0
    BY TableRows DEF NoRows
  <2>2. Prepared = [acct EXCEPT !.state = "ready", !.totals = NoRows]
    BY <1>2 DEF Prepared
  <2> HIDE DEF NoRows
  <2>3. Prepared \in AcctType /\ Prepared.totals = NoRows
    BY <1>1, <2>1, <2>2 DEF AcctType
  <2>4. \A i \in 1..5 : Keys(Tables[i]) = {}
    BY <1>2, TableRows DEF Populated
  <2> QED BY <1>1, <2>1, <2>3, <2>4, FS_EmptySet
<1>3. CASE ~(acct.state = "unreconciled" /\ ~Populated)
  <2>1. Prepared = acct
    BY <1>3 DEF Prepared
  <2>2. acct.state = "ready"
    BY <1>1, <2>1
  <2> QED BY <1>1, <2>1, <2>2, TableRows DEF AcctInv, TotalsExact
<1> QED BY <1>2, <1>3

\* The triggers: the tables grow by what is added to the totals.
LEMMA CountedExact ==
    ASSUME AcctInv, Typed, Ready, NEW delta, Counted(delta),
           \A i \in 1..5 : delta[i] \in Nat /\ Cardinality(Keys(Tables[i])') = Cardinality(Keys(Tables[i])) + delta[i]
    PROVE  AcctInv'
<1> DEFINE sum == [i \in 1..5 |-> Prepared.totals[i] + delta[i]]
<1>1. /\ Prepared \in AcctType /\ Prepared.state = "ready"
      /\ \A i \in 1..5 : Prepared.totals[i] = Cardinality(Keys(Tables[i]))
  BY PreparedExact
<1>2. acct' = [Prepared EXCEPT !.totals = sum]
  BY TableRows DEF Counted
<1>3. sum \in [1..5 -> Nat] /\ \A i \in 1..5 : sum[i] = Cardinality(Keys(Tables[i])')
  BY <1>1 DEF AcctType
<1> HIDE DEF sum
<1>4. acct' \in AcctType /\ acct'.state = "ready" /\ acct'.totals = sum
  BY <1>1, <1>2, <1>3 DEF AcctType
<1>5. \A i \in 1..5 : acct'.totals[i] = Cardinality(Keys(Tables[i]))'
  BY <1>3, <1>4
<1>6. TotalsExact'
  BY <1>5, TableRows DEF TotalsExact, Tables
<1> QED BY <1>4, <1>6 DEF AcctInv

\* The same, table by table.
LEMMA CountedRows ==
    ASSUME AcctInv, Typed, Ready,
           NEW a \in Nat, NEW b \in Nat, NEW c \in Nat, NEW e \in Nat, NEW m \in Nat, Counted(<<a, b, c, e, m>>),
           Cardinality(Keys(Tables[1])') = Cardinality(Keys(Tables[1])) + a,
           Cardinality(Keys(Tables[2])') = Cardinality(Keys(Tables[2])) + b,
           Cardinality(Keys(Tables[3])') = Cardinality(Keys(Tables[3])) + c,
           Cardinality(Keys(Tables[4])') = Cardinality(Keys(Tables[4])) + e,
           Cardinality(Keys(Tables[5])') = Cardinality(Keys(Tables[5])) + m
    PROVE  AcctInv'
<1> DEFINE d == <<a, b, c, e, m>>
<1>1. d[1] = a /\ d[2] = b /\ d[3] = c /\ d[4] = e /\ d[5] = m
  OBVIOUS
<1>2. Counted(d)
  OBVIOUS
<1> HIDE DEF d
<1>3. ASSUME NEW i \in 1..5
      PROVE  d[i] \in Nat /\ Cardinality(Keys(Tables[i])') = Cardinality(Keys(Tables[i])) + d[i]
  <2>1. i = 1 \/ i = 2 \/ i = 3 \/ i = 4 \/ i = 5
    OBVIOUS
  <2> QED BY <1>1, <2>1
<1> QED BY <1>2, <1>3, CountedExact

\* The tables keep their rows, and the account is prepared or stays.
LEMMA RowsKept ==
    ASSUME AcctInv, acct' = acct \/ (Ready /\ acct' = Prepared),
           \A i \in 1..5 : Keys(Tables[i])' = Keys(Tables[i])
    PROVE  AcctInv'
<1>1. CASE acct' = acct
  <2>1. \A i \in 1..5 : Scanned(i)' = Scanned(i)
    BY <1>1 DEF Scanned
  <2>2. TotalsExact'
    BY <1>1, TableRows DEF AcctInv, TotalsExact
  <2> QED BY <1>1, <2>1, <2>2 DEF AcctInv
<1>2. CASE Ready /\ acct' = Prepared
  <2>1. /\ acct' \in AcctType /\ acct'.state = "ready"
        /\ \A i \in 1..5 : acct'.totals[i] = Cardinality(Keys(Tables[i]))
    BY <1>2, PreparedExact
  <2>2. TotalsExact'
    BY <2>1, TableRows DEF TotalsExact
  <2> QED BY <2>1, <2>2 DEF AcctInv
<1> QED BY <1>1, <1>2

\* The parts of an account.
LEMMA AcctParts ==
    ASSUME NEW a \in AcctType
    PROVE  /\ a.rev \in Nat /\ a.rev + 1 \in Nat /\ a.table \in 0..5 /\ a.cursor \in Nat
           /\ a.work \in [1..5 -> Nat] /\ a.totals \in [1..5 -> Nat]
           /\ DOMAIN a = {"state", "rev", "table", "cursor", "work", "totals"}
BY DEF AcctType

\* An account is known by its parts.
LEMMA AcctMade ==
    ASSUME NEW b, b = [state |-> b.state, rev |-> b.rev, table |-> b.table, cursor |-> b.cursor,
                       work |-> b.work, totals |-> b.totals],
           b.state \in {"unreconciled", "rebuilding", "ready", "blocked"}, b.rev \in Nat, b.table \in 0..5,
           b.cursor \in Nat, b.work \in [1..5 -> Nat], b.totals \in [1..5 -> Nat]
    PROVE  b \in AcctType
BY DEF AcctType

\* Rows in ascending order are as many as the sequence is long.
LEMMA AscendingCounts ==
    ASSUME NEW c, c \in Seq(Nat), Ascending(c)
    PROVE  IsFiniteSet(Range(c)) /\ Cardinality(Range(c)) = Len(c)
<1> DEFINE n == Len(c)
<1>1. n \in Nat /\ DOMAIN c = 1..n /\ c \in [1..n -> Nat]
  OBVIOUS
<1>2. \A i, j \in 1..n : c[i] = c[j] => i = j
  <2>1. SUFFICES ASSUME NEW i \in 1..n, NEW j \in 1..n, c[i] = c[j], i < j PROVE FALSE
    BY <1>1
  <2>2. c[i] < c[j] /\ c[i] \in Nat
    BY <1>1, <2>1 DEF Ascending
  <2> QED BY <2>1, <2>2
<1> HIDE DEF n
<1>3. c \in [1..n -> Range(c)] /\ \A k \in Range(c) : \E i \in 1..n : c[i] = k
  BY <1>1 DEF Range
<1>4. c \in Surjection(1..n, Range(c)) /\ c \in Injection(1..n, Range(c))
  BY <1>1, <1>2, <1>3 DEF Surjection, Injection, IsInjective
<1>5. ExistsBijection(1..n, Range(c))
  BY <1>4 DEF ExistsBijection, Bijection
<1>6. IsFiniteSet(1..n) /\ Cardinality(1..n) = n
  BY <1>1, FS_Interval
<1> QED BY <1>5, <1>6, FS_Bijection DEF n

\* The rebuild starts, or an empty database is ready.
LEMMA BootstrapExact ==
    ASSUME StagesInv, AcctInv, bootstrapRetainedStageAccounting
    PROVE  AcctInv'
<1>1. acct \in AcctType /\ UNCHANGED <<stage, facts, epoch, member>>
  BY DEF AcctInv, bootstrapRetainedStageAccounting
<1>2. \A i \in 1..5 : Keys(Tables[i])' = Keys(Tables[i])
  <2>1. SUFFICES ASSUME NEW i \in 1..5 PROVE Keys(Tables[i])' = Keys(Tables[i])
    OBVIOUS
  <2>2. i = 1 \/ i = 2 \/ i = 3 \/ i = 4 \/ i = 5
    OBVIOUS
  <2> QED BY <1>1, <2>2, TableRows
<1>3. NoRows \in [1..5 -> Nat] /\ \A i \in 1..5 : NoRows[i] = 0
  BY TableRows DEF NoRows
<1> HIDE DEF NoRows
<1>4. CASE Populated
  <2>1. acct' = [acct EXCEPT !.state = "rebuilding", !.table = 1, !.cursor = 0, !.work = NoRows, !.rev = @ + 1]
    BY <1>4 DEF bootstrapRetainedStageAccounting
  <2>2. acct' \in AcctType /\ acct'.state = "rebuilding" /\ acct'.table = 1 /\ acct'.cursor = 0 /\ acct'.work = NoRows
    <3>1. /\ acct' = [state |-> acct'.state, rev |-> acct'.rev, table |-> acct'.table, cursor |-> acct'.cursor,
                      work |-> acct'.work, totals |-> acct'.totals]
          /\ acct'.state = "rebuilding" /\ acct'.rev = acct.rev + 1 /\ acct'.table = 1 /\ acct'.cursor = 0
          /\ acct'.work = NoRows /\ acct'.totals = acct.totals
      BY <1>1, <2>1, AcctParts
    <3> QED BY <1>1, <1>3, <3>1, AcctParts, AcctMade
  <2>3. ASSUME NEW i \in 1..5 PROVE Scanned(i)' = {}
    <3>1. \A k \in Keys(Tables[i]) : k \in Nat \ {0}
      BY RowsFinite DEF StagesInv
    <3> QED BY <1>2, <2>2, <3>1 DEF Scanned
  <2>4. \A i \in 1..5 : acct'.work[i] = Cardinality(Scanned(i))'
    BY <1>3, <2>2, <2>3, FS_EmptySet
  <2>5. TotalsExact'
    BY <2>2 DEF TotalsExact
  <2> QED BY <2>2, <2>4, <2>5 DEF AcctInv
<1>5. CASE ~Populated
  <2>1. acct' = [acct EXCEPT !.state = "ready", !.totals = NoRows, !.rev = @ + 1]
    BY <1>5 DEF bootstrapRetainedStageAccounting
  <2>2. acct' \in AcctType /\ acct'.state = "ready" /\ acct'.totals = NoRows
    <3>1. /\ acct' = [state |-> acct'.state, rev |-> acct'.rev, table |-> acct'.table, cursor |-> acct'.cursor,
                      work |-> acct'.work, totals |-> acct'.totals]
          /\ acct'.state = "ready" /\ acct'.rev = acct.rev + 1 /\ acct'.table = acct.table /\ acct'.cursor = acct.cursor
          /\ acct'.work = acct.work /\ acct'.totals = NoRows
      BY <1>1, <2>1, AcctParts
    <3> QED BY <1>1, <1>3, <3>1, AcctParts, AcctMade
  <2>3. \A i \in 1..5 : Keys(Tables[i]) = {}
    BY <1>5, TableRows DEF Populated
  <2>4. TotalsExact'
    BY <1>2, <1>3, <2>2, <2>3, TableRows, FS_EmptySet DEF TotalsExact
  <2> QED BY <2>2, <2>4 DEF AcctInv
<1> QED BY <1>4, <1>5

\* The rebuild counts a chunk, goes on to the next table, ends, or is blocked.
LEMMA AdvanceExact ==
    ASSUME StagesInv, AcctInv, NEW r, advanceRetainedStageAccounting(r)
    PROVE  AcctInv'
<1> DEFINE n == acct.table
           keys == Keys(Tables[n])
           next == [acct EXCEPT !.rev = @ + 1]
<1>1. /\ acct \in AcctType /\ acct.state = "rebuilding" /\ n \in 1..5 /\ acct.cursor \in Nat
      /\ acct.work \in [1..5 -> Nat] /\ \A i \in 1..5 : acct.work[i] = Cardinality(Scanned(i))
  <2>1. acct \in AcctType /\ acct.state = "rebuilding" /\ n # 0 /\ \A i \in 1..5 : acct.work[i] = Cardinality(Scanned(i))
    BY DEF AcctInv, advanceRetainedStageAccounting
  <2> QED BY <2>1, AcctParts
<1>2. \A i \in 1..5 : Keys(Tables[i])' = Keys(Tables[i])
  <2>1. SUFFICES ASSUME NEW i \in 1..5 PROVE Keys(Tables[i])' = Keys(Tables[i])
    OBVIOUS
  <2>2. i = 1 \/ i = 2 \/ i = 3 \/ i = 4 \/ i = 5
    OBVIOUS
  <2> QED BY <2>2, TableRows DEF advanceRetainedStageAccounting
<1>3. \A i \in 1..5 : Keys(Tables[i]) \subseteq Nat \ {0} /\ IsFiniteSet(Keys(Tables[i]))
  BY RowsFinite DEF StagesInv
<1>4. ASSUME RowsAfter(keys, acct.cursor) = {} PROVE \A k \in keys : k <= acct.cursor
  <2>1. \A k \in keys : k \in Nat /\ ~(k > acct.cursor)
    BY <1>1, <1>3, <1>4 DEF RowsAfter
  <2> QED BY <1>1, <2>1
<1>5. CASE RowsAfter(keys, acct.cursor) = {} /\ n = 5
  <2>1. acct' = [next EXCEPT !.state = "ready", !.totals = acct.work]
    BY <1>5, TableRows DEF advanceRetainedStageAccounting
  <2>2. acct' \in AcctType /\ acct'.state = "ready" /\ acct'.totals = acct.work
    <3>1. /\ acct' = [state |-> acct'.state, rev |-> acct'.rev, table |-> acct'.table, cursor |-> acct'.cursor,
                      work |-> acct'.work, totals |-> acct'.totals]
          /\ acct'.state = "ready" /\ acct'.rev = acct.rev + 1 /\ acct'.table = acct.table /\ acct'.cursor = acct.cursor
          /\ acct'.work = acct.work /\ acct'.totals = acct.work
      BY <1>1, <2>1, AcctParts
    <3> QED BY <1>1, <3>1, AcctParts, AcctMade
  <2>3. \A i \in 1..5 : Scanned(i) = Keys(Tables[i])
    BY <1>4, <1>5 DEF Scanned
  <2>4. TotalsExact'
    BY <1>1, <1>2, <2>2, <2>3, TableRows DEF TotalsExact
  <2> QED BY <2>2, <2>4 DEF AcctInv
<1>6. CASE RowsAfter(keys, acct.cursor) = {} /\ n # 5
  <2>1. acct' = [next EXCEPT !.table = @ + 1, !.cursor = 0]
    BY <1>6, TableRows DEF advanceRetainedStageAccounting
  <2>2. /\ acct' \in AcctType /\ acct'.state = "rebuilding" /\ acct'.table = n + 1 /\ acct'.cursor = 0
        /\ acct'.work = acct.work
    <3>1. /\ acct' = [state |-> acct'.state, rev |-> acct'.rev, table |-> acct'.table, cursor |-> acct'.cursor,
                      work |-> acct'.work, totals |-> acct'.totals]
          /\ acct'.state = "rebuilding" /\ acct'.rev = acct.rev + 1 /\ acct'.table = n + 1 /\ acct'.cursor = 0
          /\ acct'.work = acct.work /\ acct'.totals = acct.totals
      BY <1>1, <2>1, AcctParts
    <3>2. n + 1 \in 0..5
      BY <1>1, <1>6
    <3> HIDE DEF n
    <3> QED BY <1>1, <3>1, <3>2, AcctParts, AcctMade
  <2>3. ASSUME NEW i \in 1..5 PROVE Scanned(i)' = Scanned(i)
    <3>1. \A k \in Keys(Tables[i]) : k \in Nat /\ ~(k <= 0)
      BY <1>3
    <3>2. \A k \in Keys(Tables[i]) :
            i < n + 1 \/ (i = n + 1 /\ k <= 0) <=> i < n \/ (i = n /\ k <= acct.cursor)
      BY <1>1, <1>4, <1>6, <3>1
    <3> QED BY <1>2, <2>2, <3>2 DEF Scanned
  <2>4. TotalsExact'
    BY <2>2 DEF TotalsExact
  <2> QED BY <1>1, <2>2, <2>3, <2>4 DEF AcctInv
<1>7. ASSUME NEW c \in Chunks(keys, acct.cursor), acct' = [next EXCEPT !.state = "blocked"]
      PROVE  AcctInv'
  <2>1. acct' \in AcctType /\ acct'.state = "blocked"
    <3>1. /\ acct' = [state |-> acct'.state, rev |-> acct'.rev, table |-> acct'.table, cursor |-> acct'.cursor,
                      work |-> acct'.work, totals |-> acct'.totals]
          /\ acct'.state = "blocked" /\ acct'.rev = acct.rev + 1 /\ acct'.table = acct.table /\ acct'.cursor = acct.cursor
          /\ acct'.work = acct.work /\ acct'.totals = acct.totals
      BY <1>1, <1>7, AcctParts
    <3> QED BY <1>1, <3>1, AcctParts, AcctMade
  <2>2. TotalsExact'
    BY <2>1 DEF TotalsExact
  <2> QED BY <2>1, <2>2 DEF AcctInv
<1>8. ASSUME NEW c \in Chunks(keys, acct.cursor),
             acct' = [next EXCEPT !.work[acct.table] = @ + Len(c), !.cursor = Last(c)]
      PROVE  AcctInv'
  <2>1. /\ keys \subseteq Nat /\ c \in Seq(keys) /\ Len(c) \in Nat /\ Ascending(c) /\ Last(c) \in Nat
        /\ Last(c) > acct.cursor
        /\ \A k : k \in Range(c) <=> k \in keys /\ k > acct.cursor /\ k <= Last(c)
    <3>1. keys \subseteq Nat
      BY <1>1, <1>3
    <3> HIDE DEF keys
    <3> QED BY <1>1, <3>1, ChunkRows
  <2> DEFINE w == [acct.work EXCEPT ![n] = @ + Len(c)]
  <2>2. acct' = [next EXCEPT !.work = w, !.cursor = Last(c)]
    BY <1>1, <1>8, AcctParts
  <2>3. w \in [1..5 -> Nat] /\ w[n] = acct.work[n] + Len(c) /\ \A i \in 1..5 : i # n => w[i] = acct.work[i]
    <3> HIDE DEF n
    <3>1. n \in 1..5 /\ acct.work \in [1..5 -> Nat]
      BY <1>1
    <3>2. acct.work[n] \in Nat /\ Len(c) \in Nat
      BY <2>1, <3>1
    <3>3. acct.work[n] + Len(c) \in Nat
      BY <3>2
    <3> QED BY <3>1, <3>3
  <2> HIDE DEF w
  <2>4. /\ acct' \in AcctType /\ acct'.state = "rebuilding" /\ acct'.table = n /\ acct'.cursor = Last(c)
        /\ acct'.work = w
    <3>1. /\ acct' = [state |-> acct'.state, rev |-> acct'.rev, table |-> acct'.table, cursor |-> acct'.cursor,
                      work |-> acct'.work, totals |-> acct'.totals]
          /\ acct'.state = "rebuilding" /\ acct'.rev = acct.rev + 1 /\ acct'.table = n /\ acct'.cursor = Last(c)
          /\ acct'.work = w /\ acct'.totals = acct.totals
      BY <1>1, <2>2, AcctParts
    <3>2. n \in 0..5
      BY <1>1
    <3> HIDE DEF n
    <3> QED BY <1>1, <2>1, <2>3, <3>1, <3>2, AcctParts, AcctMade
  <2>5. ASSUME NEW i \in 1..5, i # n PROVE Scanned(i)' = Scanned(i)
    BY <1>2, <2>4, <2>5 DEF Scanned
  <2>6. Scanned(n)' = Scanned(n) \cup Range(c) /\ Scanned(n) \cap Range(c) = {}
    <3>1. Scanned(n) = {k \in keys : k <= acct.cursor}
      BY <1>1 DEF Scanned
    <3>2. Scanned(n)' = {k \in keys : k <= Last(c)}
      BY <1>1, <1>2, <2>4 DEF Scanned
    <3> HIDE DEF keys
    <3>3. acct.cursor \in Nat /\ Last(c) \in Nat /\ Last(c) > acct.cursor /\ keys \subseteq Nat
      BY <1>1, <2>1
    <3> HIDE DEF n
    <3>4. \A k \in keys : k <= Last(c) <=> k <= acct.cursor \/ (k > acct.cursor /\ k <= Last(c))
      BY <3>3
    <3>5. \A k \in keys : ~(k <= acct.cursor /\ k > acct.cursor)
      BY <3>3
    <3>6. \A k : k \in Range(c) <=> k \in keys /\ k > acct.cursor /\ k <= Last(c)
      BY <2>1
    <3> QED BY <3>1, <3>2, <3>4, <3>5, <3>6
  <2>7. c \in Seq(Nat)
    BY <2>1
  <2>8. IsFiniteSet(Range(c)) /\ Cardinality(Range(c)) = Len(c)
    BY <2>1, <2>7, AscendingCounts
  <2>9. Scanned(n) \in SUBSET Keys(Tables[n])
    BY DEF Scanned
  <2>10. IsFiniteSet(Scanned(n)) /\ Cardinality(Scanned(n)) \in Nat
    BY <1>1, <1>3, <2>9, FS_Subset, FS_CardinalityType
  <2>11. Cardinality(Scanned(n)') = Cardinality(Scanned(n)) + Len(c)
    <3> DEFINE P == Scanned(n)
               Q == Range(c)
    <3> HIDE DEF P, Q
    <3>1. Cardinality(P \cup Q) = Cardinality(P) + Cardinality(Q) - Cardinality(P \cap Q)
      BY <2>8, <2>10, FS_Union DEF P, Q
    <3>2. Cardinality(P \cap Q) = 0
      BY <2>6, FS_EmptySet DEF P, Q
    <3>3. Cardinality(P) \in Nat /\ Cardinality(Q) = Len(c) /\ Len(c) \in Nat
      BY <2>1, <2>8, <2>10 DEF P, Q
    <3>4. Scanned(n)' = P \cup Q
      BY <2>6 DEF P, Q
    <3> QED BY <3>1, <3>2, <3>3, <3>4 DEF P
  <2>12. \A i \in 1..5 : acct'.work[i] = Cardinality(Scanned(i)')
    BY <1>1, <2>3, <2>4, <2>5, <2>11
  <2>13. TotalsExact'
    BY <2>4 DEF TotalsExact
  <2> QED BY <1>1, <2>4, <2>12, <2>13 DEF AcctInv
<1>9. CASE RowsAfter(keys, acct.cursor) # {}
  BY <1>7, <1>8, <1>9 DEF advanceRetainedStageAccounting
<1> QED BY <1>5, <1>6, <1>9

-----------------------------------------------------------------------------
(* What the writes add to the tables.                                       *)

\* One row more.
LEMMA OneMore ==
    ASSUME NEW S, IsFiniteSet(S), NEW x, x \notin S, NEW T, T = S \cup {x}
    PROVE  Cardinality(T) = Cardinality(S) + 1
BY FS_AddElement

\* One stage changes, and was open before.
LEMMA RunsKept ==
    ASSUME NEW t \in Threads, \A u \in Threads : u # t => stage'[u] = stage[u],
           stage'[t].state # None, stage[t].state # None
    PROVE  RunRows(stage') = RunRows(stage)
<1>1. {u \in Threads : stage'[u].state # None} = {u \in Threads : stage[u].state # None}
  OBVIOUS
<1> QED BY <1>1 DEF RunRows

\* One stage is opened.
LEMMA RunAdded ==
    ASSUME NEW t \in Threads, \A u \in Threads : u # t => stage'[u] = stage[u],
           stage'[t].state # None
    PROVE  RunRows(stage') = RunRows(stage) \cup {Span * t}
<1>1. \A k : k \in RunRows(stage') <=> \E u \in Threads : stage'[u].state # None /\ k = Span * u
  BY DEF RunRows
<1>2. \A k : k \in RunRows(stage) <=> \E u \in Threads : stage[u].state # None /\ k = Span * u
  BY DEF RunRows
<1>3. ASSUME NEW k \in RunRows(stage') PROVE k \in RunRows(stage) \cup {Span * t}
  BY <1>1, <1>2
<1>4. ASSUME NEW k \in RunRows(stage) \cup {Span * t} PROVE k \in RunRows(stage')
  BY <1>1, <1>2
<1> QED BY <1>3, <1>4

\* One stage changes, and has as many pages as before.
LEMMA PagesKept ==
    ASSUME NEW t \in Threads, \A u \in Threads : u # t => stage'[u] = stage[u],
           DOMAIN stage'[t].pages = DOMAIN stage[t].pages
    PROVE  PageRows(stage') = PageRows(stage)
<1>1. \A k : k \in PageRows(stage') <=> \E u \in Threads : \E p \in DOMAIN stage'[u].pages : k = Span * u + p
  BY DEF PageRows
<1>2. \A k : k \in PageRows(stage) <=> \E u \in Threads : \E p \in DOMAIN stage[u].pages : k = Span * u + p
  BY DEF PageRows
<1>3. \A u \in Threads : DOMAIN stage'[u].pages = DOMAIN stage[u].pages
  OBVIOUS
<1>4. \A k : k \in PageRows(stage') <=> k \in PageRows(stage)
  BY <1>1, <1>2, <1>3
<1> QED BY <1>4

\* One stage has a page more.
LEMMA PageAdded ==
    ASSUME NEW t \in Threads, \A u \in Threads : u # t => stage'[u] = stage[u],
           NEW p, \A q : q \in DOMAIN stage'[t].pages <=> q \in DOMAIN stage[t].pages \/ q = p
    PROVE  PageRows(stage') = PageRows(stage) \cup {Span * t + p}
<1>1. \A k : k \in PageRows(stage') <=> \E u \in Threads : \E q \in DOMAIN stage'[u].pages : k = Span * u + q
  BY DEF PageRows
<1>2. \A k : k \in PageRows(stage) <=> \E u \in Threads : \E q \in DOMAIN stage[u].pages : k = Span * u + q
  BY DEF PageRows
<1>3. ASSUME NEW k \in PageRows(stage') PROVE k \in PageRows(stage) \cup {Span * t + p}
  <2>1. PICK u \in Threads : \E q \in DOMAIN stage'[u].pages : k = Span * u + q
    BY <1>1
  <2>2. CASE u # t
    BY <1>2, <2>1, <2>2
  <2>3. CASE u = t
    BY <1>2, <2>1, <2>3
  <2> QED BY <2>2, <2>3
<1>4. ASSUME NEW k \in PageRows(stage) PROVE k \in PageRows(stage')
  <2>1. PICK u \in Threads : \E q \in DOMAIN stage[u].pages : k = Span * u + q
    BY <1>2
  <2>2. DOMAIN stage[u].pages \subseteq DOMAIN stage'[u].pages
    OBVIOUS
  <2> QED BY <1>1, <2>1, <2>2
<1>5. Span * t + p \in PageRows(stage')
  BY <1>1
<1> QED BY <1>3, <1>4, <1>5

\* A stage is opened: one run.
LEMMA OpenStageExact ==
    ASSUME StagesInv, AcctInv, NEW t \in Threads, openRetainedProjectionStage(t)
    PROVE  AcctInv'
<1>1. /\ Ready /\ Counted(<<1, 0, 0, 0, 0>>) /\ UNCHANGED <<facts, epoch, member>>
      /\ stage' = [stage EXCEPT ![t] = [state |-> "collecting", pages |-> <<>>]] /\ stage[t].state = None
  BY DEF openRetainedProjectionStage, StageWritable, Opened
<1>2. Typed /\ stage \in [Threads -> StageType] /\ stage[t].pages = <<>>
  BY <1>1 DEF StagesInv, Typed, StageTyped
<1>3. stage'[t].state # None /\ stage'[t].pages = <<>> /\ \A u \in Threads : u # t => stage'[u] = stage[u]
  BY <1>1, <1>2 DEF None
<1>4. RunRows(stage') = RunRows(stage) \cup {Span * t} /\ PageRows(stage') = PageRows(stage)
  <2>1. DOMAIN stage'[t].pages = DOMAIN stage[t].pages
    BY <1>2, <1>3
  <2>2. RunRows(stage') = RunRows(stage) \cup {Span * t}
    BY <1>3, RunAdded
  <2>3. PageRows(stage') = PageRows(stage)
    BY <1>3, <2>1, PagesKept
  <2> QED BY <2>2, <2>3
<1>5. Span * t \notin RunRows(stage)
  <2>1. SUFFICES ASSUME NEW u \in Threads, stage[u].state # None, Span * t = Span * u PROVE FALSE
    BY DEF RunRows
  <2>2. 0 \in 0..(Span - 1) /\ Span * t + 0 = Span * u + 0
    BY <2>1, StagesAssumption, RowPositive
  <2>3. t = u
    BY <2>2, RowsDiffer
  <2> QED BY <1>1, <2>1, <2>3
<1>6. Cardinality(Keys(Tables[1])') = Cardinality(Keys(Tables[1])) + 1
  BY <1>2, <1>4, <1>5, TableRows, RowsFinite, OneMore
<1>7. /\ Keys(Tables[2])' = Keys(Tables[2]) /\ Keys(Tables[3])' = Keys(Tables[3])
      /\ Keys(Tables[4])' = Keys(Tables[4]) /\ Keys(Tables[5])' = Keys(Tables[5])
  BY <1>1, <1>4, TableRows
<1>8. \A i \in 1..5 : Cardinality(Keys(Tables[i])) \in Nat
  BY <1>2, RowsFinite
<1>9. \A i \in 2..5 : Cardinality(Keys(Tables[i])') = Cardinality(Keys(Tables[i])) + 0
  BY <1>7, <1>8
<1> QED BY <1>1, <1>2, <1>6, <1>7, <1>9, CountedRows

\* A stage fails, goes on or is closed: every table keeps its rows.
LEMMA MoveStageExact ==
    ASSUME StagesInv, AcctInv, NEW t \in Threads, stage[t].state # None,
           NEW x \in {"collecting", "failed", "terminal"},
           stage' = [stage EXCEPT ![t].state = x], UNCHANGED <<facts, epoch, member, acct>>
    PROVE  AcctInv'
<1>1. stage \in [Threads -> StageType]
  BY DEF StagesInv, Typed, StageTyped
<1>2. stage'[t].state = x /\ stage'[t].pages = stage[t].pages /\ \A u \in Threads : u # t => stage'[u] = stage[u]
  BY <1>1 DEF StageType
<1>3. x # None
  BY DEF None
<1>4. RunRows(stage') = RunRows(stage) /\ PageRows(stage') = PageRows(stage)
  <2>1. stage'[t].state # None /\ DOMAIN stage'[t].pages = DOMAIN stage[t].pages
    BY <1>2, <1>3
  <2>2. RunRows(stage') = RunRows(stage)
    BY <1>2, <2>1, RunsKept
  <2>3. PageRows(stage') = PageRows(stage)
    BY <1>2, <2>1, PagesKept
  <2> QED BY <2>2, <2>3
<1>5. ASSUME NEW i \in 1..5 PROVE Keys(Tables[i])' = Keys(Tables[i])
  <2>1. i = 1 \/ i = 2 \/ i = 3 \/ i = 4 \/ i = 5
    OBVIOUS
  <2> QED BY <1>4, <2>1, TableRows
<1> QED BY <1>5, RowsKept

\* The facts a page adds to its stage are as many rows more.
LEMMA NewFactRows ==
    ASSUME Typed, NEW t \in Threads, NEW b \in SUBSET Facts, facts' = [facts EXCEPT ![t] = @ \cup b]
    PROVE  /\ Cardinality(b \ facts[t]) \in Nat
           /\ Cardinality(FactRows(facts')) = Cardinality(FactRows(facts)) + Cardinality(b \ facts[t])
<1> DEFINE new == b \ facts[t]
           R == {Span * t + x : x \in new}
           f == [x \in new |-> Span * t + x]
<1>1. facts \in [Threads -> SUBSET Facts] /\ Span \in Nat /\ Facts \subseteq 1..(Span - 1)
  BY StagesAssumption DEF Typed, StageTyped
<1>2. facts'[t] = facts[t] \cup new /\ \A u \in Threads : u # t => facts'[u] = facts[u]
  BY <1>1
<1>3. new \subseteq 0..(Span - 1) /\ \A u \in Threads : facts[u] \subseteq 0..(Span - 1)
  <2>1. Facts \subseteq 0..(Span - 1)
    BY <1>1
  <2> QED BY <1>1, <2>1
<1>4. IsFiniteSet(new)
  <2>1. IsFiniteSet(0..(Span - 1))
    BY <1>1, FS_Interval
  <2> QED BY <1>3, <2>1, FS_Subset
<1>5. f \in [new -> R] /\ \A k \in R : \E x \in new : f[x] = k
  OBVIOUS
<1>6. \A x, y \in new : f[x] = f[y] => x = y
  BY <1>3, RowsDiffer
<1>7. \A u \in Threads : \A x \in facts[u] : \A y \in new : Span * u + x # Span * t + y
  <2>1. SUFFICES ASSUME NEW u \in Threads, NEW x \in facts[u], NEW y \in new, Span * u + x = Span * t + y
                 PROVE  FALSE
    OBVIOUS
  <2>2. x \in 0..(Span - 1) /\ y \in 0..(Span - 1)
    BY <1>3
  <2>3. u = t /\ x = y
    BY <2>1, <2>2, RowsDiffer
  <2> QED BY <2>3
<1> HIDE DEF f
<1>8. f \in Injection(new, R) /\ f \in Surjection(new, R)
  BY <1>5, <1>6 DEF Injection, Surjection, IsInjective
<1>9. \A k : k \in R <=> \E x \in new : k = Span * t + x
  OBVIOUS
<1> HIDE DEF new, R
<1>10. IsFiniteSet(R) /\ Cardinality(R) = Cardinality(new) /\ Cardinality(new) \in Nat
  <2>1. ExistsBijection(new, R)
    BY <1>8 DEF ExistsBijection, Bijection
  <2> QED BY <1>4, <2>1, FS_Bijection, FS_CardinalityType
<1>11. \A k : k \in FactRows(facts) <=> \E u \in Threads : \E x \in facts[u] : k = Span * u + x
  BY DEF FactRows
<1>12. \A k : k \in FactRows(facts') <=> \E u \in Threads : \E x \in facts'[u] : k = Span * u + x
  BY DEF FactRows
<1>13. FactRows(facts') = FactRows(facts) \cup R
  <2>1. ASSUME NEW k \in FactRows(facts') PROVE k \in FactRows(facts) \cup R
    <3>1. PICK u \in Threads : \E x \in facts'[u] : k = Span * u + x
      BY <1>12
    <3>2. CASE u # t
      BY <1>2, <1>11, <3>1, <3>2
    <3>3. CASE u = t
      BY <1>2, <1>9, <1>11, <3>1, <3>3
    <3> QED BY <3>2, <3>3
  <2>2. ASSUME NEW k \in FactRows(facts) PROVE k \in FactRows(facts')
    <3>1. PICK u \in Threads : \E x \in facts[u] : k = Span * u + x
      BY <1>11
    <3>2. facts[u] \subseteq facts'[u]
      BY <1>2
    <3> QED BY <1>12, <3>1, <3>2
  <2>3. ASSUME NEW k \in R PROVE k \in FactRows(facts')
    BY <1>2, <1>9, <1>12
  <2> QED BY <2>1, <2>2, <2>3
<1>14. FactRows(facts) \cap R = {}
  BY <1>7, <1>9, <1>11
<1>15. IsFiniteSet(FactRows(facts)) /\ Cardinality(FactRows(facts)) \in Nat
  BY RowsBounded, AllRowsFinite, FS_Subset, FS_CardinalityType
<1> DEFINE P == FactRows(facts)
<1> HIDE DEF P
<1>16. Cardinality(P \cup R) = Cardinality(P) + Cardinality(R) - Cardinality(P \cap R)
  BY <1>10, <1>15, FS_Union DEF P
<1>17. Cardinality(P \cap R) = 0
  BY <1>14, FS_EmptySet DEF P
<1>18. Cardinality(P \cup R) = Cardinality(P) + Cardinality(new)
  BY <1>10, <1>15, <1>16, <1>17 DEF P
<1> QED BY <1>10, <1>13, <1>18 DEF P, new

\* A page is staged: one page and its new facts; or the stage closes.
LEMMA AppendExact ==
    ASSUME StagesInv, AcctInv, NEW r, IsRequest(r), r.op = "append", appendRetainedProjectionStagePage(r)
    PROVE  AcctInv'
<1> DEFINE t == r.t
           p == [facts |-> r.body.facts, exhausted |-> r.body.exhausted, nth |-> Len(r.after) + 1]
           l == stage[t].pages
<1>1. /\ t \in Threads /\ r.body.facts \in SUBSET Facts /\ UNCHANGED <<epoch, member>> /\ Ready
      /\ stage[t].state = "collecting" /\ stage[t].state # None
  BY DEF IsRequest, appendRetainedProjectionStagePage, StageWritable, None
<1>2. CASE closeRetainedProjectionBudget(t)
  BY <1>1, <1>2, MoveStageExact DEF closeRetainedProjectionBudget
<1>3. CASE /\ stage' = [stage EXCEPT ![t].pages = Append(@, p)]
           /\ facts' = [facts EXCEPT ![t] = @ \cup r.body.facts]
           /\ Counted(<<0, 1, Cardinality(NewFacts(r)), 0, 0>>) /\ Len(l) < MaxPages
  <2>1. Typed /\ stage \in [Threads -> StageType] /\ l \in Seq(PageType) /\ Len(l) \in Nat
    BY <1>1 DEF StagesInv, Typed, StageTyped, StageType
  <2> HIDE DEF p
  <2>2. /\ stage'[t].state = stage[t].state /\ stage'[t].pages = Append(l, p)
        /\ \A u \in Threads : u # t => stage'[u] = stage[u]
    BY <1>1, <1>3, <2>1 DEF StageType
  <2>3. DOMAIN l = 1..Len(l) /\ DOMAIN stage'[t].pages = 1..(Len(l) + 1)
    BY <2>1, <2>2
  <2>4. 1..(Len(l) + 1) = 1..Len(l) \cup {Len(l) + 1}
    BY <2>1
  <2>5. RunRows(stage') = RunRows(stage) /\ PageRows(stage') = PageRows(stage) \cup {Span * t + (Len(l) + 1)}
    <3>1. stage'[t].state # None /\ DOMAIN stage'[t].pages = DOMAIN stage[t].pages \cup {Len(l) + 1}
      BY <1>1, <2>2, <2>3, <2>4
    <3> HIDE DEF l, t
    <3>2. RunRows(stage') = RunRows(stage)
      BY <1>1, <2>2, <3>1, RunsKept
    <3>3. PageRows(stage') = PageRows(stage) \cup {Span * t + (Len(l) + 1)}
      <4>1. \A q : q \in DOMAIN stage'[t].pages <=> q \in DOMAIN stage[t].pages \/ q = Len(l) + 1
        BY <3>1
      <4> QED BY <1>1, <2>2, <4>1, PageAdded
    <3> QED BY <3>2, <3>3
  <2>6. Span * t + (Len(l) + 1) \notin PageRows(stage)
    <3>1. SUFFICES ASSUME NEW u \in Threads, NEW q \in DOMAIN stage[u].pages,
                          Span * t + (Len(l) + 1) = Span * u + q
                   PROVE  FALSE
      BY DEF PageRows
    <3>2. stage[u].pages \in Seq(PageType) /\ Len(stage[u].pages) <= MaxPages
      BY <2>1 DEF Typed, StageTyped, StageType
    <3>3. q \in 0..(Span - 1) /\ Len(l) + 1 \in 0..(Span - 1)
      <4>1. MaxPages \in Nat /\ MaxPages <= Span - 1 /\ Span \in Nat
        BY StagesAssumption
      <4>2. q \in Nat /\ q <= MaxPages
        BY <3>1, <3>2, <4>1
      <4>3. Len(l) \in Nat /\ Len(l) < MaxPages
        BY <1>3, <2>1
      <4> HIDE DEF l
      <4> QED BY <4>1, <4>2, <4>3
    <3>4. t = u /\ Len(l) + 1 = q
      <4> HIDE DEF t, l
      <4> QED BY <1>1, <3>1, <3>3, RowsDiffer
    <3> QED BY <2>1, <2>3, <3>4
  <2>7. Cardinality(NewFacts(r)) \in Nat
        /\ Cardinality(FactRows(facts')) = Cardinality(FactRows(facts)) + Cardinality(NewFacts(r))
    BY <1>1, <1>3, <2>1, NewFactRows DEF NewFacts
  <2>8. \A i \in 1..5 : IsFiniteSet(Keys(Tables[i])) /\ Cardinality(Keys(Tables[i])) \in Nat
    BY <2>1, RowsFinite
  <2>9. Cardinality(Keys(Tables[2])') = Cardinality(Keys(Tables[2])) + 1
    BY <2>5, <2>6, <2>8, TableRows, OneMore
  <2>10. /\ Keys(Tables[1])' = Keys(Tables[1]) /\ Keys(Tables[4])' = Keys(Tables[4])
         /\ Keys(Tables[5])' = Keys(Tables[5])
    BY <1>1, <2>5, TableRows
  <2>11. \A i \in {1, 4, 5} : Cardinality(Keys(Tables[i])') = Cardinality(Keys(Tables[i])) + 0
    BY <2>8, <2>10
  <2> QED BY <1>1, <1>3, <2>1, <2>7, <2>9, <2>11, TableRows, CountedRows
<1> QED BY <1>2, <1>3 DEF appendRetainedProjectionStagePage

\* The epoch is opened: one row.
LEMMA OpenEpochExact ==
    ASSUME StagesInv, AcctInv, openRetainedCandidateEpoch
    PROVE  AcctInv'
<1>1. Ready /\ Typed /\ epoch = NoEpoch /\ Counted(<<0, 0, 0, 1, 0>>) /\ UNCHANGED <<stage, facts, member>>
  BY DEF openRetainedCandidateEpoch, StagesInv
<1>2. epoch'.state = "open" /\ NoEpoch.state # "open"
  BY DEF openRetainedCandidateEpoch, NoEpoch, None
<1>3. EpochRows(epoch) = {} /\ EpochRows(epoch') = {1}
  BY <1>1, <1>2 DEF EpochRows
<1>4. Cardinality(Keys(Tables[4])') = Cardinality(Keys(Tables[4])) + 1
  BY <1>3, TableRows, FS_EmptySet, FS_Singleton
<1>5. /\ Keys(Tables[1])' = Keys(Tables[1]) /\ Keys(Tables[2])' = Keys(Tables[2])
      /\ Keys(Tables[3])' = Keys(Tables[3]) /\ Keys(Tables[5])' = Keys(Tables[5])
  BY <1>1, TableRows
<1>6. \A i \in 1..5 : Cardinality(Keys(Tables[i])) \in Nat
  BY <1>1, RowsFinite
<1>7. \A i \in {1, 2, 3, 5} : Cardinality(Keys(Tables[i])') = Cardinality(Keys(Tables[i])) + 0
  BY <1>5, <1>6
<1> QED BY <1>1, <1>4, <1>7, CountedRows

\* The epoch goes on, and stays opened.
LEMMA EpochRowKept ==
    ASSUME IsEpoch(epoch), NEW e, epoch' = e, e.state \in {"open", "freezing", "frozen", "sealing", "sealed"}
    PROVE  EpochRows(epoch') = EpochRows(epoch)
<1>1. epoch # NoEpoch /\ epoch' # NoEpoch
  BY DEF IsEpoch, NoEpoch, None
<1> QED BY <1>1 DEF EpochRows

\* A member is bound: one row.
LEMMA BindExact ==
    ASSUME StagesInv, AcctInv, NEW t \in Threads, bindRetainedCandidateMember(t)
    PROVE  AcctInv'
<1> DEFINE q == [pin |-> "bound", rev |-> 0, seen |-> <<>>]
<1>1. /\ Ready /\ Typed /\ epoch.state = "open" /\ member[t] = NoMember /\ member' = [member EXCEPT ![t] = q]
      /\ Counted(<<0, 0, 0, 0, 1>>) /\ UNCHANGED <<stage, facts>>
      /\ epoch' = [epoch EXCEPT !.rev = @ + 1, !.last = [op |-> "bind", t |-> t]]
  BY DEF bindRetainedCandidateMember, Bindable, StagesInv
<1>2. IsEpoch(epoch)
  BY <1>1 DEF Typed, EpochTyped, NoEpoch, None
<1>3. epoch'.state = "open"
  BY <1>1, <1>2 DEF IsEpoch
<1>4. EpochRows(epoch') = EpochRows(epoch)
  BY <1>2, <1>3, EpochRowKept
<1>5. q # NoMember
  BY DEF NoMember, None
<1> HIDE DEF q
<1>6. member'[t] # NoMember /\ \A u \in Threads : u # t => member'[u] = member[u]
  BY <1>1, <1>5 DEF Typed
<1>7. \A k : k \in MemberRows(member) <=> \E u \in Threads : member[u] # NoMember /\ k = Span * u
  BY DEF MemberRows
<1>8. \A k : k \in MemberRows(member') <=> \E u \in Threads : member'[u] # NoMember /\ k = Span * u
  BY DEF MemberRows
<1>9. MemberRows(member') = MemberRows(member) \cup {Span * t}
  <2>1. ASSUME NEW k \in MemberRows(member') PROVE k \in MemberRows(member) \cup {Span * t}
    BY <1>6, <1>7, <1>8
  <2>2. ASSUME NEW k \in MemberRows(member) \cup {Span * t} PROVE k \in MemberRows(member')
    BY <1>1, <1>6, <1>7, <1>8
  <2> QED BY <2>1, <2>2
<1>10. Span * t \notin MemberRows(member)
  <2>1. SUFFICES ASSUME NEW u \in Threads, member[u] # NoMember, Span * t = Span * u PROVE FALSE
    BY <1>7
  <2>2. 0 \in 0..(Span - 1) /\ Span * t + 0 = Span * u + 0
    BY <2>1, StagesAssumption, RowPositive
  <2>3. t = u
    BY <2>2, RowsDiffer
  <2> QED BY <1>1, <2>1, <2>3
<1>11. \A i \in 1..5 : IsFiniteSet(Keys(Tables[i])) /\ Cardinality(Keys(Tables[i])) \in Nat
  BY <1>1, RowsFinite
<1>12. Cardinality(Keys(Tables[5])') = Cardinality(Keys(Tables[5])) + 1
  BY <1>9, <1>10, <1>11, TableRows, OneMore
<1>13. /\ Keys(Tables[1])' = Keys(Tables[1]) /\ Keys(Tables[2])' = Keys(Tables[2])
       /\ Keys(Tables[3])' = Keys(Tables[3]) /\ Keys(Tables[4])' = Keys(Tables[4])
  BY <1>1, <1>4, TableRows
<1>14. \A i \in {1, 2, 3, 4} : Cardinality(Keys(Tables[i])') = Cardinality(Keys(Tables[i])) + 0
  BY <1>11, <1>13
<1> QED BY <1>1, <1>12, <1>14, CountedRows

\* The epoch is frozen, sealed or observes a member: no row is added.
LEMMA EpochExact ==
    ASSUME StagesInv, AcctInv, NEW r,
           \/ freezeRetainedCandidateEpoch(r) \/ sealRetainedCandidateEpoch(r)
           \/ r.op = "pin" /\ IsRequest(r) /\ pinRetainedCandidateMember(r)
    PROVE  AcctInv'
<1>1. Ready /\ acct' = Prepared /\ UNCHANGED <<stage, facts>> /\ IsEpoch(epoch)
  BY DEF freezeRetainedCandidateEpoch, sealRetainedCandidateEpoch, pinRetainedCandidateMember,
         StagesInv, Typed, EpochTyped
<1>2. epoch'.state \in {"freezing", "frozen", "sealing", "sealed"}
  <2>1. CASE freezeRetainedCandidateEpoch(r)
    BY <1>1, <2>1 DEF freezeRetainedCandidateEpoch, IsEpoch, Advanced
  <2>2. CASE sealRetainedCandidateEpoch(r)
    BY <1>1, <2>2 DEF sealRetainedCandidateEpoch, IsEpoch, Advanced
  <2>3. CASE pinRetainedCandidateMember(r)
    BY <1>1, <2>3 DEF pinRetainedCandidateMember, IsEpoch
  <2> QED BY <2>1, <2>2, <2>3
<1>3. EpochRows(epoch') = EpochRows(epoch)
  BY <1>1, <1>2, EpochRowKept
<1>4. MemberRows(member') = MemberRows(member)
  <2>1. CASE UNCHANGED member
    BY <2>1
  <2>2. CASE r.op = "pin" /\ IsRequest(r) /\ pinRetainedCandidateMember(r)
    <3> DEFINE t == r.t
               q == [pin |-> "pinned", rev |-> r.rev + 1, seen |-> stage[t].pages]
    <3>1. t \in Threads /\ member[t].pin = "bound" /\ member' = [member EXCEPT ![t] = q]
      BY <2>2 DEF pinRetainedCandidateMember, IsRequest
    <3>2. q # NoMember /\ member[t] # NoMember
      BY <3>1 DEF NoMember, None
    <3> HIDE DEF q, t
    <3>3. member'[t] = q /\ \A u \in Threads : u # t => member'[u] = member[u]
      BY <3>1 DEF StagesInv, Typed
    <3>4. \A u \in Threads : member'[u] # NoMember <=> member[u] # NoMember
      BY <3>2, <3>3
    <3>5. {u \in Threads : member'[u] # NoMember} = {u \in Threads : member[u] # NoMember}
      BY <3>4
    <3> QED BY <3>5 DEF MemberRows
  <2> QED BY <2>1, <2>2 DEF freezeRetainedCandidateEpoch, sealRetainedCandidateEpoch
<1>5. ASSUME NEW i \in 1..5 PROVE Keys(Tables[i])' = Keys(Tables[i])
  <2>1. i = 1 \/ i = 2 \/ i = 3 \/ i = 4 \/ i = 5
    OBVIOUS
  <2> QED BY <1>1, <1>3, <1>4, <2>1, TableRows
<1> QED BY <1>1, <1>5, RowsKept

\* A request that is executed.
LEMMA ExecuteExact ==
    ASSUME StagesInv, AcctInv, NEW r, IsRequest(r), Execute(r)
    PROVE  AcctInv'
<1>1. CASE r.op = "append" /\ appendRetainedProjectionStagePage(r)
  BY <1>1, AppendExact
<1>2. CASE \/ freezeRetainedCandidateEpoch(r) \/ sealRetainedCandidateEpoch(r)
           \/ r.op = "pin" /\ pinRetainedCandidateMember(r)
  BY <1>2, EpochExact
<1>3. CASE advanceRetainedStageAccounting(r)
  BY <1>3, AdvanceExact
<1> QED BY <1>1, <1>2, <1>3 DEF Execute

\* Every transaction keeps the account.
LEMMA NextExact == StagesInv /\ AcctInv /\ [Next]_vars => AcctInv'
<1>1. SUFFICES ASSUME StagesInv, AcctInv, [Next]_vars PROVE AcctInv'
  OBVIOUS
<1>2. IsRequest(held) /\ \A r \in Requests : IsRequest(r)
  BY <1>1, RequestsTyped DEF StagesInv, Typed
<1>3. CASE UNCHANGED <<stage, facts, epoch, member, acct>>
  <2>1. ASSUME NEW i \in 1..5 PROVE Keys(Tables[i])' = Keys(Tables[i])
    <3>1. i = 1 \/ i = 2 \/ i = 3 \/ i = 4 \/ i = 5
      OBVIOUS
    <3> QED BY <1>3, <3>1, TableRows
  <2> QED BY <1>1, <1>3, <2>1, RowsKept
<1>4. CASE bootstrapRetainedStageAccounting
  BY <1>1, <1>4, BootstrapExact
<1>5. CASE openRetainedCandidateEpoch
  BY <1>1, <1>5, OpenEpochExact
<1>6. ASSUME NEW t \in Threads,
             \/ failRetainedProjectionStage(t) \/ resumeRetainedProjectionStage(t)
             \/ closeRetainedProjectionStageAtPageLimit(t)
      PROVE  AcctInv'
  <2>1. /\ stage[t].state # None /\ UNCHANGED <<facts, epoch, member, acct>>
        /\ \E x \in {"collecting", "failed", "terminal"} : stage' = [stage EXCEPT ![t].state = x]
    BY <1>6 DEF failRetainedProjectionStage, resumeRetainedProjectionStage,
                closeRetainedProjectionStageAtPageLimit, None
  <2> QED BY <1>1, <2>1, MoveStageExact
<1>7. ASSUME NEW t \in Threads, openRetainedProjectionStage(t) \/ bindRetainedCandidateMember(t)
      PROVE  AcctInv'
  BY <1>1, <1>7, OpenStageExact, BindExact
<1>8. CASE SubmitHeld
  BY <1>1, <1>2, <1>8, ExecuteExact DEF SubmitHeld
<1>9. CASE Submit
  BY <1>1, <1>2, <1>9, ExecuteExact DEF Submit
<1> QED BY <1>1, <1>3, <1>4, <1>5, <1>6, <1>7, <1>8, <1>9 DEF Next, Hold, vars

\* Once the accounting is ready its totals are the rows of the tables: over a
\* rebuild in chunks of any size and every write of every caller since.
THEOREM StagesTotalsExact == Spec => []TotalsExact
<1>1. Init => AcctInv
  <2>1. SUFFICES ASSUME Init PROVE AcctInv
    OBVIOUS
  <2>2. NoRows \in [1..5 -> Nat]
    BY TableRows DEF NoRows
  <2>3. acct = [state |-> "unreconciled", rev |-> 0, table |-> 0, cursor |-> 0, work |-> NoRows, totals |-> NoRows]
    BY <2>1 DEF Init
  <2> HIDE DEF NoRows
  <2>4. acct \in AcctType /\ acct.state = "unreconciled"
    BY <2>2, <2>3 DEF AcctType
  <2> QED BY <2>4 DEF AcctInv, TotalsExact
<1>2. StagesInv /\ AcctInv /\ [Next]_vars => AcctInv'
  BY NextExact
<1>3. AcctInv => TotalsExact
  BY DEF AcctInv
<1> QED BY <1>1, <1>2, <1>3, StagesInvariant, PTL DEF Spec
===============================================================================
