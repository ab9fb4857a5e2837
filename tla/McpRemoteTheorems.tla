--------------------------- MODULE McpRemoteTheorems ---------------------------
(***************************************************************************)
(* The MCP connection manager forgets what was disconnected, presents only  *)
(* the grant it holds, exchanges a sign-in at most once and loses no        *)
(* transport, for any number of borrowers, sign-in pages, transports,       *)
(* tokens, disconnects and restarts.                                        *)
(***************************************************************************)
EXTENDS McpRemote, SequenceTheorems, TLAPS

Kinds == {"ensure", "begin", "finish", "retire", "clear"}
Places == {"queued", "save", "writing", "ensure", "refresh", "refreshing", "connect",
           "connecting", "exchange", "exchanging", "dispose"}
Sequels == {"done", "connect", "ensure", "exchange", "dispose"}
BundleType == [token : Nat, expired : BOOLEAN, pending : Nat]
FailureType == [live : Nat, token : Nat, unauthorized : BOOLEAN]
OpType ==
    [kind : Kinds, by : Callers \cup Users \cup {"manager"}, arg : Nat \cup FailureType, epoch : Nat,
     pc : Places, bundle : BundleType, peer : Nat, then : Sequels \cup {"none"}]
CallerType ==
    [at : {"idle", "acquiring", "leased", "ensuring", "ready", "calling", "failing"},
     lease : Nat, live : Nat, epoch : Nat, token : Nat]
PastType ==
    [issued : Seq(Nat), begun : Seq(Nat), exchanges : Seq(Nat), forgotten : Nat, broken : SUBSET Nat]
ConnType == [peer : Nat, token : Nat]

TypeOK ==
    /\ store \in BundleType /\ gen \in Nat /\ up \in BOOLEAN
    /\ tail \in Seq(OpType)
    /\ caller \in [Callers -> CallerType]
    /\ conn \in ConnType
    /\ open \subseteq Transports /\ retired \subseteq Nat /\ rejected \subseteq Nat
    /\ past \in PastType

\* Which steps an operation of each kind goes through.
Shaped(op) ==
    /\ op.kind = "finish" => op.arg \in Nat \ {0}
    /\ op.kind = "retire" => op.arg \in FailureType /\ op.pc \in {"queued", "save", "writing", "dispose"}
                             /\ op.then \in {"none", "dispose"}
    /\ op.kind = "clear" => op.pc = "queued"
    /\ op.pc = "dispose" \/ op.then = "dispose" => op.kind = "retire"
    /\ op.pc = "exchange" \/ op.then = "exchange" => op.kind = "finish"
    /\ op.pc \in {"save", "writing"} => op.then # "none"
    /\ op.pc = "connecting" <=> op.peer # None

\* It has not begun: it holds nothing of the store.
Begins(op) == op.pc = "queued" /\ op.bundle = NoBundle /\ op.peer = None /\ op.then = "none"

\* The operations of the queue q are as old as their places say, none older
\* than the disconnect f done last, none newer than the generation g; only the
\* first one is under way.
InLine(q, g, f) ==
    /\ f <= g
    /\ \A i \in DOMAIN q : Shaped(q[i]) /\ f <= q[i].epoch /\ q[i].epoch <= g /\ (i # 1 => Begins(q[i]))
    /\ \A i, j \in DOMAIN q : i < j => q[i].epoch <= q[j].epoch

\* A caller of the callers c awaits the operation it queued, and no other.
Awaits(op, c) ==
    /\ op.kind = "ensure" => op.by \in Callers /\ c[op.by].at \in {"acquiring", "ensuring"}
    /\ op.kind = "retire" => op.by \in Callers /\ c[op.by].at = "failing" /\ c[op.by].live = op.arg.live
OfCaller(op) == op.kind \in {"ensure", "retire"}
Awaited(q, c) ==
    /\ \A i \in DOMAIN q : Awaits(q[i], c)
    /\ \A i, j \in DOMAIN q : OfCaller(q[i]) /\ OfCaller(q[j]) /\ q[i].by = q[j].by => i = j

QueueInv == TypeOK /\ InLine(tail, gen, past.forgotten) /\ Awaited(tail, caller)

\* What is saved or about to be saved is of a sign-in after the last disconnect,
\* and its pending sign-in is unused.
Fresh(b, p) ==
    /\ b.token # None => b.token \in DOMAIN p.issued /\ p.issued[b.token] >= p.forgotten
    /\ b.pending # None => /\ b.pending \in DOMAIN p.begun /\ p.begun[b.pending] >= p.forgotten
                           /\ b.pending \in DOMAIN p.exchanges /\ p.exchanges[b.pending] = 0

\* What an operation knows of the store s and of the past p.
Knows(op, s, p) ==
    /\ Fresh(op.bundle, p)
    /\ op.pc \in {"refresh", "refreshing"} => op.bundle.token = s.token
    /\ op.pc \in {"save", "writing"} /\ op.then = "exchange" => s.pending = op.arg /\ op.bundle.pending = None
    /\ op.pc = "exchange" => /\ op.arg \in DOMAIN p.exchanges /\ p.exchanges[op.arg] = 0
                             /\ s.pending # op.arg /\ op.bundle.pending # op.arg

GrantInv ==
    /\ Fresh(store, past)
    /\ Len(past.exchanges) = Len(past.begun)
    /\ \A i \in DOMAIN tail : Knows(tail[i], store, past)
    /\ CallbackUsedOnce

USE DEF None

-----------------------------------------------------------------------------
(* Queues                                                                   *)

\* The queue without its first operation.
LEMMA FirstRemoved ==
    ASSUME NEW S, NEW q \in Seq(S), 1 \in DOMAIN q
    PROVE  /\ RemoveAt(q, 1) \in Seq(S) /\ Len(RemoveAt(q, 1)) = Len(q) - 1
           /\ \A i \in DOMAIN RemoveAt(q, 1) : i \in Nat \ {0} /\ i + 1 \in DOMAIN q /\ RemoveAt(q, 1)[i] = q[i + 1]
<1>1. Len(q) \in Nat /\ Len(q) >= 1 /\ DOMAIN q = 1..Len(q)
  BY LenProperties
<1>2. SubSeq(q, 1, 1 - 1) = <<>>
  BY SubSeqEmpty
<1>3. RemoveAt(q, 1) = SubSeq(q, 2, Len(q))
  <2>1. SubSeq(q, 2, Len(q)) \in Seq(S)
    BY <1>1, SubSeqProperties
  <2> QED BY <1>2, <2>1, ConcatEmptySeq DEF RemoveAt
<1>4. /\ SubSeq(q, 2, Len(q)) \in Seq(S) /\ Len(SubSeq(q, 2, Len(q))) = Len(q) - 1
      /\ \A i \in 1..(Len(q) - 1) : SubSeq(q, 2, Len(q))[i] = q[i + 1]
  <2>1. Len(SubSeq(q, 2, Len(q))) = IF 2 <= Len(q) THEN Len(q) - 2 + 1 ELSE 0
    BY <1>1, SubSeqProperties
  <2>2. SubSeq(q, 2, Len(q)) \in Seq(S) /\ \A i \in 1..(Len(q) - 1) : SubSeq(q, 2, Len(q))[i] = q[2 + i - 1]
    BY <1>1, SubSeqProperties
  <2> QED BY <1>1, <2>1, <2>2
<1>5. DOMAIN SubSeq(q, 2, Len(q)) = 1..(Len(q) - 1)
  BY <1>1, <1>4, LenProperties
<1>6. \A i \in 1..(Len(q) - 1) : i \in Nat \ {0} /\ i + 1 \in 1..Len(q)
  BY <1>1
<1> QED BY <1>1, <1>3, <1>4, <1>5, <1>6

\* The queue with its first operation one step further.
LEMMA FirstMoved ==
    ASSUME NEW S, NEW q \in Seq(S), 1 \in DOMAIN q, NEW x \in S
    PROVE  /\ [q EXCEPT ![1] = x] \in Seq(S) /\ DOMAIN [q EXCEPT ![1] = x] = DOMAIN q
           /\ [q EXCEPT ![1] = x][1] = x
           /\ \A i \in DOMAIN q : i # 1 => [q EXCEPT ![1] = x][i] = q[i]
BY ExceptSeq

\* The queue with one more operation.
LEMMA OneQueued ==
    ASSUME NEW S, NEW q \in Seq(S), NEW x \in S
    PROVE  /\ Append(q, x) \in Seq(S) /\ Len(q) \in Nat /\ DOMAIN Append(q, x) = 1..(Len(q) + 1)
           /\ DOMAIN q = 1..Len(q)
           /\ Append(q, x)[Len(q) + 1] = x
           /\ \A i \in DOMAIN q : Append(q, x)[i] = q[i]
BY AppendProperties, LenProperties
\* The order of the queue survives a step of the first operation,
LEMMA MovedInLine ==
    ASSUME NEW q \in Seq(OpType), 1 \in DOMAIN q, NEW g \in Nat, NEW f \in Nat, InLine(q, g, f),
           NEW x \in OpType, Shaped(x), x.epoch = q[1].epoch
    PROVE  InLine([q EXCEPT ![1] = x], g, f)
<1> DEFINE r == [q EXCEPT ![1] = x]
<1>1. /\ r \in Seq(OpType) /\ DOMAIN r = DOMAIN q /\ r[1] = x
      /\ \A i \in DOMAIN q : i # 1 => r[i] = q[i]
  BY FirstMoved
<1>2. \A i \in DOMAIN q : r[i].epoch = q[i].epoch
  BY <1>1
<1> HIDE DEF r
<1> QED BY <1>1, <1>2 DEF InLine

\* its end, whether or not a disconnect counts as done with it,
LEMMA RemovedInLine ==
    ASSUME NEW q \in Seq(OpType), 1 \in DOMAIN q, NEW g \in Nat, NEW f \in Nat, InLine(q, g, f)
    PROVE  InLine(RemoveAt(q, 1), g, f) /\ InLine(RemoveAt(q, 1), g, q[1].epoch)
<1> DEFINE r == RemoveAt(q, 1)
<1>1. \A i \in DOMAIN r : i \in Nat \ {0} /\ i + 1 \in DOMAIN q /\ r[i] = q[i + 1]
  BY FirstRemoved
<1>2. \A i \in DOMAIN q : q[i].epoch \in Nat /\ i \in Nat
  <2>1. DOMAIN q = 1..Len(q) /\ Len(q) \in Nat
    BY LenProperties
  <2>2. \A i \in DOMAIN q : q[i] \in OpType
    BY <2>1, ElementOfSeq
  <2> QED BY <2>1, <2>2 DEF OpType
<1> HIDE DEF r
<1>3. \A i \in DOMAIN r : Shaped(r[i]) /\ f <= r[i].epoch /\ r[i].epoch <= g /\ Begins(r[i]) /\ q[1].epoch <= r[i].epoch
  <2> SUFFICES ASSUME NEW i \in DOMAIN r
               PROVE  Shaped(r[i]) /\ f <= r[i].epoch /\ r[i].epoch <= g /\ Begins(r[i]) /\ q[1].epoch <= r[i].epoch
    OBVIOUS
  <2>1. i + 1 \in DOMAIN q /\ r[i] = q[i + 1] /\ i + 1 # 1 /\ 1 < i + 1
    BY <1>1
  <2> QED BY <2>1 DEF InLine
<1>4. \A i, j \in DOMAIN r : i < j => r[i].epoch <= r[j].epoch
  <2> SUFFICES ASSUME NEW i \in DOMAIN r, NEW j \in DOMAIN r, i < j
               PROVE  r[i].epoch <= r[j].epoch
    OBVIOUS
  <2>1. /\ i + 1 \in DOMAIN q /\ r[i] = q[i + 1]
        /\ j + 1 \in DOMAIN q /\ r[j] = q[j + 1] /\ i + 1 < j + 1
    BY <1>1
  <2> QED BY <2>1 DEF InLine
<1> QED BY <1>3, <1>4 DEF InLine, r

\* and a new operation of the present generation.
LEMMA QueuedInLine ==
    ASSUME NEW q \in Seq(OpType), NEW g \in Nat, NEW h \in Nat, g <= h, NEW f \in Nat, InLine(q, g, f),
           NEW x \in OpType, Shaped(x), Begins(x), x.epoch = h
    PROVE  InLine(Append(q, x), h, f)
<1> DEFINE r == Append(q, x)
<1>1. /\ Len(q) \in Nat /\ DOMAIN r = 1..(Len(q) + 1) /\ DOMAIN q = 1..Len(q)
      /\ r[Len(q) + 1] = x /\ \A i \in DOMAIN q : r[i] = q[i]
  BY OneQueued
<1>2. \A i \in DOMAIN q : q[i].epoch \in Nat
  <2>1. \A i \in DOMAIN q : q[i] \in OpType
    BY <1>1, ElementOfSeq
  <2> QED BY <2>1 DEF OpType
<1> HIDE DEF r
<1>3. \A i \in DOMAIN r : Shaped(r[i]) /\ f <= r[i].epoch /\ r[i].epoch <= h /\ (i # 1 => Begins(r[i]))
  BY <1>1, <1>2 DEF InLine
<1>4. \A i, j \in DOMAIN r : i < j => r[i].epoch <= r[j].epoch
  BY <1>1, <1>2 DEF InLine
<1> QED BY <1>3, <1>4 DEF InLine, r

\* Who waits for what survives a step of the first operation,
LEMMA MovedAwaited ==
    ASSUME NEW q \in Seq(OpType), 1 \in DOMAIN q, NEW c, Awaited(q, c),
           NEW x \in OpType, x.kind = q[1].kind, x.by = q[1].by, x.arg = q[1].arg
    PROVE  Awaited([q EXCEPT ![1] = x], c)
<1> DEFINE r == [q EXCEPT ![1] = x]
<1>1. DOMAIN r = DOMAIN q /\ r[1] = x /\ \A i \in DOMAIN q : i # 1 => r[i] = q[i]
  BY FirstMoved
<1>2. \A i \in DOMAIN q : r[i].kind = q[i].kind /\ r[i].by = q[i].by /\ r[i].arg = q[i].arg
  BY <1>1
<1> HIDE DEF r
<1> QED BY <1>1, <1>2 DEF Awaited, Awaits, OfCaller

\* its end, when nobody but its caller goes on,
LEMMA RemovedAwaited ==
    ASSUME NEW q \in Seq(OpType), 1 \in DOMAIN q, NEW c, NEW d, Awaited(q, c),
           \A p \in Callers : d[p] # c[p] => OfCaller(q[1]) /\ p = q[1].by
    PROVE  Awaited(RemoveAt(q, 1), d)
<1> DEFINE r == RemoveAt(q, 1)
<1>1. \A i \in DOMAIN r : i \in Nat \ {0} /\ i + 1 \in DOMAIN q /\ r[i] = q[i + 1]
  BY FirstRemoved
<1> HIDE DEF r
<1>2. \A i \in DOMAIN r : OfCaller(r[i]) /\ r[i].by \in Callers => d[r[i].by] = c[r[i].by]
  BY <1>1 DEF Awaited
<1>3. \A i \in DOMAIN r : Awaits(r[i], d)
  BY <1>1, <1>2 DEF Awaited, Awaits, OfCaller
<1>4. \A i, j \in DOMAIN r : OfCaller(r[i]) /\ OfCaller(r[j]) /\ r[i].by = r[j].by => i = j
  BY <1>1 DEF Awaited
<1> QED BY <1>3, <1>4 DEF Awaited, r

\* and a new operation, when its caller awaited none.
LEMMA QueuedAwaited ==
    ASSUME NEW q \in Seq(OpType), NEW c, NEW d, Awaited(q, c), NEW x \in OpType, Awaits(x, d),
           \A p \in Callers : d[p] # c[p] => OfCaller(x) /\ p = x.by,
           OfCaller(x) => c[x.by].at \notin {"acquiring", "ensuring", "failing"}
    PROVE  Awaited(Append(q, x), d)
<1> DEFINE r == Append(q, x)
<1>1. /\ Len(q) \in Nat /\ DOMAIN r = 1..(Len(q) + 1) /\ DOMAIN q = 1..Len(q)
      /\ r[Len(q) + 1] = x /\ \A i \in DOMAIN q : r[i] = q[i]
  BY OneQueued
<1> HIDE DEF r
<1>2. \A i \in DOMAIN q : OfCaller(q[i]) /\ OfCaller(x) => q[i].by # x.by
  BY DEF Awaited, Awaits, OfCaller
<1>3. \A i \in DOMAIN q : Awaits(q[i], d)
  BY <1>2 DEF Awaited, Awaits, OfCaller
<1>4. \A i \in DOMAIN r : Awaits(r[i], d)
  BY <1>1, <1>3
<1>5. \A i, j \in DOMAIN r : OfCaller(r[i]) /\ OfCaller(r[j]) /\ r[i].by = r[j].by => i = j
  BY <1>1, <1>2 DEF Awaited
<1> QED BY <1>4, <1>5 DEF Awaited, r

\* A caller that awaits nothing may go on by itself.
LEMMA CallerAwaited ==
    ASSUME NEW q \in Seq(OpType), NEW c, NEW d, Awaited(q, c),
           \A p \in Callers : d[p] # c[p] => c[p].at \notin {"acquiring", "ensuring", "failing"}
    PROVE  Awaited(q, d)
<1>1. \A i \in DOMAIN q : OfCaller(q[i]) => d[q[i].by] = c[q[i].by]
  BY DEF Awaited, Awaits, OfCaller
<1> QED BY <1>1 DEF Awaited, Awaits, OfCaller

-----------------------------------------------------------------------------
(* Steps of the first operation                                             *)

\* The manager's invariant: callers, queue, store and history.
ManagerInv == QueueInv /\ GrantInv

\* What is known of the operation that runs.
LEMMA FirstRuns ==
    ASSUME ManagerInv, 1 \in DOMAIN tail
    PROVE  /\ tail[1] \in OpType /\ Shaped(tail[1]) /\ Knows(tail[1], store, past) /\ Awaits(tail[1], caller)
           /\ past.forgotten \in Nat /\ past.forgotten <= tail[1].epoch /\ tail[1].epoch <= gen
<1>1. tail \in Seq(OpType) /\ InLine(tail, gen, past.forgotten) /\ Awaited(tail, caller)
  BY DEF ManagerInv, QueueInv, TypeOK
<1>2. tail[1] \in OpType
  BY <1>1, ElementOfSeq, LenProperties
<1>3. past.forgotten \in Nat
  BY DEF ManagerInv, QueueInv, TypeOK, PastType
<1> QED BY <1>1, <1>2, <1>3 DEF InLine, Awaited, ManagerInv, GrantInv

\* An operation that waits knows nothing yet.
LEMMA BeginsUnknowing ==
    ASSUME NEW op, NEW s, NEW p, Begins(op)
    PROVE  Knows(op, s, p)
BY DEF Begins, Knows, Fresh, NoBundle

\* The first operation goes on.
LEMMA OperationMoves ==
    ASSUME ManagerInv, 1 \in DOMAIN tail, NEW x \in OpType, Shaped(x), Goes(1, x),
           x.kind = tail[1].kind, x.by = tail[1].by, x.arg = tail[1].arg, x.epoch = tail[1].epoch,
           UNCHANGED <<gen, up, caller>>, past'.forgotten = past.forgotten,
           store' \in BundleType, conn' \in ConnType, past' \in PastType,
           open' \subseteq Transports, retired' \subseteq Nat, rejected' \subseteq Nat,
           Knows(x, store', past'), Fresh(store', past'), Len(past'.exchanges) = Len(past'.begun),
           CallbackUsedOnce'
    PROVE  ManagerInv'
<1>1. /\ tail \in Seq(OpType) /\ InLine(tail, gen, past.forgotten) /\ Awaited(tail, caller)
      /\ gen \in Nat /\ past.forgotten \in Nat
  BY DEF ManagerInv, QueueInv, TypeOK, PastType
<1>2. tail' = [tail EXCEPT ![1] = x]
  BY DEF Goes
<1>3. /\ tail' \in Seq(OpType) /\ DOMAIN tail' = DOMAIN tail /\ tail'[1] = x
      /\ \A i \in DOMAIN tail : i # 1 => tail'[i] = tail[i]
  BY <1>1, <1>2, FirstMoved
<1>4. InLine(tail', gen', past'.forgotten)
  BY <1>1, <1>2, MovedInLine
<1>5. Awaited(tail', caller')
  BY <1>1, <1>2, MovedAwaited
<1>6. \A i \in DOMAIN tail' : Knows(tail'[i], store', past')
  BY <1>1, <1>3, BeginsUnknowing DEF InLine
<1>7. TypeOK'
  BY <1>3 DEF TypeOK, ManagerInv, QueueInv
<1> QED BY <1>4, <1>5, <1>6, <1>7 DEF ManagerInv, QueueInv, GrantInv

\* The first operation ends, and at most its caller goes on.
LEMMA OperationEnds ==
    ASSUME ManagerInv, 1 \in DOMAIN tail, tail' = RemoveAt(tail, 1),
           UNCHANGED <<gen, up>>, past'.forgotten \in {past.forgotten, tail[1].epoch},
           caller' \in [Callers -> CallerType],
           \A p \in Callers : caller'[p] # caller[p] => OfCaller(tail[1]) /\ p = tail[1].by,
           store' \in BundleType, conn' \in ConnType, past' \in PastType,
           open' \subseteq Transports, retired' \subseteq Nat, rejected' \subseteq Nat,
           Fresh(store', past'), past'.exchanges = past.exchanges, past'.begun = past.begun
    PROVE  ManagerInv'
<1>1. /\ tail \in Seq(OpType) /\ InLine(tail, gen, past.forgotten) /\ Awaited(tail, caller)
      /\ gen \in Nat /\ past.forgotten \in Nat
  BY DEF ManagerInv, QueueInv, TypeOK, PastType
<1>2. tail' \in Seq(OpType) /\ \A i \in DOMAIN tail' : i \in Nat \ {0} /\ i + 1 \in DOMAIN tail /\ tail'[i] = tail[i + 1]
  BY <1>1, FirstRemoved
<1>3. InLine(tail', gen', past'.forgotten)
  BY <1>1, RemovedInLine
<1>4. Awaited(tail', caller')
  BY <1>1, RemovedAwaited
<1>5. \A i \in DOMAIN tail' : Knows(tail'[i], store', past')
  <2> SUFFICES ASSUME NEW i \in DOMAIN tail' PROVE Begins(tail'[i])
    BY BeginsUnknowing
  <2>1. i + 1 \in DOMAIN tail /\ i + 1 # 1 /\ tail'[i] = tail[i + 1]
    BY <1>2
  <2> QED BY <1>1, <2>1 DEF InLine
<1>6. TypeOK'
  BY <1>2 DEF TypeOK, ManagerInv, QueueInv
<1>7. CallbackUsedOnce' /\ Len(past'.exchanges) = Len(past'.begun)
  BY DEF ManagerInv, GrantInv, CallbackUsedOnce
<1> QED BY <1>3, <1>4, <1>5, <1>6, <1>7 DEF ManagerInv, QueueInv, GrantInv

\* A caller that is lent the transport keeps its lease.
LEMMA LentTyped ==
    ASSUME NEW c \in CallerType
    PROVE  Lent(c) \in CallerType /\ Lent(c).at = "leased" /\ Lent(c).lease = c.lease
           /\ Lent(c).live = None /\ Lent(c).epoch = c.epoch
BY DEF Lent, Idle, CallerType

\* How a caller goes on when its operation settles with the transport p.
Resumed(c, p) ==
    CASE c.at = "acquiring" /\ p = None -> Idle
      [] c.at = "acquiring" /\ p # None -> Lent([c EXCEPT !.lease = p])
      [] c.at = "ensuring" /\ p = None -> Lent(c)
      [] c.at = "ensuring" /\ p # None -> [c EXCEPT !.at = "ready", !.live = p]

\* It leaves the wait, and has the transport p when it is ready to call.
LEMMA ResumedTyped ==
    ASSUME NEW c \in CallerType, NEW p \in Nat, c.at \in {"acquiring", "ensuring"}
    PROVE  /\ Resumed(c, p) \in CallerType /\ Resumed(c, p).at \in {"idle", "leased", "ready"}
           /\ Resumed(c, p).epoch \in {0, c.epoch}
           /\ Resumed(c, p).live \in {None, p} /\ Resumed(c, p).lease \in {None, c.lease, p}
           /\ Resumed(c, p).at = "ready" => /\ Resumed(c, p).live = p /\ p # None
                                            /\ Resumed(c, p).lease = c.lease /\ c.at = "ensuring"
           /\ Resumed(c, p).at = "leased" => \/ c.at = "ensuring" /\ Resumed(c, p).lease = c.lease
                                             \/ p # None /\ Resumed(c, p).lease = p
<1>1. CASE c.at = "acquiring" /\ p = None
  BY <1>1 DEF Resumed, Idle, CallerType
<1>2. CASE c.at = "acquiring" /\ p # None
  <2> DEFINE d == [c EXCEPT !.lease = p]
  <2>1. d \in CallerType /\ d.lease = p /\ d.epoch = c.epoch
    BY DEF CallerType
  <2>2. Resumed(c, p) = Lent(d)
    BY <1>2 DEF Resumed
  <2> HIDE DEF d
  <2> QED BY <1>2, <2>1, <2>2, LentTyped
<1>3. CASE c.at = "ensuring" /\ p = None
  <2>1. Resumed(c, p) = Lent(c)
    BY <1>3 DEF Resumed
  <2> QED BY <1>3, <2>1, LentTyped
<1>4. CASE c.at = "ensuring" /\ p # None
  <2>1. Resumed(c, p) = [c EXCEPT !.at = "ready", !.live = p]
    BY <1>4 DEF Resumed
  <2> QED BY <1>4, <2>1 DEF CallerType
<1> QED BY <1>1, <1>2, <1>3, <1>4

\* The callers after an operation has settled.
LEMMA SettledCallers ==
    ASSUME ManagerInv, 1 \in DOMAIN tail, NEW p \in Nat, Settles(1, p)
    PROVE  /\ tail' = RemoveAt(tail, 1) /\ caller' \in [Callers -> CallerType]
           /\ \A q \in Callers : caller'[q] # caller[q] => tail[1].kind = "ensure" /\ q = tail[1].by
           /\ tail[1].kind = "ensure" => tail[1].by \in Callers /\ caller'[tail[1].by] = Resumed(caller[tail[1].by], p)
<1>0. caller \in [Callers -> CallerType]
  BY DEF ManagerInv, QueueInv, TypeOK
<1>1. tail' = RemoveAt(tail, 1)
  BY DEF Settles
<1>2. CASE tail[1].kind # "ensure"
  BY <1>0, <1>1, <1>2 DEF Settles
<1>3. CASE tail[1].kind = "ensure"
  <2> DEFINE b == tail[1].by
  <2>1. b \in Callers /\ caller[b].at \in {"acquiring", "ensuring"} /\ caller[b] \in CallerType
    BY <1>0, <1>3, FirstRuns DEF Awaits
  <2>2. caller' = [caller EXCEPT ![b] = Resumed(caller[b], p)]
    BY <1>3 DEF Settles, Resumed
  <2>3. Resumed(caller[b], p) \in CallerType
    BY <2>1, ResumedTyped
  <2> HIDE DEF b
  <2>4. caller' \in [Callers -> CallerType] /\ caller'[b] = Resumed(caller[b], p) /\ \A q \in Callers \ {b} : caller'[q] = caller[q]
    BY <1>0, <2>1, <2>2, <2>3
  <2> QED BY <1>1, <1>3, <2>1, <2>4 DEF b
<1> QED BY <1>2, <1>3

\* The end of a call.
LEMMA CallEnded ==
    ASSUME caller \in [Callers -> CallerType], NEW q \in Callers, CallEnds(q)
    PROVE  /\ caller' \in [Callers -> CallerType] /\ caller'[q] = Lent(caller[q])
           /\ \A p \in Callers \ {q} : caller'[p] = caller[p]
           /\ open' \subseteq open /\ retired' \subseteq retired
<1>1. Lent(caller[q]) \in CallerType
  BY LentTyped
<1>2. caller' = [caller EXCEPT ![q] = Lent(caller[q])]
  BY DEF CallEnds
<1>3. open' \subseteq open /\ retired' \subseteq retired
  BY DEF CallEnds
<1> QED BY <1>1, <1>2, <1>3

\* An operation that fails, at whatever step, leaves the invariant.
LEMMA RejectsKeeps ==
    ASSUME ManagerInv, 1 \in DOMAIN tail, Rejects(1), UNCHANGED <<store, gen, up, conn, rejected, past>>
    PROVE  ManagerInv'
<1>0. /\ caller \in [Callers -> CallerType] /\ open \subseteq Transports /\ retired \subseteq Nat
      /\ store \in BundleType /\ conn \in ConnType /\ past \in PastType /\ rejected \subseteq Nat
      /\ Fresh(store, past)
  BY DEF ManagerInv, QueueInv, TypeOK, GrantInv
<1>1. CASE tail[1].kind = "retire"
  <2>1. tail[1].by \in Callers /\ OfCaller(tail[1])
    BY <1>1, FirstRuns DEF Awaits, OfCaller
  <2>2. tail' = RemoveAt(tail, 1) /\ CallEnds(tail[1].by)
    BY <1>1 DEF Rejects
  <2>3. /\ caller' \in [Callers -> CallerType]
        /\ \A p \in Callers : caller'[p] # caller[p] => p = tail[1].by
        /\ open' \subseteq open /\ retired' \subseteq retired
    BY <1>0, <2>1, <2>2, CallEnded
  <2> QED BY <1>0, <2>1, <2>2, <2>3, OperationEnds
<1>2. CASE tail[1].kind # "retire"
  <2>1. Settles(1, None) /\ open' = open \ {tail[1].peer} /\ retired' = retired
    BY <1>2 DEF Rejects
  <2>2. /\ tail' = RemoveAt(tail, 1) /\ caller' \in [Callers -> CallerType]
        /\ \A q \in Callers : caller'[q] # caller[q] => tail[1].kind = "ensure" /\ q = tail[1].by
    BY <2>1, SettledCallers
  <2> QED BY <1>0, <2>1, <2>2, OperationEnds DEF OfCaller
<1> QED BY <1>1, <1>2

\* So does one that settles without writing.
LEMMA SettlesKeeps ==
    ASSUME ManagerInv, 1 \in DOMAIN tail, NEW p \in Nat, Settles(1, p), store' \in BundleType, conn' \in ConnType,
           Fresh(store', past), UNCHANGED <<gen, up, open, retired, rejected, past>>
    PROVE  ManagerInv'
<1>0. open \subseteq Transports /\ retired \subseteq Nat /\ past \in PastType /\ rejected \subseteq Nat
  BY DEF ManagerInv, QueueInv, TypeOK, GrantInv
<1>1. /\ tail' = RemoveAt(tail, 1) /\ caller' \in [Callers -> CallerType]
      /\ \A q \in Callers : caller'[q] # caller[q] => OfCaller(tail[1]) /\ q = tail[1].by
  BY SettledCallers DEF OfCaller
<1> QED BY <1>0, <1>1, OperationEnds

\* The parts of the invariant that the steps below leave alone.
LEMMA Present ==
    ASSUME ManagerInv
    PROVE  /\ store \in BundleType /\ conn \in ConnType /\ past \in PastType /\ gen \in Nat
           /\ open \subseteq Transports /\ retired \subseteq Nat /\ rejected \subseteq Nat
           /\ caller \in [Callers -> CallerType] /\ tail \in Seq(OpType)
           /\ Fresh(store, past) /\ Len(past.exchanges) = Len(past.begun) /\ CallbackUsedOnce
BY DEF ManagerInv, QueueInv, TypeOK, GrantInv

\* A step of the first operation that leaves everything else alone.
LEMMA OperationSteps ==
    ASSUME ManagerInv, 1 \in DOMAIN tail, NEW x \in OpType, Shaped(x), Goes(1, x),
           x.kind = tail[1].kind, x.by = tail[1].by, x.arg = tail[1].arg, x.epoch = tail[1].epoch,
           Knows(x, store, past), UNCHANGED <<store, gen, up, caller, conn, open, retired, rejected, past>>
    PROVE  ManagerInv'
BY OperationMoves, Present DEF CallbackUsedOnce

\* Writing the store: what was begun is Fresh, and the sign-in that is written
\* as consumed can be exchanged.
LEMMA WritesKeep ==
    ASSUME ManagerInv, 1 \in DOMAIN tail, PersistStarts(1) \/ WriteLands(1)
    PROVE  ManagerInv'
<1>0. tail[1] \in OpType /\ Shaped(tail[1]) /\ Knows(tail[1], store, past)
  BY FirstRuns
<1>1. CASE PersistStarts(1)
  <2> DEFINE x == [tail[1] EXCEPT !.pc = "writing"]
  <2>1. tail[1].pc = "save" /\ Goes(1, x) /\ UNCHANGED <<store, gen, up, caller, conn, open, retired, rejected, past>>
    BY <1>1 DEF PersistStarts, At
  <2>2. /\ x \in OpType /\ x.kind = tail[1].kind /\ x.by = tail[1].by /\ x.arg = tail[1].arg /\ x.epoch = tail[1].epoch
        /\ x.pc = "writing" /\ x.bundle = tail[1].bundle /\ x.peer = tail[1].peer /\ x.then = tail[1].then
    BY <1>0 DEF OpType, Places
  <2> HIDE DEF x
  <2>3. Shaped(x)
    BY <1>0, <2>1, <2>2 DEF Shaped
  <2>4. Knows(x, store, past)
    BY <1>0, <2>1, <2>2 DEF Knows
  <2> QED BY <2>1, <2>2, <2>3, <2>4, OperationSteps
<1>2. CASE WriteLands(1) /\ tail[1].then = "done"
  <2>1. store' = tail[1].bundle /\ Settles(1, None) /\ UNCHANGED <<gen, up, conn, open, retired, rejected, past>>
    BY <1>2 DEF WriteLands
  <2>2. store' \in BundleType /\ Fresh(store', past)
    BY <1>0, <2>1 DEF OpType, Knows
  <2> QED BY <2>1, <2>2, SettlesKeeps, Present
<1>3. CASE WriteLands(1) /\ tail[1].then # "done"
  <2> DEFINE x == [tail[1] EXCEPT !.pc = tail[1].then]
  <2>1. /\ tail[1].pc = "writing" /\ Goes(1, x) /\ store' = tail[1].bundle
        /\ UNCHANGED <<gen, up, caller, conn, open, retired, rejected, past>>
    BY <1>3 DEF WriteLands
  <2>2. store' \in BundleType /\ Fresh(store', past)
    BY <1>0, <2>1 DEF OpType, Knows
  <2>3. tail[1].then \in {"connect", "ensure", "exchange", "dispose"}
    BY <1>0, <1>3, <2>1 DEF OpType, Shaped, Sequels
  <2>4. /\ x \in OpType /\ x.kind = tail[1].kind /\ x.by = tail[1].by /\ x.arg = tail[1].arg /\ x.epoch = tail[1].epoch
        /\ x.pc = tail[1].then /\ x.bundle = tail[1].bundle /\ x.peer = tail[1].peer /\ x.then = tail[1].then
    BY <1>0, <2>3 DEF OpType, Places
  <2> HIDE DEF x
  <2>5. Shaped(x)
    BY <1>0, <2>1, <2>3, <2>4 DEF Shaped
  <2>6. Knows(x, store', past)
    <3>1. Fresh(x.bundle, past)
      BY <1>0, <2>4 DEF Knows
    <3>2. ASSUME x.pc = "exchange"
          PROVE  x.arg \in DOMAIN past.exchanges /\ past.exchanges[x.arg] = 0 /\ store'.pending # x.arg /\ x.bundle.pending # x.arg
      <4>1. store.pending = x.arg /\ x.bundle.pending = None /\ x.kind = "finish" /\ x.arg # None
        BY <1>0, <2>1, <2>4, <2>5, <3>2 DEF Knows, Shaped
      <4> QED BY <2>1, <2>4, <4>1, Present DEF Fresh
    <3> QED BY <2>3, <2>4, <3>1, <3>2 DEF Knows
  <2> QED BY <2>1, <2>2, <2>4, <2>5, <2>6, OperationMoves, Present DEF CallbackUsedOnce
<1> QED BY <1>1, <1>2, <1>3

\* A bundle stays Fresh when the server issues a token, or a sign-in begins,
\* in a generation that is not forgotten.
LEMMA FreshLater ==
    ASSUME NEW p \in PastType, NEW e \in Nat, NEW b \in BundleType, Fresh(b, p), Len(p.exchanges) = Len(p.begun)
    PROVE  /\ Fresh(b, [p EXCEPT !.issued = Append(@, e)])
           /\ Fresh(b, [p EXCEPT !.begun = Append(@, e), !.exchanges = Append(@, 0)])
<1>1. /\ p.issued \in Seq(Nat) /\ p.begun \in Seq(Nat) /\ p.exchanges \in Seq(Nat)
  BY DEF PastType
<1>2. /\ DOMAIN p.issued = 1..Len(p.issued) /\ DOMAIN Append(p.issued, e) = 1..(Len(p.issued) + 1)
      /\ \A i \in DOMAIN p.issued : Append(p.issued, e)[i] = p.issued[i]
      /\ Len(p.issued) \in Nat
  BY <1>1, OneQueued
<1>3. /\ DOMAIN p.begun = 1..Len(p.begun) /\ DOMAIN Append(p.begun, e) = 1..(Len(p.begun) + 1)
      /\ \A i \in DOMAIN p.begun : Append(p.begun, e)[i] = p.begun[i]
      /\ Len(p.begun) \in Nat
  BY <1>1, OneQueued
<1>4. /\ DOMAIN p.exchanges = 1..Len(p.exchanges) /\ DOMAIN Append(p.exchanges, 0) = 1..(Len(p.exchanges) + 1)
      /\ \A i \in DOMAIN p.exchanges : Append(p.exchanges, 0)[i] = p.exchanges[i]
      /\ Len(p.exchanges) \in Nat
  BY <1>1, OneQueued
<1> DEFINE p1 == [p EXCEPT !.issued = Append(@, e)]
           p2 == [p EXCEPT !.begun = Append(@, e), !.exchanges = Append(@, 0)]
<1>5. /\ p1.issued = Append(p.issued, e) /\ p1.begun = p.begun /\ p1.exchanges = p.exchanges /\ p1.forgotten = p.forgotten
      /\ p2.issued = p.issued /\ p2.begun = Append(p.begun, e) /\ p2.exchanges = Append(p.exchanges, 0) /\ p2.forgotten = p.forgotten
  BY DEF PastType
<1> HIDE DEF p1, p2
<1>6. Fresh(b, p1)
  BY <1>2, <1>5 DEF Fresh
<1>7. Fresh(b, p2)
  BY <1>3, <1>4, <1>5 DEF Fresh
<1> QED BY <1>6, <1>7 DEF p1, p2

\* Reading and renewing the authorization.
LEMMA RenewalKeeps ==
    ASSUME ManagerInv, 1 \in DOMAIN tail, EnsureReads(1) \/ RefreshSent(1) \/ TokensIssued(1) \/ RefreshDenied(1)
    PROVE  ManagerInv'
<1>0. tail[1] \in OpType /\ Shaped(tail[1]) /\ Knows(tail[1], store, past)
  BY FirstRuns
<1>1. CASE EnsureReads(1) /\ store.token = None
  <2>1. Settles(1, None) /\ UNCHANGED <<store, gen, up, conn, open, retired, rejected, past>>
    BY <1>1 DEF EnsureReads
  <2> QED BY <2>1, SettlesKeeps, Present
<1>2. CASE EnsureReads(1) /\ store.token # None
  <2>1. PICK stale \in BOOLEAN : Goes(1, [tail[1] EXCEPT !.bundle = store, !.pc = IF stale THEN "refresh" ELSE "connect"])
    BY <1>2 DEF EnsureReads
  <2> DEFINE at == IF stale THEN "refresh" ELSE "connect"
             x == [tail[1] EXCEPT !.bundle = store, !.pc = at]
  <2>2. /\ tail[1].pc = "ensure" \/ (tail[1].pc = "queued" /\ tail[1].kind = "ensure")
        /\ Goes(1, x) /\ UNCHANGED <<store, gen, up, caller, conn, open, retired, rejected, past>>
    BY <1>2, <2>1 DEF EnsureReads, At
  <2>3. at \in {"refresh", "connect"}
    BY <2>1
  <2> HIDE DEF at
  <2>4. /\ x \in OpType /\ x.kind = tail[1].kind /\ x.by = tail[1].by /\ x.arg = tail[1].arg /\ x.epoch = tail[1].epoch
        /\ x.pc = at /\ x.bundle = store /\ x.peer = tail[1].peer /\ x.then = tail[1].then
    BY <1>0, <2>3, Present DEF OpType, Places
  <2> HIDE DEF x
  <2>5. Shaped(x)
    BY <1>0, <2>2, <2>3, <2>4 DEF Shaped
  <2>6. Knows(x, store, past)
    BY <2>3, <2>4, Present DEF Knows
  <2> QED BY <2>2, <2>4, <2>5, <2>6, OperationSteps
<1>3. CASE RefreshSent(1)
  <2> DEFINE x == [tail[1] EXCEPT !.pc = "refreshing"]
  <2>1. tail[1].pc = "refresh" /\ Goes(1, x) /\ UNCHANGED <<store, gen, up, caller, conn, open, retired, rejected, past>>
    BY <1>3 DEF RefreshSent, At
  <2>2. /\ x \in OpType /\ x.kind = tail[1].kind /\ x.by = tail[1].by /\ x.arg = tail[1].arg /\ x.epoch = tail[1].epoch
        /\ x.pc = "refreshing" /\ x.bundle = tail[1].bundle /\ x.peer = tail[1].peer /\ x.then = tail[1].then
    BY <1>0 DEF OpType, Places
  <2> HIDE DEF x
  <2>3. Shaped(x)
    BY <1>0, <2>1, <2>2 DEF Shaped
  <2>4. Knows(x, store, past)
    BY <1>0, <2>1, <2>2 DEF Knows
  <2> QED BY <2>1, <2>2, <2>3, <2>4, OperationSteps
<1>4. CASE TokensIssued(1)
  <2> DEFINE sequel == IF tail[1].pc = "refreshing" THEN "connect" ELSE "ensure"
             new == Len(past.issued) + 1
             x == [tail[1] EXCEPT !.bundle.token = new, !.bundle.expired = FALSE, !.pc = "save", !.then = sequel]
  <2>1. /\ tail[1].pc \in {"refreshing", "exchanging"} /\ Goes(1, x)
        /\ past' = [past EXCEPT !.issued = Append(@, tail[1].epoch)]
        /\ UNCHANGED <<store, gen, up, caller, conn, open, retired, rejected>>
    BY <1>4 DEF TokensIssued, At
  <2>2. sequel \in {"connect", "ensure"}
    OBVIOUS
  <2>3. past.issued \in Seq(Nat) /\ past \in PastType /\ tail[1].epoch \in Nat /\ past.forgotten \in Nat
    BY <1>0, Present DEF PastType, OpType
  <2>4. /\ Append(past.issued, tail[1].epoch) \in Seq(Nat)
        /\ new \in Nat /\ new # 0 /\ new \in DOMAIN Append(past.issued, tail[1].epoch)
        /\ Append(past.issued, tail[1].epoch)[new] = tail[1].epoch
    BY <2>3, AppendProperties, LenProperties
  <2>5. /\ past' \in PastType /\ past'.issued = Append(past.issued, tail[1].epoch) /\ past'.begun = past.begun
        /\ past'.exchanges = past.exchanges /\ past'.forgotten = past.forgotten
    BY <2>1, <2>3, <2>4 DEF PastType
  <2> HIDE DEF sequel, new
  <2>6. /\ x \in OpType /\ x.kind = tail[1].kind /\ x.by = tail[1].by /\ x.arg = tail[1].arg /\ x.epoch = tail[1].epoch
        /\ x.pc = "save" /\ x.peer = tail[1].peer /\ x.then = sequel
        /\ x.bundle.token = new /\ x.bundle.pending = tail[1].bundle.pending
    BY <1>0, <2>2, <2>4 DEF OpType, BundleType, Places, Sequels
  <2> HIDE DEF x
  <2>7. Shaped(x)
    BY <1>0, <2>1, <2>2, <2>6 DEF Shaped
  <2>8. Fresh(tail[1].bundle, past') /\ Fresh(store, past')
    <3>1. Fresh(tail[1].bundle, past) /\ tail[1].bundle \in BundleType
      BY <1>0 DEF Knows, OpType
    <3> QED BY <2>1, <2>3, <3>1, FreshLater, Present
  <2>9. Knows(x, store, past')
    <3>1. Fresh(x.bundle, past')
      BY <2>4, <2>5, <2>6, <2>8, <2>3, FirstRuns DEF Fresh
    <3> QED BY <2>2, <2>6, <3>1 DEF Knows
  <2>10. CallbackUsedOnce'
    BY <2>5, Present DEF CallbackUsedOnce
  <2> QED BY <2>1, <2>5, <2>6, <2>7, <2>8, <2>9, <2>10, OperationMoves, Present
<1>5. CASE RefreshDenied(1)
  <2> DEFINE x == [tail[1] EXCEPT !.bundle.token = None, !.bundle.expired = FALSE, !.pc = "save", !.then = "done"]
  <2>1. tail[1].pc = "refreshing" /\ Goes(1, x) /\ UNCHANGED <<store, gen, up, caller, conn, open, retired, rejected, past>>
    BY <1>5 DEF RefreshDenied, At
  <2>2. /\ x \in OpType /\ x.kind = tail[1].kind /\ x.by = tail[1].by /\ x.arg = tail[1].arg /\ x.epoch = tail[1].epoch
        /\ x.pc = "save" /\ x.peer = tail[1].peer /\ x.then = "done"
        /\ x.bundle.token = None /\ x.bundle.pending = tail[1].bundle.pending
    BY <1>0 DEF OpType, Places, BundleType, Sequels
  <2> HIDE DEF x
  <2>3. Shaped(x)
    BY <1>0, <2>1, <2>2 DEF Shaped
  <2>4. Knows(x, store, past)
    BY <1>0, <2>1, <2>2 DEF Knows, Fresh
  <2> QED BY <2>1, <2>2, <2>3, <2>4, OperationSteps
<1> QED BY <1>1, <1>2, <1>3, <1>4, <1>5

\* The transport: reused, replaced, connected or refused.
LEMMA ConnectionKeeps ==
    ASSUME ManagerInv, 1 \in DOMAIN tail, Reuses(1) \/ Connects(1) \/ ConnectAnswers(1) \/ ConnectRejected(1)
    PROVE  ManagerInv'
<1>0. tail[1] \in OpType /\ Shaped(tail[1]) /\ Knows(tail[1], store, past)
  BY FirstRuns
<1>1. CASE Reuses(1)
  <2>1. Settles(1, conn.peer) /\ UNCHANGED <<store, gen, up, conn, open, retired, rejected, past>>
    BY <1>1 DEF Reuses
  <2>2. conn.peer \in Nat
    BY Present DEF ConnType
  <2> QED BY <2>1, <2>2, SettlesKeeps, Present
<1>2. CASE Connects(1)
  <2> DEFINE kept == conn.peer # None /\ Kept(conn.peer)
  <2>1. PICK new \in Unused :
            /\ open' = (IF kept THEN open ELSE open \ {conn.peer}) \cup {new}
            /\ retired' = IF kept THEN retired \cup {conn.peer} ELSE retired
            /\ Goes(1, [tail[1] EXCEPT !.pc = "connecting", !.peer = new])
            /\ past' = [past EXCEPT !.broken = @ \ {new}]
    BY <1>2 DEF Connects
  <2> DEFINE x == [tail[1] EXCEPT !.pc = "connecting", !.peer = new]
  <2>2. tail[1].pc = "connect" /\ conn' = NoConnection /\ UNCHANGED <<store, gen, up, caller, rejected>>
    BY <1>2 DEF Connects, At
  <2>3. new \in Transports /\ new \in Nat /\ new # 0
    BY <2>1, RemoteAssumption DEF Unused
  <2>4. conn.peer \in Nat /\ open \subseteq Transports /\ retired \subseteq Nat
    BY Present DEF ConnType
  <2>5. open' \subseteq Transports
    BY <2>1, <2>3, <2>4
  <2>6. retired' \subseteq Nat
    BY <2>1, <2>4
  <2>7. conn' \in ConnType
    BY <2>2 DEF ConnType, NoConnection
  <2>8. /\ past' \in PastType /\ past'.issued = past.issued /\ past'.begun = past.begun
        /\ past'.exchanges = past.exchanges /\ past'.forgotten = past.forgotten
    BY <2>1, Present DEF PastType
  <2>9. /\ x \in OpType /\ x.kind = tail[1].kind /\ x.by = tail[1].by /\ x.arg = tail[1].arg /\ x.epoch = tail[1].epoch
        /\ x.pc = "connecting" /\ x.peer = new /\ x.then = tail[1].then /\ x.bundle = tail[1].bundle
    BY <1>0, <2>3 DEF OpType, Places
  <2>10. Goes(1, x)
    BY <2>1
  <2> HIDE DEF x
  <2>11. Shaped(x)
    BY <1>0, <2>2, <2>3, <2>9 DEF Shaped
  <2>12. Knows(x, store', past') /\ Fresh(store', past') /\ CallbackUsedOnce'
    BY <1>0, <2>2, <2>8, <2>9, Present DEF Knows, Fresh, CallbackUsedOnce
  <2> QED BY <2>2, <2>5, <2>6, <2>7, <2>8, <2>9, <2>10, <2>11, <2>12, OperationMoves, Present
<1>3. CASE ConnectAnswers(1)
  <2>1. /\ Settles(1, tail[1].peer) /\ UNCHANGED <<store, gen, up, open, retired, rejected, past>>
        /\ conn' = [peer |-> tail[1].peer, token |-> tail[1].bundle.token]
    BY <1>3 DEF ConnectAnswers
  <2>2. tail[1].peer \in Nat /\ tail[1].bundle.token \in Nat
    BY <1>0 DEF OpType, BundleType
  <2>3. conn' \in ConnType
    BY <2>1, <2>2 DEF ConnType
  <2> QED BY <2>1, <2>2, <2>3, SettlesKeeps, Present
<1>4. CASE ConnectRejected(1)
  <2> DEFINE x == [tail[1] EXCEPT !.bundle.expired = TRUE, !.pc = "save", !.then = "done", !.peer = None]
  <2>1. /\ tail[1].pc = "connecting" /\ Goes(1, x) /\ UNCHANGED <<store, gen, up, caller, conn, retired, past>>
        /\ open' = open \ {tail[1].peer} /\ rejected' = rejected \cup {tail[1].bundle.token}
    BY <1>4 DEF ConnectRejected, At
  <2>2. rejected' \subseteq Nat
    BY <1>0, <2>1, Present DEF OpType, BundleType
  <2>3. /\ x \in OpType /\ x.kind = tail[1].kind /\ x.by = tail[1].by /\ x.arg = tail[1].arg /\ x.epoch = tail[1].epoch
        /\ x.pc = "save" /\ x.peer = None /\ x.then = "done"
        /\ x.bundle.token = tail[1].bundle.token /\ x.bundle.pending = tail[1].bundle.pending
    BY <1>0 DEF OpType, Places, BundleType, Sequels
  <2> HIDE DEF x
  <2>4. Shaped(x)
    BY <1>0, <2>1, <2>3 DEF Shaped
  <2>5. Knows(x, store, past)
    BY <1>0, <2>1, <2>3 DEF Knows, Fresh
  <2> QED BY <2>1, <2>2, <2>3, <2>4, <2>5, OperationMoves, Present DEF CallbackUsedOnce
<1> QED BY <1>1, <1>2, <1>3, <1>4

\* Sign-in: a callback that is consumed is the one the store waits for, and its
\* code was never exchanged.
LEMMA SignInKeeps ==
    ASSUME ManagerInv, 1 \in DOMAIN tail, BeginDiscovers(1) \/ FinishConsumes(1) \/ ExchangeSent(1)
    PROVE  ManagerInv'
<1>0. tail[1] \in OpType /\ Shaped(tail[1]) /\ Knows(tail[1], store, past)
  BY FirstRuns
<1>1. CASE BeginDiscovers(1)
  <2> DEFINE new == Len(past.begun) + 1
             b == [store EXCEPT !.pending = new]
             x == [tail[1] EXCEPT !.bundle = b, !.pc = "save", !.then = "done"]
  <2>1. /\ tail[1].pc = "queued" /\ tail[1].kind = "begin" /\ Goes(1, x)
        /\ past' = [past EXCEPT !.begun = Append(@, tail[1].epoch), !.exchanges = Append(@, 0)]
        /\ UNCHANGED <<store, gen, up, caller, conn, open, retired, rejected>>
    BY <1>1 DEF BeginDiscovers, At
  <2>2. past.begun \in Seq(Nat) /\ past.exchanges \in Seq(Nat) /\ tail[1].epoch \in Nat /\ past \in PastType
    BY <1>0, Present DEF PastType, OpType
  <2>3. /\ Append(past.begun, tail[1].epoch) \in Seq(Nat)
        /\ new \in Nat /\ new # 0 /\ new \in DOMAIN Append(past.begun, tail[1].epoch)
        /\ Append(past.begun, tail[1].epoch)[new] = tail[1].epoch
        /\ Len(Append(past.begun, tail[1].epoch)) = new
    BY <2>2, AppendProperties, LenProperties
  <2>4. /\ Append(past.exchanges, 0) \in Seq(Nat) /\ Len(Append(past.exchanges, 0)) = new
        /\ new \in DOMAIN Append(past.exchanges, 0) /\ Append(past.exchanges, 0)[new] = 0
        /\ \A i \in DOMAIN Append(past.exchanges, 0) : i = new \/ (i \in DOMAIN past.exchanges /\ Append(past.exchanges, 0)[i] = past.exchanges[i])
    <3>1. Len(past.exchanges) + 1 = new /\ Len(past.exchanges) \in Nat
      BY <2>2, Present, LenProperties
    <3>2. /\ Append(past.exchanges, 0) \in Seq(Nat) /\ DOMAIN Append(past.exchanges, 0) = 1..(Len(past.exchanges) + 1)
          /\ Append(past.exchanges, 0)[Len(past.exchanges) + 1] = 0 /\ DOMAIN past.exchanges = 1..Len(past.exchanges)
          /\ \A i \in DOMAIN past.exchanges : Append(past.exchanges, 0)[i] = past.exchanges[i]
      BY <2>2, OneQueued
    <3>3. Len(Append(past.exchanges, 0)) = Len(past.exchanges) + 1
      BY <2>2, AppendProperties
    <3> QED BY <3>1, <3>2, <3>3
  <2>5. /\ past' \in PastType /\ past'.issued = past.issued /\ past'.begun = Append(past.begun, tail[1].epoch)
        /\ past'.exchanges = Append(past.exchanges, 0) /\ past'.forgotten = past.forgotten
    BY <2>1, <2>2, <2>3, <2>4 DEF PastType
  <2> HIDE DEF new
  <2>6. b \in BundleType /\ b.token = store.token /\ b.pending = new
    BY <2>3, Present DEF BundleType
  <2> HIDE DEF b
  <2>7. /\ x \in OpType /\ x.kind = tail[1].kind /\ x.by = tail[1].by /\ x.arg = tail[1].arg /\ x.epoch = tail[1].epoch
        /\ x.pc = "save" /\ x.peer = tail[1].peer /\ x.then = "done" /\ x.bundle = b
    BY <1>0, <2>6 DEF OpType, Places, Sequels
  <2> HIDE DEF x
  <2>8. Shaped(x)
    BY <1>0, <2>1, <2>7 DEF Shaped
  <2>9. Fresh(store, past')
    BY <2>1, <2>2, FreshLater, Present
  <2>10. Fresh(b, past')
    BY <2>3, <2>4, <2>5, <2>6, <2>9, FirstRuns DEF Fresh
  <2>11. Knows(x, store, past')
    BY <2>7, <2>10 DEF Knows
  <2>12. CallbackUsedOnce'
    BY <2>4, <2>5, Present DEF CallbackUsedOnce
  <2>13. Len(past'.exchanges) = Len(past'.begun)
    BY <2>3, <2>4, <2>5
  <2> QED BY <2>1, <2>5, <2>7, <2>8, <2>9, <2>11, <2>12, <2>13, OperationMoves, Present
<1>2. CASE FinishConsumes(1) /\ store.pending # tail[1].arg
  <2>1. Settles(1, None) /\ UNCHANGED <<store, gen, up, conn, open, retired, rejected, past>>
    BY <1>2 DEF FinishConsumes
  <2> QED BY <2>1, SettlesKeeps, Present
<1>3. CASE FinishConsumes(1) /\ store.pending = tail[1].arg
  <2> DEFINE b == Consumed(store)
             x == [tail[1] EXCEPT !.bundle = b, !.pc = "save", !.then = "exchange"]
  <2>1. /\ tail[1].pc = "queued" /\ tail[1].kind = "finish" /\ Goes(1, x)
        /\ UNCHANGED <<store, gen, up, caller, conn, open, retired, rejected, past>>
    BY <1>3 DEF FinishConsumes, At
  <2>2. b \in BundleType /\ b.token = store.token /\ b.pending = None
    BY Present DEF BundleType, Consumed
  <2> HIDE DEF b
  <2>3. /\ x \in OpType /\ x.kind = tail[1].kind /\ x.by = tail[1].by /\ x.arg = tail[1].arg /\ x.epoch = tail[1].epoch
        /\ x.pc = "save" /\ x.peer = tail[1].peer /\ x.then = "exchange" /\ x.bundle = b
    BY <1>0, <2>2 DEF OpType, Places, Sequels
  <2> HIDE DEF x
  <2>4. Shaped(x)
    BY <1>0, <2>1, <2>3 DEF Shaped
  <2>5. Knows(x, store, past)
    BY <1>3, <2>2, <2>3, Present DEF Knows, Fresh
  <2> QED BY <2>1, <2>3, <2>4, <2>5, OperationSteps
<1>4. CASE ExchangeSent(1)
  <2> DEFINE x == [tail[1] EXCEPT !.pc = "exchanging"]
             s == tail[1].arg
             e == [past.exchanges EXCEPT ![s] = @ + 1]
  <2>1. /\ tail[1].pc = "exchange" /\ Goes(1, x) /\ past' = [past EXCEPT !.exchanges = e]
        /\ UNCHANGED <<store, gen, up, caller, conn, open, retired, rejected>>
    BY <1>4 DEF ExchangeSent, At
  <2>2. /\ s \in DOMAIN past.exchanges /\ past.exchanges[s] = 0 /\ store.pending # s
        /\ tail[1].bundle.pending # s /\ past.exchanges \in Seq(Nat)
    BY <1>0, <2>1, Present DEF Knows, PastType
  <2>3. /\ e \in Seq(Nat) /\ DOMAIN e = DOMAIN past.exchanges /\ Len(e) = Len(past.exchanges) /\ e[s] = 1
        /\ \A i \in DOMAIN past.exchanges : i # s => e[i] = past.exchanges[i]
    <3>1. e = [past.exchanges EXCEPT ![s] = 1]
      BY <2>2
    <3>2. s \in 1..Len(past.exchanges) /\ DOMAIN past.exchanges = 1..Len(past.exchanges)
      BY <2>2, LenProperties
    <3> QED BY <2>2, <3>1, <3>2, ExceptSeq
  <2> HIDE DEF e
  <2>4. /\ past' \in PastType /\ past'.issued = past.issued /\ past'.begun = past.begun
        /\ past'.exchanges = e /\ past'.forgotten = past.forgotten
    BY <2>1, <2>3, Present DEF PastType
  <2>5. /\ x \in OpType /\ x.kind = tail[1].kind /\ x.by = tail[1].by /\ x.arg = tail[1].arg /\ x.epoch = tail[1].epoch
        /\ x.pc = "exchanging" /\ x.peer = tail[1].peer /\ x.then = tail[1].then /\ x.bundle = tail[1].bundle
    BY <1>0 DEF OpType, Places
  <2> HIDE DEF x, s
  <2>6. Shaped(x)
    BY <1>0, <2>1, <2>5 DEF Shaped
  <2>7. Fresh(store, past') /\ Fresh(tail[1].bundle, past')
    <3>1. Fresh(store, past) /\ Fresh(tail[1].bundle, past)
      BY <1>0, Present DEF Knows
    <3> QED BY <2>2, <2>3, <2>4, <3>1 DEF Fresh
  <2>8. Knows(x, store, past')
    BY <2>5, <2>7 DEF Knows
  <2>9. CallbackUsedOnce'
    BY <2>3, <2>4, Present DEF CallbackUsedOnce
  <2> QED BY <2>1, <2>3, <2>4, <2>5, <2>6, <2>7, <2>8, <2>9, OperationMoves, Present
<1> QED BY <1>1, <1>2, <1>3, <1>4

\* Recovery after a failed call, and the clearing of a disconnect: every
\* operation still queued is of the generation it starts, or later.
LEMMA RecoveryKeeps ==
    ASSUME ManagerInv, 1 \in DOMAIN tail, RetireReads(1) \/ RetireDisposes(1) \/ Clears(1)
    PROVE  ManagerInv'
<1>0. tail[1] \in OpType /\ Shaped(tail[1]) /\ Knows(tail[1], store, past) /\ Awaits(tail[1], caller)
  BY FirstRuns
<1>1. CASE RetireReads(1) /\ tail[1].arg.unauthorized /\ store.token = tail[1].arg.token
  <2> DEFINE b == [store EXCEPT !.expired = TRUE]
             x == [tail[1] EXCEPT !.bundle = b, !.pc = "save", !.then = "dispose"]
  <2>1. /\ tail[1].pc = "queued" /\ tail[1].kind = "retire" /\ Goes(1, x)
        /\ UNCHANGED <<store, gen, up, caller, conn, open, retired, rejected, past>>
    BY <1>1 DEF RetireReads, At
  <2>2. b \in BundleType /\ b.token = store.token /\ b.pending = store.pending
    BY Present DEF BundleType
  <2> HIDE DEF b
  <2>3. /\ x \in OpType /\ x.kind = tail[1].kind /\ x.by = tail[1].by /\ x.arg = tail[1].arg /\ x.epoch = tail[1].epoch
        /\ x.pc = "save" /\ x.peer = tail[1].peer /\ x.then = "dispose" /\ x.bundle = b
    BY <1>0, <2>2 DEF OpType, Places, Sequels
  <2> HIDE DEF x
  <2>4. Shaped(x)
    BY <1>0, <2>1, <2>3 DEF Shaped
  <2>5. Knows(x, store, past)
    BY <2>2, <2>3, Present DEF Knows, Fresh
  <2> QED BY <2>1, <2>3, <2>4, <2>5, OperationSteps
<1>2. CASE RetireReads(1) /\ ~(tail[1].arg.unauthorized /\ store.token = tail[1].arg.token)
  <2> DEFINE x == [tail[1] EXCEPT !.pc = "dispose"]
  <2>1. /\ tail[1].pc = "queued" /\ tail[1].kind = "retire" /\ Goes(1, x)
        /\ UNCHANGED <<store, gen, up, caller, conn, open, retired, rejected, past>>
    BY <1>2 DEF RetireReads, At
  <2>2. /\ x \in OpType /\ x.kind = tail[1].kind /\ x.by = tail[1].by /\ x.arg = tail[1].arg /\ x.epoch = tail[1].epoch
        /\ x.pc = "dispose" /\ x.peer = tail[1].peer /\ x.then = tail[1].then /\ x.bundle = tail[1].bundle
    BY <1>0 DEF OpType, Places
  <2> HIDE DEF x
  <2>3. Shaped(x)
    BY <1>0, <2>1, <2>2 DEF Shaped
  <2>4. Knows(x, store, past)
    BY <1>0, <2>2 DEF Knows
  <2> QED BY <2>1, <2>2, <2>3, <2>4, OperationSteps
<1>3. CASE RetireDisposes(1)
  <2> DEFINE live == tail[1].arg.live
             q == tail[1].by
             last == live \in retired /\ Active(live) = {q}
  <2>1. /\ tail[1].pc = "dispose" /\ tail' = RemoveAt(tail, 1) /\ UNCHANGED <<store, gen, up, rejected, past>>
        /\ conn' = (IF conn.peer = live THEN NoConnection ELSE conn)
        /\ open' = (IF conn.peer = live \/ last THEN open \ {live} ELSE open)
        /\ retired' = (IF last THEN retired \ {live} ELSE retired)
        /\ caller' = [caller EXCEPT ![q] = Lent(caller[q])]
    BY <1>3 DEF RetireDisposes, At
  <2>2. q \in Callers /\ OfCaller(tail[1])
    BY <1>0, <2>1 DEF Shaped, Awaits, OfCaller
  <2>3. conn' \in ConnType
    BY <2>1, Present DEF ConnType, NoConnection
  <2>4. open' \subseteq Transports /\ retired' \subseteq Nat
    BY <2>1, Present
  <2>5. caller' \in [Callers -> CallerType] /\ \A p \in Callers : caller'[p] # caller[p] => p = q
    BY <2>1, <2>2, LentTyped, Present
  <2> QED BY <2>1, <2>2, <2>3, <2>4, <2>5, OperationEnds, Present
<1>4. CASE Clears(1)
  <2>1. /\ store' = NoBundle /\ past' = [past EXCEPT !.forgotten = tail[1].epoch] /\ tail' = RemoveAt(tail, 1)
        /\ UNCHANGED <<gen, up, caller, conn, open, retired, rejected>>
    BY <1>4 DEF Clears
  <2>2. /\ past' \in PastType /\ past'.begun = past.begun /\ past'.exchanges = past.exchanges
        /\ past'.forgotten = tail[1].epoch
    BY <1>0, <2>1, Present DEF PastType, OpType
  <2>3. store' \in BundleType /\ Fresh(store', past')
    BY <2>1 DEF BundleType, NoBundle, Fresh
  <2> QED BY <2>1, <2>2, <2>3, OperationEnds, Present
<1> QED BY <1>1, <1>2, <1>3, <1>4

-----------------------------------------------------------------------------
(* Callers, sign-in pages and generations                                   *)

\* A new operation.
LEMMA OperationTyped ==
    ASSUME gen \in Nat, NEW kind \in Kinds, NEW by \in Callers \cup Users \cup {"manager"}, NEW arg \in Nat \cup FailureType,
           kind = "finish" => arg \in Nat \ {0}, kind = "retire" => arg \in FailureType
    PROVE  LET x == Operation(kind, by, arg) IN
           /\ x \in OpType /\ Shaped(x) /\ Begins(x)
           /\ x.kind = kind /\ x.by = by /\ x.arg = arg /\ x.epoch = gen
<1> DEFINE x == Operation(kind, by, arg)
<1>1. NoBundle \in BundleType
  BY DEF NoBundle, BundleType
<1>2. x \in OpType
  BY <1>1 DEF Operation, OpType, Places
<1>3. /\ x.kind = kind /\ x.by = by /\ x.arg = arg /\ x.epoch = gen
      /\ x.pc = "queued" /\ x.bundle = NoBundle /\ x.peer = None /\ x.then = "none"
  BY DEF Operation
<1> HIDE DEF x
<1>4. Shaped(x) /\ Begins(x)
  BY <1>3 DEF Shaped, Begins
<1> QED BY <1>2, <1>3, <1>4 DEF x

\* An operation is queued in the present generation, or in the one it starts.
LEMMA QueueGrows ==
    ASSUME ManagerInv, NEW x \in OpType, Shaped(x), Begins(x), tail' = Append(tail, x),
           gen' \in Nat, gen <= gen', x.epoch = gen', up' \in BOOLEAN,
           caller' \in [Callers -> CallerType], Awaits(x, caller'),
           \A p \in Callers : caller'[p] # caller[p] => OfCaller(x) /\ p = x.by,
           OfCaller(x) => caller[x.by].at \notin {"acquiring", "ensuring", "failing"},
           conn' \in ConnType, open' \subseteq Transports, retired' \subseteq Nat, rejected' \subseteq Nat,
           past' \in PastType, past'.issued = past.issued, past'.begun = past.begun,
           past'.exchanges = past.exchanges, past'.forgotten = past.forgotten, store' = store
    PROVE  ManagerInv'
<1>1. /\ tail \in Seq(OpType) /\ InLine(tail, gen, past.forgotten) /\ Awaited(tail, caller)
      /\ gen \in Nat /\ past.forgotten \in Nat /\ store \in BundleType
  BY DEF ManagerInv, QueueInv, TypeOK, PastType
<1>2. /\ tail' \in Seq(OpType) /\ Len(tail) \in Nat /\ DOMAIN tail' = 1..(Len(tail) + 1) /\ DOMAIN tail = 1..Len(tail)
      /\ tail'[Len(tail) + 1] = x /\ \A i \in DOMAIN tail : tail'[i] = tail[i]
  BY <1>1, OneQueued
<1>3. InLine(tail', gen', past'.forgotten)
  BY <1>1, QueuedInLine
<1>4. Awaited(tail', caller')
  <2>1. Awaited(Append(tail, x), caller')
    <3>1. /\ tail \in Seq(OpType) /\ x \in OpType /\ Awaited(tail, caller) /\ Awaits(x, caller')
          /\ \A p \in Callers : caller'[p] # caller[p] => OfCaller(x) /\ p = x.by
          /\ OfCaller(x) => caller[x.by].at \notin {"acquiring", "ensuring", "failing"}
      BY <1>1
    <3> QED BY ONLY <3>1, QueuedAwaited
  <2> QED BY <2>1
<1>5. \A i \in DOMAIN tail : Knows(tail[i], store', past')
  BY DEF ManagerInv, GrantInv, Knows, Fresh
<1>6. \A i \in DOMAIN tail' : Knows(tail'[i], store', past')
  BY <1>2, <1>5, BeginsUnknowing
<1>7. TypeOK'
  BY <1>1, <1>2 DEF TypeOK
<1>8. Fresh(store', past') /\ CallbackUsedOnce' /\ Len(past'.exchanges) = Len(past'.begun)
  BY Present DEF Fresh, CallbackUsedOnce
<1> QED BY <1>3, <1>4, <1>6, <1>7, <1>8 DEF ManagerInv, QueueInv, GrantInv

\* A caller goes on by itself, or a transport is given up.
LEMMA CallerGoesOn ==
    ASSUME ManagerInv, UNCHANGED <<store, gen, tail>>, up' \in BOOLEAN,
           caller' \in [Callers -> CallerType],
           \A p \in Callers : caller'[p] # caller[p] => caller[p].at \notin {"acquiring", "ensuring", "failing"},
           conn' \in ConnType, open' \subseteq Transports, retired' \subseteq Nat, rejected' \subseteq Nat,
           past' \in PastType, past'.issued = past.issued, past'.begun = past.begun,
           past'.exchanges = past.exchanges, past'.forgotten = past.forgotten
    PROVE  ManagerInv'
<1>1. /\ tail \in Seq(OpType) /\ InLine(tail, gen, past.forgotten) /\ Awaited(tail, caller)
      /\ gen \in Nat /\ store \in BundleType
  BY DEF ManagerInv, QueueInv, TypeOK, PastType
<1>2. Awaited(tail', caller')
  BY <1>1, CallerAwaited
<1>3. \A i \in DOMAIN tail' : Knows(tail'[i], store', past')
  <2>1. \A i \in DOMAIN tail : Knows(tail[i], store, past)
    BY DEF ManagerInv, GrantInv
  <2> QED BY <2>1 DEF Knows, Fresh
<1>4. TypeOK'
  BY <1>1 DEF TypeOK
<1>5. Fresh(store', past') /\ CallbackUsedOnce' /\ Len(past'.exchanges) = Len(past'.begun)
  BY Present DEF Fresh, CallbackUsedOnce
<1> QED BY <1>1, <1>2, <1>3, <1>4, <1>5 DEF ManagerInv, QueueInv, GrantInv

\* A borrower asks for the transport, or for another call on it.
LEMMA BorrowingKeeps ==
    ASSUME ManagerInv, NEW q \in Callers, peer(q) \/ request(q)
    PROVE  ManagerInv'
<1>0. /\ caller \in [Callers -> CallerType] /\ caller[q] \in CallerType /\ gen \in Nat /\ up \in BOOLEAN
      /\ Idle \in CallerType
  BY Present DEF ManagerInv, QueueInv, TypeOK, Idle, CallerType
<1> DEFINE x == Operation("ensure", q, None)
<1>1. x \in OpType /\ Shaped(x) /\ Begins(x) /\ x.kind = "ensure" /\ x.by = q /\ x.epoch = gen
  BY <1>0, OperationTyped DEF Kinds
<1> HIDE DEF x
<1>2. ASSUME NEW d \in CallerType, d.at \in {"acquiring", "ensuring"}, caller[q].at \in {"idle", "leased"},
             caller' = [caller EXCEPT ![q] = d], tail' = Append(tail, x),
             UNCHANGED <<store, gen, up, conn, open, retired, rejected, past>>
      PROVE  ManagerInv'
  <2>1. /\ caller' \in [Callers -> CallerType] /\ caller'[q] = d
        /\ \A p \in Callers : caller'[p] # caller[p] => OfCaller(x) /\ p = x.by
    BY <1>0, <1>1, <1>2 DEF OfCaller
  <2>2. Awaits(x, caller') /\ caller[x.by].at \notin {"acquiring", "ensuring", "failing"}
    BY <1>1, <1>2, <2>1 DEF Awaits
  <2>3. gen' \in Nat /\ gen <= gen' /\ x.epoch = gen' /\ up' \in BOOLEAN
    BY <1>0, <1>1, <1>2
  <2>4. /\ store' = store /\ conn' \in ConnType /\ open' \subseteq Transports /\ retired' \subseteq Nat
        /\ rejected' \subseteq Nat /\ past' \in PastType /\ past' = past
    BY <1>2, Present
  <2> QED BY <1>1, <1>2, <2>1, <2>2, <2>3, <2>4, QueueGrows
<1>3. CASE peer(q)
  <2> DEFINE d == [Idle EXCEPT !.at = "acquiring", !.epoch = gen]
  <2>1. d \in CallerType /\ d.at = "acquiring"
    BY <1>0 DEF CallerType, Idle
  <2>2. caller' = [caller EXCEPT ![q] = d] /\ caller[q].at \in {"idle", "leased"} /\ tail' = Append(tail, x)
        /\ UNCHANGED <<store, gen, up, conn, open, retired, rejected, past>>
    BY <1>3 DEF peer, Enqueue, x
  <2> HIDE DEF d
  <2> QED BY <1>2, <2>1, <2>2
<1>4. CASE request(q) /\ Valid(q)
  <2> DEFINE d == [caller[q] EXCEPT !.at = "ensuring"]
  <2>1. d \in CallerType /\ d.at = "ensuring"
    BY <1>0 DEF CallerType
  <2>2. caller' = [caller EXCEPT ![q] = d] /\ caller[q].at \in {"idle", "leased"} /\ tail' = Append(tail, x)
        /\ UNCHANGED <<store, gen, up, conn, open, retired, rejected, past>>
    BY <1>4, <1>0 DEF request, Enqueue, x
  <2> HIDE DEF d
  <2>3. d.at \in {"acquiring", "ensuring"}
    BY <2>1
  <2> QED BY <1>2, <2>1, <2>2, <2>3
<1>5. CASE request(q) /\ ~Valid(q)
  <2>1. caller' = [caller EXCEPT ![q] = Idle] /\ caller[q].at = "leased"
        /\ UNCHANGED <<store, gen, up, tail, conn, open, retired, rejected, past>>
    BY <1>5 DEF request
  <2>2. /\ caller' \in [Callers -> CallerType]
        /\ \A p \in Callers : caller'[p] # caller[p] => caller[p].at \notin {"acquiring", "ensuring", "failing"}
    BY <1>0, <2>1
  <2> QED BY <1>0, <2>1, <2>2, CallerGoesOn, Present
<1> QED BY <1>3, <1>4, <1>5

\* A call is made, answered, or lost with its session.
LEMMA CallsKeep ==
    ASSUME ManagerInv, NEW q \in Callers, Dispatch(q) \/ CallAnswered(q) \/ SessionFails(q)
    PROVE  ManagerInv'
<1>0. /\ caller \in [Callers -> CallerType] /\ caller[q] \in CallerType /\ gen \in Nat /\ up \in BOOLEAN
      /\ Idle \in CallerType /\ conn \in ConnType /\ caller[q].live \in Nat /\ caller[q].token \in Nat
  BY Present DEF ManagerInv, QueueInv, TypeOK, Idle, CallerType
<1>1. CASE Dispatch(q)
  <2> DEFINE d == IF Valid(q) THEN [caller[q] EXCEPT !.at = "calling", !.token = conn.token] ELSE Idle
  <2>1. d \in CallerType
    BY <1>0 DEF CallerType, ConnType
  <2>2. caller' = [caller EXCEPT ![q] = d] /\ caller[q].at = "ready"
        /\ UNCHANGED <<store, gen, up, tail, conn, open, retired, rejected, past>>
    BY <1>1 DEF Dispatch
  <2> HIDE DEF d
  <2>3. /\ caller' \in [Callers -> CallerType]
        /\ \A p \in Callers : caller'[p] # caller[p] => caller[p].at \notin {"acquiring", "ensuring", "failing"}
    BY <1>0, <2>1, <2>2
  <2> QED BY <1>0, <2>2, <2>3, CallerGoesOn, Present
<1>2. ASSUME CallEnds(q), caller[q].at = "calling", UNCHANGED <<store, gen, up, tail, conn, rejected>>,
             past' \in PastType, past'.issued = past.issued, past'.begun = past.begun,
             past'.exchanges = past.exchanges, past'.forgotten = past.forgotten
      PROVE  ManagerInv'
  <2>1. /\ caller' \in [Callers -> CallerType] /\ open' \subseteq open /\ retired' \subseteq retired
        /\ \A p \in Callers : caller'[p] # caller[p] => p = q
    BY <1>0, <1>2, CallEnded
  <2>2. \A p \in Callers : caller'[p] # caller[p] => caller[p].at \notin {"acquiring", "ensuring", "failing"}
    BY <1>2, <2>1
  <2>3. open' \subseteq Transports /\ retired' \subseteq Nat
    BY <2>1, Present
  <2> QED BY <1>0, <1>2, <2>1, <2>2, <2>3, CallerGoesOn, Present
<1>3. CASE CallAnswered(q)
  BY <1>2, <1>3, Present DEF CallAnswered
<1>4. CASE SessionFails(q)
  <2>1. caller[q].at = "calling" /\ past' = [past EXCEPT !.broken = @ \cup {caller[q].live}] /\ UNCHANGED <<store, gen, up, conn>>
    BY <1>4 DEF SessionFails
  <2>2. /\ past' \in PastType /\ past'.issued = past.issued /\ past'.begun = past.begun
        /\ past'.exchanges = past.exchanges /\ past'.forgotten = past.forgotten
    BY <1>0, <2>1, Present DEF PastType
  <2>3. CASE Fenced(caller[q].epoch)
    <3>1. CallEnds(q) /\ UNCHANGED <<tail, rejected>>
      BY <1>4, <2>3 DEF SessionFails
    <3> QED BY <1>2, <2>1, <2>2, <3>1
  <2>4. CASE ~Fenced(caller[q].epoch)
    <3>1. PICK unauthorized \in BOOLEAN :
            /\ rejected' = IF unauthorized THEN rejected \cup {caller[q].token} ELSE rejected
            /\ Enqueue(Operation("retire", q, [live |-> caller[q].live, token |-> caller[q].token, unauthorized |-> unauthorized]))
      BY <1>4, <2>4 DEF SessionFails
    <3>2. caller' = [caller EXCEPT ![q].at = "failing"] /\ UNCHANGED <<open, retired>>
      BY <1>4, <2>4 DEF SessionFails
    <3> DEFINE f == [live |-> caller[q].live, token |-> caller[q].token, unauthorized |-> unauthorized]
               x == Operation("retire", q, f)
               d == [caller[q] EXCEPT !.at = "failing"]
    <3>3. f \in FailureType /\ f.live = caller[q].live
      BY <1>0 DEF FailureType
    <3> HIDE DEF f
    <3>4. x \in OpType /\ Shaped(x) /\ Begins(x) /\ x.kind = "retire" /\ x.by = q /\ x.arg = f /\ x.epoch = gen
      <4>1. /\ gen \in Nat /\ f \in FailureType /\ f \in Nat \cup FailureType
            /\ q \in Callers \cup Users \cup {"manager"} /\ "retire" \in Kinds
        BY <1>0, <3>3 DEF Kinds
      <4> QED BY <4>1, OperationTyped
    <3>5. tail' = Append(tail, x)
      BY <3>1 DEF Enqueue, f
    <3> HIDE DEF x
    <3>6. d \in CallerType /\ d.at = "failing" /\ d.live = caller[q].live /\ caller' = [caller EXCEPT ![q] = d]
      BY <1>0, <3>2 DEF CallerType
    <3> HIDE DEF d
    <3>7. /\ caller' \in [Callers -> CallerType] /\ caller'[q] = d
          /\ \A p \in Callers : caller'[p] # caller[p] => OfCaller(x) /\ p = x.by
      BY <1>0, <3>4, <3>6 DEF OfCaller
    <3>8. Awaits(x, caller') /\ caller[x.by].at \notin {"acquiring", "ensuring", "failing"}
      BY <2>1, <3>3, <3>4, <3>6, <3>7 DEF Awaits
    <3>9. rejected' \subseteq Nat
      BY <1>0, <3>1, Present
    <3>10. gen' \in Nat /\ gen <= gen' /\ x.epoch = gen' /\ up' \in BOOLEAN
      BY <1>0, <2>1, <3>4
    <3>11. store' = store /\ conn' \in ConnType /\ open' \subseteq Transports /\ retired' \subseteq Nat
      BY <2>1, <3>2, Present
    <3> QED BY <2>2, <3>4, <3>5, <3>7, <3>8, <3>9, <3>10, <3>11, QueueGrows
  <2> QED BY <2>3, <2>4
<1> QED BY <1>1, <1>3, <1>4

\* A sign-in page begins or finishes a sign-in.
LEMMA PagesKeep ==
    ASSUME ManagerInv, NEW u \in Users, beginAuth(u) \/ finishAuth(u)
    PROVE  ManagerInv'
<1>0. gen \in Nat /\ up \in BOOLEAN /\ past.begun \in Seq(Nat)
  BY Present DEF ManagerInv, QueueInv, TypeOK, PastType
<1>1. PICK x : /\ x \in OpType /\ Shaped(x) /\ Begins(x) /\ ~OfCaller(x) /\ x.epoch = gen /\ tail' = Append(tail, x)
               /\ Awaits(x, caller)
  <2>1. CASE beginAuth(u)
    <3> DEFINE x == Operation("begin", u, None)
    <3>1. x \in OpType /\ Shaped(x) /\ Begins(x) /\ x.kind = "begin" /\ x.epoch = gen
      BY <1>0, OperationTyped DEF Kinds
    <3>2. tail' = Append(tail, x)
      BY <2>1 DEF beginAuth, Enqueue
    <3> HIDE DEF x
    <3>3. ~OfCaller(x) /\ Awaits(x, caller)
      BY <3>1 DEF OfCaller, Awaits
    <3> QED BY <3>1, <3>2, <3>3
  <2>2. CASE finishAuth(u)
    <3>1. PICK s \in DOMAIN past.begun : Enqueue(Operation("finish", u, s))
      BY <2>2 DEF finishAuth
    <3>2. s \in Nat \ {0}
      BY <1>0, LenProperties
    <3> DEFINE x == Operation("finish", u, s)
    <3>3. x \in OpType /\ Shaped(x) /\ Begins(x) /\ x.kind = "finish" /\ x.epoch = gen
      BY <1>0, <3>2, OperationTyped DEF Kinds
    <3> QED BY <3>1, <3>3 DEF Enqueue, OfCaller, Awaits
  <2> QED BY <2>1, <2>2
<1>2. UNCHANGED <<store, gen, up, caller, conn, open, retired, rejected, past>>
  BY DEF beginAuth, finishAuth
<1> QED BY <1>0, <1>1, <1>2, QueueGrows, Present

\* A disconnect, the end of the manager and a new process.
LEMMA GenerationsKeep ==
    ASSUME ManagerInv, disconnect \/ close \/ Restart
    PROVE  ManagerInv'
<1>0. gen \in Nat /\ up \in BOOLEAN /\ caller \in [Callers -> CallerType] /\ Idle \in CallerType
  BY Present DEF ManagerInv, QueueInv, TypeOK, Idle, CallerType
<1>1. NoConnection \in ConnType
  BY DEF NoConnection, ConnType
<1>2. CASE disconnect
  <2> DEFINE o == Operation("clear", "manager", None)
             x == [o EXCEPT !.epoch = gen + 1]
  <2>1. /\ gen' = gen + 1 /\ conn' = NoConnection /\ open' \subseteq open /\ retired' = {}
        /\ tail' = Append(tail, x) /\ UNCHANGED <<store, up, caller, rejected, past>>
    BY <1>2 DEF disconnect, Disposed, ClearedLast
  <2>2. o \in OpType /\ o.kind = "clear" /\ Shaped(o) /\ Begins(o)
    BY <1>0, OperationTyped DEF Kinds
  <2> HIDE DEF o
  <2>3. /\ x \in OpType /\ x.kind = o.kind /\ x.arg = o.arg /\ x.epoch = gen + 1 /\ x.pc = o.pc /\ x.bundle = o.bundle
        /\ x.peer = o.peer /\ x.then = o.then
    BY <1>0, <2>2 DEF OpType
  <2> HIDE DEF x
  <2>4. Shaped(x) /\ Begins(x) /\ ~OfCaller(x) /\ Awaits(x, caller)
    BY <2>2, <2>3 DEF Shaped, Begins, OfCaller, Awaits
  <2>5. gen' \in Nat /\ gen <= gen' /\ x.epoch = gen' /\ open' \subseteq Transports
    BY <1>0, <2>1, <2>3, Present
  <2> QED BY <1>0, <1>1, <2>1, <2>3, <2>4, <2>5, QueueGrows, Present
<1>3. CASE close
  <2>1. /\ up' = FALSE /\ conn' = NoConnection /\ open' \subseteq open /\ retired' = {}
        /\ UNCHANGED <<store, gen, tail, caller, rejected, past>>
    BY <1>3 DEF close, Disposed
  <2>2. open' \subseteq Transports
    BY <2>1, Present
  <2> QED BY <1>0, <1>1, <2>1, <2>2, CallerGoesOn, Present
<1>4. CASE Restart
  <2>1. /\ gen' = gen + 1 /\ up' = TRUE /\ tail' = <<>> /\ caller' = [q \in Callers |-> Idle]
        /\ conn' = NoConnection /\ open' = {} /\ retired' = {} /\ rejected' = {} /\ UNCHANGED <<store, past>>
    BY <1>4 DEF Restart
  <2>2. TypeOK'
    BY <1>0, <1>1, <2>1, EmptySeq, Present DEF TypeOK
  <2>3. DOMAIN tail' = {}
    BY <2>1
  <2>4. past.forgotten \in Nat /\ past.forgotten <= gen
    BY Present DEF ManagerInv, QueueInv, InLine, PastType
  <2>5. InLine(tail', gen', past'.forgotten) /\ Awaited(tail', caller')
    BY <1>0, <2>1, <2>3, <2>4 DEF InLine, Awaited
  <2>6. GrantInv'
    BY <2>1, <2>3, Present DEF GrantInv, Fresh, CallbackUsedOnce
  <2> QED BY <2>2, <2>5, <2>6 DEF ManagerInv, QueueInv
<1> QED BY <1>2, <1>3, <1>4

\* Every step keeps the manager's invariant.
LEMMA ManagerKeeps == ManagerInv /\ [Next]_vars => ManagerInv'
<1> SUFFICES ASSUME ManagerInv, [Next]_vars PROVE ManagerInv'
  OBVIOUS
<1>1. ASSUME NEW i \in DOMAIN tail, Steps(i) PROVE ManagerInv'
  <2>1. i = 1 /\ 1 \in DOMAIN tail
    BY <1>1 DEF Steps, OperationFenced, OperationFails, PersistStarts, WriteLands, EnsureReads, RefreshSent, TokensIssued,
                RefreshDenied, Reuses, Connects, ConnectAnswers, ConnectRejected, BeginDiscovers, FinishConsumes,
                ExchangeSent, RetireReads, RetireDisposes, Clears, At, Runs
  <2>2. CASE OperationFenced(1) \/ OperationFails(1)
    BY <2>1, <2>2, RejectsKeeps DEF OperationFenced, OperationFails
  <2> QED BY <1>1, <2>1, <2>2, WritesKeep, RenewalKeeps, ConnectionKeeps, SignInKeeps, RecoveryKeeps DEF Steps
<1>2. CASE UNCHANGED vars
  <2>1. UNCHANGED <<store, gen, up, tail, caller, conn, open, retired, rejected, past>>
    BY <1>2 DEF vars, memory
  <2>2. up \in BOOLEAN
    BY DEF ManagerInv, QueueInv, TypeOK
  <2> QED BY <2>1, <2>2, CallerGoesOn, Present
<1> QED BY <1>1, <1>2, BorrowingKeeps, CallsKeep, PagesKeep, GenerationsKeep DEF Next

\* A new manager satisfies it.
LEMMA ManagerStarts == Init => ManagerInv
<1> SUFFICES ASSUME Init PROVE ManagerInv
  OBVIOUS
<1>1. TypeOK
  BY EmptySeq DEF Init, TypeOK, BundleType, NoBundle, ConnType, NoConnection, CallerType, Idle, PastType
<1>2. DOMAIN tail = {} /\ past.forgotten = 0 /\ gen = 1 /\ past.begun = <<>> /\ past.exchanges = <<>>
  BY DEF Init
<1>3. InLine(tail, gen, past.forgotten) /\ Awaited(tail, caller)
  BY <1>2 DEF InLine, Awaited
<1>4. GrantInv
  BY <1>2 DEF Init, GrantInv, Fresh, NoBundle, CallbackUsedOnce
<1> QED BY <1>1, <1>3, <1>4 DEF ManagerInv, QueueInv

\* The manager's invariant, for every number of callers, pages and generations.
THEOREM ManagerInvariant == Spec => []ManagerInv
BY ManagerStarts, ManagerKeeps, PTL DEF Spec

\* After a disconnect nothing older is in the store again (remote.ts: the
\* generation fence, and the clearing queued behind older writes).
THEOREM RemoteDisconnectForgets == Spec => []DisconnectForgets
<1>1. ManagerInv => DisconnectForgets
  BY DEF ManagerInv, GrantInv, Fresh, DisconnectForgets
<1> QED BY <1>1, ManagerInvariant, PTL

\* A refresh presents the grant that the store holds.
THEOREM RemoteGrantIsCurrent == Spec => []GrantIsCurrent
<1>1. ManagerInv => GrantIsCurrent
  BY DEF ManagerInv, GrantInv, Knows, GrantIsCurrent
<1> QED BY <1>1, ManagerInvariant, PTL

\* The code of a sign-in is exchanged at most once, whatever is repeated or
\* restarted.
THEOREM RemoteCallbackUsedOnce == Spec => []CallbackUsedOnce
<1>1. ManagerInv => CallbackUsedOnce
  BY DEF ManagerInv, GrantInv
<1> QED BY <1>1, ManagerInvariant, PTL

-----------------------------------------------------------------------------
(* Transports                                                               *)

\* The first operation is opening the transport t.
Opening(t) == 1 \in DOMAIN tail /\ tail[1].pc = "connecting" /\ tail[1].peer = t

\* The connection and what is retired are open, and are different transports.
ConnectionOpen == retired \subseteq open /\ (conn.peer # None => conn.peer \in open \ retired)

\* A transport being opened is in nobody's hands, and is the only new one.
OpeningUnshared ==
    1 \in DOMAIN tail /\ tail[1].pc = "connecting" =>
        /\ conn.peer = None /\ tail[1].peer \in open \ retired
        /\ \A q \in Callers : caller[q].lease # tail[1].peer /\ caller[q].live # tail[1].peer

\* A borrower's transport is the one it was lent, as long as that is the connection.
LeaseHeld(c, p, g) ==
    /\ c.epoch <= g
    /\ c.at \in {"leased", "ensuring", "ready", "calling", "failing"} => c.lease # None
    /\ c.at = "ready" /\ p = c.lease => c.live = c.lease
LeasesHeld == \A q \in Callers : LeaseHeld(caller[q], conn.peer, gen)

FailuresKnown == \A i \in DOMAIN tail : tail[i].kind = "retire" => tail[i].arg.live \in past.broken
NoneLeaked == \A t \in open : t = conn.peer \/ (t \in retired /\ Active(t) # {}) \/ Opening(t)
CallsServed ==
    \A q \in Callers : caller[q].at = "calling" /\ ~Fenced(caller[q].epoch) => caller[q].live \in open \cup past.broken

TransportInv == ConnectionOpen /\ OpeningUnshared /\ LeasesHeld /\ FailuresKnown /\ NoneLeaked /\ CallsServed

\* The first operation goes on without touching a transport.
LEMMA QuietMove ==
    ASSUME ManagerInv, TransportInv, 1 \in DOMAIN tail, tail[1].pc # "connecting",
           NEW x \in OpType, Goes(1, x), x.kind = tail[1].kind, x.arg = tail[1].arg, x.pc # "connecting",
           UNCHANGED <<gen, up, caller, conn, open, retired>>, past'.broken = past.broken
    PROVE  TransportInv'
<1>1. /\ DOMAIN tail' = DOMAIN tail /\ tail'[1] = x /\ \A i \in DOMAIN tail : i # 1 => tail'[i] = tail[i]
  BY FirstMoved, Present DEF Goes
<1>2. ConnectionOpen' /\ OpeningUnshared' /\ LeasesHeld' /\ CallsServed'
  BY <1>1 DEF TransportInv, ConnectionOpen, OpeningUnshared, LeasesHeld, CallsServed, Fenced
<1>3. FailuresKnown'
  BY <1>1 DEF TransportInv, FailuresKnown
<1>4. NoneLeaked'
  BY <1>1 DEF TransportInv, NoneLeaked, Opening, Active
<1> QED BY <1>2, <1>3, <1>4 DEF TransportInv

\* The steps that read, renew, save or sign in touch no transport.
LEMMA QuietSteps ==
    ASSUME ManagerInv, TransportInv, 1 \in DOMAIN tail,
           \/ PersistStarts(1) \/ (WriteLands(1) /\ tail[1].then # "done") \/ (EnsureReads(1) /\ store.token # None)
           \/ RefreshSent(1) \/ TokensIssued(1) \/ RefreshDenied(1) \/ BeginDiscovers(1)
           \/ (FinishConsumes(1) /\ store.pending = tail[1].arg) \/ ExchangeSent(1) \/ RetireReads(1)
    PROVE  TransportInv'
<1>0. tail[1] \in OpType /\ Shaped(tail[1]) /\ tail[1].bundle \in BundleType /\ store \in BundleType /\ past \in PastType
  BY FirstRuns, Present DEF OpType
<1> SUFFICES \E x : /\ Goes(1, x) /\ x \in OpType /\ x.kind = tail[1].kind /\ x.arg = tail[1].arg /\ x.pc # "connecting"
                    /\ tail[1].pc # "connecting" /\ UNCHANGED <<gen, up, caller, conn, open, retired>>
                    /\ past'.broken = past.broken
  BY QuietMove
<1>1. CASE PersistStarts(1)
  BY <1>0, <1>1 DEF PersistStarts, At, OpType, Places
<1>2. CASE WriteLands(1) /\ tail[1].then # "done"
  <2>1. tail[1].pc = "writing" /\ tail[1].then \in {"connect", "ensure", "exchange", "dispose"}
    BY <1>0, <1>2 DEF WriteLands, Shaped, OpType, Sequels
  <2>2. LET x == [tail[1] EXCEPT !.pc = tail[1].then] IN x \in OpType /\ x.kind = tail[1].kind /\ x.arg = tail[1].arg /\ x.pc = tail[1].then
    BY <1>0, <2>1 DEF OpType, Places
  <2> QED BY <1>2, <2>1, <2>2 DEF WriteLands
<1>3. CASE EnsureReads(1) /\ store.token # None
  <2>1. PICK stale \in BOOLEAN : Goes(1, [tail[1] EXCEPT !.bundle = store, !.pc = IF stale THEN "refresh" ELSE "connect"])
    BY <1>3 DEF EnsureReads
  <2>2. LET x == [tail[1] EXCEPT !.bundle = store, !.pc = IF stale THEN "refresh" ELSE "connect"]
        IN  x \in OpType /\ x.kind = tail[1].kind /\ x.arg = tail[1].arg /\ x.pc # "connecting"
    BY <1>0, <2>1 DEF OpType, Places
  <2> QED BY <1>3, <2>1, <2>2 DEF EnsureReads, At
<1>4. CASE RefreshSent(1)
  BY <1>0, <1>4 DEF RefreshSent, At, OpType, Places
<1>5. CASE TokensIssued(1)
  <2> DEFINE sequel == IF tail[1].pc = "refreshing" THEN "connect" ELSE "ensure"
             new == Len(past.issued) + 1
             x == [tail[1] EXCEPT !.bundle.token = new, !.bundle.expired = FALSE, !.pc = "save", !.then = sequel]
  <2>1. sequel \in Sequels /\ new \in Nat
    BY <1>0, LenProperties DEF Sequels, PastType
  <2>2. Goes(1, x) /\ tail[1].pc # "connecting" /\ past'.broken = past.broken /\ UNCHANGED <<gen, up, caller, conn, open, retired>>
    BY <1>0, <1>5 DEF TokensIssued, At, PastType
  <2> HIDE DEF sequel, new
  <2>3. x \in OpType /\ x.kind = tail[1].kind /\ x.arg = tail[1].arg /\ x.pc # "connecting"
    BY <1>0, <2>1 DEF OpType, Places, BundleType
  <2> QED BY <2>2, <2>3
<1>6. CASE RefreshDenied(1)
  <2> DEFINE x == [tail[1] EXCEPT !.bundle.token = None, !.bundle.expired = FALSE, !.pc = "save", !.then = "done"]
  <2>1. x \in OpType /\ x.kind = tail[1].kind /\ x.arg = tail[1].arg /\ x.pc # "connecting"
    BY <1>0 DEF OpType, Places, BundleType, Sequels
  <2> QED BY <1>6, <2>1 DEF RefreshDenied, At
<1>7. CASE BeginDiscovers(1)
  <2> DEFINE b == [store EXCEPT !.pending = Len(past.begun) + 1]
             x == [tail[1] EXCEPT !.bundle = b, !.pc = "save", !.then = "done"]
  <2>1. b \in BundleType
    <3>1. past.begun \in Seq(Nat)
      BY <1>0 DEF PastType
    <3>2. Len(past.begun) + 1 \in Nat
      BY <3>1, LenProperties
    <3> QED BY <1>0, <3>2 DEF BundleType
  <2>2. Goes(1, x) /\ tail[1].pc # "connecting" /\ past'.broken = past.broken /\ UNCHANGED <<gen, up, caller, conn, open, retired>>
    BY <1>0, <1>7 DEF BeginDiscovers, At, PastType
  <2> HIDE DEF b
  <2>3. x \in OpType /\ x.kind = tail[1].kind /\ x.arg = tail[1].arg /\ x.pc # "connecting"
    BY <1>0, <2>1 DEF OpType, Places, Sequels
  <2> QED BY <2>2, <2>3
<1>8. CASE FinishConsumes(1) /\ store.pending = tail[1].arg
  <2> DEFINE b == Consumed(store)
             x == [tail[1] EXCEPT !.bundle = b, !.pc = "save", !.then = "exchange"]
  <2>1. b \in BundleType
    BY <1>0 DEF BundleType, Consumed
  <2>2. Goes(1, x) /\ tail[1].pc # "connecting" /\ past'.broken = past.broken /\ UNCHANGED <<gen, up, caller, conn, open, retired>>
    BY <1>8 DEF FinishConsumes, At
  <2> HIDE DEF b
  <2>3. x \in OpType /\ x.kind = tail[1].kind /\ x.arg = tail[1].arg /\ x.pc # "connecting"
    BY <1>0, <2>1 DEF OpType, Places, Sequels
  <2> QED BY <2>2, <2>3
<1>9. CASE ExchangeSent(1)
  BY <1>0, <1>9 DEF ExchangeSent, At, OpType, Places, PastType
<1>10. CASE RetireReads(1)
  <2> DEFINE b == [store EXCEPT !.expired = TRUE]
             x == IF tail[1].arg.unauthorized /\ store.token = tail[1].arg.token
                  THEN [tail[1] EXCEPT !.bundle = b, !.pc = "save", !.then = "dispose"]
                  ELSE [tail[1] EXCEPT !.pc = "dispose"]
  <2>1. b \in BundleType
    BY <1>0 DEF BundleType
  <2>2. Goes(1, x) /\ tail[1].pc # "connecting" /\ past'.broken = past.broken /\ UNCHANGED <<gen, up, caller, conn, open, retired>>
    BY <1>10 DEF RetireReads, At
  <2> HIDE DEF b
  <2>3. x \in OpType /\ x.kind = tail[1].kind /\ x.arg = tail[1].arg /\ x.pc # "connecting"
    BY <1>0, <2>1 DEF OpType, Places, Sequels
  <2> QED BY <2>2, <2>3
<1> QED BY <1>1, <1>2, <1>3, <1>4, <1>5, <1>6, <1>7, <1>8, <1>9, <1>10

\* With the first operation gone, none is under way.
LEMMA NoneUnderWay ==
    ASSUME ManagerInv, 1 \in DOMAIN tail, tail' = RemoveAt(tail, 1)
    PROVE  /\ \A i \in DOMAIN tail' : tail'[i].pc = "queued" /\ \E j \in DOMAIN tail : tail'[i] = tail[j]
           /\ OpeningUnshared' /\ \A t : ~Opening(t)'
           /\ FailuresKnown /\ past'.broken = past.broken => FailuresKnown'
<1>1. tail \in Seq(OpType) /\ InLine(tail, gen, past.forgotten)
  BY DEF ManagerInv, QueueInv, TypeOK
<1>2. \A i \in DOMAIN tail' : i \in Nat \ {0} /\ i + 1 \in DOMAIN tail /\ tail'[i] = tail[i + 1]
  BY <1>1, FirstRemoved
<1>3. \A i \in DOMAIN tail' : tail'[i].pc = "queued" /\ \E j \in DOMAIN tail : tail'[i] = tail[j]
  <2> SUFFICES ASSUME NEW i \in DOMAIN tail'
               PROVE  tail'[i].pc = "queued" /\ \E j \in DOMAIN tail : tail'[i] = tail[j]
    OBVIOUS
  <2>1. i + 1 \in DOMAIN tail /\ i + 1 # 1 /\ tail'[i] = tail[i + 1]
    BY <1>2
  <2> QED BY <1>1, <2>1 DEF InLine, Begins
<1>4. FailuresKnown /\ past'.broken = past.broken => FailuresKnown'
  BY <1>3 DEF FailuresKnown
<1>5. OpeningUnshared' /\ \A t : ~Opening(t)'
  BY <1>3 DEF OpeningUnshared, Opening
<1> QED BY <1>3, <1>4, <1>5

\* The caller of an operation that settles with the connection, or with none.
LEMMA SettledLeases ==
    ASSUME ManagerInv, LeasesHeld, 1 \in DOMAIN tail, NEW p \in Nat, Settles(1, p), gen' = gen,
           p = None \/ p = conn'.peer,
           \A q \in Callers : LeaseHeld(caller[q], conn'.peer, gen)
    PROVE  /\ LeasesHeld' /\ \A t : Active(t)' = Active(t)
           /\ \A q \in Callers : caller'[q].at = "calling" => caller'[q] = caller[q]
           /\ \A q \in Callers : caller'[q].lease \in {None, caller[q].lease, p} /\ caller'[q].live \in {None, caller[q].live, p}
<1>1. /\ caller' \in [Callers -> CallerType]
      /\ \A q \in Callers : caller'[q] # caller[q] => tail[1].kind = "ensure" /\ q = tail[1].by
      /\ tail[1].kind = "ensure" => tail[1].by \in Callers /\ caller'[tail[1].by] = Resumed(caller[tail[1].by], p)
  BY SettledCallers
<1>2. caller \in [Callers -> CallerType] /\ gen \in Nat
  BY Present
<1>3. ASSUME NEW q \in Callers, caller'[q] # caller[q]
      PROVE  /\ LeaseHeld(caller'[q], conn'.peer, gen) /\ caller'[q].at \in {"idle", "leased", "ready"}
             /\ caller[q].at \in {"acquiring", "ensuring"}
             /\ caller'[q].lease \in {None, caller[q].lease, p} /\ caller'[q].live \in {None, p}
  <2>1. tail[1].kind = "ensure" /\ q = tail[1].by /\ caller'[q] = Resumed(caller[q], p)
    BY <1>1, <1>3
  <2>2. caller[q] \in CallerType /\ caller[q].at \in {"acquiring", "ensuring"}
    BY <1>2, <2>1, FirstRuns DEF Awaits
  <2> DEFINE d == Resumed(caller[q], p)
  <2>3. /\ d \in CallerType /\ d.at \in {"idle", "leased", "ready"} /\ d.epoch \in {0, caller[q].epoch}
        /\ d.live \in {None, p} /\ d.lease \in {None, caller[q].lease, p}
    BY <2>2, ResumedTyped
  <2>4. /\ d.at = "ready" => d.live = p /\ p # None /\ d.lease = caller[q].lease /\ caller[q].at = "ensuring"
        /\ d.at = "leased" => \/ caller[q].at = "ensuring" /\ d.lease = caller[q].lease
                              \/ p # None /\ d.lease = p
    BY <2>2, ResumedTyped
  <2> HIDE DEF d
  <2>5. LeaseHeld(caller[q], conn'.peer, gen)
    OBVIOUS
  <2>6. LeaseHeld(d, conn'.peer, gen)
    BY <1>2, <2>2, <2>3, <2>4, <2>5 DEF LeaseHeld, CallerType
  <2> QED BY <2>1, <2>2, <2>3, <2>6 DEF d
<1>4. LeasesHeld'
  BY <1>3 DEF LeasesHeld
<1>5. \A t : Active(t)' = Active(t)
  BY <1>3 DEF Active
<1>6. \A q \in Callers : caller'[q].at = "calling" => caller'[q] = caller[q]
  BY <1>3
<1>7. \A q \in Callers : caller'[q].lease \in {None, caller[q].lease, p} /\ caller'[q].live \in {None, caller[q].live, p}
  BY <1>3
<1> QED BY <1>4, <1>5, <1>6, <1>7

\* An operation that is not opening a transport settles.
LEMMA QuietEnd ==
    ASSUME ManagerInv, TransportInv, 1 \in DOMAIN tail, tail[1].pc # "connecting", NEW p \in {None, conn.peer},
           Settles(1, p), UNCHANGED <<gen, up, conn, open, retired>>, past'.broken = past.broken
    PROVE  TransportInv'
<1>1. tail' = RemoveAt(tail, 1) /\ p \in Nat
  BY Present DEF Settles, ConnType
<1>2. LeasesHeld /\ FailuresKnown /\ NoneLeaked /\ CallsServed /\ ConnectionOpen
  BY DEF TransportInv
<1>3. \A q \in Callers : LeaseHeld(caller[q], conn'.peer, gen)
  BY <1>2 DEF LeasesHeld
<1>4. /\ LeasesHeld' /\ \A t : Active(t)' = Active(t)
      /\ \A q \in Callers : caller'[q].at = "calling" => caller'[q] = caller[q]
  BY <1>1, <1>2, <1>3, SettledLeases
<1>5. OpeningUnshared' /\ FailuresKnown'
  BY <1>1, <1>2, NoneUnderWay
<1>6. ConnectionOpen' /\ CallsServed'
  BY <1>2, <1>4 DEF ConnectionOpen, CallsServed, Fenced
<1>7. NoneLeaked'
  BY <1>2, <1>4 DEF NoneLeaked, Opening
<1> QED BY <1>4, <1>5, <1>6, <1>7 DEF TransportInv

\* The end of a call leaves its transport to the calls still on it.
LEMMA CallEndHolds ==
    ASSUME ManagerInv, TransportInv, NEW q \in Callers, caller[q].at \in {"calling", "failing"},
           CallEnds(q), UNCHANGED <<gen, up, conn>>, past.broken \subseteq past'.broken,
           tail' = tail \/ (1 \in DOMAIN tail /\ tail[1].kind = "retire" /\ tail' = RemoveAt(tail, 1))
    PROVE  TransportInv'
<1>1. /\ caller \in [Callers -> CallerType] /\ gen \in Nat /\ open \subseteq Transports
      /\ caller' \in [Callers -> CallerType] /\ caller'[q] = Lent(caller[q])
      /\ \A p \in Callers \ {q} : caller'[p] = caller[p]
  BY CallEnded, Present
<1>2. LeasesHeld /\ FailuresKnown /\ NoneLeaked /\ CallsServed /\ ConnectionOpen /\ OpeningUnshared
  BY DEF TransportInv
<1>3. /\ Lent(caller[q]).at = "leased" /\ Lent(caller[q]).lease = caller[q].lease
      /\ Lent(caller[q]).live = None /\ Lent(caller[q]).epoch = caller[q].epoch
  BY <1>1, LentTyped
<1> DEFINE live == caller[q].live
           last == live \in retired /\ Active(live) = {q}
<1>4. open' = (IF last THEN open \ {live} ELSE open) /\ retired' = (IF last THEN retired \ {live} ELSE retired)
  BY DEF CallEnds
<1>5. /\ \A t : t # live => Active(t)' = Active(t)
      /\ \A t : t = live => Active(t)' = Active(t) \ {q}
      /\ q \in Active(live)
  BY <1>1, <1>3 DEF Active
<1> HIDE DEF live
<1>6. LeasesHeld'
  BY <1>1, <1>2, <1>3 DEF LeasesHeld, LeaseHeld
<1>7. ConnectionOpen'
  BY <1>2, <1>4 DEF ConnectionOpen
<1>10. CallsServed'
  <2> SUFFICES ASSUME NEW p \in Callers, caller'[p].at = "calling", up', caller'[p].epoch = gen'
               PROVE  caller'[p].live \in open' \cup past'.broken
    BY DEF CallsServed, Fenced
  <2>1. p # q /\ caller'[p] = caller[p] /\ ~Fenced(caller[p].epoch)
    BY <1>1, <1>3 DEF Fenced
  <2>2. caller[p].live \in open \cup past.broken
    BY <1>2, <2>1 DEF CallsServed
  <2>3. last => caller[p].live # live
    BY <2>1 DEF Active
  <2> QED BY <1>4, <2>1, <2>2, <2>3
<1>8. CASE tail' = tail
  <2>1. FailuresKnown'
    BY <1>2, <1>8 DEF FailuresKnown
  <2>2. OpeningUnshared'
    <3> SUFFICES ASSUME 1 \in DOMAIN tail, tail[1].pc = "connecting"
                 PROVE  /\ conn.peer = None /\ tail[1].peer \in open' \ retired'
                        /\ \A p \in Callers : caller'[p].lease # tail[1].peer /\ caller'[p].live # tail[1].peer
      BY <1>8 DEF OpeningUnshared
    <3>1. /\ conn.peer = None /\ tail[1].peer \in open \ retired /\ tail[1].peer # None
          /\ \A p \in Callers : caller[p].lease # tail[1].peer /\ caller[p].live # tail[1].peer
      BY <1>2, FirstRuns DEF OpeningUnshared, Shaped
    <3> QED BY <1>1, <1>3, <1>4, <3>1 DEF live
  <2>3. NoneLeaked'
    BY <1>2, <1>4, <1>5, <1>8 DEF NoneLeaked, Opening
  <2>4. CallsServed'
    BY <1>10
  <2> QED BY <1>6, <1>7, <2>1, <2>2, <2>3, <2>4 DEF TransportInv
<1>9. CASE 1 \in DOMAIN tail /\ tail[1].kind = "retire" /\ tail' = RemoveAt(tail, 1)
  <2>1. /\ OpeningUnshared' /\ \A t : ~Opening(t)'
        /\ \A i \in DOMAIN tail' : \E j \in DOMAIN tail : tail'[i] = tail[j]
    BY <1>9, NoneUnderWay
  <2>2. FailuresKnown'
    BY <1>2, <2>1 DEF FailuresKnown
  <2>3. \A t : ~Opening(t)
    BY <1>9, FirstRuns DEF Opening, Shaped
  <2>4. NoneLeaked'
    BY <1>2, <1>4, <1>5, <2>3 DEF NoneLeaked
  <2>5. CallsServed'
    BY <1>10
  <2> QED BY <1>6, <1>7, <2>1, <2>2, <2>4, <2>5 DEF TransportInv
<1> QED BY <1>8, <1>9

\* An operation that fails closes the transport it was opening, which nobody
\* uses, and no other.
LEMMA RejectsHolds ==
    ASSUME ManagerInv, TransportInv, 1 \in DOMAIN tail, Rejects(1), UNCHANGED <<store, gen, up, conn, rejected, past>>
    PROVE  TransportInv'
<1>0. tail[1] \in OpType /\ Shaped(tail[1]) /\ Awaits(tail[1], caller) /\ open \subseteq Transports /\ 0 \notin Transports
  BY FirstRuns, Present, RemoteAssumption
<1>1. CASE tail[1].kind = "retire"
  <2>1. tail[1].by \in Callers /\ caller[tail[1].by].at = "failing"
    BY <1>0, <1>1 DEF Awaits
  <2>2. tail' = RemoveAt(tail, 1) /\ CallEnds(tail[1].by)
    BY <1>1 DEF Rejects
  <2> QED BY <1>1, <2>1, <2>2, CallEndHolds
<1>2. CASE tail[1].kind # "retire" /\ tail[1].pc # "connecting"
  <2>1. Settles(1, None) /\ open' = open \ {tail[1].peer} /\ retired' = retired
    BY <1>2 DEF Rejects
  <2>2. open' = open
    BY <1>0, <1>2, <2>1 DEF Shaped
  <2> QED BY <1>2, <2>1, <2>2, QuietEnd
<1>3. CASE tail[1].kind # "retire" /\ tail[1].pc = "connecting"
  <2>1. Settles(1, None) /\ open' = open \ {tail[1].peer} /\ retired' = retired /\ tail' = RemoveAt(tail, 1)
    BY <1>3 DEF Rejects, Settles
  <2>2. LeasesHeld /\ FailuresKnown /\ NoneLeaked /\ CallsServed /\ ConnectionOpen /\ OpeningUnshared
    BY DEF TransportInv
  <2>3. /\ conn.peer = None /\ tail[1].peer \in open \ retired
        /\ \A p \in Callers : caller[p].lease # tail[1].peer /\ caller[p].live # tail[1].peer
    BY <1>3, <2>2 DEF OpeningUnshared
  <2>4. \A q \in Callers : LeaseHeld(caller[q], conn'.peer, gen)
    BY <2>2 DEF LeasesHeld
  <2>5. /\ LeasesHeld' /\ \A t : Active(t)' = Active(t)
        /\ \A q \in Callers : caller'[q].at = "calling" => caller'[q] = caller[q]
    BY <2>1, <2>2, <2>4, SettledLeases
  <2>6. OpeningUnshared' /\ FailuresKnown'
    BY <2>1, <2>2, NoneUnderWay
  <2>7. ConnectionOpen'
    BY <2>1, <2>2, <2>3 DEF ConnectionOpen
  <2>8. CallsServed'
    BY <2>1, <2>2, <2>3, <2>5 DEF CallsServed, Fenced
  <2>9. NoneLeaked'
    BY <2>1, <2>2, <2>5 DEF NoneLeaked, Opening
  <2> QED BY <2>5, <2>6, <2>7, <2>8, <2>9 DEF TransportInv
<1> QED BY <1>1, <1>2, <1>3

\* Opening a transport: the old one is kept for the calls on it, and the new
\* one is in nobody's hands.
LEMMA ConnectionHolds ==
    ASSUME ManagerInv, TransportInv, 1 \in DOMAIN tail, Reuses(1) \/ Connects(1) \/ ConnectAnswers(1) \/ ConnectRejected(1)
    PROVE  TransportInv'
<1>0. /\ tail[1] \in OpType /\ Shaped(tail[1]) /\ tail[1].peer \in Nat /\ open \subseteq Transports /\ 0 \notin Transports
      /\ tail \in Seq(OpType) /\ tail[1].bundle \in BundleType
  BY FirstRuns, Present, RemoteAssumption DEF OpType
<1>1. LeasesHeld /\ FailuresKnown /\ NoneLeaked /\ CallsServed /\ ConnectionOpen /\ OpeningUnshared
  BY DEF TransportInv
<1>2. CASE Reuses(1)
  <2>1. /\ tail[1].pc # "connecting" /\ Settles(1, conn.peer) /\ UNCHANGED <<gen, up, conn, open, retired, past>>
    BY <1>2 DEF Reuses, At
  <2> QED BY <2>1, QuietEnd
<1>3. CASE Connects(1)
  <2> DEFINE kept == conn.peer # None /\ Kept(conn.peer)
  <2>1. PICK new \in Unused :
            /\ open' = (IF kept THEN open ELSE open \ {conn.peer}) \cup {new}
            /\ retired' = IF kept THEN retired \cup {conn.peer} ELSE retired
            /\ Goes(1, [tail[1] EXCEPT !.pc = "connecting", !.peer = new])
            /\ past' = [past EXCEPT !.broken = @ \ {new}]
    BY <1>3 DEF Connects
  <2> DEFINE x == [tail[1] EXCEPT !.pc = "connecting", !.peer = new]
  <2>2. tail[1].pc = "connect" /\ conn'.peer = None /\ UNCHANGED <<gen, up, caller>>
    BY <1>3 DEF Connects, At, NoConnection
  <2>3. /\ new \in Transports /\ new \in Nat /\ new # 0 /\ new \notin open
        /\ \A q \in Callers : caller[q].lease # new /\ caller[q].live # new
        /\ \A i \in DOMAIN tail : tail[i].kind = "retire" => tail[i].arg.live # new
    BY <2>1, RemoteAssumption DEF Unused
  <2>4. x \in OpType /\ x.pc = "connecting" /\ x.peer = new /\ x.kind = tail[1].kind /\ x.arg = tail[1].arg
    BY <1>0, <2>3 DEF OpType, Places
  <2>5. tail' = [tail EXCEPT ![1] = x]
    BY <2>1 DEF Goes
  <2> HIDE DEF x
  <2>6. /\ DOMAIN tail' = DOMAIN tail /\ tail'[1] = x /\ \A i \in DOMAIN tail : i # 1 => tail'[i] = tail[i]
    BY <1>0, <2>4, <2>5, FirstMoved
  <2>7. past'.broken = past.broken \ {new}
    BY <2>1, Present DEF PastType
  <2>8. \A t : Active(t)' = Active(t)
    BY <2>2 DEF Active
  <2>9. kept => Active(conn.peer) # {}
    BY DEF Kept
  <2>10. ~kept /\ conn.peer # None => Active(conn.peer) = {}
    BY DEF Kept
  <2> HIDE DEF kept
  <2>11. ConnectionOpen'
    BY <1>0, <1>1, <2>1, <2>2 DEF ConnectionOpen, kept
  <2>12. OpeningUnshared'
    <3>1. new \notin retired'
      BY <1>0, <1>1, <2>1, <2>3 DEF ConnectionOpen, kept
    <3> QED BY <2>1, <2>2, <2>3, <2>4, <2>6, <3>1 DEF OpeningUnshared
  <2>13. LeasesHeld'
    BY <1>1, <2>2 DEF LeasesHeld, LeaseHeld
  <2>14. FailuresKnown'
    BY <1>1, <2>3, <2>4, <2>6, <2>7 DEF FailuresKnown
  <2>15. NoneLeaked'
    <3> SUFFICES ASSUME NEW t \in open' PROVE (t \in retired' /\ Active(t)' # {}) \/ Opening(t)'
      BY DEF NoneLeaked
    <3>1. CASE t = new
      BY <2>4, <2>6, <3>1 DEF Opening
    <3>2. CASE t # new
      <4>1. t \in open /\ (t = conn.peer => kept)
        BY <2>1, <3>2
      <4>2. t = conn.peer \/ (t \in retired /\ Active(t) # {})
        BY <1>1, <2>2, <4>1 DEF NoneLeaked, Opening
      <4> QED BY <2>1, <2>8, <2>9, <4>1, <4>2
    <3> QED BY <3>1, <3>2
  <2>16. CallsServed'
    <3> SUFFICES ASSUME NEW q \in Callers, caller[q].at = "calling", ~Fenced(caller[q].epoch)
                 PROVE  caller[q].live \in open' \cup past'.broken
      BY <2>2 DEF CallsServed, Fenced
    <3>1. caller[q].live \in open \cup past.broken /\ caller[q].live # new /\ q \in Active(caller[q].live)
      BY <1>1, <2>3 DEF CallsServed, Active
    <3>2. ~kept => caller[q].live # conn.peer \/ conn.peer = None
      BY <2>10, <3>1
    <3> QED BY <1>0, <2>1, <2>7, <3>1, <3>2
  <2> QED BY <2>11, <2>12, <2>13, <2>14, <2>15, <2>16 DEF TransportInv
<1>4. CASE ConnectAnswers(1)
  <2> DEFINE p == tail[1].peer
  <2>1. /\ tail[1].pc = "connecting" /\ conn'.peer = p /\ Settles(1, p) /\ tail' = RemoveAt(tail, 1)
        /\ UNCHANGED <<gen, up, open, retired, past>>
    BY <1>4 DEF ConnectAnswers, At, Settles
  <2>2. /\ conn.peer = None /\ p \in open \ retired
        /\ \A q \in Callers : caller[q].lease # p /\ caller[q].live # p
    BY <1>1, <2>1 DEF OpeningUnshared
  <2>3. \A q \in Callers : LeaseHeld(caller[q], conn'.peer, gen)
    BY <1>1, <2>1, <2>2 DEF LeasesHeld, LeaseHeld
  <2>4. /\ LeasesHeld' /\ \A t : Active(t)' = Active(t)
        /\ \A q \in Callers : caller'[q].at = "calling" => caller'[q] = caller[q]
    BY <1>0, <1>1, <2>1, <2>3, SettledLeases
  <2>5. OpeningUnshared' /\ FailuresKnown'
    BY <1>1, <2>1, NoneUnderWay
  <2>6. ConnectionOpen'
    BY <1>1, <2>1, <2>2 DEF ConnectionOpen
  <2>7. CallsServed'
    BY <1>1, <2>1, <2>4 DEF CallsServed, Fenced
  <2>8. NoneLeaked'
    BY <1>0, <1>1, <2>1, <2>2, <2>4 DEF NoneLeaked, Opening
  <2> QED BY <2>4, <2>5, <2>6, <2>7, <2>8 DEF TransportInv
<1>5. CASE ConnectRejected(1)
  <2> DEFINE x == [tail[1] EXCEPT !.bundle.expired = TRUE, !.pc = "save", !.then = "done", !.peer = None]
  <2>1. /\ tail[1].pc = "connecting" /\ tail' = [tail EXCEPT ![1] = x] /\ open' = open \ {tail[1].peer}
        /\ UNCHANGED <<gen, up, caller, conn, retired, past>>
    BY <1>5 DEF ConnectRejected, At, Goes
  <2>2. x \in OpType /\ x.pc = "save" /\ x.kind = tail[1].kind /\ x.arg = tail[1].arg
    BY <1>0 DEF OpType, Places, BundleType, Sequels
  <2> HIDE DEF x
  <2>3. /\ DOMAIN tail' = DOMAIN tail /\ tail'[1] = x /\ \A i \in DOMAIN tail : i # 1 => tail'[i] = tail[i]
    BY <1>0, <2>1, <2>2, FirstMoved
  <2>4. /\ conn.peer = None /\ tail[1].peer \in open \ retired
        /\ \A q \in Callers : caller[q].lease # tail[1].peer /\ caller[q].live # tail[1].peer
    BY <1>1, <2>1 DEF OpeningUnshared
  <2>5. ConnectionOpen' /\ OpeningUnshared' /\ LeasesHeld'
    BY <1>1, <2>1, <2>2, <2>3, <2>4 DEF ConnectionOpen, OpeningUnshared, LeasesHeld
  <2>6. FailuresKnown'
    BY <1>1, <2>1, <2>2, <2>3 DEF FailuresKnown
  <2>7. NoneLeaked'
    BY <1>1, <2>1, <2>3 DEF NoneLeaked, Opening, Active
  <2>8. CallsServed'
    BY <1>1, <2>1, <2>4 DEF CallsServed, Fenced
  <2> QED BY <2>5, <2>6, <2>7, <2>8 DEF TransportInv
<1> QED BY <1>2, <1>3, <1>4, <1>5

\* The steps that end an operation with no transport of its own.
LEMMA EndsHold ==
    ASSUME ManagerInv, TransportInv, 1 \in DOMAIN tail,
           \/ (WriteLands(1) /\ tail[1].then = "done") \/ (EnsureReads(1) /\ store.token = None)
           \/ (FinishConsumes(1) /\ store.pending # tail[1].arg) \/ RetireDisposes(1) \/ Clears(1)
    PROVE  TransportInv'
<1>0. /\ tail[1] \in OpType /\ Shaped(tail[1]) /\ Awaits(tail[1], caller) /\ open \subseteq Transports /\ 0 \notin Transports
      /\ caller \in [Callers -> CallerType] /\ tail[1].epoch \in Nat /\ past \in PastType
  BY FirstRuns, Present, RemoteAssumption DEF OpType
<1>1. LeasesHeld /\ FailuresKnown /\ NoneLeaked /\ CallsServed /\ ConnectionOpen /\ OpeningUnshared
  BY DEF TransportInv
<1>2. CASE \/ (WriteLands(1) /\ tail[1].then = "done") \/ (EnsureReads(1) /\ store.token = None)
           \/ (FinishConsumes(1) /\ store.pending # tail[1].arg)
  <2>1. tail[1].pc # "connecting" /\ Settles(1, None) /\ UNCHANGED <<gen, up, conn, open, retired, past>>
    BY <1>2 DEF WriteLands, EnsureReads, FinishConsumes, At
  <2> QED BY <2>1, QuietEnd
<1>3. CASE RetireDisposes(1)
  <2> DEFINE live == tail[1].arg.live
             q == tail[1].by
             last == live \in retired /\ Active(live) = {q}
  <2>1. /\ tail[1].pc = "dispose" /\ tail' = RemoveAt(tail, 1) /\ UNCHANGED <<gen, up, past>>
        /\ conn' = (IF conn.peer = live THEN NoConnection ELSE conn)
        /\ open' = (IF conn.peer = live \/ last THEN open \ {live} ELSE open)
        /\ retired' = (IF last THEN retired \ {live} ELSE retired)
        /\ caller' = [caller EXCEPT ![q] = Lent(caller[q])]
    BY <1>3 DEF RetireDisposes, At
  <2>2. q \in Callers /\ caller[q].at = "failing" /\ caller[q].live = live /\ live \in past.broken
    BY <1>0, <1>1, <2>1 DEF Shaped, Awaits, FailuresKnown
  <2>3. /\ Lent(caller[q]) \in CallerType /\ Lent(caller[q]).at = "leased" /\ Lent(caller[q]).lease = caller[q].lease
        /\ Lent(caller[q]).live = None /\ Lent(caller[q]).epoch = caller[q].epoch
    BY <1>0, <2>2, LentTyped
  <2>4. \A p \in Callers : caller'[p] = IF p = q THEN Lent(caller[q]) ELSE caller[p]
    BY <1>0, <2>1, <2>2
  <2>5. NoConnection.peer = None
    BY DEF NoConnection
  <2>6. /\ \A t : t # live => Active(t)' = Active(t)
        /\ \A t : t = live => Active(t)' = Active(t) \ {q}
        /\ q \in Active(live)
    BY <2>2, <2>3, <2>4 DEF Active
  <2> HIDE DEF live, q
  <2>7. OpeningUnshared' /\ FailuresKnown'
    BY <1>1, <2>1, NoneUnderWay
  <2>8. ConnectionOpen'
    BY <1>0, <1>1, <2>1, <2>5 DEF ConnectionOpen
  <2>9. LeasesHeld'
    <3>1. conn'.peer \in {None, conn.peer}
      BY <2>1, <2>5
    <3>2. ASSUME NEW p \in Callers PROVE LeaseHeld(caller'[p], conn'.peer, gen)
      BY <1>1, <2>2, <2>3, <2>4, <3>1 DEF LeasesHeld, LeaseHeld
    <3> QED BY <2>1, <3>2 DEF LeasesHeld
  <2>10. NoneLeaked'
    <3> SUFFICES ASSUME NEW t \in open' PROVE t = conn'.peer \/ (t \in retired' /\ Active(t)' # {})
      BY DEF NoneLeaked
    <3>1. t \in open /\ (t = live => conn.peer # live /\ ~last)
      BY <2>1
    <3>2. t = conn.peer \/ (t \in retired /\ Active(t) # {})
      BY <1>1, <2>1, <3>1 DEF NoneLeaked, Opening
    <3>3. CASE t # live
      BY <2>1, <2>6, <3>2, <3>3
    <3>4. CASE t = live
      <4>1. t \in retired /\ Active(t) # {q} /\ q \in Active(t)
        BY <2>6, <3>1, <3>2, <3>4
      <4>2. Active(t)' # {}
        BY <2>6, <3>4, <4>1
      <4> QED BY <2>1, <3>1, <3>4, <4>1, <4>2
    <3> QED BY <3>3, <3>4
  <2>11. CallsServed'
    <3> SUFFICES ASSUME NEW p \in Callers, caller'[p].at = "calling", up, caller'[p].epoch = gen
                 PROVE  caller'[p].live \in open' \cup past.broken
      BY <2>1 DEF CallsServed, Fenced
    <3>1. p # q /\ caller'[p] = caller[p]
      BY <2>3, <2>4
    <3>2. caller[p].live \in open \cup past.broken
      BY <1>1, <3>1 DEF CallsServed, Fenced
    <3> QED BY <2>1, <2>2, <3>1, <3>2
  <2> QED BY <2>7, <2>8, <2>9, <2>10, <2>11 DEF TransportInv
<1>4. CASE Clears(1)
  <2>1. /\ tail[1].pc # "connecting" /\ tail' = RemoveAt(tail, 1) /\ UNCHANGED <<gen, up, caller, conn, open, retired>>
        /\ past' = [past EXCEPT !.forgotten = tail[1].epoch]
    BY <1>0, <1>4 DEF Clears, Shaped
  <2>2. past'.broken = past.broken
    BY <1>0, <2>1 DEF PastType
  <2>3. OpeningUnshared' /\ FailuresKnown'
    BY <1>1, <2>1, <2>2, NoneUnderWay
  <2>4. ConnectionOpen' /\ LeasesHeld' /\ CallsServed'
    BY <1>1, <2>1, <2>2 DEF ConnectionOpen, LeasesHeld, CallsServed, Fenced
  <2>5. NoneLeaked'
    BY <1>1, <2>1 DEF NoneLeaked, Opening, Active
  <2> QED BY <2>3, <2>4, <2>5 DEF TransportInv
<1> QED BY <1>2, <1>3, <1>4

\* A caller steps outside a call, or from a valid lease into one.
LEMMA CallerHolds ==
    ASSUME ManagerInv, TransportInv, NEW q \in Callers, NEW d \in CallerType, caller' = [caller EXCEPT ![q] = d],
           caller[q].at \notin {"calling", "failing"}, d.at \in {"calling", "failing"} => d.at = "calling" /\ d.live \in open,
           LeaseHeld(d, conn.peer, gen), d.lease \in {None, caller[q].lease}, d.live \in {None, caller[q].live},
           tail' = tail \/ \E x \in OpType : x.kind = "ensure" /\ Begins(x) /\ tail' = Append(tail, x),
           UNCHANGED <<gen, up, conn, open, retired, past>>
    PROVE  TransportInv'
<1>0. /\ open \subseteq Transports /\ 0 \notin Transports /\ caller \in [Callers -> CallerType] /\ tail \in Seq(OpType)
  BY Present, RemoteAssumption
<1>1. LeasesHeld /\ FailuresKnown /\ NoneLeaked /\ CallsServed /\ ConnectionOpen /\ OpeningUnshared
  BY DEF TransportInv
<1>2. \A p \in Callers : caller'[p] = IF p = q THEN d ELSE caller[p]
  BY <1>0
<1>3. \A i \in DOMAIN tail' : \/ i \in DOMAIN tail /\ tail'[i] = tail[i]
                              \/ tail'[i].kind = "ensure" /\ tail'[i].pc = "queued"
  <2>1. ASSUME NEW x \in OpType, x.kind = "ensure", Begins(x), tail' = Append(tail, x)
        PROVE  \A i \in DOMAIN tail' : \/ i \in DOMAIN tail /\ tail'[i] = tail[i]
                                       \/ tail'[i].kind = "ensure" /\ tail'[i].pc = "queued"
    <3>1. /\ Len(tail) \in Nat /\ DOMAIN tail' = 1..(Len(tail) + 1) /\ DOMAIN tail = 1..Len(tail)
          /\ tail'[Len(tail) + 1] = x /\ \A i \in DOMAIN tail : tail'[i] = tail[i]
      BY <1>0, <2>1, OneQueued
    <3>2. x.pc = "queued"
      BY <2>1 DEF Begins
    <3>3. \A i \in DOMAIN tail' : i \in DOMAIN tail \/ i = Len(tail) + 1
      BY <3>1
    <3> QED BY <2>1, <3>1, <3>2, <3>3
  <2> QED BY <2>1
<1>4. 1 \in DOMAIN tail => 1 \in DOMAIN tail' /\ tail'[1] = tail[1]
  BY <1>0, OneQueued
<1>5. ConnectionOpen'
  BY <1>1 DEF ConnectionOpen
<1>6. OpeningUnshared'
  <2> SUFFICES ASSUME 1 \in DOMAIN tail', tail'[1].pc = "connecting"
               PROVE  /\ conn.peer = None /\ tail'[1].peer \in open \ retired
                      /\ \A p \in Callers : caller'[p].lease # tail'[1].peer /\ caller'[p].live # tail'[1].peer
    BY DEF OpeningUnshared
  <2>1. 1 \in DOMAIN tail /\ tail'[1] = tail[1]
    BY <1>3
  <2>2. /\ conn.peer = None /\ tail[1].peer \in open \ retired /\ tail[1].peer # None
        /\ \A p \in Callers : caller[p].lease # tail[1].peer /\ caller[p].live # tail[1].peer
    BY <1>0, <1>1, <2>1 DEF OpeningUnshared
  <2> QED BY <1>2, <2>1, <2>2
<1>7. LeasesHeld'
  BY <1>1, <1>2 DEF LeasesHeld
<1>8. FailuresKnown'
  BY <1>1, <1>3 DEF FailuresKnown
<1>9. NoneLeaked'
  <2>1. \A t : Active(t) \subseteq Active(t)'
    BY <1>2 DEF Active
  <2>2. \A t : Opening(t) => Opening(t)'
    BY <1>4 DEF Opening
  <2> QED BY <1>1, <2>1, <2>2 DEF NoneLeaked
<1>10. CallsServed'
  BY <1>1, <1>2 DEF CallsServed, Fenced
<1> QED BY <1>5, <1>6, <1>7, <1>8, <1>9, <1>10 DEF TransportInv

\* A call starts on the connection, and a lost session is known before its
\* recovery runs.
LEMMA CallersHold ==
    ASSUME ManagerInv, TransportInv, NEW q \in Callers,
           peer(q) \/ request(q) \/ Dispatch(q) \/ CallAnswered(q) \/ SessionFails(q)
    PROVE  TransportInv'
<1>0. /\ open \subseteq Transports /\ 0 \notin Transports /\ caller \in [Callers -> CallerType] /\ tail \in Seq(OpType)
      /\ caller[q] \in CallerType /\ gen \in Nat /\ conn \in ConnType /\ past \in PastType
  BY Present, RemoteAssumption
<1>1. LeasesHeld /\ FailuresKnown /\ NoneLeaked /\ CallsServed /\ ConnectionOpen /\ OpeningUnshared
  BY DEF TransportInv
<1>2. /\ Idle \in CallerType /\ Idle.at = "idle" /\ Idle.lease = None /\ Idle.live = None /\ Idle.epoch = 0
      /\ LeaseHeld(Idle, conn.peer, gen)
  BY <1>0 DEF Idle, CallerType, LeaseHeld
<1>3. LeaseHeld(caller[q], conn.peer, gen)
  BY <1>1 DEF LeasesHeld
<1> DEFINE x == Operation("ensure", q, None)
<1>4. x \in OpType /\ Begins(x) /\ x.kind = "ensure"
  BY <1>0, OperationTyped DEF Kinds
<1> HIDE DEF x
<1>5. CASE peer(q)
  <2> DEFINE d == [Idle EXCEPT !.at = "acquiring", !.epoch = gen]
  <2>1. d \in CallerType /\ d.at = "acquiring" /\ d.lease = None /\ d.live = None /\ d.epoch = gen
    BY <1>0 DEF CallerType, Idle
  <2>2. /\ caller' = [caller EXCEPT ![q] = d] /\ caller[q].at \in {"idle", "leased"} /\ tail' = Append(tail, x)
        /\ UNCHANGED <<gen, up, conn, open, retired, past>>
    BY <1>5 DEF peer, Enqueue, x
  <2> HIDE DEF d
  <2>3. LeaseHeld(d, conn.peer, gen)
    BY <1>0, <2>1 DEF LeaseHeld
  <2> QED BY <1>4, <2>1, <2>2, <2>3, CallerHolds
<1>6. CASE request(q) /\ Valid(q)
  <2> DEFINE d == [caller[q] EXCEPT !.at = "ensuring"]
  <2>1. /\ d \in CallerType /\ d.at = "ensuring" /\ d.lease = caller[q].lease /\ d.live = caller[q].live
        /\ d.epoch = caller[q].epoch
    BY <1>0 DEF CallerType
  <2>2. /\ caller' = [caller EXCEPT ![q] = d] /\ caller[q].at = "leased" /\ tail' = Append(tail, x)
        /\ UNCHANGED <<gen, up, conn, open, retired, past>>
    BY <1>0, <1>6 DEF request, Enqueue, x
  <2> HIDE DEF d
  <2>3. LeaseHeld(d, conn.peer, gen)
    BY <1>3, <2>1, <2>2 DEF LeaseHeld
  <2> QED BY <1>4, <2>1, <2>2, <2>3, CallerHolds
<1>7. CASE request(q) /\ ~Valid(q)
  <2>1. /\ caller' = [caller EXCEPT ![q] = Idle] /\ caller[q].at = "leased"
        /\ UNCHANGED <<gen, up, tail, conn, open, retired, past>>
    BY <1>7 DEF request
  <2> QED BY <1>2, <2>1, CallerHolds
<1>8. CASE Dispatch(q) /\ ~Valid(q)
  <2>1. /\ caller' = [caller EXCEPT ![q] = Idle] /\ caller[q].at = "ready"
        /\ UNCHANGED <<gen, up, tail, conn, open, retired, past>>
    BY <1>8 DEF Dispatch
  <2> QED BY <1>2, <2>1, CallerHolds
<1>9. CASE Dispatch(q) /\ Valid(q)
  <2> DEFINE d == [caller[q] EXCEPT !.at = "calling", !.token = conn.token]
  <2>1. /\ d \in CallerType /\ d.at = "calling" /\ d.lease = caller[q].lease /\ d.live = caller[q].live
        /\ d.epoch = caller[q].epoch
    BY <1>0 DEF CallerType, ConnType
  <2>2. /\ caller' = [caller EXCEPT ![q] = d] /\ caller[q].at = "ready" /\ conn.peer = caller[q].lease
        /\ UNCHANGED <<gen, up, tail, conn, open, retired, past>>
    BY <1>9 DEF Dispatch, Valid
  <2> HIDE DEF d
  <2>3. LeaseHeld(d, conn.peer, gen) /\ caller[q].live = conn.peer /\ conn.peer # None
    BY <1>3, <2>1, <2>2 DEF LeaseHeld
  <2>4. d.live \in open
    BY <1>1, <2>1, <2>3 DEF ConnectionOpen
  <2> QED BY <2>1, <2>2, <2>3, <2>4, CallerHolds
<1>10. CASE CallAnswered(q)
  BY <1>10, CallEndHolds DEF CallAnswered
<1>11. CASE SessionFails(q)
  <2>1. /\ caller[q].at = "calling" /\ past' = [past EXCEPT !.broken = @ \cup {caller[q].live}]
        /\ UNCHANGED <<gen, up, conn>>
    BY <1>11 DEF SessionFails
  <2>2. past'.broken = past.broken \cup {caller[q].live}
    BY <1>0, <2>1 DEF PastType
  <2>3. CASE Fenced(caller[q].epoch)
    <3>1. CallEnds(q) /\ UNCHANGED tail
      BY <1>11, <2>3 DEF SessionFails
    <3> QED BY <2>1, <2>2, <3>1, CallEndHolds
  <2>4. CASE ~Fenced(caller[q].epoch)
    <3>1. PICK unauthorized \in BOOLEAN :
            Enqueue(Operation("retire", q, [live |-> caller[q].live, token |-> caller[q].token, unauthorized |-> unauthorized]))
      BY <1>11, <2>4 DEF SessionFails
    <3>2. caller' = [caller EXCEPT ![q].at = "failing"] /\ UNCHANGED <<open, retired>>
      BY <1>11, <2>4 DEF SessionFails
    <3> DEFINE f == [live |-> caller[q].live, token |-> caller[q].token, unauthorized |-> unauthorized]
               y == Operation("retire", q, f)
               d == [caller[q] EXCEPT !.at = "failing"]
    <3>3. f \in FailureType /\ f.live = caller[q].live
      BY <1>0 DEF FailureType, CallerType
    <3> HIDE DEF f
    <3>4. y \in OpType /\ Shaped(y) /\ Begins(y) /\ y.kind = "retire" /\ y.by = q /\ y.arg = f /\ y.epoch = gen
      <4>1. /\ gen \in Nat /\ f \in FailureType /\ f \in Nat \cup FailureType
            /\ q \in Callers \cup Users \cup {"manager"} /\ "retire" \in Kinds
        BY <1>0, <3>3 DEF Kinds
      <4> QED BY <4>1, OperationTyped
    <3>5. tail' = Append(tail, y)
      BY <3>1 DEF Enqueue, f
    <3> HIDE DEF y
    <3>6. /\ Len(tail) \in Nat /\ DOMAIN tail' = 1..(Len(tail) + 1) /\ DOMAIN tail = 1..Len(tail)
          /\ tail'[Len(tail) + 1] = y /\ \A i \in DOMAIN tail : tail'[i] = tail[i]
      BY <1>0, <3>4, <3>5, OneQueued
    <3>7. /\ d.at = "failing" /\ d.lease = caller[q].lease /\ d.live = caller[q].live /\ d.epoch = caller[q].epoch
          /\ \A p \in Callers : caller'[p] = IF p = q THEN d ELSE caller[p]
      BY <1>0, <3>2 DEF CallerType
    <3> HIDE DEF d
    <3>8. \A t : Active(t)' = Active(t)
      BY <2>1, <3>7 DEF Active
    <3>9. \A i \in DOMAIN tail' : i \in DOMAIN tail \/ i = Len(tail) + 1
      BY <3>6
    <3>10. 1 \in DOMAIN tail' => (1 \in DOMAIN tail /\ tail'[1] = tail[1]) \/ tail'[1].pc = "queued"
      BY <3>4, <3>6, <3>9 DEF Begins
    <3>11. ConnectionOpen'
      BY <1>1, <2>1, <3>2 DEF ConnectionOpen
    <3>12. OpeningUnshared'
      BY <1>1, <2>1, <3>2, <3>7, <3>10 DEF OpeningUnshared
    <3>13. LeasesHeld'
      BY <1>1, <2>1, <3>7 DEF LeasesHeld, LeaseHeld
    <3>14. FailuresKnown'
      BY <1>1, <2>2, <3>3, <3>4, <3>6, <3>9 DEF FailuresKnown
    <3>15. NoneLeaked'
      <4>1. 1 \in DOMAIN tail => 1 \in DOMAIN tail' /\ tail'[1] = tail[1]
        BY <3>6
      <4> QED BY <1>1, <2>1, <3>2, <3>8, <4>1 DEF NoneLeaked, Opening
    <3>16. CallsServed'
      BY <1>1, <2>1, <2>2, <3>2, <3>7 DEF CallsServed, Fenced
    <3> QED BY <3>11, <3>12, <3>13, <3>14, <3>15, <3>16 DEF TransportInv
  <2> QED BY <2>3, <2>4
<1> QED BY <1>5, <1>6, <1>7, <1>8, <1>9, <1>10, <1>11

\* A disconnect gives up every transport but the one being opened, which its
\* operation then closes.
LEMMA ManagementHolds ==
    ASSUME ManagerInv, TransportInv, (\E u \in Users : beginAuth(u) \/ finishAuth(u)) \/ disconnect \/ close \/ Restart
    PROVE  TransportInv'
<1>0. /\ open \subseteq Transports /\ 0 \notin Transports /\ caller \in [Callers -> CallerType] /\ tail \in Seq(OpType)
      /\ gen \in Nat /\ past.begun \in Seq(Nat)
  BY Present, RemoteAssumption DEF PastType
<1>1. LeasesHeld /\ FailuresKnown /\ NoneLeaked /\ CallsServed /\ ConnectionOpen /\ OpeningUnshared
  BY DEF TransportInv
<1>2. ASSUME NEW x \in OpType, x.kind # "retire", x.pc = "queued", tail' = Append(tail, x), past'.broken = past.broken
      PROVE  /\ FailuresKnown' /\ (1 \in DOMAIN tail => 1 \in DOMAIN tail' /\ tail'[1] = tail[1])
             /\ 1 \in DOMAIN tail' => (1 \in DOMAIN tail /\ tail'[1] = tail[1]) \/ tail'[1].pc = "queued"
  <2>1. /\ Len(tail) \in Nat /\ DOMAIN tail' = 1..(Len(tail) + 1) /\ DOMAIN tail = 1..Len(tail)
        /\ tail'[Len(tail) + 1] = x /\ \A i \in DOMAIN tail : tail'[i] = tail[i]
    BY <1>0, <1>2, OneQueued
  <2>2. \A i \in DOMAIN tail' : i \in DOMAIN tail \/ i = Len(tail) + 1
    BY <2>1
  <2>3. FailuresKnown'
    BY <1>1, <1>2, <2>1, <2>2 DEF FailuresKnown
  <2> QED BY <1>2, <2>1, <2>2, <2>3
<1>3. CASE \E u \in Users : beginAuth(u) \/ finishAuth(u)
  <2>1. PICK u \in Users : beginAuth(u) \/ finishAuth(u)
    BY <1>3
  <2>2. PICK x \in OpType : x.kind # "retire" /\ x.pc = "queued" /\ tail' = Append(tail, x)
    <3>1. CASE beginAuth(u)
      <4> DEFINE x == Operation("begin", u, None)
      <4>1. x \in OpType /\ x.kind = "begin" /\ Begins(x)
        BY <1>0, OperationTyped DEF Kinds
      <4>2. tail' = Append(tail, x)
        BY <3>1 DEF beginAuth, Enqueue
      <4> HIDE DEF x
      <4> QED BY <4>1, <4>2 DEF Begins
    <3>2. CASE finishAuth(u)
      <4>1. PICK s \in DOMAIN past.begun : Enqueue(Operation("finish", u, s))
        BY <3>2 DEF finishAuth
      <4>2. s \in Nat \ {0}
        BY <1>0, LenProperties
      <4> DEFINE x == Operation("finish", u, s)
      <4>3. x \in OpType /\ x.kind = "finish" /\ Begins(x)
        BY <1>0, <4>2, OperationTyped DEF Kinds
      <4>4. tail' = Append(tail, x)
        BY <4>1 DEF Enqueue
      <4> HIDE DEF x
      <4> QED BY <4>3, <4>4 DEF Begins
    <3> QED BY <2>1, <3>1, <3>2
  <2>3. UNCHANGED <<gen, up, caller, conn, open, retired, past>>
    BY <2>1 DEF beginAuth, finishAuth
  <2>4. /\ FailuresKnown' /\ (1 \in DOMAIN tail => 1 \in DOMAIN tail' /\ tail'[1] = tail[1])
        /\ 1 \in DOMAIN tail' => (1 \in DOMAIN tail /\ tail'[1] = tail[1]) \/ tail'[1].pc = "queued"
    BY <1>2, <2>2, <2>3
  <2>5. ConnectionOpen' /\ OpeningUnshared' /\ LeasesHeld' /\ CallsServed'
    BY <1>1, <2>3, <2>4 DEF ConnectionOpen, OpeningUnshared, LeasesHeld, CallsServed, Fenced
  <2>6. NoneLeaked'
    BY <1>1, <2>3, <2>4 DEF NoneLeaked, Opening, Active
  <2> QED BY <2>4, <2>5, <2>6 DEF TransportInv
<1>4. CASE disconnect \/ close
  <2>1. /\ conn'.peer = None /\ open' = open \ ({conn.peer} \cup retired) /\ retired' = {}
        /\ UNCHANGED <<caller, past>>
    BY <1>4 DEF disconnect, close, Disposed, NoConnection
  <2>2. gen' \in Nat /\ gen <= gen'
    BY <1>0, <1>4 DEF disconnect, close
  <2>3. /\ FailuresKnown' /\ (1 \in DOMAIN tail => 1 \in DOMAIN tail' /\ tail'[1] = tail[1])
        /\ 1 \in DOMAIN tail' => (1 \in DOMAIN tail /\ tail'[1] = tail[1]) \/ tail'[1].pc = "queued"
    <3>1. CASE disconnect
      <4> DEFINE o == Operation("clear", "manager", None)
                 x == [o EXCEPT !.epoch = gen + 1]
      <4>1. tail' = Append(tail, x)
        BY <3>1 DEF disconnect, ClearedLast
      <4>2. o \in OpType /\ o.kind = "clear" /\ Shaped(o) /\ Begins(o)
        <5>1. gen \in Nat
          BY <1>0
        <5> QED BY <5>1, OperationTyped DEF Kinds
      <4> HIDE DEF o
      <4>3. /\ x \in OpType /\ x.kind = o.kind /\ x.arg = o.arg /\ x.epoch = gen + 1 /\ x.pc = o.pc
        <5>1. gen \in Nat
          BY <1>0
        <5> QED BY <4>2, <5>1 DEF OpType
      <4> HIDE DEF x
      <4> QED BY <1>2, <2>1, <4>1, <4>2, <4>3 DEF Begins
    <3>2. CASE close
      BY <1>1, <2>1, <3>2 DEF close, FailuresKnown
    <3> QED BY <1>4, <3>1, <3>2
  <2>4. ConnectionOpen'
    BY <2>1 DEF ConnectionOpen
  <2>5. OpeningUnshared'
    <3> SUFFICES ASSUME 1 \in DOMAIN tail', tail'[1].pc = "connecting"
                 PROVE  /\ tail'[1].peer \in open' \ retired'
                        /\ \A p \in Callers : caller[p].lease # tail'[1].peer /\ caller[p].live # tail'[1].peer
      BY <2>1 DEF OpeningUnshared
    <3>1. 1 \in DOMAIN tail /\ tail'[1] = tail[1]
      BY <2>3
    <3>2. /\ conn.peer = None /\ tail[1].peer \in open \ retired
          /\ \A p \in Callers : caller[p].lease # tail[1].peer /\ caller[p].live # tail[1].peer
      BY <1>1, <3>1 DEF OpeningUnshared
    <3> QED BY <1>0, <2>1, <3>1, <3>2
  <2>6. LeasesHeld'
    <3>1. \A q \in Callers : caller[q].epoch \in Nat
      BY <1>0 DEF CallerType
    <3> QED BY <1>0, <1>1, <2>1, <2>2, <3>1 DEF LeasesHeld, LeaseHeld
  <2>7. NoneLeaked'
    BY <1>1, <2>1, <2>3 DEF NoneLeaked, Opening
  <2>8. \A q \in Callers : Fenced(caller[q].epoch)'
    <3>1. \A q \in Callers : caller[q].epoch \in Nat /\ caller[q].epoch <= gen
      BY <1>0, <1>1 DEF CallerType, LeasesHeld, LeaseHeld
    <3> QED BY <1>0, <1>4, <2>1, <3>1 DEF disconnect, close, Fenced
  <2>9. CallsServed'
    BY <2>8 DEF CallsServed
  <2> QED BY <2>3, <2>4, <2>5, <2>6, <2>7, <2>9 DEF TransportInv
<1>5. CASE Restart
  <2>1. /\ gen' = gen + 1 /\ DOMAIN tail' = {} /\ caller' = [q \in Callers |-> Idle] /\ conn'.peer = None
        /\ open' = {} /\ retired' = {}
    BY <1>5 DEF Restart, NoConnection
  <2>2. Idle.at = "idle" /\ Idle.epoch = 0
    BY DEF Idle
  <2>3. ConnectionOpen' /\ OpeningUnshared' /\ FailuresKnown' /\ NoneLeaked'
    BY <2>1 DEF ConnectionOpen, OpeningUnshared, FailuresKnown, NoneLeaked
  <2>4. LeasesHeld' /\ CallsServed'
    BY <1>0, <2>1, <2>2 DEF LeasesHeld, LeaseHeld, CallsServed
  <2> QED BY <2>3, <2>4 DEF TransportInv
<1> QED BY <1>3, <1>4, <1>5

\* Every step keeps it.
LEMMA TransportKeeps == ManagerInv /\ TransportInv /\ [Next]_vars => TransportInv'
<1> SUFFICES ASSUME ManagerInv, TransportInv, [Next]_vars PROVE TransportInv'
  OBVIOUS
<1>1. ASSUME NEW i \in DOMAIN tail, Steps(i) PROVE TransportInv'
  <2>1. i = 1 /\ 1 \in DOMAIN tail
    BY <1>1 DEF Steps, OperationFenced, OperationFails, PersistStarts, WriteLands, EnsureReads, RefreshSent, TokensIssued,
                RefreshDenied, Reuses, Connects, ConnectAnswers, ConnectRejected, BeginDiscovers, FinishConsumes,
                ExchangeSent, RetireReads, RetireDisposes, Clears, At, Runs
  <2>2. CASE OperationFenced(1) \/ OperationFails(1)
    BY <2>1, <2>2, RejectsHolds DEF OperationFenced, OperationFails
  <2>3. CASE Reuses(1) \/ Connects(1) \/ ConnectAnswers(1) \/ ConnectRejected(1)
    BY <2>1, <2>3, ConnectionHolds
  <2>4. CASE \/ PersistStarts(1) \/ RefreshSent(1) \/ TokensIssued(1) \/ RefreshDenied(1) \/ BeginDiscovers(1)
             \/ ExchangeSent(1) \/ RetireReads(1)
    BY <2>1, <2>4, QuietSteps
  <2>5. CASE WriteLands(1) \/ EnsureReads(1) \/ FinishConsumes(1)
    BY <2>1, <2>5, QuietSteps, EndsHold
  <2>6. CASE RetireDisposes(1) \/ Clears(1)
    BY <2>1, <2>6, EndsHold
  <2> QED BY <1>1, <2>1, <2>2, <2>3, <2>4, <2>5, <2>6 DEF Steps
<1>2. CASE UNCHANGED vars
  <2>1. UNCHANGED <<gen, up, tail, caller, conn, open, retired, past>>
    BY <1>2 DEF vars, memory
  <2> QED BY <2>1 DEF TransportInv, ConnectionOpen, OpeningUnshared, LeasesHeld, FailuresKnown, NoneLeaked,
                      CallsServed, Opening, Active, Fenced
<1> QED BY <1>1, <1>2, CallersHold, ManagementHolds DEF Next

\* A new manager has no transport.
LEMMA TransportStarts == Init => TransportInv
<1> SUFFICES ASSUME Init PROVE TransportInv
  OBVIOUS
<1>1. /\ DOMAIN tail = {} /\ gen = 1 /\ open = {} /\ retired = {} /\ conn.peer = None
      /\ \A q \in Callers : caller[q].at = "idle" /\ caller[q].epoch = 0
  BY DEF Init, NoConnection, Idle
<1> QED BY <1>1 DEF TransportInv, ConnectionOpen, OpeningUnshared, LeasesHeld, LeaseHeld, FailuresKnown, NoneLeaked, CallsServed

\* No transport leaks, and none is closed under a call by the renewal of a
\* token (remote.ts: active, retired and disposeConnection).
THEOREM RemoteTransportsOwned == Spec => []TransportsOwned
<1>1. TransportInv => TransportsOwned
  BY DEF TransportInv, NoneLeaked, CallsServed, Opening, TransportsOwned
<1>2. Spec => []TransportInv
  BY ManagerStarts, ManagerKeeps, TransportStarts, TransportKeeps, PTL DEF Spec
<1> QED BY <1>1, <1>2, PTL
=============================================================================
