------------------------------ MODULE McpRemote ------------------------------
(***************************************************************************)
(* figma and sentry: the manager of the official MCP connection             *)
(* (mcp/remote.ts, the same in both plugins).  It keeps one authorization   *)
(* in a store, one transport to the server, and lends the transport to      *)
(* callers.  Sign-in, renewal of tokens, recovery after a failed call and   *)
(* disconnect are operations that run one after the other (`tail`) and are  *)
(* cut by awaits; disconnect and close fence everything older by a new      *)
(* generation.                                                              *)
(*                                                                         *)
(* An operation is a record of the queue with its own copy of the bundle.   *)
(* That a token expires is a choice of the step that reads it.  Client      *)
(* registration, settings, status texts and catalog listeners are left out. *)
(***************************************************************************)
EXTENDS Integers, Sequences, FiniteSets, SequencesExt

CONSTANTS
    Callers,        \* borrowers of the connection
    Users,          \* sign-in pages open at once
    Transports,     \* identities for transports, numbers above 0
    MaxTokens,      \* bound: tokens the server issues
    MaxSignIns,     \* bound: sign-ins begun
    MaxGenerations  \* bound: disconnects, and starts of the process

ASSUME RemoteAssumption == Transports \subseteq Nat \ {0} /\ Callers \cap Users = {}

VARIABLES
    store,      \* the durable bundle: tokens, their expiry, the pending sign-in
    gen, up,    \* generation; not closed
    tail,       \* the operations of serialize(), the first one under way
    caller,     \* peer() and request() of each borrower
    conn,       \* connection and connectionToken
    open,       \* transports that are not closed
    retired,    \* transports kept for the calls still on them
    rejected,   \* rejectedTokens
    past        \* history: generation of each token and sign-in, exchanges of each
                \* sign-in, the last disconnect done, transports whose session failed

memory == <<tail, caller, conn, open, retired, rejected>>
vars == <<store, gen, up, memory, past>>

None == 0
NoBundle == [token |-> None, expired |-> FALSE, pending |-> None]
NoConnection == [peer |-> None, token |-> None]
Idle == [at |-> "idle", lease |-> None, live |-> None, epoch |-> 0, token |-> None]

\* what a borrower keeps when its request is over
Lent(c) == [Idle EXCEPT !.at = "leased", !.lease = c.lease, !.epoch = c.epoch]

\* active: the calls whose finally has not run
Active(t) == {q \in Callers : caller[q].at \in {"calling", "failing"} /\ caller[q].live = t}

-----------------------------------------------------------------------------
(* The queue                                                                *)

Operation(kind, by, arg) ==
    [kind |-> kind, by |-> by, arg |-> arg, epoch |-> gen, pc |-> "queued",
     bundle |-> NoBundle, peer |-> None, then |-> "none"]

Enqueue(op) == tail' = Append(tail, op)

\* Mutant: an operation does not wait for the one before it.
RunsAtOnce(i) == TRUE

\* serialize: behind the operations that came before
Runs(i) == i = 1

\* check(epoch)
Fenced(epoch) == ~up \/ epoch # gen

At(i, pc) == Runs(i) /\ tail[i].pc = pc /\ ~Fenced(tail[i].epoch)
Goes(i, op) == tail' = [tail EXCEPT ![i] = op]

\* The last request on a retired transport closes it.
CallEnds(q) ==
    /\ caller' = [caller EXCEPT ![q] = Lent(@)]
    /\ LET last == caller[q].live \in retired /\ Active(caller[q].live) = {q}
       IN /\ open' = IF last THEN open \ {caller[q].live} ELSE open
          /\ retired' = IF last THEN retired \ {caller[q].live} ELSE retired

\* The operation is over, and its caller goes on with the peer it got or an error.
Settles(i, peer) ==
    /\ tail' = RemoveAt(tail, i)
    /\ LET op == tail[i] IN
       caller' = IF op.kind # "ensure" THEN caller
                 ELSE [caller EXCEPT ![op.by] =
                         CASE @.at = "acquiring" /\ peer = None -> Idle
                           [] @.at = "acquiring" /\ peer # None -> Lent([@ EXCEPT !.lease = peer])
                           [] @.at = "ensuring" /\ peer = None -> Lent(@)
                           [] @.at = "ensuring" /\ peer # None -> [@ EXCEPT !.at = "ready", !.live = peer]]

\* A failed operation closes the transport it was opening; the call that waits
\* for a "retire" runs its finally.
Rejects(i) ==
    IF tail[i].kind = "retire"
    THEN tail' = RemoveAt(tail, i) /\ CallEnds(tail[i].by)
    ELSE /\ Settles(i, None)
         /\ open' = open \ {tail[i].peer}
         /\ UNCHANGED retired

-----------------------------------------------------------------------------
(* Steps of an operation                                                    *)

\* The generation has changed: the next check throws, fetches are aborted, and
\* only a write that was begun goes on.
OperationFenced(i) ==
    /\ Runs(i) /\ tail[i].kind # "clear" /\ tail[i].pc # "writing" /\ Fenced(tail[i].epoch)
    /\ Rejects(i)
    /\ UNCHANGED <<store, gen, up, conn, rejected, past>>

\* Storage, settings or server fail.
OperationFails(i) ==
    /\ Runs(i) /\ tail[i].pc \notin {"connect", "dispose"}
    /\ tail[i].kind # "clear" /\ tail[i].pc # "writing" => ~Fenced(tail[i].epoch)
    /\ Rejects(i)
    /\ UNCHANGED <<store, gen, up, conn, rejected, past>>

PersistStarts(i) ==
    /\ At(i, "save")
    /\ Goes(i, [tail[i] EXCEPT !.pc = "writing"])
    /\ UNCHANGED <<store, gen, up, caller, conn, open, retired, rejected, past>>

\* options.store.write: what was begun takes effect, whatever happened since.
WriteLands(i) ==
    /\ Runs(i) /\ tail[i].pc = "writing"
    /\ store' = tail[i].bundle
    /\ IF tail[i].then = "done" THEN Settles(i, None)
       ELSE Goes(i, [tail[i] EXCEPT !.pc = tail[i].then]) /\ UNCHANGED caller
    /\ UNCHANGED <<gen, up, conn, open, retired, rejected, past>>

\* ensure: the saved authorization is read; a token near its expiry is renewed.
EnsureReads(i) ==
    /\ At(i, "ensure") \/ (At(i, "queued") /\ tail[i].kind = "ensure")
    /\ IF store.token = None THEN Settles(i, None)
       ELSE /\ \E stale \in BOOLEAN :
                 /\ store.expired \/ store.token \in rejected => stale
                 /\ Goes(i, [tail[i] EXCEPT !.bundle = store, !.pc = IF stale THEN "refresh" ELSE "connect"])
            /\ UNCHANGED caller
    /\ UNCHANGED <<store, gen, up, conn, open, retired, rejected, past>>

RefreshSent(i) ==
    /\ At(i, "refresh")
    /\ Goes(i, [tail[i] EXCEPT !.pc = "refreshing"])
    /\ UNCHANGED <<store, gen, up, caller, conn, open, retired, rejected, past>>

\* New tokens, from a refresh or from the code of a sign-in, are saved.
TokensIssued(i) ==
    /\ At(i, "refreshing") \/ At(i, "exchanging")
    /\ Len(past.issued) < MaxTokens
    /\ past' = [past EXCEPT !.issued = Append(@, tail[i].epoch)]
    /\ Goes(i, [tail[i] EXCEPT !.bundle.token = Len(past.issued) + 1, !.bundle.expired = FALSE,
                   !.pc = "save", !.then = IF tail[i].pc = "refreshing" THEN "connect" ELSE "ensure"])
    /\ UNCHANGED <<store, gen, up, caller, conn, open, retired, rejected>>

\* invalid_grant: the dead grant is removed, a pending sign-in is kept.
RefreshDenied(i) ==
    /\ At(i, "refreshing")
    /\ Goes(i, [tail[i] EXCEPT !.bundle.token = None, !.bundle.expired = FALSE, !.pc = "save", !.then = "done"])
    /\ UNCHANGED <<store, gen, up, caller, conn, open, retired, rejected, past>>

Reuses(i) ==
    /\ At(i, "connect") /\ conn.peer # None /\ conn.token = tail[i].bundle.token
    /\ Settles(i, conn.peer)
    /\ UNCHANGED <<store, gen, up, conn, open, retired, rejected, past>>

\* Mutant: renewal closes the old transport under the calls on it.
KeptAtOnce(peer) == FALSE

\* disposeConnection(drain): the calls on the old transport keep it
Kept(peer) == Active(peer) # {}

Unused == Transports \ (open \cup {caller[q].lease : q \in Callers} \cup {caller[q].live : q \in Callers}
                          \cup {tail[i].arg.live : i \in {j \in DOMAIN tail : tail[j].kind = "retire"}})

Connects(i) ==
    /\ At(i, "connect") /\ (conn.peer = None \/ conn.token # tail[i].bundle.token)
    /\ \E new \in Unused :
       LET kept == conn.peer # None /\ Kept(conn.peer)
       IN /\ \A u \in Unused : new <= u
          /\ open' = (IF kept THEN open ELSE open \ {conn.peer}) \cup {new}
          /\ retired' = IF kept THEN retired \cup {conn.peer} ELSE retired
          /\ Goes(i, [tail[i] EXCEPT !.pc = "connecting", !.peer = new])
          /\ past' = [past EXCEPT !.broken = @ \ {new}]
    /\ conn' = NoConnection
    /\ UNCHANGED <<store, gen, up, caller, rejected>>

ConnectAnswers(i) ==
    /\ At(i, "connecting")
    /\ conn' = [peer |-> tail[i].peer, token |-> tail[i].bundle.token]
    /\ Settles(i, tail[i].peer)
    /\ UNCHANGED <<store, gen, up, open, retired, rejected, past>>

\* 401: the token is not tried again, also after a restart.
ConnectRejected(i) ==
    /\ At(i, "connecting")
    /\ open' = open \ {tail[i].peer}
    /\ rejected' = rejected \cup {tail[i].bundle.token}
    /\ Goes(i, [tail[i] EXCEPT !.bundle.expired = TRUE, !.pc = "save", !.then = "done", !.peer = None])
    /\ UNCHANGED <<store, gen, up, caller, conn, retired, past>>

-----------------------------------------------------------------------------
(* Sign-in                                                                  *)

BeginDiscovers(i) ==
    /\ At(i, "queued") /\ tail[i].kind = "begin"
    /\ past' = [past EXCEPT !.begun = Append(@, tail[i].epoch), !.exchanges = Append(@, 0)]
    /\ Goes(i, [tail[i] EXCEPT !.bundle = [store EXCEPT !.pending = Len(past.begun) + 1], !.pc = "save", !.then = "done"])
    /\ UNCHANGED <<store, gen, up, caller, conn, open, retired, rejected>>

\* Mutant: the pending sign-in is removed with the first use of its tokens.
ConsumedLater(bundle) == bundle

\* the pending sign-in is consumed durably before its code is exchanged
Consumed(bundle) == [bundle EXCEPT !.pending = None]

FinishConsumes(i) ==
    /\ At(i, "queued") /\ tail[i].kind = "finish"
    /\ IF store.pending # tail[i].arg THEN Settles(i, None)
       ELSE /\ Goes(i, [tail[i] EXCEPT !.bundle = Consumed(store), !.pc = "save", !.then = "exchange"])
            /\ UNCHANGED caller
    /\ UNCHANGED <<store, gen, up, conn, open, retired, rejected, past>>

ExchangeSent(i) ==
    /\ At(i, "exchange")
    /\ past' = [past EXCEPT !.exchanges[tail[i].arg] = @ + 1]
    /\ Goes(i, [tail[i] EXCEPT !.pc = "exchanging"])
    /\ UNCHANGED <<store, gen, up, caller, conn, open, retired, rejected>>

-----------------------------------------------------------------------------
(* Recovery after a failed call, and the clearing of a disconnect           *)

\* A token the server refused is marked in the store, unless it was replaced.
RetireReads(i) ==
    /\ At(i, "queued") /\ tail[i].kind = "retire"
    /\ Goes(i, IF tail[i].arg.unauthorized /\ store.token = tail[i].arg.token
               THEN [tail[i] EXCEPT !.bundle = [store EXCEPT !.expired = TRUE], !.pc = "save", !.then = "dispose"]
               ELSE [tail[i] EXCEPT !.pc = "dispose"])
    /\ UNCHANGED <<store, gen, up, caller, conn, open, retired, rejected, past>>

RetireDisposes(i) ==
    /\ At(i, "dispose")
    /\ LET live == tail[i].arg.live
           q == tail[i].by
           last == live \in retired /\ Active(live) = {q}
       IN /\ conn' = IF conn.peer = live THEN NoConnection ELSE conn
          /\ open' = IF conn.peer = live \/ last THEN open \ {live} ELSE open
          /\ retired' = IF last THEN retired \ {live} ELSE retired
          /\ caller' = [caller EXCEPT ![q] = Lent(@)]
    /\ tail' = RemoveAt(tail, i)
    /\ UNCHANGED <<store, gen, up, rejected, past>>

Clears(i) ==
    /\ Runs(i) /\ tail[i].kind = "clear"
    /\ store' = NoBundle
    /\ past' = [past EXCEPT !.forgotten = tail[i].epoch]
    /\ tail' = RemoveAt(tail, i)
    /\ UNCHANGED <<gen, up, caller, conn, open, retired, rejected>>

-----------------------------------------------------------------------------
(* Callers                                                                  *)

peer(q) ==
    /\ caller[q].at \in {"idle", "leased"} /\ up
    /\ caller' = [caller EXCEPT ![q] = [Idle EXCEPT !.at = "acquiring", !.epoch = gen]]
    /\ Enqueue(Operation("ensure", q, None))
    /\ UNCHANGED <<store, gen, up, conn, open, retired, rejected, past>>

\* checkLease
Valid(q) == ~Fenced(caller[q].epoch) /\ conn.peer = caller[q].lease

request(q) ==
    /\ caller[q].at = "leased"
    /\ IF Valid(q)
       THEN caller' = [caller EXCEPT ![q].at = "ensuring"] /\ Enqueue(Operation("ensure", q, None))
       ELSE caller' = [caller EXCEPT ![q] = Idle] /\ UNCHANGED tail
    /\ UNCHANGED <<store, gen, up, conn, open, retired, rejected, past>>

Dispatch(q) ==
    /\ caller[q].at = "ready"
    /\ caller' = [caller EXCEPT ![q] = IF Valid(q) THEN [@ EXCEPT !.at = "calling", !.token = conn.token] ELSE Idle]
    /\ UNCHANGED <<store, gen, up, tail, conn, open, retired, rejected, past>>

\* A result, or an error that says nothing about the session.
CallAnswered(q) ==
    /\ caller[q].at = "calling" /\ caller[q].live \in open
    /\ CallEnds(q)
    /\ UNCHANGED <<store, gen, up, tail, conn, rejected, past>>

\* 401, 404 or a closed connection: recovery is queued and awaited; the call
\* itself is not sent again.
SessionFails(q) ==
    /\ caller[q].at = "calling"
    /\ \E unauthorized \in BOOLEAN :
        /\ unauthorized => caller[q].live \in open
        /\ IF Fenced(caller[q].epoch)
           THEN CallEnds(q) /\ UNCHANGED <<tail, rejected>>
           ELSE /\ rejected' = IF unauthorized THEN rejected \cup {caller[q].token} ELSE rejected
                /\ caller' = [caller EXCEPT ![q].at = "failing"]
                /\ Enqueue(Operation("retire", q, [live |-> caller[q].live, token |-> caller[q].token, unauthorized |-> unauthorized]))
                /\ UNCHANGED <<open, retired>>
        /\ past' = [past EXCEPT !.broken = @ \cup {caller[q].live}]
    /\ UNCHANGED <<store, gen, up, conn>>

Waiting(u) == \E i \in DOMAIN tail : tail[i].by = u

beginAuth(u) ==
    /\ up /\ ~Waiting(u)
    /\ Len(past.begun) + Cardinality({i \in DOMAIN tail : tail[i].kind = "begin"}) < MaxSignIns
    /\ Enqueue(Operation("begin", u, None))
    /\ UNCHANGED <<store, gen, up, caller, conn, open, retired, rejected, past>>

\* The browser's callback, or the same address pasted again.
finishAuth(u) ==
    /\ up /\ ~Waiting(u)
    /\ \E s \in DOMAIN past.begun : Enqueue(Operation("finish", u, s))
    /\ UNCHANGED <<store, gen, up, caller, conn, open, retired, rejected, past>>

-----------------------------------------------------------------------------
(* Generations                                                              *)

Disposed ==
    /\ conn' = NoConnection
    /\ open' = open \ ({conn.peer} \cup retired)
    /\ retired' = {}

\* Mutant: the store is cleared ahead of the operations already queued.
ClearedFirst(op) == <<op>> \o tail

\* the clearing follows all older writes
ClearedLast(op) == Append(tail, op)

disconnect ==
    /\ up /\ gen < MaxGenerations
    /\ gen' = gen + 1
    /\ Disposed
    /\ tail' = ClearedLast([Operation("clear", "manager", None) EXCEPT !.epoch = gen + 1])
    /\ UNCHANGED <<store, up, caller, rejected, past>>

close ==
    /\ up /\ up' = FALSE
    /\ Disposed
    /\ UNCHANGED <<store, gen, tail, caller, rejected, past>>

\* The process ends, after close() or at any time, and a new manager starts.
Restart ==
    /\ gen < MaxGenerations
    /\ gen' = gen + 1 /\ up' = TRUE
    /\ tail' = <<>> /\ caller' = [q \in Callers |-> Idle]
    /\ conn' = NoConnection /\ open' = {} /\ retired' = {} /\ rejected' = {}
    /\ UNCHANGED <<store, past>>

Init ==
    /\ store = NoBundle /\ gen = 1 /\ up = TRUE
    /\ tail = <<>> /\ caller = [q \in Callers |-> Idle]
    /\ conn = NoConnection /\ open = {} /\ retired = {} /\ rejected = {}
    /\ past = [issued |-> <<>>, begun |-> <<>>, exchanges |-> <<>>, forgotten |-> 0, broken |-> {}]

Steps(i) ==
    \/ OperationFenced(i) \/ OperationFails(i) \/ PersistStarts(i) \/ WriteLands(i)
    \/ EnsureReads(i) \/ RefreshSent(i) \/ TokensIssued(i) \/ RefreshDenied(i)
    \/ Reuses(i) \/ Connects(i) \/ ConnectAnswers(i) \/ ConnectRejected(i)
    \/ BeginDiscovers(i) \/ FinishConsumes(i) \/ ExchangeSent(i)
    \/ RetireReads(i) \/ RetireDisposes(i) \/ Clears(i)

Next ==
    \/ \E i \in DOMAIN tail : Steps(i)
    \/ \E q \in Callers : peer(q) \/ request(q) \/ Dispatch(q) \/ CallAnswered(q) \/ SessionFails(q)
    \/ \E u \in Users : beginAuth(u) \/ finishAuth(u)
    \/ disconnect \/ close \/ Restart

Spec == Init /\ [][Next]_vars

-----------------------------------------------------------------------------
(* Properties                                                               *)

\* Once a disconnect has cleared the store, nothing granted or begun before it
\* is there again, whichever sign-in, renewal or write was under way.
DisconnectForgets ==
    /\ store.token # None => past.issued[store.token] >= past.forgotten
    /\ store.pending # None => past.begun[store.pending] >= past.forgotten

\* A refresh presents the grant the store holds: callers that find the token
\* expired at the same time do not use one grant twice, which would revoke it.
GrantIsCurrent == \A i \in DOMAIN tail : tail[i].pc = "refreshing" => tail[i].bundle.token = store.token

\* The code of a sign-in is exchanged at most once, although its callback may
\* arrive twice or again after a crash.
CallbackUsedOnce == \A s \in DOMAIN past.exchanges : past.exchanges[s] <= 1

\* Every open transport is the connection, is being connected, or is retired
\* with a call on it; and a call loses its transport only by a disconnect or
\* because the session failed, never by the renewal of a token.
TransportsOwned ==
    /\ \A t \in open : \/ t = conn.peer
                       \/ t \in retired /\ Active(t) # {}
                       \/ \E i \in DOMAIN tail : tail[i].pc = "connecting" /\ tail[i].peer = t
    /\ \A q \in Callers : caller[q].at = "calling" /\ ~Fenced(caller[q].epoch) =>
                              caller[q].live \in open \cup past.broken
=============================================================================
