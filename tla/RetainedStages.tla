---------------------------- MODULE RetainedStages ----------------------------
(***************************************************************************)
(* analytics: the retained stages of store.ts.  Per thread a stage collects *)
(* pages of facts; a candidate epoch binds stages as members, freezes the   *)
(* membership, pins every member to what its stage holds and seals the      *)
(* result.  Freezing and sealing go on in chunks over many transactions,    *)
(* and a digest rolls along.  An accounting row counts the rows of all      *)
(* tables: triggers keep it while it is ready, a chunked scan rebuilds it   *)
(* for a database that was filled before, and no row changes meanwhile.     *)
(*                                                                         *)
(* Every operation is one transaction.  Its caller may have read the store  *)
(* long before, and repeats a request whose answer it lost: `held` is such  *)
(* a request, and the other callers act on what they have just read.  A     *)
(* digest is modelled as the sequence it is computed from.                  *)
(***************************************************************************)
EXTENDS Integers, Sequences, FiniteSets, SequencesExt

CONSTANTS
    Threads,        \* threads, as numbers: keyset scans go in their order
    Bodies,         \* per page, what it may hold when it is read: [facts, exhausted]
    MaxPages,       \* budget.maxPages
    ScanLimit,      \* RETAINED_ACCOUNTING_SCAN_ROW_LIMIT, MANAGED_CANDIDATE_SEAL_ROW_LIMIT
    Facts,          \* source event ids, as numbers
    Span            \* keys set aside for the pages or the facts of a thread

ASSUME StagesAssumption ==
    /\ Threads \subseteq Nat \ {0} /\ IsFiniteSet(Threads)
    /\ Span \in Nat /\ Facts \subseteq 1..(Span - 1) /\ MaxPages \in 1..(Span - 1)
    /\ ScanLimit \in Nat \ {0}
    /\ DOMAIN Bodies = 1..(MaxPages + 1)
    /\ \A b \in UNION Range(Bodies) : b.facts \subseteq Facts /\ b.exhausted \in BOOLEAN

VARIABLES
    stage,      \* analytics_retained_stage_runs and _pages, per thread
    facts,      \* analytics_retained_stage_facts, per thread
    epoch,      \* the analytics_retained_candidate_epochs row
    member,     \* analytics_retained_candidate_members, per thread
    acct,       \* the analytics_retained_stage_accounting row
    held        \* a request prepared earlier, perhaps already executed

vars == <<stage, facts, epoch, member, acct, held>>

None == "none"
NoStage == [state |-> None, pages |-> <<>>]
NoMember == [pin |-> None, rev |-> 0, seen |-> <<>>]
NoEpoch == [state |-> None, rev |-> 0]

Opened(t) == stage[t].state # None

-----------------------------------------------------------------------------
(* Accounting                                                               *)

\* The tables in the order of the rebuild.  The table of timestamp revisions,
\* written inside a page, is left out.
Tables == <<"runs", "pages", "facts", "candidate_epochs", "candidate_members">>

\* The primary keys of a table, in the order of its scan.
Keys(table) ==
    CASE table = "runs" -> {Span * t : t \in {u \in Threads : Opened(u)}}
      [] table = "pages" -> UNION {{Span * t + p : p \in DOMAIN stage[t].pages} : t \in Threads}
      [] table = "facts" -> UNION {{Span * t + f : f \in facts[t]} : t \in Threads}
      [] table = "candidate_epochs" -> IF epoch = NoEpoch THEN {} ELSE {1}
      [] table = "candidate_members" -> {Span * t : t \in {u \in Threads : member[u] # NoMember}}

Populated == \E i \in DOMAIN Tables : Keys(Tables[i]) # {}
NoRows == [i \in DOMAIN Tables |-> 0]
\* A row the accounting cannot count: key or size out of range.
Uncountable(key) == \E t \in Threads : key = Span * t /\ stage[t].state = "alien"

\* prepareRetainedStageAccountingOnce: an empty database is ready at once.
Prepared ==
    IF acct.state = "unreconciled" /\ ~Populated
    THEN [acct EXCEPT !.state = "ready", !.totals = NoRows] ELSE acct
Ready == Prepared.state = "ready"

\* The triggers: rows inserted per table are added to the totals.
Counted(delta) == acct' = [Prepared EXCEPT !.totals = [i \in DOMAIN Tables |-> @[i] + delta[i]]]

bootstrapRetainedStageAccounting ==
    /\ acct.state = "unreconciled"
    /\ acct' = IF Populated
               THEN [acct EXCEPT !.state = "rebuilding", !.table = 1, !.cursor = 0, !.work = NoRows, !.rev = @ + 1]
               ELSE [acct EXCEPT !.state = "ready", !.totals = NoRows, !.rev = @ + 1]
    /\ UNCHANGED <<stage, facts, epoch, member, held>>

\* accountingScanCandidates, and the keyset scans of freeze and seal
RowsAfter(keys, cursor) == {k \in keys : k > cursor}

\* The rows of c, each once and in the order of their keys.
Ascending(c) == \A i, j \in DOMAIN c : i < j => c[i] < c[j]

\* A chunk: one row or more up to the limit, as many as the byte target lets,
\* in order and none left out.
Chunks(keys, cursor) ==
    LET rows == RowsAfter(keys, cursor)
    IN {c \in UNION {[1..n -> rows] : n \in 1..ScanLimit} :
          Ascending(c) /\ \A k \in rows : k > Last(c) \/ k \in Range(c)}

advanceRetainedStageAccounting(r) ==
    /\ acct.state = "rebuilding" /\ r.rev = acct.rev
    /\ LET keys == Keys(Tables[acct.table])
           next == [acct EXCEPT !.rev = @ + 1]
       IN IF RowsAfter(keys, acct.cursor) = {}
          THEN acct' = IF acct.table = Len(Tables)
                       THEN [next EXCEPT !.state = "ready", !.totals = acct.work]
                       ELSE [next EXCEPT !.table = @ + 1, !.cursor = 0]
          ELSE \E c \in Chunks(keys, acct.cursor) :
                 acct' = IF \E i \in DOMAIN c : acct.table = 1 /\ Uncountable(c[i])
                         THEN [next EXCEPT !.state = "blocked"]
                         ELSE [next EXCEPT !.work[acct.table] = @ + Len(c), !.cursor = Last(c)]
    /\ UNCHANGED <<stage, facts, epoch, member>>

-----------------------------------------------------------------------------
(* Stages                                                                   *)

\* Mutant: the guard on the rows of a pinned run is missing.
StageWritableAlways(t) == Ready

\* The accounting trigger and the guard on the rows of a pinned run.
StageWritable(t) == Ready /\ member[t].pin # "pinned"

openRetainedProjectionStage(t) ==
    /\ ~Opened(t) /\ StageWritable(t)
    /\ stage' = [stage EXCEPT ![t] = [state |-> "collecting", pages |-> <<>>]]
    /\ Counted(<<1, 0, 0, 0, 0>>)
    /\ UNCHANGED <<facts, epoch, member, held>>

\* Mutant: the page number of the request is not compared with the stage.
InOrderAlways(r) == TRUE

\* the page is the next one, computed from the checkpoint the stage has
InOrder(r) == r.page = Len(stage[r.t].pages) + 1 /\ r.after = stage[r.t].pages

\* Mutant: facts staged before are counted again.
NewFactsAll(r) == r.body.facts

NewFacts(r) == r.body.facts \ facts[r.t]

closeRetainedProjectionBudget(t) ==
    /\ stage' = [stage EXCEPT ![t].state = "terminal"]
    /\ UNCHANGED <<facts, acct>>

\* The page is staged, or it exceeds the budget (its pages, or rows, bytes,
\* revisions and metadata, which are not modelled) and the stage is closed.
\* A repeated page is answered without a change, or refused if it differs.
appendRetainedProjectionStagePage(r) ==
    /\ stage[r.t].state = "collecting" /\ InOrder(r) /\ StageWritable(r.t)
    /\ \/ closeRetainedProjectionBudget(r.t)
       \/ /\ Len(stage[r.t].pages) < MaxPages
          /\ stage' = [stage EXCEPT ![r.t].pages =
                  Append(@, [facts |-> r.body.facts, exhausted |-> r.body.exhausted, nth |-> Len(r.after) + 1])]
          /\ facts' = [facts EXCEPT ![r.t] = @ \cup r.body.facts]
          /\ Counted(<<0, 1, Cardinality(NewFacts(r)), 0, 0>>)
    /\ UNCHANGED <<epoch, member>>

failRetainedProjectionStage(t) ==
    /\ stage[t].state = "collecting" /\ StageWritable(t)
    /\ stage' = [stage EXCEPT ![t].state = "failed"]
    /\ UNCHANGED <<facts, epoch, member, acct, held>>

resumeRetainedProjectionStage(t) ==
    /\ stage[t].state = "failed" /\ StageWritable(t)
    /\ stage' = [stage EXCEPT ![t].state = "collecting"]
    /\ UNCHANGED <<facts, epoch, member, acct, held>>

closeRetainedProjectionStageAtPageLimit(t) ==
    /\ stage[t].state = "collecting" /\ Len(stage[t].pages) = MaxPages /\ StageWritable(t)
    /\ stage' = [stage EXCEPT ![t].state = "terminal"]
    /\ UNCHANGED <<facts, epoch, member, acct, held>>

-----------------------------------------------------------------------------
(* The candidate epoch                                                      *)

openRetainedCandidateEpoch ==
    /\ Ready /\ epoch = NoEpoch
    /\ epoch' = [state |-> "open", rev |-> 0, last |-> [op |-> None],
                 cursor |-> 0, rolling |-> <<>>, membership |-> <<>>,
                 pinCursor |-> 0, sealRolling |-> <<>>, pinRolling |-> <<>>]
    /\ Counted(<<0, 0, 0, 1, 0>>)
    /\ UNCHANGED <<stage, facts, member, held>>

\* Mutant: members are still bound while the membership is being frozen.
BindableLate == epoch.state \in {"open", "freezing"}

Bindable == epoch.state = "open"

bindRetainedCandidateMember(t) ==
    /\ Ready /\ Bindable /\ member[t] = NoMember /\ stage[t].state \notin {None, "alien"}
    /\ member' = [member EXCEPT ![t] = [pin |-> "bound", rev |-> 0, seen |-> <<>>]]
    /\ epoch' = [epoch EXCEPT !.rev = @ + 1, !.last = [op |-> "bind", t |-> t]]
    /\ Counted(<<0, 0, 0, 0, 1>>)
    /\ UNCHANGED <<stage, facts, held>>

MemberKeys == {t \in Threads : member[t] # NoMember}
Advanced(r) == [epoch EXCEPT !.rev = @ + 1, !.last = r]

\* advanceRetainedCandidateEpoch, freeze: the membership digest rolls over the
\* members behind the cursor; an empty chunk ends the freeze.
freezeRetainedCandidateEpoch(r) ==
    /\ Ready /\ epoch # NoEpoch /\ epoch.state \in {"open", "freezing"}
    /\ r.rev = epoch.rev /\ epoch.last # r
    /\ IF RowsAfter(MemberKeys, epoch.cursor) = {}
       THEN epoch' = [Advanced(r) EXCEPT !.state = "frozen", !.membership = epoch.rolling,
                                         !.cursor = 0, !.pinCursor = 0, !.sealRolling = <<>>, !.pinRolling = <<>>]
       ELSE \E c \in Chunks(MemberKeys, epoch.cursor) :
              epoch' = [Advanced(r) EXCEPT !.state = "freezing", !.rolling = @ \o c, !.cursor = Last(c)]
    /\ acct' = Prepared
    /\ UNCHANGED <<stage, facts, member>>

\* every row of the chunk is pinned
Sealable(c) == \A t \in Range(c) : member[t].pin = "pinned"

sealRetainedCandidateEpoch(r) ==
    /\ Ready /\ epoch # NoEpoch /\ epoch.state \in {"frozen", "sealing"}
    /\ r.rev = epoch.rev /\ epoch.last # r
    /\ IF epoch.state = "frozen"
       THEN epoch' = [Advanced(r) EXCEPT !.state = "sealing", !.pinCursor = 0, !.sealRolling = <<>>, !.pinRolling = <<>>]
       ELSE IF RowsAfter(MemberKeys, epoch.pinCursor) = {}
       THEN /\ Len(epoch.pinRolling) = Len(epoch.membership) /\ epoch.sealRolling = epoch.membership
            /\ epoch' = [Advanced(r) EXCEPT !.state = "sealed", !.pinCursor = 0]
       ELSE \E c \in Chunks(MemberKeys, epoch.pinCursor) :
              /\ Sealable(c)
              /\ epoch' = [Advanced(r) EXCEPT
                     !.sealRolling = @ \o c, !.pinCursor = Last(c),
                     !.pinRolling = @ \o [i \in DOMAIN c |-> <<c[i], member[c[i]].seen>>]]
    /\ acct' = Prepared
    /\ UNCHANGED <<stage, facts, member>>

\* the stage has a durable terminal observation
Ended(s) ==
    \/ s.state \in {"terminal", "failed"}
    \/ s.state = "collecting" /\ s.pages # <<>> /\ Last(s.pages).exhausted

pinRetainedCandidateMember(r) ==
    /\ Ready /\ epoch # NoEpoch /\ epoch.state \in {"frozen", "sealing"}
    /\ member[r.t].pin = "bound" /\ member[r.t].rev = r.rev
    /\ Ended(stage[r.t])
    /\ member' = [member EXCEPT ![r.t] = [pin |-> "pinned", rev |-> r.rev + 1, seen |-> stage[r.t].pages]]
    /\ epoch' = [epoch EXCEPT !.state = "sealing", !.rev = @ + 1, !.last = r]
    /\ acct' = Prepared
    /\ UNCHANGED <<stage, facts>>

-----------------------------------------------------------------------------
(* Callers                                                                  *)

\* What a caller asks for after reading the store as it is now: the next page,
\* a step of the epoch, a pin, a chunk of the accounting.
PageRequest(t, b) ==
    [op |-> "append", t |-> t, page |-> Len(stage[t].pages) + 1, after |-> stage[t].pages, body |-> b]
PageRequests ==
    UNION {{PageRequest(t, b) : b \in Bodies[Len(stage[t].pages) + 1]} :
             t \in {u \in Threads : stage[u].state = "collecting"}}
EpochRequests ==
    IF epoch = NoEpoch THEN {} ELSE {[op |-> o, rev |-> epoch.rev] : o \in {"freeze", "seal"}}
PinRequests ==
    {[op |-> "pin", t |-> t, rev |-> member[t].rev] : t \in {u \in Threads : member[u].pin = "bound"}}
AccountRequests ==
    IF acct.state = "rebuilding" THEN {[op |-> "account", rev |-> acct.rev]} ELSE {}
Requests == PageRequests \cup EpochRequests \cup PinRequests \cup AccountRequests

Execute(r) ==
    \/ r.op = "append" /\ appendRetainedProjectionStagePage(r)
    \/ r.op = "freeze" /\ freezeRetainedCandidateEpoch(r)
    \/ r.op = "seal" /\ sealRetainedCandidateEpoch(r)
    \/ r.op = "pin" /\ pinRetainedCandidateMember(r)
    \/ r.op = "account" /\ advanceRetainedStageAccounting(r)

\* A caller reads, and submits later; it may submit again.  One such request
\* is held in a behaviour.
Hold ==
    /\ held.op = None /\ held' \in Requests
    /\ UNCHANGED <<stage, facts, epoch, member, acct>>

SubmitHeld == Execute(held) /\ UNCHANGED held

Submit == \E r \in Requests : Execute(r) /\ UNCHANGED held

\* A database of an earlier version may hold stages, one of them beyond what
\* the accounting can count; the tables of the epoch are new and empty.
Init ==
    /\ stage \in [Threads -> {NoStage, [state |-> "collecting", pages |-> <<>>], [state |-> "alien", pages |-> <<>>]}
                       \cup {[state |-> "collecting", pages |-> <<[facts |-> b.facts, exhausted |-> b.exhausted, nth |-> 1]>>] : b \in Bodies[1]}]
    /\ facts = [t \in Threads |-> IF stage[t].pages = <<>> THEN {} ELSE stage[t].pages[1].facts]
    /\ epoch = NoEpoch
    /\ member = [t \in Threads |-> NoMember]
    /\ acct = [state |-> "unreconciled", rev |-> 0, table |-> 0, cursor |-> 0, work |-> NoRows, totals |-> NoRows]
    /\ held = [op |-> None]

Next ==
    \/ bootstrapRetainedStageAccounting
    \/ openRetainedCandidateEpoch
    \/ \E t \in Threads :
        \/ openRetainedProjectionStage(t) \/ failRetainedProjectionStage(t) \/ resumeRetainedProjectionStage(t)
        \/ closeRetainedProjectionStageAtPageLimit(t) \/ bindRetainedCandidateMember(t)
    \/ Hold \/ SubmitHeld \/ Submit

Spec == Init /\ [][Next]_vars

-----------------------------------------------------------------------------
(* Properties                                                               *)

\* What the epoch promises is CandidateLedger: chunks, cursors and replays are
\* stutters of it, and a seal step that reads the last chunk certifies it all.
Phase ==
    CASE epoch.state = None -> "none"
      [] epoch.state \in {"open", "freezing"} -> "open"
      [] epoch.state \in {"frozen", "sealing"} -> "closed"
      [] epoch.state = "sealed" -> "sealed"

Collected == [t \in Threads |-> stage[t].pages]
Over == {t \in Threads : \/ stage[t].state \in {"terminal", "failed"}
                         \/ \E p \in Range(stage[t].pages) : p.exhausted}
Seen == {<<t, member[t].seen>> : t \in {u \in Threads : member[u].pin = "pinned"}}
Certificate == IF epoch.state = "sealed" THEN Range(epoch.pinRolling) ELSE {}

Ledger == INSTANCE CandidateLedger WITH
    phase <- Phase, members <- MemberKeys, collected <- Collected,
    over <- Over, seen <- Seen, certificate <- Certificate

\* Whatever callers replay or interleave, an epoch certifies exactly the
\* observations of exactly its members, and a pinned stage stands still: the
\* guarantee the chunked freeze, pin and seal of store.ts are there for.
RefinesLedger == Ledger!Spec

\* Once the membership is frozen its digest covers every member, although the
\* freeze reads the members over several transactions.
FrozenCoversMembers ==
    epoch.state \in {"frozen", "sealing", "sealed"} =>
        Ascending(epoch.membership) /\ Range(epoch.membership) = MemberKeys

\* Once the accounting is ready its totals are the rows the tables hold, after
\* a rebuild in chunks as well as after every write since.
TotalsExact ==
    acct.state = "ready" => \A i \in DOMAIN Tables : acct.totals[i] = Cardinality(Keys(Tables[i]))

FactsOf(pages) == UNION {p.facts : p \in Range(pages)}

\* The pages of a stage are one history: each was computed from the checkpoint
\* of the page before it, and the facts staged are theirs, whichever of two
\* collectors sent them and however often.
OneHistory ==
    \A t \in Threads :
        /\ \A p \in DOMAIN stage[t].pages : stage[t].pages[p].nth = p
        /\ facts[t] = FactsOf(stage[t].pages)
=============================================================================
