---------------------------- MODULE CandidateLedger ----------------------------
(***************************************************************************)
(* What a managed candidate epoch of the analytics store promises, without  *)
(* cursors, chunks, revisions or digests: a set of threads is chosen, then  *)
(* closed; each chosen thread is observed once, when its collection has     *)
(* ended; and the seal certifies exactly those observations.  Whatever is   *)
(* collected for a thread only grows, and stands still once it is observed. *)
(***************************************************************************)
EXTENDS Integers, Sequences, SequencesExt

CONSTANT Threads

VARIABLES
    phase,          \* none, open, closed or sealed
    members,        \* the threads of the epoch
    collected,      \* per thread: what its stage holds, page by page
    over,           \* the threads whose collection has ended, for now
    seen,           \* the observed threads, with what was collected then
    certificate     \* the observations the seal covers

vars == <<phase, members, collected, over, seen, certificate>>

Init ==
    /\ phase = "none" /\ members = {}
    /\ seen = {} /\ certificate = {}

Open ==
    /\ phase = "none" /\ phase' = "open"
    /\ UNCHANGED <<members, collected, over, seen, certificate>>

Bind(t) ==
    /\ phase = "open"
    /\ members' = members \cup {t}
    /\ UNCHANGED <<phase, collected, over, seen, certificate>>

Collect(t) ==
    /\ \A o \in seen : o[1] # t
    /\ \A u \in Threads \ {t} : collected'[u] = collected[u]
    /\ IsPrefix(collected[t], collected'[t])
    /\ over' \ {t} = over \ {t}
    /\ UNCHANGED <<phase, members, seen, certificate>>

Close ==
    /\ phase = "open" /\ phase' = "closed"
    /\ UNCHANGED <<members, collected, over, seen, certificate>>

Observe(t) ==
    /\ phase = "closed" /\ t \in members \cap over /\ \A o \in seen : o[1] # t
    /\ seen' = seen \cup {<<t, collected[t]>>}
    /\ UNCHANGED <<phase, members, collected, over, certificate>>

Seal ==
    /\ phase = "closed" /\ {o[1] : o \in seen} = members
    /\ phase' = "sealed" /\ certificate' = seen
    /\ UNCHANGED <<members, collected, over, seen>>

Next ==
    \/ Open \/ Close \/ Seal
    \/ \E t \in Threads : Bind(t) \/ Collect(t) \/ Observe(t)

Spec == Init /\ [][Next]_vars
=============================================================================
