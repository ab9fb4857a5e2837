------------------------------ MODULE MCRetained ------------------------------
(***************************************************************************)
(* A small instance of RetainedStages: two threads, one source event.       *)
(***************************************************************************)
EXTENDS RetainedStages

\* The first page is empty and the last one as long as the thread has no event,
\* the second repeats the event, the third would exceed the budget.
MCBodies ==
    LET page(f, e) == [facts |-> f, exhausted |-> e]
    IN <<{page({}, TRUE), page({1}, FALSE)}, {page({1}, TRUE)}, {page({}, TRUE)}>>
=============================================================================
