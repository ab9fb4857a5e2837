--------------------------- MODULE MCSubscription ---------------------------
(* Small instances of the subscription service for TLC.                    *)
EXTENDS SubscriptionProperties, TLC

\* Subscriptions are interchangeable (no liveness in a run that uses this).
Symmetric == Permutations(Subs)
=============================================================================
