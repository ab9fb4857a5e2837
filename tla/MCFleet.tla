-------------------------------- MODULE MCFleet --------------------------------
(* Instances of FleetCoordinator: one enrolled host beside the local server. *)
EXTENDS FleetCoordinator

CONSTANTS h1

\* the lane that samples a worker and the one whose batch is bound to it
BatchLanes == <<<<h1, "core">>, <<h1, "directory">>>>
\* lanes that compete for the slots, and set or follow the session of a worker
SlotLanes == <<<<h1, "describe">>, <<h1, "core">>, <<h1, "memory">>>>
=============================================================================
