------------------------------- MODULE MCRemote -------------------------------
(* An instance of McpRemote; callers, and users, are alike. *)
EXTENDS McpRemote, TLC

Symmetric == Permutations(Callers) \cup Permutations(Users)
=============================================================================
