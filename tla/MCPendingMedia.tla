---------------------------- MODULE MCPendingMedia ----------------------------
(* A model-checking instance of PendingMedia. *)
EXTENDS PendingMedia, TLC

Symmetry == Permutations(Uuids) \cup Permutations(Fetches)
=============================================================================
