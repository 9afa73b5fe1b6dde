---------------------------- MODULE MCFeedRelay ----------------------------
(* Model-checking instances of FeedRelay. *)
EXTENDS FeedRelay, TLC

\* Run ids and assets are interchangeable; only safety runs use it.
Symmetry == Permutations(RunIds) \cup Permutations(Assets)
=============================================================================
