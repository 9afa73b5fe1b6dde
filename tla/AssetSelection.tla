--------------------------- MODULE AssetSelection ---------------------------
(***************************************************************************)
(* What steps 5 to 8 of execute_run promise to the steps after them, with  *)
(* no pages, passes, faces or counts in sight: one of at least             *)
(* MinCandidates eligible assets, chosen once, or the failure of the run   *)
(* with no asset chosen.  It is the step SelectAsset of module Pipeline,   *)
(* which sees of eligibility only that the asset is not in the dedup set.  *)
(***************************************************************************)
EXTENDS Integers, FiniteSets

CONSTANTS Assets, NoAsset, MinCandidates

VARIABLES
  eligible,    \* no Posts, without named people, with a location
  outcome,
  asset

selectionVars == <<eligible, outcome, asset>>

Init ==
  /\ eligible \in SUBSET Assets
  /\ outcome = "selecting"
  /\ asset = NoAsset

SelectAsset ==
  /\ outcome = "selecting"
  /\ Cardinality(eligible) >= MinCandidates
  /\ asset' \in eligible
  /\ outcome' = "selected"
  /\ UNCHANGED eligible

SearchFails ==
  /\ outcome = "selecting"
  /\ outcome' = "failed"
  /\ UNCHANGED <<eligible, asset>>

Next == SelectAsset \/ SearchFails

Spec == Init /\ [][Next]_selectionVars
=============================================================================
