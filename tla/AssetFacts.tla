----------------------------- MODULE AssetFacts -----------------------------
(***************************************************************************)
(* One asset over time, as classify_candidate sees it from run to run:     *)
(* Immich detects one more face or learns the name of a person, and a run  *)
(* records the asset as a Post.                                            *)
(***************************************************************************)
EXTENDS CandidateFilter

CONSTANTS
  Sizes,       \* widths and heights an asset may have, 0 when absent
  Boxes,       \* bounding boxes Immich may report, degenerate ones included
  MaxFaces,    \* bound: faces detected on the asset
  Shrinks      \* how many times smaller the face detector's image may be

ASSUME BoxAssumption == Boxes \subseteq BoundingBox
ASSUME SizeAssumption == Sizes \subseteq Nat

VARIABLES
  asset,
  faces,
  shrink       \* of the image on which the boxes were measured

vars == <<asset, faces, shrink>>

AssetRecord ==
  [posted : BOOLEAN, named : BOOLEAN, located : BOOLEAN, width : Sizes, height : Sizes]

Init ==
  /\ asset \in [posted : {FALSE}, named : {FALSE}, located : BOOLEAN,
                width : Sizes, height : Sizes]
  /\ faces = <<>>
  /\ shrink \in Shrinks

\* Immich finds a face; where in its list the new one comes is not said.
DetectFace ==
  /\ Len(faces) < MaxFaces
  /\ \E face \in Boxes, i \in 1..(Len(faces) + 1) : faces' = InsertAt(faces, i, face)
  /\ UNCHANGED <<asset, shrink>>

NamePerson ==
  /\ ~asset.named
  /\ asset' = [asset EXCEPT !.named = TRUE]
  /\ UNCHANGED <<faces, shrink>>

RecordPost ==
  /\ Classify(asset, faces) \in Tiers
  /\ asset' = [asset EXCEPT !.posted = TRUE]
  /\ UNCHANGED <<faces, shrink>>

Next == DetectFace \/ NamePerson \/ RecordPost

Spec == Init /\ [][Next]_vars

-----------------------------------------------------------------------------
(* Properties *)

\* The checks in their order and the loop over the faces decide the tier that
\* the definition of a Candidate gives the asset.
TierIsDeserved ==
  /\ Classify(asset, faces) = "preferred" <=> IsPreferred(asset, faces)
  /\ Classify(asset, faces) = "acceptable" <=> IsAcceptable(asset, faces)

Rank(class) == CASE class = "preferred" -> 0
                 [] class = "acceptable" -> 1
                 [] OTHER -> 2

\* The order in which Immich lists the faces decides nothing.
FaceOrderIrrelevant == Classify(asset, Reverse(faces)) = Classify(asset, faces)

\* Knowing more of an asset never makes it more publishable: no face, name or
\* Post lifts it to a better tier.
NeverMoreLenient ==
  [][Rank(Classify(asset, faces)') >= Rank(Classify(asset, faces))]_vars

-----------------------------------------------------------------------------

\* A box as it would be measured on the asset itself.
Rescaled(face) == [side \in DOMAIN face |-> face[side] * shrink]

\* filter.rs: the thresholds are percentages of the total image area, of which
\* no accepted face covers more (types.rs: the detector's image may differ in
\* size from the asset).
ThresholdsAreOfTheImage ==
  Classify(asset, faces) = "acceptable" =>
    \A i \in DOMAIN faces : ~Reaches(Pixels(Rescaled(faces[i])), asset, PerFacePct)
=============================================================================
