-------------------------- MODULE CandidateFilter --------------------------
(***************************************************************************)
(* classify_candidate (filter.rs): the tier of one asset, given what       *)
(* Immich says of it, the faces that were fetched and the posts table.     *)
(*                                                                         *)
(* The facts about an asset are a record: posted (its id is in the dedup   *)
(* set), named (a person with a name is in it), located (city or country   *)
(* is known), its width and height in pixels with 0 for an absent one, and *)
(* its faces, the four coordinates of each bounding box: signed integers   *)
(* of IntBits bits (i32 in the code) whose difference wraps, as it does in *)
(* the release build.  Percentages are compared as exact ratios where the  *)
(* code uses f64.                                                          *)
(***************************************************************************)
EXTENDS Integers, Sequences, FiniteSets, SequencesExt

CONSTANTS
  PerFacePct,    \* FilterThresholds.per_face_pct
  TotalPct,      \* FilterThresholds.total_pct
  IntBits        \* bound: width of a coordinate; 32 in the code

ASSUME ThresholdAssumption == PerFacePct \in Nat /\ TotalPct \in Nat
ASSUME WidthAssumption == IntBits \in Nat /\ IntBits >= 2

\* Pixel positions use half the range of i32 at most, so that no difference of
\* two wraps; in both directions, since a box may stick out of its image.
PixelRange == -(2^(IntBits - 2))..(2^(IntBits - 2) - 1)

\* What the filter is told of an asset, and the box of a face.
AssetInfo ==
  [posted : BOOLEAN, named : BOOLEAN, located : BOOLEAN, width : Nat, height : Nat]
BoundingBox == [x1 : PixelRange, y1 : PixelRange, x2 : PixelRange, y2 : PixelRange]

Tiers == {"preferred", "acceptable"}

Rejections ==
  {"already_posted", "named_person", "no_location", "missing_dimensions",
   "per_face_area", "total_face_area"}

NonNegative(n) == IF n > 0 THEN n ELSE 0

\* i32 subtraction.
Minus(a, b) == ((a - b + 2^(IntBits - 1)) % 2^IntBits) - 2^(IntBits - 1)

\* Mutant: the differences are taken as u32, and nothing is left to clamp.
BboxAreaUnsigned(face) ==
  ((face.x2 - face.x1) % 2^IntBits) * ((face.y2 - face.y1) % 2^IntBits)

\* AssetFace::bbox_area: a degenerate box has no area.
BboxArea(face) ==
  NonNegative(Minus(face.x2, face.x1)) * NonNegative(Minus(face.y2, face.y1))

HasDimensions(asset) == asset.width > 0 /\ asset.height > 0

\* An area reaches a threshold that it equals.
Reaches(area, asset, pct) == area * 100 >= pct * asset.width * asset.height

\* The loop over the faces: stops at the first that is too large.
ScanFaces(asset, faces) ==
  FoldLeft(LAMBDA scan, face :
             IF scan.tooLarge THEN scan
             ELSE [tooLarge |-> Reaches(BboxArea(face), asset, PerFacePct),
                   total |-> scan.total + BboxArea(face)],
           [tooLarge |-> FALSE, total |-> 0], faces)

\* Mutant: the largest face is taken to be the first.
ClassifyByFirstFace(asset, faces) ==
  CASE asset.posted -> "already_posted"
    [] ~asset.posted /\ asset.named -> "named_person"
    [] ~asset.posted /\ ~asset.named /\ ~asset.located -> "no_location"
    [] OTHER ->
        IF faces = <<>> THEN "preferred"
        ELSE IF ~HasDimensions(asset) THEN "missing_dimensions"
        ELSE IF Reaches(BboxArea(faces[1]), asset, PerFacePct) THEN "per_face_area"
        ELSE IF Reaches(ScanFaces(asset, faces).total, asset, TotalPct)
             THEN "total_face_area"
        ELSE "acceptable"

\* Mutant: an asset without faces is preferred before anything is asked.
ClassifyFacelessFirst(asset, faces) ==
  IF faces = <<>> THEN "preferred"
  ELSE IF asset.posted THEN "already_posted"
  ELSE IF asset.named THEN "named_person"
  ELSE IF ~asset.located THEN "no_location"
  ELSE IF ~HasDimensions(asset) THEN "missing_dimensions"
  ELSE IF ScanFaces(asset, faces).tooLarge THEN "per_face_area"
  ELSE IF Reaches(ScanFaces(asset, faces).total, asset, TotalPct)
       THEN "total_face_area"
  ELSE "acceptable"

\* classify_candidate: the first check that fails names the rejection.
Classify(asset, faces) ==
  IF asset.posted THEN "already_posted"
  ELSE IF asset.named THEN "named_person"
  ELSE IF ~asset.located THEN "no_location"
  ELSE IF faces = <<>> THEN "preferred"
  ELSE IF ~HasDimensions(asset) THEN "missing_dimensions"
  ELSE LET scan == ScanFaces(asset, faces)
       IN  IF scan.tooLarge THEN "per_face_area"
           ELSE IF Reaches(scan.total, asset, TotalPct) THEN "total_face_area"
           ELSE "acceptable"

-----------------------------------------------------------------------------
(* The same, as CONTEXT.md defines a Candidate: no order of checks, no     *)
(* loop, the area of a box as the pixels in it, the combined area as a sum *)
(* over the boxes.                                                         *)

Pixels(face) ==
  Cardinality(face.x1..(face.x2 - 1)) * Cardinality(face.y1..(face.y2 - 1))

CombinedArea(faces) == FoldSeq(LAMBDA face, sum : Pixels(face) + sum, 0, faces)

FacesAreBackground(asset, faces) ==
  /\ HasDimensions(asset)
  /\ \A i \in DOMAIN faces : ~Reaches(Pixels(faces[i]), asset, PerFacePct)
  /\ ~Reaches(CombinedArea(faces), asset, TotalPct)

Eligible(asset) == ~asset.posted /\ ~asset.named /\ asset.located

\* The tier a Candidate deserves on the faces it really has.
IsPreferred(asset, faces) == Eligible(asset) /\ faces = <<>>
IsAcceptable(asset, faces) ==
  Eligible(asset) /\ faces # <<>> /\ FacesAreBackground(asset, faces)
=============================================================================
