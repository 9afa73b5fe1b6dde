---------------------------- MODULE MCAssetFacts ----------------------------
(* A model-checking instance of AssetFacts: a 10 x 10 image and coordinates *)
(* of 6 bits.  One box reaches 3% exactly, two of 2 pixels and one of 1     *)
(* reach 5% exactly; one box sticks out of the image, and two are           *)
(* degenerate, one of them in both directions.                              *)
EXTENDS AssetFacts

MCSizes == {0, 10}

Box(x1, y1, x2, y2) == [x1 |-> x1, y1 |-> y1, x2 |-> x2, y2 |-> y2]

MCBoxes ==
  { Box(4, 4, 5, 5), Box(0, 8, 2, 9), Box(9, 3, 12, 4), Box(-2, -1, 0, 1),
    Box(6, 2, 3, 5), Box(7, 7, 4, 4) }

\* Boxes that lie within an image of half the width and height.
MCSmallBoxes == { Box(4, 4, 5, 5), Box(0, 2, 1, 3) }
=============================================================================
