-------------------------- MODULE MCCandidateSearch --------------------------
(* A model-checking instance of CandidateSearch: the kinds of asset that   *)
(* the filter tells apart, on a 10 x 10 image.                             *)
EXTENDS CandidateSearch

Photo(posted, named, located) ==
  [posted |-> posted, named |-> named, located |-> located,
   width |-> 10, height |-> 10]

Square(side) == [x1 |-> 0, y1 |-> 0, x2 |-> side, y2 |-> side]

MCKinds ==
  { [facts |-> Photo(FALSE, FALSE, TRUE), faces |-> <<>>],
    [facts |-> Photo(FALSE, FALSE, TRUE), faces |-> <<Square(1)>>],
    [facts |-> Photo(FALSE, FALSE, TRUE), faces |-> <<Square(1), Square(5)>>],
    [facts |-> Photo(FALSE, TRUE, TRUE), faces |-> <<Square(1)>>],
    [facts |-> Photo(TRUE, FALSE, TRUE), faces |-> <<>>],
    [facts |-> Photo(FALSE, FALSE, FALSE), faces |-> <<>>],
    [facts |-> Photo(TRUE, TRUE, FALSE), faces |-> <<Square(1)>>] }
=============================================================================
