-------------------------- MODULE AssetFactsProofs --------------------------
(***************************************************************************)
(* Proofs about AssetFacts: what classify_candidate says of one asset, for *)
(* all sizes, all boxes, any number of faces and any thresholds, as more   *)
(* is learnt of the asset.                                                 *)
(***************************************************************************)
EXTENDS AssetFacts, FilterProofs

-----------------------------------------------------------------------------
(* The types, which the invariants need. *)

FactsInv == asset \in AssetRecord /\ faces \in Seq(Boxes)

\* A list with one element inserted, position by position.
LEMMA Inserted ==
  ASSUME NEW S, NEW list \in Seq(S), NEW i \in 1..(Len(list) + 1), NEW e \in S
  PROVE  LET new == InsertAt(list, i, e) IN
         /\ new \in Seq(S) /\ Len(new) = Len(list) + 1
         /\ new[i] = e
         /\ \A j \in 1..Len(list) : new[IF j < i THEN j ELSE j + 1] = list[j]
<1>. DEFINE left == SubSeq(list, 1, i - 1)
            right == SubSeq(list, i, Len(list))
<1>1. /\ left \in Seq(S) /\ Len(left) = i - 1
      /\ \A j \in 1..(i - 1) : left[j] = list[j]
  OBVIOUS
<1>2. /\ right \in Seq(S) /\ Len(right) = Len(list) - i + 1
      /\ \A j \in 1..(Len(list) - i + 1) : right[j] = list[j + i - 1]
  OBVIOUS
<1>. HIDE DEF left, right
<1>3. /\ <<e>> \in Seq(S) /\ Len(<<e>>) = 1 /\ <<e>>[1] = e
  OBVIOUS
<1>. DEFINE start == left \o <<e>>
<1>4. /\ start \in Seq(S) /\ Len(start) = i /\ start[i] = e
      /\ \A j \in 1..(i - 1) : start[j] = list[j]
  BY <1>1, <1>3
<1>. HIDE DEF start
<1>. DEFINE new == start \o right
<1>5. /\ new \in Seq(S) /\ Len(new) = Len(list) + 1
      /\ \A j \in 1..i : new[j] = start[j]
      /\ \A j \in (i + 1)..(Len(list) + 1) : new[j] = right[j - i]
  BY <1>2, <1>4
<1>6. new = InsertAt(list, i, e)
  BY DEF InsertAt, left, right, start
<1>. HIDE DEF new
<1>7. ASSUME NEW j \in 1..Len(list)
      PROVE  new[IF j < i THEN j ELSE j + 1] = list[j]
  <2>1. CASE j < i
    BY <1>4, <1>5, <2>1
  <2>2. CASE ~(j < i)
    <3>1. j + 1 \in (i + 1)..(Len(list) + 1) /\ (j + 1) - i \in 1..(Len(list) - i + 1)
          /\ ((j + 1) - i) + i - 1 = j
      BY <2>2
    <3>. QED
      BY <1>2, <1>5, <2>2, <3>1
  <2>. QED
    BY <2>1, <2>2
<1>. QED
  BY <1>4, <1>5, <1>6, <1>7

\* Types.
LEMMA Facts == Spec => []FactsInv
<1>1. Init => FactsInv
  <2>. SUFFICES ASSUME Init PROVE FactsInv
    OBVIOUS
  <2>1. asset \in AssetRecord
    <3>1. FALSE \in BOOLEAN
      OBVIOUS
    <3>2. [posted : {FALSE}, named : {FALSE}, located : BOOLEAN,
           width : Sizes, height : Sizes] \subseteq AssetRecord
      BY <3>1, Zenon DEF AssetRecord
    <3>. QED
      BY <3>2 DEF Init
  <2>2. faces \in Seq(Boxes)
    BY DEF Init
  <2>. QED
    BY <2>1, <2>2 DEF FactsInv
<1>2. FactsInv /\ [Next]_vars => FactsInv'
  <2>. SUFFICES ASSUME FactsInv, [Next]_vars PROVE FactsInv'
    OBVIOUS
  <2>1. CASE DetectFace
    <3>1. PICK face \in Boxes, i \in 1..(Len(faces) + 1) : faces' = InsertAt(faces, i, face)
      BY <2>1 DEF DetectFace
    <3>2. faces' \in Seq(Boxes)
      BY <3>1, Inserted DEF FactsInv
    <3>. QED
      BY <2>1, <3>2 DEF FactsInv, DetectFace
  <2>2. CASE NamePerson
    BY <2>2 DEF FactsInv, AssetRecord, NamePerson
  <2>3. CASE RecordPost
    BY <2>3 DEF FactsInv, AssetRecord, RecordPost
  <2>4. CASE UNCHANGED vars
    BY <2>4 DEF FactsInv, vars
  <2>. QED
    BY <2>1, <2>2, <2>3, <2>4 DEF Next
<1>. QED
  BY <1>1, <1>2, PTL DEF Spec

\* The asset and its faces are such as the theorems about the filter ask for.
LEMMA FilterTypes ==
  ASSUME FactsInv
  PROVE  asset \in AssetInfo /\ faces \in Seq(BoundingBox)
<1>1. Boxes \subseteq BoundingBox
  BY BoxAssumption DEF BoxAssumption
<1>2. faces \in Seq(BoundingBox)
  BY <1>1 DEF FactsInv
<1>. QED
  BY <1>2, SizeAssumption DEF FactsInv, AssetRecord, AssetInfo, SizeAssumption

-----------------------------------------------------------------------------
(* The order of the faces. *)

\* The loop counts each face once, in whatever order they are listed.
LEMMA ReversedClass ==
  ASSUME NEW a \in AssetInfo, NEW list \in Seq(BoundingBox)
  PROVE  Classify(a, Reverse(list)) = Classify(a, list)
<1>. DEFINE n == Len(list)
            back == Reverse(list)
            p == [i \in 1..n |-> n - i + 1]
<1>1. n \in Nat /\ DOMAIN list = 1..n
  OBVIOUS
<1>2. /\ back \in Seq(BoundingBox) /\ DOMAIN back = 1..n
      /\ \A i \in 1..n : p[i] \in 1..n /\ back[i] = list[p[i]] /\ back[p[i]] = list[i]
  BY <1>1 DEF Reverse
<1>. HIDE DEF back
<1>3. (\E i \in 1..n : TooLarge(back[i], a)) <=> (\E i \in 1..n : TooLarge(list[i], a))
  BY <1>2
<1>4. SumOver(Areas(back), 1..n) = SumOver(Areas(list), 1..n)
  <2>. DEFINE f == Areas(list)
              h == [i \in 1..n |-> f[p[i]]]
  <2>1. IsFiniteSet(1..n) /\ \A i \in 1..n : f[i] \in Nat /\ f[i] = BboxArea(list[i])
    BY <1>1, AreasType
  <2>2. {p[i] : i \in 1..n} = 1..n
    <3>1. ASSUME NEW i \in 1..n
          PROVE  \E j \in 1..n : i = p[j]
      <4>1. n - i + 1 \in 1..n /\ n - (n - i + 1) + 1 = i
        BY <1>1
      <4>. QED
        BY <4>1
    <3>. HIDE DEF p
    <3>. QED
      BY <1>2, <3>1
  <2>3. \A i, j \in 1..n : p[i] = p[j] => i = j
    BY <1>1
  <2>4. SumOver(f, 1..n) = SumOver(h, 1..n)
    <3>1. \A i \in 1..n : f[p[i]] \in Nat
      BY <1>2, <2>1
    <3>2. SumOver(f, {p[i] : i \in 1..n}) = SumOver([i \in 1..n |-> f[p[i]]], 1..n)
      <4>. HIDE DEF f, p, n
      <4>. QED
        BY <2>1, <2>3, <3>1, SumImage
    <3>. QED
      BY <2>2, <3>2
  <2>5. \A i \in 1..n : h[i] \in Nat /\ Areas(back)[i] = h[i]
    BY <1>2, <2>1, AreasType
  <2>6. SumOver(Areas(back), 1..n) = SumOver(h, 1..n)
    <3>. HIDE DEF h, n
    <3>. QED
      BY <2>1, <2>5, SumSame
  <2>. QED
    BY <2>4, <2>6
<1>5. back = <<>> <=> list = <<>>
  BY <1>1, <1>2
<1>. QED
  BY <1>1, <1>2, <1>3, <1>4, <1>5, ClassifyWithFaces DEF back
-----------------------------------------------------------------------------
(* One face more. *)

\* A face more adds its area.
LEMMA InsertedAreas ==
  ASSUME NEW list \in Seq(BoundingBox), NEW i \in 1..(Len(list) + 1), NEW face \in BoundingBox
  PROVE  LET new == InsertAt(list, i, face) IN
         SumOver(Areas(new), DOMAIN new)
           = BboxArea(face) + SumOver(Areas(list), DOMAIN list)
<1>. DEFINE n == Len(list)
            new == InsertAt(list, i, face)
            p == [j \in 1..n |-> IF j < i THEN j ELSE j + 1]
            f == Areas(new)
            h == [j \in 1..n |-> f[p[j]]]
<1>1. /\ n \in Nat /\ DOMAIN list = 1..n /\ i \in 1..(n + 1)
      /\ new \in Seq(BoundingBox) /\ DOMAIN new = 1..(n + 1)
      /\ new[i] = face /\ \A j \in 1..n : new[p[j]] = list[j]
  BY Inserted
<1>2. /\ IsFiniteSet(1..n) /\ IsFiniteSet(1..(n + 1))
  BY <1>1, FS_Interval
<1>. HIDE DEF new
<1>3. \A j \in 1..(n + 1) : f[j] = BboxArea(new[j]) /\ f[j] \in Nat
  BY <1>1, AreasType
<1>4. /\ \A j \in 1..n : p[j] \in 1..(n + 1)
      /\ \A j, k \in 1..n : p[j] = p[k] => j = k
  BY <1>1
<1>5. {p[j] : j \in 1..n} = (1..(n + 1)) \ {i}
  <2>1. ASSUME NEW k \in (1..(n + 1)) \ {i}
        PROVE  \E j \in 1..n : k = p[j]
    <3>1. CASE k < i
      BY <1>1, <3>1
    <3>2. CASE ~(k < i)
      <4>1. k - 1 \in 1..n /\ ~(k - 1 < i) /\ (k - 1) + 1 = k
        BY <1>1, <3>2
      <4>2. p[k - 1] = k
        BY <4>1
      <4>. QED
        BY <4>1, <4>2
    <3>. QED
      BY <3>1, <3>2
  <2>2. \A j \in 1..n : p[j] # i
    BY <1>1
  <2>. HIDE DEF p
  <2>. QED
    BY <1>4, <2>1, <2>2
<1>6. SumOver(f, 1..(n + 1)) = f[i] + SumOver(f, (1..(n + 1)) \ {i})
  <2>. HIDE DEF f
  <2>. QED
    BY <1>1, <1>2, <1>3, SumRemove
<1>7. SumOver(f, {p[j] : j \in 1..n}) = SumOver(h, 1..n)
  <2>1. \A j \in 1..n : f[p[j]] \in Nat
    BY <1>3, <1>4
  <2>. HIDE DEF f, p, n
  <2>. QED
    BY <1>2, <1>4, <2>1, SumImage
<1>8. SumOver(h, 1..n) = SumOver(Areas(list), 1..n)
  <2>1. \A j \in 1..n : Areas(list)[j] \in Nat /\ h[j] = Areas(list)[j]
    BY <1>1, <1>3, <1>4, AreasType
  <2>. HIDE DEF h, n
  <2>. QED
    BY <1>2, <2>1, SumSame
<1>. QED
  BY <1>1, <1>3, <1>5, <1>6, <1>7, <1>8 DEF new

\* A larger area reaches every threshold that a smaller one reaches.
LEMMA ReachesMore ==
  ASSUME NEW a \in AssetInfo, NEW pct \in Nat, NEW small \in Nat, NEW large \in Nat,
         small <= large, Reaches(small, a, pct)
  PROVE  Reaches(large, a, pct)
<1>1. pct * a.width * a.height \in Nat
  BY DEF AssetInfo
<1>. QED
  BY <1>1 DEF Reaches

\* A face more never lifts the asset to a better tier.
LEMMA NotBetterWithOneMore ==
  ASSUME NEW a \in AssetInfo, NEW list \in Seq(BoundingBox), NEW i \in 1..(Len(list) + 1),
         NEW face \in BoundingBox
  PROVE  Rank(Classify(a, InsertAt(list, i, face))) >= Rank(Classify(a, list))
<1>. DEFINE new == InsertAt(list, i, face)
            p == [j \in 1..Len(list) |-> IF j < i THEN j ELSE j + 1]
            small == SumOver(Areas(list), DOMAIN list)
            large == SumOver(Areas(new), DOMAIN new)
<1>1. /\ new \in Seq(BoundingBox) /\ new # <<>>
      /\ \A j \in DOMAIN list : p[j] \in DOMAIN new /\ new[p[j]] = list[j]
  <2>1. /\ new \in Seq(BoundingBox) /\ Len(new) = Len(list) + 1
        /\ \A j \in 1..Len(list) : new[p[j]] = list[j]
    BY Inserted
  <2>. HIDE DEF new
  <2>. QED
    BY <2>1
<1>2. small \in Nat /\ large \in Nat /\ small <= large
  <2>1. large = BboxArea(face) + small
    BY InsertedAreas
  <2>2. small \in Nat
    BY AreasType, SumBounds
  <2>. QED
    BY <2>1, <2>2, AreaIsPixels
<1>. HIDE DEF new, p, small, large
<1>3. (\E j \in DOMAIN list : TooLarge(list[j], a))
        => \E j \in DOMAIN new : TooLarge(new[j], a)
  BY <1>1
<1>4. Reaches(small, a, TotalPct) => Reaches(large, a, TotalPct)
  BY <1>2, ReachesMore, ThresholdAssumption DEF ThresholdAssumption
<1>5. Classify(a, list) =
        IF a.posted THEN "already_posted"
        ELSE IF a.named THEN "named_person"
        ELSE IF ~a.located THEN "no_location"
        ELSE IF list = <<>> THEN "preferred"
        ELSE IF ~HasDimensions(a) THEN "missing_dimensions"
        ELSE IF \E j \in DOMAIN list : TooLarge(list[j], a) THEN "per_face_area"
        ELSE IF Reaches(small, a, TotalPct) THEN "total_face_area"
        ELSE "acceptable"
  BY ClassifyWithFaces DEF small
<1>6. Classify(a, new) =
        IF a.posted THEN "already_posted"
        ELSE IF a.named THEN "named_person"
        ELSE IF ~a.located THEN "no_location"
        ELSE IF ~HasDimensions(a) THEN "missing_dimensions"
        ELSE IF \E j \in DOMAIN new : TooLarge(new[j], a) THEN "per_face_area"
        ELSE IF Reaches(large, a, TotalPct) THEN "total_face_area"
        ELSE "acceptable"
  BY <1>1, ClassifyWithFaces DEF large
<1>7. Rank(Classify(a, new)) >= Rank(Classify(a, list))
  BY <1>3, <1>4, <1>5, <1>6 DEF Rank
<1>. QED
  BY <1>7 DEF new

-----------------------------------------------------------------------------
(* The theorems. *)

\* The checks in their order and the loop over the faces decide the tier that
\* the definition of a Candidate gives the asset.
THEOREM TierIsDeservedHolds == Spec => []TierIsDeserved
<1>1. FactsInv => TierIsDeserved
  BY FilterTypes, TierOfEveryAsset DEF TierIsDeserved
<1>. QED
  BY <1>1, Facts, PTL

\* The order in which Immich lists the faces decides nothing.
THEOREM FaceOrderIrrelevantHolds == Spec => []FaceOrderIrrelevant
<1>1. FactsInv => FaceOrderIrrelevant
  BY FilterTypes, ReversedClass DEF FaceOrderIrrelevant
<1>. QED
  BY <1>1, Facts, PTL

\* No face, name or Post ever makes an asset more publishable.
THEOREM NeverMoreLenientHolds == Spec => NeverMoreLenient
<1>1. ASSUME FactsInv, Next
      PROVE  Rank(Classify(asset, faces)') >= Rank(Classify(asset, faces))
  <2>1. asset \in AssetInfo /\ faces \in Seq(BoundingBox)
    BY <1>1, FilterTypes
  <2>2. \A class : Rank(class) \in 0..2
    BY DEF Rank
  <2>3. CASE DetectFace
    <3>1. PICK face \in Boxes, i \in 1..(Len(faces) + 1) : faces' = InsertAt(faces, i, face)
      BY <2>3 DEF DetectFace
    <3>2. face \in BoundingBox /\ asset' = asset
      BY <2>3, BoxAssumption DEF DetectFace, BoxAssumption
    <3>3. Classify(asset, faces)' = Classify(asset, InsertAt(faces, i, face))
      BY <3>1, <3>2
    <3>. QED
      BY <2>1, <3>2, <3>3, NotBetterWithOneMore
  <2>4. CASE NamePerson
    <3>1. asset'.named
      BY <1>1, <2>4 DEF NamePerson, FactsInv, AssetRecord
    <3>2. Classify(asset, faces)' \in {"already_posted", "named_person"}
      BY <3>1 DEF Classify
    <3>. QED
      BY <2>2, <3>2 DEF Rank
  <2>5. CASE RecordPost
    <3>1. asset'.posted
      BY <1>1, <2>5 DEF RecordPost, FactsInv, AssetRecord
    <3>2. Classify(asset, faces)' = "already_posted"
      BY <3>1 DEF Classify
    <3>. QED
      BY <2>2, <3>2 DEF Rank
  <2>. QED
    BY <1>1, <2>3, <2>4, <2>5 DEF Next
<1>2. FactsInv /\ [Next]_vars
        => [Rank(Classify(asset, faces)') >= Rank(Classify(asset, faces))]_vars
  BY <1>1
<1>. QED
  BY <1>2, Facts, PTL DEF Spec, NeverMoreLenient
=============================================================================
