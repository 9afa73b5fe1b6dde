---------------------------- MODULE FilterProofs ----------------------------
(***************************************************************************)
(* Proofs about CandidateFilter: for every asset, every list of faces and  *)
(* every width of the integers, classify_candidate gives the tier that the *)
(* definition of a Candidate gives.                                        *)
(***************************************************************************)
EXTENDS CandidateFilter, FoldTheorems

USE ThresholdAssumption, WidthAssumption DEF ThresholdAssumption, WidthAssumption

-----------------------------------------------------------------------------
(* The area of a box. *)

\* A set has twice as many subsets with one element more.
LEMMA PowerOfTwo ==
  ASSUME NEW n \in Nat
  PROVE  2^n \in Nat \ {0} /\ 2^(n + 1) = 2 * 2^n
<1>. DEFINE A == SUBSET (1..n)
            W == {U \cup {n + 1} : U \in A}
            f == [U \in A |-> U \cup {n + 1}]
<1>1. IsFiniteSet(1..n) /\ Cardinality(1..n) = n
  BY FS_Interval
<1>2. IsFiniteSet(1..(n + 1)) /\ Cardinality(1..(n + 1)) = n + 1
  BY FS_Interval
<1>3. IsFiniteSet(A) /\ Cardinality(A) = 2^n
  BY <1>1, FS_SUBSET
<1>4. Cardinality(SUBSET (1..(n + 1))) = 2^(n + 1)
  BY <1>2, FS_SUBSET
<1>5. IsFiniteSet(W) /\ Cardinality(W) = Cardinality(A)
  <2>1. n + 1 \notin 1..n
    OBVIOUS
  <2>2. f \in Surjection(A, W)
    BY DEF Surjection
  <2>3. \A U, V \in A : U \cup {n + 1} = V \cup {n + 1} => U = V
    BY <2>1
  <2>4. f \in Injection(A, W)
    <3>1. f \in [A -> W] /\ DOMAIN f = A
      OBVIOUS
    <3>2. \A U, V \in A : f[U] = f[V] => U = V
      BY <2>3
    <3>. HIDE DEF A, W, f
    <3>. QED
      BY <3>1, <3>2 DEF Injection, IsInjective
  <2>5. ExistsBijection(A, W)
    BY <2>2, <2>4 DEF ExistsBijection, Bijection
  <2>. HIDE DEF A, W
  <2>. QED
    BY <1>3, <2>5, FS_Bijection
<1>6. SUBSET (1..(n + 1)) = A \cup W
  <2>1. 1..(n + 1) = 1..n \cup {n + 1}
    OBVIOUS
  <2>2. ASSUME NEW U \in SUBSET (1..(n + 1)), n + 1 \in U
        PROVE  U \in W
    <3>1. U \ {n + 1} \in A /\ U = (U \ {n + 1}) \cup {n + 1}
      BY <2>1, <2>2
    <3>. QED
      BY <3>1
  <2>3. ASSUME NEW U \in SUBSET (1..(n + 1)), n + 1 \notin U
        PROVE  U \in A
    BY <2>1, <2>3
  <2>4. A \cup W \subseteq SUBSET (1..(n + 1))
    BY <2>1
  <2>. QED
    BY <2>2, <2>3, <2>4
<1>7. A \cap W = {}
  BY n + 1 \notin 1..n
<1>8. Cardinality(A \cup W) = Cardinality(A) + Cardinality(W)
  <2>1. Cardinality(A) \in Nat /\ Cardinality(A \cap W) = 0
    BY <1>3, <1>7, FS_CardinalityType, FS_EmptySet
  <2>2. Cardinality(A \cup W) = Cardinality(A) + Cardinality(W) - Cardinality(A \cap W)
    <3>. HIDE DEF A, W
    <3>. QED
      BY <1>3, <1>5, FS_Union
  <2>. QED
    BY <1>5, <2>1, <2>2
<1>9. 2^n \in Nat /\ 2^n # 0
  <2>1. Cardinality(A) \in Nat /\ A # {}
    BY <1>3, FS_CardinalityType
  <2>2. Cardinality(A) # 0
    BY <1>3, <2>1, FS_EmptySet
  <2>. QED
    BY <1>3, <2>1, <2>2
<1>10. 2^(n + 1) = 2^n + 2^n
  <2>. HIDE DEF A, W
  <2>. QED
    BY <1>3, <1>4, <1>5, <1>6, <1>8
<1>. QED
  BY <1>9, <1>10

\* A number in range is its own remainder.
LEMMA SmallRemainder ==
  ASSUME NEW m \in Nat, NEW x \in Nat, x < m
  PROVE  x % m = x
OBVIOUS

\* No difference of two pixel positions wraps.
LEMMA MinusIsExact ==
  ASSUME NEW a \in PixelRange, NEW b \in PixelRange
  PROVE  Minus(a, b) = a - b /\ a - b \in Int
<1>. DEFINE quarter == 2^(IntBits - 2)
<1>1. quarter \in Nat \ {0} /\ 2^(IntBits - 1) = 2 * quarter /\ 2^IntBits = 4 * quarter
  <2>1. IntBits - 2 \in Nat /\ (IntBits - 2) + 1 = IntBits - 1
        /\ IntBits - 1 \in Nat /\ (IntBits - 1) + 1 = IntBits
    OBVIOUS
  <2>. QED
    BY <2>1, PowerOfTwo
<1>. HIDE DEF quarter
<1>2. a \in (-quarter)..(quarter - 1) /\ b \in (-quarter)..(quarter - 1)
  BY DEF PixelRange, quarter
<1>3. a - b + 2 * quarter \in Nat /\ a - b + 2 * quarter < 4 * quarter
  BY <1>1, <1>2
<1>4. (a - b + 2 * quarter) % (4 * quarter) = a - b + 2 * quarter
  BY <1>1, <1>3, SmallRemainder
<1>. QED
  BY <1>1, <1>2, <1>4 DEF Minus

\* bbox_area counts the pixels in the box, also in a degenerate one.
LEMMA AreaIsPixels ==
  ASSUME NEW face \in BoundingBox
  PROVE  BboxArea(face) = Pixels(face) /\ BboxArea(face) \in Nat
<1>1. /\ Minus(face.x2, face.x1) = face.x2 - face.x1
      /\ Minus(face.y2, face.y1) = face.y2 - face.y1
  BY MinusIsExact DEF BoundingBox
<1>2. ASSUME NEW a \in PixelRange, NEW b \in PixelRange
      PROVE  /\ Cardinality(a..(b - 1)) = NonNegative(b - a)
             /\ NonNegative(b - a) \in Nat
  <2>1. a \in Int /\ b \in Int
    BY PowerOfTwo DEF PixelRange
  <2>2. Cardinality(a..(b - 1)) = IF a > b - 1 THEN 0 ELSE (b - 1) - a + 1
    BY <2>1, FS_Interval
  <2>. QED
    BY <2>1, <2>2 DEF NonNegative
<1>. QED
  BY <1>1, <1>2 DEF BoundingBox, BboxArea, Pixels
-----------------------------------------------------------------------------
(* The loop over the faces. *)

Areas(faces) == [i \in DOMAIN faces |-> BboxArea(faces[i])]

\* The areas of a list of boxes are natural numbers, one for each position.
LEMMA AreasType ==
  ASSUME NEW faces \in Seq(BoundingBox)
  PROVE  /\ DOMAIN faces = 1..Len(faces) /\ Len(faces) \in Nat
         /\ IsFiniteSet(DOMAIN faces)
         /\ \A i \in DOMAIN faces : /\ faces[i] \in BoundingBox
                                    /\ Areas(faces)[i] = BboxArea(faces[i])
                                    /\ Areas(faces)[i] \in Nat
<1>1. DOMAIN faces = 1..Len(faces) /\ Len(faces) \in Nat
  OBVIOUS
<1>2. \A i \in DOMAIN faces : faces[i] \in BoundingBox
  BY <1>1
<1>3. IsFiniteSet(DOMAIN faces)
  BY <1>1, FS_Interval
<1>. QED
  BY <1>1, <1>2, <1>3, AreaIsPixels DEF Areas

TooLarge(face, asset) == Reaches(BboxArea(face), asset, PerFacePct)

\* The loop goes through the faces from the first to the last.
LEMMA ScanDefined ==
  ASSUME NEW asset \in AssetInfo, NEW faces \in Seq(BoundingBox)
  PROVE  \E g : /\ ScanFaces(asset, faces) = g[1..Len(faces)]
                /\ g[{}] = [tooLarge |-> FALSE, total |-> 0]
                /\ \A n \in 1..Len(faces) :
                     g[1..n] = IF g[1..(n - 1)].tooLarge THEN g[1..(n - 1)]
                               ELSE [tooLarge |-> TooLarge(faces[n], asset),
                                     total |-> g[1..(n - 1)].total + BboxArea(faces[n])]
<1>. DEFINE D == DOMAIN faces
            V == [tooLarge : BOOLEAN, total : Nat]
            base == [tooLarge |-> FALSE, total |-> 0]
            Next1(v, i) == IF v.tooLarge THEN v
                           ELSE [tooLarge |-> Reaches(BboxArea(faces[i]), asset, PerFacePct),
                                 total |-> v.total + BboxArea(faces[i])]
            pick == [T \in SUBSET D |-> Max(T)]
            step == [p \in D \X V |-> Next1(p[2], p[1])]
            Body(g) == [s \in SUBSET D |->
                          IF s = {} THEN base ELSE Next1(g[s \ {Max(s)}], Max(s))]
            iter == CHOOSE g : g = Body(g)
<1>1. ASSUME NEW T \in SUBSET D, T # {}
      PROVE  Max(T) \in T
  BY <1>1, MaxIsGreatest, AreasType, FS_Subset
<1>2. base \in V /\ \A v \in V, i \in D : Next1(v, i) \in V
  <2>1. ASSUME NEW v \in V, NEW i \in D
        PROVE  Next1(v, i) \in V
    <3>1. BboxArea(faces[i]) \in Nat
      BY AreasType
    <3>2. Reaches(BboxArea(faces[i]), asset, PerFacePct) \in BOOLEAN
      BY DEF Reaches
    <3>. QED
      BY <3>1, <3>2
  <2>. QED
    BY <2>1
<1>3. step \in [D \X V -> V]
  <2>. HIDE DEF V, D, Next1
  <2>. QED
    BY <1>2
<1>4. PICK h \in [SUBSET D -> V] : FoldsTo(h, D, base, pick, step)
  <2>1. \A T \in SUBSET D : T # {} => pick[T] \in T
    BY <1>1
  <2>2. IsFiniteSet(D)
    BY AreasType
  <2>. HIDE DEF D, V, base, pick, step
  <2>. QED
    BY <1>2, <1>3, <2>1, <2>2, FoldExists
<1>5. h = Body(h)
  <2>1. ASSUME NEW T \in SUBSET D, T # {}
        PROVE  h[T] = Next1(h[T \ {Max(T)}], Max(T))
    <3>1. h[T] = step[<<Max(T), h[T \ {Max(T)}]>>]
      BY <1>4, <2>1 DEF FoldsTo
    <3>2. Max(T) \in D /\ h[T \ {Max(T)}] \in V
      BY <1>1, <2>1
    <3>3. \A i \in D, v \in V : step[<<i, v>>] = Next1(v, i)
      <4>. HIDE DEF D, V, Next1
      <4>. QED
        OBVIOUS
    <3>. HIDE DEF D, V, Next1, step
    <3>. QED
      BY <3>1, <3>2, <3>3
  <2>2. h[{}] = base
    BY <1>4 DEF FoldsTo
  <2>. HIDE DEF D, V, Next1, base
  <2>. QED
    BY <2>1, <2>2
<1>6. iter = Body(iter)
  BY <1>5
<1>7. ScanFaces(asset, faces) = iter[D]
  BY DEF ScanFaces, FoldLeft, MapThenFoldSet
<1>8. ASSUME NEW n \in 1..Len(faces)
      PROVE  iter[1..n] = Next1(iter[1..(n - 1)], n)
  <2>1. D = 1..Len(faces) /\ Len(faces) \in Nat
    BY AreasType
  <2>2. 1..n \in SUBSET D /\ n \in 1..n /\ (1..n) \ {n} = 1..(n - 1)
    <3>. HIDE DEF D
    <3>. QED
      BY <2>1
  <2>3. Max(1..n) = n
    <3>1. n \in Int /\ 1..n \subseteq Int /\ 1..n # {}
      BY <2>1, <2>2
    <3>3. IsFiniteSet(1..n)
      BY <3>1, FS_Interval
    <3>2. Max(1..n) \in 1..n /\ \A y \in 1..n : Max(1..n) >= y
      BY <3>1, <3>3, MaxIsGreatest
    <3>. QED
      BY <2>2, <3>2
  <2>. HIDE DEF iter, Next1
  <2>. QED
    BY <1>6, <2>2, <2>3
<1>9. iter[{}] = base
  <2>. HIDE DEF iter
  <2>. QED
    BY <1>6
<1>. QED
  BY <1>7, <1>8, <1>9, AreasType DEF TooLarge
\* It finds out whether some face is too large, and when none is, what all the
\* faces cover together.
LEMMA ScanSums ==
  ASSUME NEW asset \in AssetInfo, NEW faces \in Seq(BoundingBox)
  PROVE  /\ ScanFaces(asset, faces).tooLarge
              <=> \E i \in DOMAIN faces : TooLarge(faces[i], asset)
         /\ ~ScanFaces(asset, faces).tooLarge
              => ScanFaces(asset, faces).total = SumOver(Areas(faces), DOMAIN faces)
<1>. DEFINE areas == Areas(faces)
            D == DOMAIN faces
<1>1. PICK g : /\ ScanFaces(asset, faces) = g[1..Len(faces)]
               /\ g[{}] = [tooLarge |-> FALSE, total |-> 0]
               /\ \A n \in 1..Len(faces) :
                    g[1..n] = IF g[1..(n - 1)].tooLarge THEN g[1..(n - 1)]
                              ELSE [tooLarge |-> TooLarge(faces[n], asset),
                                    total |-> g[1..(n - 1)].total + BboxArea(faces[n])]
  BY ScanDefined
<1>2. D = 1..Len(faces) /\ Len(faces) \in Nat /\ IsFiniteSet(D)
      /\ \A i \in D : areas[i] = BboxArea(faces[i]) /\ areas[i] \in Nat
  BY AreasType
<1>. DEFINE Right(n) == /\ g[1..n].tooLarge <=> \E i \in 1..n : TooLarge(faces[i], asset)
                        /\ ~g[1..n].tooLarge => g[1..n].total = SumOver(areas, 1..n)
            Q == {n \in Nat : n <= Len(faces) => Right(n)}
<1>. HIDE DEF areas, D
<1>3. 0 \in Q
  <2>1. 1..0 = {}
    OBVIOUS
  <2>. QED
    BY <1>1, <2>1, SumEmpty
<1>4. ASSUME NEW n \in Nat, n \in Q, n + 1 <= Len(faces)
      PROVE  Right(n + 1)
  <2>1. n + 1 \in 1..Len(faces) /\ (n + 1) - 1 = n
    BY <1>2, <1>4
  <2>2. Right(n)
    BY <1>2, <1>4
  <2>3. g[1..(n + 1)] = IF g[1..n].tooLarge THEN g[1..n]
                        ELSE [tooLarge |-> TooLarge(faces[n + 1], asset),
                              total |-> g[1..n].total + BboxArea(faces[n + 1])]
    BY <1>1, <2>1
  <2>4. 1..(n + 1) = 1..n \cup {n + 1}
    OBVIOUS
  <2>5. SumOver(areas, 1..(n + 1)) = BboxArea(faces[n + 1]) + SumOver(areas, 1..n)
        /\ SumOver(areas, 1..n) \in Nat /\ BboxArea(faces[n + 1]) \in Nat
    <3>1. IsFiniteSet(1..(n + 1))
      BY FS_Interval
    <3>3. n + 1 \in 1..(n + 1) /\ (1..(n + 1)) \ {n + 1} = 1..n
      OBVIOUS
    <3>2. \A i \in 1..(n + 1) : areas[i] = BboxArea(faces[i]) /\ areas[i] \in Nat
      BY <1>2, <2>1
    <3>. DEFINE S == 1..(n + 1)
    <3>4. IsFiniteSet(S) /\ n + 1 \in S /\ \A i \in S : areas[i] \in Nat
      BY <3>1, <3>2, <3>3
    <3>5. /\ SumOver(areas, S \ {n + 1}) \in Nat
          /\ SumOver(areas, S) = areas[n + 1] + SumOver(areas, S \ {n + 1})
      <4>. HIDE DEF S
      <4>. QED
        BY <3>4, SumRemove
    <3>. QED
      BY <3>2, <3>3, <3>5
  <2>6. CASE g[1..n].tooLarge
    BY <2>2, <2>3, <2>4, <2>6
  <2>7. CASE ~g[1..n].tooLarge
    <3>1. /\ g[1..(n + 1)].tooLarge = TooLarge(faces[n + 1], asset)
          /\ g[1..(n + 1)].total = SumOver(areas, 1..n) + BboxArea(faces[n + 1])
      BY <2>2, <2>3, <2>7
    <3>2. g[1..(n + 1)].tooLarge <=> \E i \in 1..(n + 1) : TooLarge(faces[i], asset)
      BY <2>2, <2>4, <2>7, <3>1
    <3>. QED
      BY <2>5, <3>1, <3>2
  <2>. QED
    BY <2>6, <2>7
<1>5. Len(faces) \in Q
  <2>1. \A n \in Nat : n \in Q => n + 1 \in Q
    <3>1. ASSUME NEW n \in Nat, n \in Q
          PROVE  n + 1 \in Q
      BY <1>4, <3>1
    <3>. QED
      BY <3>1
  <2>. HIDE DEF Q
  <2>. QED
    BY <1>2, <1>3, <2>1, NaturalInduction
<1>6. Right(Len(faces))
  BY <1>2, <1>5
<1>. QED
  BY <1>1, <1>2, <1>6 DEF areas, D

\* The combined area is the sum of the areas, whatever their order.
LEMMA CombinedAreaIsSum ==
  ASSUME NEW faces \in Seq(BoundingBox)
  PROVE  CombinedArea(faces) = SumOver(Areas(faces), DOMAIN faces)
<1>. DEFINE D == DOMAIN faces
            areas == Areas(faces)
            Body(g) == [s \in SUBSET D |->
                          IF s = {} THEN 0
                          ELSE Pixels(faces[CHOOSE x \in s : TRUE])
                                 + g[s \ {CHOOSE x \in s : TRUE}]]
            iter == CHOOSE g : g = Body(g)
<1>1. /\ IsFiniteSet(D)
      /\ \A i \in D : areas[i] \in Nat /\ Pixels(faces[i]) = areas[i]
  BY AreasType, AreaIsPixels
<1>2. \A T \in SUBSET D : T # {} => (CHOOSE x \in T : TRUE) \in D
  OBVIOUS
<1>3. PICK h \in [SUBSET D -> Nat] : SumsUp(h, areas, D) /\ SumOver(areas, D) = h[D]
  <2>. HIDE DEF D, areas
  <2>. QED
    BY <1>1, SumDefined
<1>. HIDE DEF areas, D
<1>4. h = Body(h)
  BY <1>1, <1>2, <1>3 DEF SumsUp
<1>5. iter = Body(iter)
  BY <1>4
<1>6. SumsUp(iter, areas, D)
  <2>. HIDE DEF iter
  <2>. QED
    BY <1>1, <1>2, <1>5 DEF SumsUp
<1>7. CombinedArea(faces) = iter[D]
  BY DEF CombinedArea, FoldSeq, FoldFunction, FoldFunctionOnSet, MapThenFoldSet, D
<1>8. iter[D] = h[D]
  <2>. HIDE DEF iter
  <2>. QED
    BY <1>1, <1>3, <1>6, SumsUnique
<1>. QED
  BY <1>3, <1>7, <1>8 DEF areas, D

-----------------------------------------------------------------------------
(* The tier. *)

\* What is left of classify_candidate once the loop is done with.
LEMMA ClassifyWithFaces ==
  ASSUME NEW asset \in AssetInfo, NEW faces \in Seq(BoundingBox)
  PROVE  Classify(asset, faces) =
           IF asset.posted THEN "already_posted"
           ELSE IF asset.named THEN "named_person"
           ELSE IF ~asset.located THEN "no_location"
           ELSE IF faces = <<>> THEN "preferred"
           ELSE IF ~HasDimensions(asset) THEN "missing_dimensions"
           ELSE IF \E i \in DOMAIN faces : TooLarge(faces[i], asset) THEN "per_face_area"
           ELSE IF Reaches(SumOver(Areas(faces), DOMAIN faces), asset, TotalPct)
                THEN "total_face_area"
           ELSE "acceptable"
BY ScanSums DEF Classify, AssetInfo

\* The checks in their order and the loop over the faces decide the tier that
\* the definition of a Candidate gives the asset.
THEOREM TierOfEveryAsset ==
  ASSUME NEW asset \in AssetInfo, NEW faces \in Seq(BoundingBox)
  PROVE  /\ Classify(asset, faces) = "preferred" <=> IsPreferred(asset, faces)
         /\ Classify(asset, faces) = "acceptable" <=> IsAcceptable(asset, faces)
<1>1. \A i \in DOMAIN faces :
        TooLarge(faces[i], asset) <=> Reaches(Pixels(faces[i]), asset, PerFacePct)
  BY AreasType, AreaIsPixels DEF TooLarge
<1>. QED
  BY <1>1, ClassifyWithFaces, CombinedAreaIsSum
     DEF IsPreferred, IsAcceptable, Eligible, FacesAreBackground
=============================================================================
