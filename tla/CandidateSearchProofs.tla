----------------------- MODULE CandidateSearchProofs -----------------------
(***************************************************************************)
(* Proofs about CandidateSearch: which asset a run picks, for any library, *)
(* any page size, whatever Immich lists and whichever face lookups fail.   *)
(***************************************************************************)
EXTENDS CandidateSearch, FilterProofs

USE SearchAssumption DEF SearchAssumption

-----------------------------------------------------------------------------
(* The inductive invariant. *)

\* A candidate was seen, is eligible, and is in the list once.
CandidatesInv ==
  /\ \A i \in DOMAIN candidates : /\ candidates[i].asset \in seen
                                  /\ Eligible(kind[candidates[i].asset].facts)
  /\ \A i, j \in DOMAIN candidates :
       candidates[i].asset = candidates[j].asset => i = j

\* An asset that passes for one without faces: it has none, or they were not read.
Faceless(a) == kind[a].faces = <<>> \/ a \in unread

\* Whoever deserves to be a candidate became one; and an eligible asset that
\* passes for one without faces became a preferred one.
SeenInv ==
  \A a \in seen :
    /\ IsCandidate(a) => \E i \in DOMAIN candidates : candidates[i].asset = a
    /\ Eligible(kind[a].facts) /\ Faceless(a)
         => \E i \in DOMAIN candidates : candidates[i] = [asset |-> a, tier |-> "preferred"]

\* Only such an asset became a preferred candidate.
FacesInv ==
  /\ unread \subseteq seen
  /\ \A i \in DOMAIN candidates :
       candidates[i].tier = "preferred" => Faceless(candidates[i].asset)

\* Where the run stands says how many candidates it has.
ProgressInv ==
  /\ pc \in {"pick", "picked"} => Len(candidates) >= MinCandidates
  /\ pc = "noCandidates" => pass = 2 /\ Len(candidates) < MinCandidates

\* The pick is a candidate, and a preferred one if there is any.
PickedInv ==
  pc = "picked" =>
    \E i \in DOMAIN candidates :
      /\ picked = candidates[i].asset
      /\ \/ candidates[i].tier = "preferred"
         \/ \A j \in DOMAIN candidates : candidates[j].tier # "preferred"

Posted == {a \in seen : kind[a].facts.posted}
Named == {a \in seen : ~kind[a].facts.posted /\ kind[a].facts.named}
Nowhere == {a \in seen : /\ ~kind[a].facts.posted /\ ~kind[a].facts.named
                         /\ ~kind[a].facts.located}

\* Every asset that was seen is a candidate or counted as a rejection.
CountInv ==
  /\ Len(candidates) + SumOver(rejected, Rejections) = Cardinality(seen)
  /\ rejected["already_posted"] = Cardinality(Posted)
  /\ rejected["named_person"] = Cardinality(Named)
  /\ rejected["no_location"] = Cardinality(Nowhere)

\* Items of the page that the total does not count yet.
OnThisPage == IF pc = "gather" THEN items ELSE 0

\* The total counts one page before the second search, and every asset seen.
TotalInv ==
  /\ pc \in {"search", "gather"} => total <= (IF pass = 1 THEN 0 ELSE PoolSize)
  /\ Cardinality(seen) <= total + OnThisPage

SearchInv ==
  /\ TypeOK /\ CandidatesInv /\ SeenInv /\ FacesInv /\ CountInv
  /\ ProgressInv /\ PickedInv /\ TotalInv

\* The counts are the ones the run reports.
LEMMA CountIsReport ==
  CountInv /\ TotalInv /\ total \in Nat => EachCountedOnce
BY DEF CountInv, TotalInv, OnThisPage, EachCountedOnce, SumOver, NumberSeen, Posted, Named,
       Nowhere

-----------------------------------------------------------------------------
(* One asset. *)

\* What classify_candidate makes of an asset whose faces were fetched, or were
\* not for the lookup failed.
LEMMA ClassOf ==
  ASSUME NEW k \in Kinds, NEW faces \in {k.faces, <<>>}
  PROVE  LET class == Classify(k.facts, faces) IN
         /\ class \in Tiers \cup Rejections
         /\ class \in Tiers => Eligible(k.facts)
         /\ class = "preferred" <=> Eligible(k.facts) /\ faces = <<>>
         /\ IsPreferred(k.facts, k.faces) => class \in Tiers
         /\ IsAcceptable(k.facts, k.faces) => class \in Tiers
         /\ class = "already_posted" <=> k.facts.posted
         /\ class = "named_person" <=> ~k.facts.posted /\ k.facts.named
         /\ class = "no_location"
              <=> ~k.facts.posted /\ ~k.facts.named /\ ~k.facts.located
<1>. DEFINE class == Classify(k.facts, faces)
<1>1. /\ k.facts \in AssetInfo /\ k.faces \in Seq(BoundingBox)
      /\ faces \in Seq(BoundingBox)
  <2>1. k.facts \in AssetInfo /\ k.faces \in Seq(BoundingBox)
    BY KindAssumption, Zenon DEF KindAssumption
  <2>2. <<>> \in Seq(BoundingBox)
    OBVIOUS
  <2>. QED
    BY <2>1, <2>2
<1>2. /\ class = "preferred" <=> IsPreferred(k.facts, faces)
      /\ class = "acceptable" <=> IsAcceptable(k.facts, faces)
  BY <1>1, TierOfEveryAsset
<1>3. class \in Tiers \cup Rejections
  BY DEF Classify, Tiers, Rejections
<1>4. /\ class = "already_posted" <=> k.facts.posted
      /\ class = "named_person" <=> ~k.facts.posted /\ k.facts.named
      /\ class = "no_location"
              <=> ~k.facts.posted /\ ~k.facts.named /\ ~k.facts.located
  BY <1>1 DEF Classify
<1>5. class \in Tiers => Eligible(k.facts)
  BY <1>2 DEF Tiers, IsPreferred, IsAcceptable
<1>6. /\ class = "preferred" <=> Eligible(k.facts) /\ faces = <<>>
      /\ IsPreferred(k.facts, k.faces) => class \in Tiers
  BY <1>2 DEF IsPreferred, Tiers
<1>7. IsAcceptable(k.facts, k.faces) => class \in Tiers
  BY <1>2 DEF IsPreferred, IsAcceptable, Tiers
<1>. QED
  BY <1>3, <1>4, <1>5, <1>6, <1>7

\* The reasons are six.
LEMMA RejectionsFinite == IsFiniteSet(Rejections)
<1>. DEFINE reason == <<"already_posted", "named_person", "no_location",
                        "missing_dimensions", "per_face_area", "total_face_area">>
<1>1. Rejections = {reason[i] : i \in 1..6}
  <2>1. 1..6 = {1, 2, 3, 4, 5, 6}
    OBVIOUS
  <2>. QED
    BY <2>1 DEF Rejections
<1>2. IsFiniteSet(1..6)
  <2>1. \A n \in Nat : IsFiniteSet(1..n)
    BY FS_Interval
  <2>. QED
    BY <2>1
<1>. HIDE DEF reason
<1>. QED
  BY <1>1, <1>2, ImageFinite

\* One asset more among those seen is counted where it belongs.
LEMMA OneMoreSeen ==
  ASSUME NEW S, IsFiniteSet(S), NEW x, x \notin S, NEW T, T \subseteq S,
         NEW U, U = T \/ U = T \cup {x}
  PROVE  Cardinality(U) = Cardinality(T) + (IF x \in U THEN 1 ELSE 0)
<1>1. IsFiniteSet(T) /\ x \notin T
  BY FS_Subset
<1>2. Cardinality(T) \in Nat
  BY <1>1, FS_CardinalityType
<1>. QED
  BY <1>1, <1>2, FS_AddElement

\* There are as many assets in the list as it is long.
LEMMA AssetsOfCandidates ==
  ASSUME TypeOK, CandidatesInv
  PROVE  LET assets == {c.asset : c \in ToSet(candidates)} IN
         IsFiniteSet(assets) /\ Cardinality(assets) = Len(candidates)
<1>. DEFINE D == DOMAIN candidates
            assets == {c.asset : c \in ToSet(candidates)}
            f == [i \in D |-> candidates[i].asset]
<1>1. D = 1..Len(candidates) /\ Len(candidates) \in Nat
  BY DEF TypeOK
<1>2. assets = {f[i] : i \in D}
  BY DEF ToSet
<1>3. f \in Surjection(D, assets)
  <2>1. f \in [D -> assets] /\ \A t \in assets : \E i \in D : f[i] = t
    <3>. HIDE DEF assets, D
    <3>. QED
      BY <1>2
  <2>. HIDE DEF assets, D, f
  <2>. QED
    BY <2>1 DEF Surjection
<1>4. f \in Injection(D, assets)
  <2>1. \A i, j \in D : f[i] = f[j] => i = j
    BY DEF CandidatesInv
  <2>2. f \in [D -> assets]
    BY <1>3 DEF Surjection
  <2>. HIDE DEF assets, D, f
  <2>. QED
    BY <2>1, <2>2 DEF Injection, IsInjective
<1>5. IsFiniteSet(D) /\ Cardinality(D) = Len(candidates)
  <2>1. \A n \in Nat : IsFiniteSet(1..n) /\ Cardinality(1..n) = n
    BY FS_Interval
  <2>. QED
    BY <1>1, <2>1
<1>6. IsFiniteSet(assets) /\ Cardinality(assets) = Cardinality(D)
  <2>. HIDE DEF assets, D, f
  <2>. QED
    BY <1>3, <1>4, <1>5, FS_Surjection
<1>. QED
  BY <1>5, <1>6

-----------------------------------------------------------------------------
(* The inductive invariant is one. *)

\* At the start nothing was seen.
LEMMA SearchInvInit == Init => SearchInv
<1>. SUFFICES ASSUME Init PROVE SearchInv
  OBVIOUS
<1>1. Cardinality(Assets) \in Nat
  BY FS_CardinalityType
<1>2. TypeOK
  BY <1>1 DEF Init, TypeOK
<1>3. CandidatesInv /\ SeenInv /\ FacesInv /\ ProgressInv /\ PickedInv
  BY DEF Init, CandidatesInv, SeenInv, FacesInv, ProgressInv, PickedInv
<1>4. CountInv
  <2>1. Cardinality({}) = 0
    BY FS_EmptySet
  <2>2. \A reason \in Rejections : rejected[reason] = 0
    BY DEF Init
  <2>3. SumOver(rejected, Rejections) = 0
    BY <2>2, RejectionsFinite, SumZero
  <2>4. Posted = {} /\ Named = {} /\ Nowhere = {}
    BY DEF Init, Posted, Named, Nowhere
  <2>5. Len(candidates) = 0 /\ seen = {}
    BY DEF Init
  <2>. QED
    BY <2>1, <2>2, <2>3, <2>4, <2>5 DEF CountInv, Rejections
<1>5. TotalInv
  BY FS_EmptySet DEF Init, TotalInv, OnThisPage
<1>. QED
  BY <1>2, <1>3, <1>4, <1>5 DEF SearchInv

\* A step that touches neither the assets seen nor the lists.
LEMMA SameLists ==
  ASSUME SearchInv, UNCHANGED <<kind, lists>>
  PROVE  CandidatesInv' /\ SeenInv' /\ FacesInv' /\ CountInv'
<1>1. CandidatesInv' /\ SeenInv' /\ FacesInv'
  BY DEF SearchInv, CandidatesInv, SeenInv, FacesInv, Faceless, IsCandidate, lists
<1>2. CountInv'
  BY DEF SearchInv, CountInv, Posted, Named, Nowhere, lists
<1>. QED
  BY <1>1, <1>2

\* A page is on its way, or the run fails.
LEMMA SearchSmartStep ==
  ASSUME SearchInv, SearchSmart
  PROVE  SearchInv'
<1>1. UNCHANGED <<kind, pass, lists, total, picked>>
      /\ items' = 0 /\ pc = "search" /\ pc' \in {"gather", "immichError"}
  BY DEF SearchSmart
<1>2. TypeOK'
  BY <1>1 DEF SearchInv, TypeOK, Final, lists
<1>3. ProgressInv' /\ PickedInv'
  BY <1>1 DEF ProgressInv, PickedInv, lists
<1>4. TotalInv'
  <2>1. seen' = seen
    BY <1>1 DEF lists
  <2>. QED
    BY <1>1, <2>1 DEF SearchInv, TotalInv, OnThisPage
<1>. QED
  BY <1>1, <1>2, <1>3, <1>4, SameLists DEF SearchInv

\* The end of a page counts the candidates.
LEMMA EndOfPassStep ==
  ASSUME SearchInv, EndOfPass
  PROVE  SearchInv'
<1>1. /\ UNCHANGED <<kind, items, lists, picked>>
      /\ pc = "gather" /\ total' = total + items
      /\ pc' \in {"pick", "search", "noCandidates"}
      /\ pc' = "search" => pass = 1 /\ pass' = 2
      /\ pc' # "search" => pass' = pass
  BY DEF EndOfPass
<1>2. /\ Len(candidates) \in Nat /\ items \in 0..PoolSize /\ total \in Nat
      /\ pass \in {1, 2} /\ Cardinality(seen) <= total + items
      /\ total <= (IF pass = 1 THEN 0 ELSE PoolSize)
  BY <1>1 DEF SearchInv, TypeOK, TotalInv, OnThisPage
<1>3. TypeOK'
  <2>1. total' \in 0..(2 * PoolSize)
    BY <1>1, <1>2
  <2>. QED
    BY <1>1, <2>1 DEF SearchInv, TypeOK, Final, lists
<1>4. ProgressInv' /\ PickedInv'
  BY <1>2 DEF ProgressInv, PickedInv, EndOfPass, lists
<1>5. TotalInv'
  <2>1. seen' = seen
    BY <1>1 DEF lists
  <2>2. pc' = "search" => total' <= PoolSize
    BY <1>1, <1>2
  <2>. QED
    BY <1>1, <1>2, <2>1, <2>2 DEF TotalInv, OnThisPage
<1>. QED
  BY <1>1, <1>3, <1>4, <1>5, SameLists DEF SearchInv

\* The pick falls on a preferred candidate if there is one.
LEMMA PickStep ==
  ASSUME SearchInv, Pick
  PROVE  SearchInv'
<1>1. UNCHANGED <<kind, pass, items, lists, total>>
      /\ pc = "pick" /\ pc' = "picked"
  BY DEF Pick
<1>2. \E i \in DOMAIN candidates :
        /\ picked' = candidates[i].asset
        /\ \/ candidates[i].tier = "preferred"
           \/ \A j \in DOMAIN candidates : candidates[j].tier # "preferred"
  <2>1. CASE \E c \in OfTier("preferred") : picked' = c.asset
    BY <2>1 DEF OfTier, ToSet
  <2>2. CASE OfTier("preferred") = {} /\ \E c \in OfTier("acceptable") : picked' = c.asset
    BY <2>2 DEF OfTier, ToSet
  <2>. QED
    BY <2>1, <2>2 DEF Pick
<1>3. \A i \in DOMAIN candidates : candidates[i].asset \in Assets
  <2>1. \A i \in DOMAIN candidates : candidates[i] \in Candidate
    BY DEF SearchInv, TypeOK
  <2>. QED
    BY <2>1 DEF Candidate
<1>4. TypeOK'
  BY <1>1, <1>2, <1>3 DEF SearchInv, TypeOK, Final, lists
<1>5. ProgressInv' /\ PickedInv'
  BY <1>1, <1>2 DEF SearchInv, ProgressInv, PickedInv, lists
<1>6. TotalInv'
  BY <1>1 DEF SearchInv, TotalInv, OnThisPage, lists
<1>. QED
  BY <1>1, <1>4, <1>5, <1>6, SameLists DEF SearchInv

\* A new asset joins the three sets of those that were turned down for what
\* they are when it is one of them.
LEMMA NewlySeen ==
  ASSUME SearchInv, NEW a \in Assets, a \notin seen, seen' = seen \cup {a}, kind' = kind
  PROVE  /\ Cardinality(seen') = Cardinality(seen) + 1
         /\ Cardinality(Posted') = Cardinality(Posted)
              + (IF kind[a].facts.posted THEN 1 ELSE 0)
         /\ Cardinality(Named') = Cardinality(Named)
              + (IF ~kind[a].facts.posted /\ kind[a].facts.named THEN 1 ELSE 0)
         /\ Cardinality(Nowhere') = Cardinality(Nowhere)
              + (IF /\ ~kind[a].facts.posted /\ ~kind[a].facts.named
                    /\ ~kind[a].facts.located
                 THEN 1 ELSE 0)
<1>1. IsFiniteSet(seen)
  BY FS_Subset DEF SearchInv, TypeOK
<1>2. Cardinality(seen') = Cardinality(seen) + 1
  BY <1>1, OneMoreSeen
<1>3. /\ Posted \subseteq seen /\ (Posted' = Posted \/ Posted' = Posted \cup {a})
      /\ a \in Posted' <=> kind[a].facts.posted
  BY DEF Posted
<1>4. /\ Named \subseteq seen /\ (Named' = Named \/ Named' = Named \cup {a})
      /\ a \in Named' <=> ~kind[a].facts.posted /\ kind[a].facts.named
  BY DEF Named
<1>5. /\ Nowhere \subseteq seen /\ (Nowhere' = Nowhere \/ Nowhere' = Nowhere \cup {a})
      /\ a \in Nowhere' <=> /\ ~kind[a].facts.posted /\ ~kind[a].facts.named
                           /\ ~kind[a].facts.located
  BY DEF Nowhere
<1>6. Cardinality(Posted') = Cardinality(Posted) + (IF a \in Posted' THEN 1 ELSE 0)
  BY <1>1, <1>3, OneMoreSeen
<1>7. Cardinality(Named') = Cardinality(Named) + (IF a \in Named' THEN 1 ELSE 0)
  BY <1>1, <1>4, OneMoreSeen
<1>8. Cardinality(Nowhere') = Cardinality(Nowhere) + (IF a \in Nowhere' THEN 1 ELSE 0)
  BY <1>1, <1>5, OneMoreSeen
<1>. QED
  BY <1>2, <1>3, <1>4, <1>5, <1>6, <1>7, <1>8

\* The counts are natural numbers.
LEMMA CountTypes ==
  ASSUME SearchInv
  PROVE  /\ Cardinality(seen) \in Nat /\ Cardinality(seen) <= Cardinality(Assets)
         /\ Cardinality(Posted) \in Nat /\ Cardinality(Named) \in Nat
         /\ Cardinality(Nowhere) \in Nat /\ Len(candidates) \in Nat
         /\ \A reason \in Rejections : rejected[reason] \in Nat
         /\ SumOver(rejected, Rejections) \in Nat
<1>1. seen \in SUBSET Assets /\ IsFiniteSet(seen)
  BY FS_Subset DEF SearchInv, TypeOK
<1>2. Cardinality(seen) \in Nat /\ Cardinality(seen) <= Cardinality(Assets)
  BY <1>1, FS_Subset, FS_CardinalityType
<1>3. IsFiniteSet(Posted) /\ IsFiniteSet(Named) /\ IsFiniteSet(Nowhere)
  <2>1. Posted \in SUBSET seen /\ Named \in SUBSET seen /\ Nowhere \in SUBSET seen
    BY DEF Posted, Named, Nowhere
  <2>. QED
    BY <1>1, <2>1, FS_Subset
<1>4. \A reason \in Rejections : rejected[reason] \in Nat
  BY DEF SearchInv, TypeOK
<1>5. SumOver(rejected, Rejections) \in Nat
  BY <1>4, RejectionsFinite, SumBounds
<1>. QED
  BY <1>2, <1>3, <1>4, <1>5, FS_CardinalityType DEF SearchInv, TypeOK

\* A new asset becomes the last candidate.
LEMMA NewCandidate ==
  ASSUME SearchInv, NEW a \in Assets, a \notin seen, seen' = seen \cup {a},
         kind' = kind, NEW class \in Tiers, Eligible(kind[a].facts),
         unread' \in {unread, unread \cup {a}}, class = "preferred" <=> Faceless(a)',
         candidates' = Append(candidates, [asset |-> a, tier |-> class]),
         rejected' = rejected
  PROVE  CandidatesInv' /\ SeenInv' /\ FacesInv' /\ CountInv' /\ candidates' \in Seq(Candidate)
<1>. DEFINE n == Len(candidates)
<1>1. candidates \in Seq(Candidate) /\ n \in Nat /\ DOMAIN candidates = 1..n
  BY DEF SearchInv, TypeOK
<1>2. [asset |-> a, tier |-> class] \in Candidate
  BY DEF Candidate
<1>3. /\ candidates' \in Seq(Candidate) /\ DOMAIN candidates' = 1..(n + 1)
      /\ Len(candidates') = n + 1
      /\ candidates'[n + 1] = [asset |-> a, tier |-> class]
      /\ \A i \in 1..n : candidates'[i] = candidates[i]
  BY <1>1, <1>2
<1>4. 1..(n + 1) = 1..n \cup {n + 1} /\ n + 1 \notin 1..n
  BY <1>1
<1>5. \A i \in 1..n : /\ candidates[i].asset \in seen
                      /\ Eligible(kind[candidates[i].asset].facts)
  BY <1>1 DEF SearchInv, CandidatesInv
<1>6. CandidatesInv'
  <2>1. \A i \in 1..(n + 1) : /\ candidates'[i].asset \in seen'
                              /\ Eligible(kind[candidates'[i].asset].facts)
    BY <1>3, <1>4, <1>5
  <2>2. \A i, j \in 1..n : candidates[i].asset = candidates[j].asset => i = j
    BY <1>1 DEF SearchInv, CandidatesInv
  <2>3. ASSUME NEW i \in 1..(n + 1), NEW j \in 1..(n + 1),
               candidates'[i].asset = candidates'[j].asset
        PROVE  i = j
    BY <1>3, <1>4, <1>5, <2>2, <2>3
  <2>. HIDE DEF n
  <2>. QED
    BY <1>3, <2>1, <2>3 DEF CandidatesInv
<1>7. SeenInv'
  <2>1. ASSUME NEW b \in seen
        PROVE  /\ IsCandidate(b) => \E i \in 1..n : candidates[i].asset = b
               /\ Eligible(kind[b].facts) /\ Faceless(b)
                    => \E i \in 1..n : candidates[i] = [asset |-> b, tier |-> "preferred"]
    BY <1>1 DEF SearchInv, SeenInv
  <2>2. ASSUME NEW b \in seen'
        PROVE  /\ IsCandidate(b) => \E i \in 1..(n + 1) : candidates'[i].asset = b
               /\ Eligible(kind[b].facts) /\ Faceless(b)'
                    => \E i \in 1..(n + 1) :
                         candidates'[i] = [asset |-> b, tier |-> "preferred"]
    <3>1. CASE b \in seen
      <4>1. Faceless(b)' <=> Faceless(b)
        BY <3>1 DEF Faceless
      <4>. QED
        BY <1>3, <1>4, <2>1, <3>1, <4>1
    <3>2. CASE b = a
      BY <1>3, <1>4, <3>2
    <3>. QED
      BY <3>1, <3>2
  <2>. HIDE DEF n
  <2>. QED
    BY <1>3, <2>2 DEF SeenInv, IsCandidate
<1>8. CountInv'
  <2>1. /\ Cardinality(seen') = Cardinality(seen) + 1
        /\ Cardinality(Posted') = Cardinality(Posted)
        /\ Cardinality(Named') = Cardinality(Named)
        /\ Cardinality(Nowhere') = Cardinality(Nowhere)
    <3>1. ~kind[a].facts.posted /\ ~kind[a].facts.named /\ kind[a].facts.located
      BY DEF Eligible
    <3>2. /\ Cardinality(Posted') = Cardinality(Posted) + 0
          /\ Cardinality(Named') = Cardinality(Named) + 0
          /\ Cardinality(Nowhere') = Cardinality(Nowhere) + 0
          /\ Cardinality(seen') = Cardinality(seen) + 1
      BY <3>1, NewlySeen
    <3>. QED
      BY <3>2, CountTypes
  <2>2. n + SumOver(rejected, Rejections) = Cardinality(seen)
    BY DEF SearchInv, CountInv
  <2>3. Len(candidates') + SumOver(rejected', Rejections) = Cardinality(seen')
    BY <1>3, <2>1, <2>2, CountTypes
  <2>. QED
    BY <2>1, <2>3 DEF SearchInv, CountInv
<1>9. FacesInv'
  <2>1. ASSUME NEW i \in 1..(n + 1), candidates'[i].tier = "preferred"
        PROVE  Faceless(candidates[i].asset)'
    <3>1. CASE i \in 1..n
      <4>1. Faceless(candidates[i].asset)
        BY <1>1, <1>3, <2>1, <3>1 DEF SearchInv, FacesInv
      <4>. QED
        BY <1>3, <3>1, <4>1 DEF Faceless
    <3>2. CASE i = n + 1
      BY <1>3, <2>1, <3>2 DEF Faceless
    <3>. QED
      BY <1>4, <3>1, <3>2
  <2>2. unread' \subseteq seen'
    BY DEF SearchInv, FacesInv
  <2>. HIDE DEF n
  <2>. QED
    BY <1>3, <2>1, <2>2 DEF FacesInv
<1>. QED
  BY <1>3, <1>6, <1>7, <1>8, <1>9

\* A new asset is one more rejection.
LEMMA NewRejection ==
  ASSUME SearchInv, NEW a \in Assets, a \notin seen, seen' = seen \cup {a},
         kind' = kind, NEW class \in Rejections, ~IsCandidate(a),
         unread' \in {unread, unread \cup {a}}, ~(Eligible(kind[a].facts) /\ Faceless(a)'),
         class = "already_posted" <=> kind[a].facts.posted,
         class = "named_person" <=> ~kind[a].facts.posted /\ kind[a].facts.named,
         class = "no_location"
           <=> ~kind[a].facts.posted /\ ~kind[a].facts.named /\ ~kind[a].facts.located,
         rejected' = [rejected EXCEPT ![class] = @ + 1],
         candidates' = candidates
  PROVE  /\ CandidatesInv' /\ SeenInv' /\ FacesInv' /\ CountInv'
         /\ rejected' \in [Rejections -> 0..Cardinality(Assets)]
<1>1. CandidatesInv'
  BY DEF SearchInv, CandidatesInv
<1>2. SeenInv' /\ FacesInv'
  <2>1. \A b \in seen : Faceless(b)' <=> Faceless(b)
    BY DEF Faceless
  <2>2. SeenInv'
    BY <2>1 DEF SearchInv, SeenInv, IsCandidate
  <2>3. FacesInv'
    BY DEF SearchInv, FacesInv, Faceless
  <2>. QED
    BY <2>2, <2>3
<1>3. /\ DOMAIN rejected = Rejections
      /\ rejected'[class] = rejected[class] + 1
      /\ \A reason \in Rejections \ {class} : rejected'[reason] = rejected[reason]
      /\ DOMAIN rejected' = Rejections
  BY DEF SearchInv, TypeOK
<1>4. \A reason \in Rejections : rejected[reason] \in Nat /\ rejected'[reason] \in Nat
  BY <1>3, CountTypes
<1>5. SumOver(rejected', Rejections) = SumOver(rejected, Rejections) + 1
  <2>. DEFINE h == rejected'
  <2>1. SumOver(h, Rejections) + rejected[class] = SumOver(rejected, Rejections) + h[class]
    <3>1. \A reason \in Rejections : /\ rejected[reason] \in Nat /\ h[reason] \in Nat
                                     /\ reason # class => h[reason] = rejected[reason]
      BY <1>3, <1>4
    <3>. HIDE DEF h
    <3>. QED
      BY <3>1, RejectionsFinite, SumChange
  <2>2. SumOver(h, Rejections) \in Nat
    <3>1. \A reason \in Rejections : h[reason] \in Nat
      BY <1>4
    <3>. HIDE DEF h
    <3>. QED
      BY <3>1, RejectionsFinite, SumBounds
  <2>. QED
    BY <1>3, <1>4, <2>1, <2>2, CountTypes
<1>6. Cardinality(seen') = Cardinality(seen) + 1
  BY NewlySeen
<1>7. CountInv'
  <2>1. /\ rejected'["already_posted"] = Cardinality(Posted')
        /\ rejected'["named_person"] = Cardinality(Named')
        /\ rejected'["no_location"] = Cardinality(Nowhere')
    <3>1. \A reason \in Rejections :
            rejected'[reason] = rejected[reason] + (IF class = reason THEN 1 ELSE 0)
      BY <1>3, <1>4
    <3>2. {"already_posted", "named_person", "no_location"} \subseteq Rejections
      BY DEF Rejections
    <3>3. /\ rejected["already_posted"] = Cardinality(Posted)
          /\ rejected["named_person"] = Cardinality(Named)
          /\ rejected["no_location"] = Cardinality(Nowhere)
      BY DEF SearchInv, CountInv
    <3>. QED
      BY <3>1, <3>2, <3>3, NewlySeen
  <2>2. Len(candidates) + SumOver(rejected, Rejections) = Cardinality(seen)
    BY DEF SearchInv, CountInv
  <2>3. Len(candidates') + SumOver(rejected', Rejections) = Cardinality(seen')
    BY <1>5, <1>6, <2>2, CountTypes
  <2>. QED
    BY <2>1, <2>3 DEF CountInv
<1>8. rejected' \in [Rejections -> 0..Cardinality(Assets)]
  <2>1. /\ Cardinality(seen') \in Nat /\ Cardinality(seen') <= Cardinality(Assets)
        /\ Cardinality(Assets) \in Nat
    <3>1. seen' \in SUBSET Assets
      BY DEF SearchInv, TypeOK
    <3>. QED
      BY <3>1, FS_Subset, FS_CardinalityType
  <2>2. Len(candidates) + SumOver(rejected', Rejections) = Cardinality(seen')
    BY <1>7 DEF CountInv
  <2>. DEFINE h == rejected'
  <2>3. /\ SumOver(h, Rejections) \in Nat
        /\ \A reason \in Rejections : h[reason] <= SumOver(h, Rejections)
    <3>1. \A reason \in Rejections : h[reason] \in Nat
      BY <1>4
    <3>. HIDE DEF h
    <3>. QED
      BY <3>1, RejectionsFinite, SumBounds
  <2>4. \A reason \in Rejections : rejected'[reason] \in 0..Cardinality(Assets)
    <3>1. SumOver(rejected', Rejections) <= Cardinality(seen') /\ Len(candidates) \in Nat
      BY <2>1, <2>2, <2>3, CountTypes
    <3>2. ASSUME NEW reason \in Rejections
          PROVE  rejected'[reason] \in 0..Cardinality(Assets)
      <4>1. rejected'[reason] \in Nat /\ rejected'[reason] <= SumOver(rejected', Rejections)
        BY <1>4, <2>3
      <4>. QED
        BY <2>1, <2>3, <3>1, <4>1
    <3>. QED
      BY <3>2
  <2>. QED
    BY <1>3, <2>4
<1>. QED
  BY <1>1, <1>2, <1>7, <1>8

\* One turn of the loop.
LEMMA GatherStep ==
  ASSUME SearchInv, NEW a \in Assets, Gather(a)
  PROVE  SearchInv'
<1>1. /\ pc = "gather" /\ items \in Nat /\ items < PoolSize /\ items' = items + 1
      /\ UNCHANGED <<kind, pc, pass, total, picked>>
      /\ total \in Nat /\ Cardinality(seen) <= total + items
      /\ total <= (IF pass = 1 THEN 0 ELSE PoolSize)
  BY DEF SearchInv, TypeOK, Gather, TotalInv, OnThisPage
<1>2. ProgressInv' /\ PickedInv'
  BY <1>1 DEF ProgressInv, PickedInv
<1>5. ASSUME Cardinality(seen') <= Cardinality(seen) + 1, Cardinality(seen') \in Nat
      PROVE  TotalInv'
  <2>1. Cardinality(seen') <= total + items'
    BY <1>1, <1>5, CountTypes
  <2>. QED
    BY <1>1, <2>1 DEF TotalInv, OnThisPage
<1>3. CASE a \in seen /\ UNCHANGED lists
  <2>1. TypeOK' /\ seen' = seen
    BY <1>1, <1>3 DEF SearchInv, TypeOK, lists
  <2>2. TotalInv'
    BY <1>5, <2>1, CountTypes
  <2>. QED
    BY <1>1, <1>2, <1>3, <2>1, <2>2, SameLists DEF SearchInv
<1>4. CASE a \notin seen /\ seen' = seen \cup {a} /\ Consider(a)
  <2>1. PICK faces \in {kind[a].faces, <<>>} :
          /\ FetchFaces(a, faces)
          /\ LET class == Classify(kind[a].facts, faces) IN
             \/ /\ class \in Tiers
                /\ candidates' = Append(candidates, [asset |-> a, tier |-> class])
                /\ UNCHANGED rejected
             \/ /\ class \in Rejections
                /\ rejected' = [rejected EXCEPT ![class] = @ + 1]
                /\ UNCHANGED candidates
    BY <1>4 DEF Consider
  <2>. DEFINE class == Classify(kind[a].facts, faces)
  <2>2. kind[a] \in Kinds /\ faces \in {kind[a].faces, <<>>}
    BY DEF SearchInv, TypeOK
  <2>7. /\ unread' \in {unread, unread \cup {a}} /\ unread' \subseteq Assets
        /\ faces = <<>> <=> Faceless(a)'
    <3>1. a \notin unread /\ unread \subseteq Assets
      BY <1>4 DEF SearchInv, FacesInv, TypeOK
    <3>. QED
      BY <1>1, <2>1, <3>1 DEF FetchFaces, Faceless
  <2>8. TotalInv'
    <3>1. Cardinality(seen') = Cardinality(seen) + 1
      BY <1>1, <1>4, NewlySeen
    <3>. QED
      BY <1>5, <3>1, CountTypes
  <2>3. /\ class \in Tiers \cup Rejections
        /\ class \in Tiers => Eligible(kind[a].facts)
        /\ class = "preferred" <=> Eligible(kind[a].facts) /\ faces = <<>>
        /\ IsPreferred(kind[a].facts, kind[a].faces) => class \in Tiers
        /\ IsAcceptable(kind[a].facts, kind[a].faces) => class \in Tiers
        /\ class = "already_posted" <=> kind[a].facts.posted
        /\ class = "named_person" <=> ~kind[a].facts.posted /\ kind[a].facts.named
        /\ class = "no_location"
              <=> ~kind[a].facts.posted /\ ~kind[a].facts.named /\ ~kind[a].facts.located
    BY <2>2, ClassOf
  <2>4. \/ /\ class \in Tiers
           /\ candidates' = Append(candidates, [asset |-> a, tier |-> class])
           /\ UNCHANGED rejected
        \/ /\ class \in Rejections
           /\ rejected' = [rejected EXCEPT ![class] = @ + 1]
           /\ UNCHANGED candidates
    BY <2>1
  <2>. HIDE DEF class
  <2>5. CASE /\ class \in Tiers
             /\ candidates' = Append(candidates, [asset |-> a, tier |-> class])
             /\ UNCHANGED rejected
    <3>1. /\ CandidatesInv' /\ SeenInv' /\ FacesInv' /\ CountInv'
          /\ candidates' \in Seq(Candidate)
      BY <1>1, <1>4, <2>3, <2>5, <2>7, NewCandidate
    <3>2. TypeOK'
      BY <1>1, <1>4, <2>5, <2>7, <3>1 DEF SearchInv, TypeOK
    <3>. QED
      BY <1>2, <2>8, <3>1, <3>2 DEF SearchInv
  <2>6. CASE /\ class \in Rejections
             /\ rejected' = [rejected EXCEPT ![class] = @ + 1]
             /\ UNCHANGED candidates
    <3>1. ~IsCandidate(a)
      <4>1. class \notin Tiers
        BY <2>6 DEF Tiers, Rejections
      <4>. QED
        BY <2>3, <4>1 DEF IsCandidate, Tiers
    <3>4. ~(Eligible(kind[a].facts) /\ Faceless(a)')
      BY <2>3, <2>6, <2>7 DEF Rejections
    <3>2. /\ CandidatesInv' /\ SeenInv' /\ FacesInv' /\ CountInv'
          /\ rejected' \in [Rejections -> 0..Cardinality(Assets)]
      BY <1>1, <1>4, <2>3, <2>6, <2>7, <3>1, <3>4, NewRejection
    <3>3. TypeOK'
      BY <1>1, <1>4, <2>6, <2>7, <3>2 DEF SearchInv, TypeOK
    <3>. QED
      BY <1>2, <2>8, <3>2, <3>3 DEF SearchInv
  <2>. QED
    BY <2>4, <2>5, <2>6
<1>. QED
  BY <1>3, <1>4 DEF Gather

\* Every step keeps the invariant.
LEMMA SearchInvStep == SearchInv /\ [Next]_vars => SearchInv'
<1>. SUFFICES ASSUME SearchInv, [Next]_vars PROVE SearchInv'
  OBVIOUS
<1>1. CASE UNCHANGED vars
  <2>1. TypeOK' /\ ProgressInv' /\ PickedInv' /\ TotalInv'
    BY <1>1 DEF SearchInv, vars, lists, TypeOK, ProgressInv, PickedInv, TotalInv, OnThisPage
  <2>. QED
    BY <1>1, <2>1, SameLists DEF SearchInv, vars
<1>. QED
  BY <1>1, SearchSmartStep, GatherStep, EndOfPassStep, PickStep DEF Next, Done

\* The invariant holds throughout.
LEMMA Invariant == Spec => []SearchInv
BY SearchInvInit, SearchInvStep, PTL DEF Spec

-----------------------------------------------------------------------------
(* The theorems. *)

\* Types; no reason is counted for more assets than there are.
THEOREM TypeCorrect == Spec => []TypeOK
<1>1. SearchInv => TypeOK
  BY DEF SearchInv
<1>. QED
  BY <1>1, Invariant, PTL

\* Whatever fails on the way, the picked asset is no Post yet, shows no named
\* person and has a location.
THEOREM PickedIsEligibleHolds == Spec => []PickedIsEligible
<1>1. SearchInv => PickedIsEligible
  BY DEF SearchInv, PickedInv, CandidatesInv, PickedIsEligible
<1>. QED
  BY <1>1, Invariant, PTL

\* Three different assets stand for election, whatever the passes repeat.
THEOREM ThreeDistinctHolds == Spec => []ThreeDistinct
<1>1. SearchInv => ThreeDistinct
  BY AssetsOfCandidates DEF SearchInv, ProgressInv, ThreeDistinct
<1>. QED
  BY <1>1, Invariant, PTL

\* A run gives up only after both passes, when fewer than three true candidates
\* were among what they returned.
THEOREM NoneOverlookedHolds == Spec => []NoneOverlooked
<1>1. ASSUME SearchInv, pc = "noCandidates"
      PROVE  pass = 2 /\ Cardinality({a \in seen : IsCandidate(a)}) < MinCandidates
  <2>. DEFINE true == {a \in seen : IsCandidate(a)}
              assets == {c.asset : c \in ToSet(candidates)}
  <2>1. pass = 2 /\ Len(candidates) < MinCandidates /\ Len(candidates) \in Nat
    BY <1>1 DEF SearchInv, ProgressInv, TypeOK
  <2>2. IsFiniteSet(assets) /\ Cardinality(assets) = Len(candidates)
    BY <1>1, AssetsOfCandidates DEF SearchInv
  <2>3. true \in SUBSET assets
    BY <1>1 DEF SearchInv, SeenInv, ToSet
  <2>4. Cardinality(true) \in Nat /\ Cardinality(true) <= Cardinality(assets)
    <3>. HIDE DEF true, assets
    <3>. QED
      BY <2>2, <2>3, FS_Subset, FS_CardinalityType
  <2>. QED
    BY <2>1, <2>2, <2>4 DEF MinCandidates
<1>2. SearchInv => NoneOverlooked
  BY <1>1 DEF NoneOverlooked
<1>. QED
  BY <1>2, Invariant, PTL

\* An asset whose faces were read and are there is picked only when every
\* eligible asset that turned up had its faces read and has some.
THEOREM FacesOnlyAsFallbackHolds == Spec => []FacesOnlyAsFallback
<1>1. ASSUME SearchInv, pc = "picked", ~Faceless(picked),
             NEW a \in seen, Eligible(kind[a].facts)
      PROVE  ~Faceless(a)
  <2>1. PICK i \in DOMAIN candidates :
          /\ picked = candidates[i].asset
          /\ \/ candidates[i].tier = "preferred"
             \/ \A j \in DOMAIN candidates : candidates[j].tier # "preferred"
    BY <1>1 DEF SearchInv, PickedInv
  <2>2. candidates[i].tier # "preferred"
    BY <1>1, <2>1 DEF SearchInv, FacesInv
  <2>3. \A j \in DOMAIN candidates : candidates[j].tier # "preferred"
    BY <2>1, <2>2
  <2>. QED
    BY <1>1, <2>3 DEF SearchInv, SeenInv
<1>2. SearchInv => FacesOnlyAsFallback
  BY <1>1 DEF FacesOnlyAsFallback, Faceless
<1>. QED
  BY <1>2, Invariant, PTL

\* The summary a run leaves counts each asset that was returned once, and the
\* reasons that do not hang on the faces exactly; its total, which counts the
\* repeats as well, is never less than the assets.
THEOREM EachCountedOnceHolds == Spec => []EachCountedOnce
<1>1. SearchInv => EachCountedOnce
  BY CountIsReport DEF SearchInv, TypeOK
<1>. QED
  BY <1>1, Invariant, PTL

-----------------------------------------------------------------------------
(* The refinement. *)

EligibleAssets == {a \in Assets : Eligible(kind[a].facts)}

\* Who can be picked was elected by at least three eligible assets.
LEMMA EnoughEligible ==
  ASSUME SearchInv, Len(candidates) >= MinCandidates
  PROVE  Cardinality(EligibleAssets) >= MinCandidates
<1>. DEFINE assets == {c.asset : c \in ToSet(candidates)}
<1>1. IsFiniteSet(assets) /\ Cardinality(assets) = Len(candidates)
  BY AssetsOfCandidates DEF SearchInv
<1>2. assets \in SUBSET EligibleAssets
  BY DEF SearchInv, CandidatesInv, TypeOK, ToSet, EligibleAssets
<1>3. IsFiniteSet(EligibleAssets)
  BY FS_Subset DEF EligibleAssets
<1>4. /\ Cardinality(assets) \in Nat /\ Cardinality(EligibleAssets) \in Nat
      /\ Cardinality(assets) <= Cardinality(EligibleAssets)
  <2>. HIDE DEF assets
  <2>. QED
    BY <1>1, <1>2, <1>3, FS_Subset, FS_CardinalityType
<1>. QED
  BY <1>1, <1>4 DEF SearchInv, TypeOK, MinCandidates

\* The search begins as a selection does.
LEMMA SelectionInit == Init => Selection!Init
BY DEF Init, Selection!Init

\* Each step of the search is the selection, its failure or invisible.
LEMMA SelectionStep ==
  ASSUME SearchInv, [Next]_vars
  PROVE  [Selection!Next]_(Selection!selectionVars)
<1>1. CASE Pick
  <2>1. Len(candidates) >= MinCandidates
    BY <1>1 DEF SearchInv, ProgressInv, Pick
  <2>2. Cardinality(EligibleAssets) >= MinCandidates
    BY <2>1, EnoughEligible
  <2>3. picked' \in EligibleAssets
    BY <1>1 DEF Pick, OfTier, ToSet, SearchInv, CandidatesInv, TypeOK, EligibleAssets
  <2>4. UNCHANGED EligibleAssets
    BY <1>1 DEF Pick, EligibleAssets
  <2>5. pc = "pick" /\ pc' = "picked"
    BY <1>1 DEF Pick
  <2>6. Selection!Cardinality(EligibleAssets) = Cardinality(EligibleAssets)
    BY DEF Cardinality, Selection!Cardinality
  <2>7. Selection!SelectAsset
    BY <2>2, <2>3, <2>4, <2>5, <2>6 DEF Selection!SelectAsset, EligibleAssets
  <2>. QED
    BY <2>7 DEF Selection!Next
<1>2. CASE SearchSmart
  BY <1>2 DEF SearchSmart, Selection!SearchFails, Selection!Next, Selection!selectionVars
<1>3. CASE EndOfPass
  BY <1>3 DEF EndOfPass, Selection!SearchFails, Selection!Next, Selection!selectionVars
<1>4. CASE \E a \in Assets : Gather(a)
  BY <1>4 DEF Gather, Selection!selectionVars
<1>5. CASE UNCHANGED vars
  BY <1>5 DEF vars, Selection!selectionVars
<1>. QED
  BY <1>1, <1>2, <1>3, <1>4, <1>5 DEF Next, Done

\* All that the rest of execute_run sees of the search is one choice among at
\* least three eligible assets, or a failure.
THEOREM ImplementsSelection == Spec => SelectionSpec
<1>1. SearchInv /\ [Next]_vars => [Selection!Next]_(Selection!selectionVars)
  BY SelectionStep
<1>. QED
  BY <1>1, SelectionInit, Invariant, PTL DEF Spec, SelectionSpec, Selection!Spec
=============================================================================
