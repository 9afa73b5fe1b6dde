-------------------------- MODULE CandidateSearch --------------------------
(***************************************************************************)
(* Steps 5 to 8 of execute_run (pipeline.rs): search Immich for recent     *)
(* assets, gather the candidates, search once more without a date when     *)
(* they are fewer than three, and pick one.  Module Pipeline has all this  *)
(* as the one action SelectAsset.                                          *)
(*                                                                         *)
(* Immich is external: a search returns any items in any order, at most    *)
(* PoolSize of them, the same asset in both passes or twice in a page.     *)
(* The items are revealed one at a time, as the loop over them gets there. *)
(***************************************************************************)
EXTENDS CandidateFilter

CONSTANTS
  Assets,      \* the library
  Kinds,       \* what an asset may be: its facts and the faces it really has
  NoAsset,
  PoolSize     \* PipelineSettings.candidate_pool_size

ASSUME SearchAssumption ==
  IsFiniteSet(Assets) /\ NoAsset \notin Assets /\ PoolSize \in Nat
ASSUME KindAssumption ==
  \A k \in Kinds : k.facts \in AssetInfo /\ k.faces \in Seq(BoundingBox)

VARIABLES
  kind,          \* the kind of each asset, fixed during a run
  pc,
  pass,          \* 1: taken after the lookback date; 2: without a date
  items,         \* items of the page consumed in this pass
  seen,          \* seen_ids
  candidates,    \* asset and tier, in the order they were found
  rejected,      \* reject_counts: how many assets for each reason
  unread,        \* assets whose fetch_faces failed: a warning in the log
  total,         \* total_returned: the lengths of the pages, added up
  picked

lists == <<seen, candidates, rejected, unread>>
vars == <<kind, pc, pass, items, lists, total, picked>>

Final == {"picked", "noCandidates", "immichError"}

Candidate == [asset : Assets, tier : Tiers]

TypeOK ==
  /\ kind \in [Assets -> Kinds]
  /\ pc \in {"search", "gather", "pick"} \cup Final
  /\ pass \in {1, 2}
  /\ items \in 0..PoolSize
  /\ seen \subseteq Assets
  /\ candidates \in Seq(Candidate)
  /\ rejected \in [Rejections -> 0..Cardinality(Assets)]
  /\ unread \subseteq Assets
  /\ total \in 0..(2 * PoolSize)
  /\ picked \in Assets \cup {NoAsset}

Init ==
  /\ kind \in [Assets -> Kinds]
  /\ pc = "search"
  /\ pass = 1
  /\ items = 0
  /\ seen = {}
  /\ candidates = <<>>
  /\ rejected = [reason \in Rejections |-> 0]
  /\ unread = {}
  /\ total = 0
  /\ picked = NoAsset

MinCandidates == 3

-----------------------------------------------------------------------------

\* Mutant: when the second search fails the run makes do with what it has.
SearchSmartMakingDo ==
  /\ pc = "search"
  /\ items' = 0
  /\ pc' \in {"gather", IF candidates = <<>> THEN "immichError" ELSE "pick"}
  /\ UNCHANGED <<kind, pass, lists, total, picked>>

\* search_smart answers, or fails and with it the run.
SearchSmart ==
  /\ pc = "search"
  /\ items' = 0
  /\ pc' \in {"gather", "immichError"}
  /\ UNCHANGED <<kind, pass, lists, total, picked>>

\* fetch_faces: when it fails the asset counts as one without faces.
FetchFaces(a, faces) ==
  \/ faces = kind[a].faces /\ UNCHANGED unread
  \/ faces = <<>> /\ unread' = unread \cup {a}

\* classify_candidate on what was fetched: one more candidate or rejection.
Consider(a) ==
  \E faces \in {kind[a].faces, <<>>} :
    /\ FetchFaces(a, faces)
    /\ LET class == Classify(kind[a].facts, faces) IN
       \/ /\ class \in Tiers
          /\ candidates' = Append(candidates, [asset |-> a, tier |-> class])
          /\ UNCHANGED rejected
       \/ /\ class \in Rejections
          /\ rejected' = [rejected EXCEPT ![class] = @ + 1]
          /\ UNCHANGED candidates

\* Mutant: seen_ids starts afresh in the second pass.
GatherPerPass(a) ==
  /\ pc = "gather"
  /\ items < PoolSize
  /\ items' = items + 1
  /\ seen' = IF items = 0 THEN {a} ELSE seen \cup {a}
  /\ IF a \in seen /\ items > 0
     THEN UNCHANGED <<candidates, rejected, unread>>
     ELSE Consider(a)
  /\ UNCHANGED <<kind, pc, pass, total, picked>>

\* Mutant: an item seen before is counted as one more rejection.
GatherCountingRepeats(a) ==
  /\ pc = "gather"
  /\ items < PoolSize
  /\ items' = items + 1
  /\ seen' = seen \cup {a}
  /\ IF a \in seen
     THEN /\ rejected' = [rejected EXCEPT !["already_posted"] = @ + 1]
          /\ UNCHANGED <<candidates, unread>>
     ELSE Consider(a)
  /\ UNCHANGED <<kind, pc, pass, total, picked>>

\* One turn of gather_candidates' loop: an item seen before is skipped.
Gather(a) ==
  /\ pc = "gather"
  /\ items < PoolSize
  /\ items' = items + 1
  /\ \/ a \in seen /\ UNCHANGED lists
     \/ a \notin seen /\ seen' = seen \cup {a} /\ Consider(a)
  /\ UNCHANGED <<kind, pc, pass, total, picked>>

\* Mutant: the first pass alone decides.
EndOfOnlyPass ==
  /\ pc = "gather"
  /\ total' = total + items
  /\ pc' = IF Len(candidates) < MinCandidates THEN "noCandidates" ELSE "pick"
  /\ UNCHANGED <<kind, pass, items, lists, picked>>

\* Mutant: the second pass is searched over and over.
EndOfPassForever ==
  /\ pc = "gather"
  /\ total' = items
  /\ IF Len(candidates) < MinCandidates
     THEN pc' = "search" /\ pass' = 2
     ELSE pc' = "pick" /\ UNCHANGED pass
  /\ UNCHANGED <<kind, items, lists, picked>>

\* Steps 6 and 7, once a page is consumed: the total counts every item of it,
\* those seen before too.
EndOfPass ==
  /\ pc = "gather"
  /\ total' = total + items
  /\ \/ /\ Len(candidates) >= MinCandidates
        /\ pc' = "pick" /\ UNCHANGED pass
     \/ /\ Len(candidates) < MinCandidates /\ pass = 1
        /\ pc' = "search" /\ pass' = 2
     \/ /\ Len(candidates) < MinCandidates /\ pass = 2
        /\ pc' = "noCandidates" /\ UNCHANGED pass
  /\ UNCHANGED <<kind, items, lists, picked>>

OfTier(tier) == {c \in ToSet(candidates) : c.tier = tier}

\* Mutant: the pick ignores the tiers.
PickAny ==
  /\ pc = "pick"
  /\ \E c \in ToSet(candidates) : picked' = c.asset
  /\ pc' = "picked"
  /\ UNCHANGED <<kind, pass, items, lists, total>>

\* Step 8: a random preferred candidate, else a random acceptable one.
Pick ==
  /\ pc = "pick"
  /\ \/ \E c \in OfTier("preferred") : picked' = c.asset
     \/ OfTier("preferred") = {} /\ \E c \in OfTier("acceptable") : picked' = c.asset
  /\ pc' = "picked"
  /\ UNCHANGED <<kind, pass, items, lists, total>>

Done == pc \in Final /\ UNCHANGED vars

Next ==
  \/ SearchSmart
  \/ \E a \in Assets : Gather(a)
  \/ EndOfPass
  \/ Pick
  \/ Done

Spec == Init /\ [][Next]_vars

\* Immich answers each call at last, and a page has PoolSize items at most.
FairSpec == Spec /\ WF_vars(Next)

-----------------------------------------------------------------------------
(* Properties *)

IsCandidate(a) ==
  \/ IsPreferred(kind[a].facts, kind[a].faces)
  \/ IsAcceptable(kind[a].facts, kind[a].faces)

\* Whatever fails on the way, the picked asset is no Post yet, shows no named
\* person and has a location.
PickedIsEligible == pc = "picked" => Eligible(kind[picked].facts)

\* Three different assets stand for election, although both passes and a
\* single page may list the same one again.
ThreeDistinct ==
  pc \in {"pick", "picked"} =>
    Cardinality({c.asset : c \in ToSet(candidates)}) >= MinCandidates

\* A run ends in NoCandidates only after both passes, and only when what
\* they returned held fewer than three true candidates.
NoneOverlooked ==
  pc = "noCandidates" =>
    pass = 2 /\ Cardinality({a \in seen : IsCandidate(a)}) < MinCandidates

\* An asset that shows faces, and whose faces were read, is published only
\* when every eligible asset that turned up in either pass shows faces and had
\* them read.  An asset whose faces were not read passes for one without, is
\* as good as those, and may be published whatever it shows (faces_unknown).
FacesOnlyAsFallback ==
  pc = "picked" /\ kind[picked].faces # <<>> /\ picked \notin unread
    => \A a \in seen : Eligible(kind[a].facts) => kind[a].faces # <<>> /\ a \notin unread

NumberSeen(fact(_)) == Cardinality({a \in seen : fact(kind[a].facts)})

\* The counts of the summary a run leaves when it gives up: each asset that was
\* returned is a candidate or rejected, and counted once, whichever pass brought
\* it up; the reasons that do not hang on the faces are counted exactly, although
\* a face lookup may have failed on the way.  The total beside them is of items,
\* with those that both passes or one page repeat: it is never less than the
\* counts add up to, and may be more.
EachCountedOnce ==
  /\ Len(candidates) + MapThenSumSet(LAMBDA reason : rejected[reason], Rejections)
       = Cardinality(seen)
  /\ rejected["already_posted"] = NumberSeen(LAMBDA facts : facts.posted)
  /\ rejected["named_person"] =
       NumberSeen(LAMBDA facts : ~facts.posted /\ facts.named)
  /\ rejected["no_location"] =
       NumberSeen(LAMBDA facts : ~facts.posted /\ ~facts.named /\ ~facts.located)
  /\ pc \in {"pick", "picked", "noCandidates"} => Cardinality(seen) <= total

Selection ==
  INSTANCE AssetSelection WITH
    eligible <- {a \in Assets : Eligible(kind[a].facts)},
    outcome <- CASE pc = "picked" -> "selected"
                 [] pc \in {"noCandidates", "immichError"} -> "failed"
                 [] OTHER -> "selecting",
    asset <- picked

\* Whatever the pages repeat and whichever calls fail, all that the rest of
\* execute_run gets to see of the search is one choice among at least three
\* eligible assets, or a failure: module Pipeline may have it as one action.
SelectionSpec == Selection!Spec

\* The search settles: two passes, then an asset or an error.
Settles == <>(pc \in Final)

-----------------------------------------------------------------------------

\* CONTEXT.md: to qualify as a Candidate an asset must pass the layered
\* face-area filter.
PickedPassesFaceFilter == pc = "picked" => IsCandidate(picked)
=============================================================================
