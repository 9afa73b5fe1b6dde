------------------------- MODULE CaptionCacheProofs -------------------------
(***************************************************************************)
(* Proofs about CaptionCache: what OpenAI is paid for and which caption    *)
(* goes out with a photo, for any number of assets, prompts and wordings,  *)
(* however the metadata is edited and wherever a call ends.                *)
(***************************************************************************)
EXTENDS CaptionCache, FoldTheorems

USE BoundAssumption DEF BoundAssumption

-----------------------------------------------------------------------------
(* The inductive invariant. *)

\* What the call in progress carries along: a caption is written only while
\* its key has none, and from then on it is the stored one.
CallInv ==
  /\ call.pc # "idle" => call.asset \in Assets /\ call.metadata \in Metadata
  /\ call.pc \in {"generate", "insert"} => captions[PromptKey] = NoCaption
  /\ call.pc = "insert" => call.caption \in Caption /\ call.caption.key = PromptKey
  /\ call.pc = "return" => /\ captions[PromptKey] # NoCaption
                           /\ call.caption = captions[PromptKey]
  /\ call.pc = "handOff" =>
       /\ captions[PromptKey] # NoCaption
       /\ call.text = AssembleBufferText(captions[PromptKey], call.metadata)

\* An answer was paid for that is stored, or in hand to be stored.
Gained(k) == captions[k] # NoCaption \/ (call.pc = "insert" /\ k = PromptKey)

\* Every answer that was paid for is accounted for.
PaidInv ==
  \A k \in Keys : paid[k] = IF Gained(k) THEN lost[k] + 1 ELSE lost[k]

\* A run has got its caption from the table.
CaptionedInv == \A k \in captioned : captions[k] # NoCaption

CaptionInv == TypeOK /\ CallInv /\ PaidInv /\ CaptionedInv
-----------------------------------------------------------------------------
(* The bill. *)

\* There are finitely many keys.
LEMMA KeysFinite == IsFiniteSet(Keys)
<1>. DEFINE p == [m \in Metadata |-> RenderPrompts(m)]
<1>1. Prompts = {p[m] : m \in Metadata}
  BY DEF Prompts
<1>2. IsFiniteSet(Prompts)
  BY <1>1, ImageFinite, FiniteAssumption DEF FiniteAssumption
<1>. QED
  BY <1>2, FS_Product, FiniteAssumption DEF Keys, FiniteAssumption

\* What is billed over all keys bounds the bill of each.
LEMMA EachIsBounded ==
  ASSUME TypeOK, MayPay, NEW k \in Keys
  PROVE  paid[k] < MaxPaid
<1>1. SumOver(paid, Keys) < MaxPaid
  BY DEF MayPay, SumOver
<1>2. \A j \in Keys : paid[j] \in Nat
  BY DEF TypeOK
<1>3. SumOver(paid, Keys) \in Nat /\ paid[k] <= SumOver(paid, Keys)
  BY <1>2, KeysFinite, SumBounds
<1>. QED
  BY <1>1, <1>2, <1>3

-----------------------------------------------------------------------------
(* The inductive invariant is one. *)

\* At the start nothing is stored, paid or in progress.
LEMMA CaptionInvInit == Init => CaptionInv
<1>. SUFFICES ASSUME Init PROVE CaptionInv
  OBVIOUS
<1>1. call = NoCall /\ captions = [k \in Keys |-> NoCaption] /\ captioned = {}
  BY DEF Init
<1>2. TypeOK
  <2>1. 0 \in 0..MaxPaid
    OBVIOUS
  <2>. QED
    BY <1>1, <2>1 DEF Init, TypeOK, NoCall
<1>3. CallInv /\ CaptionedInv
  BY <1>1 DEF CallInv, CaptionedInv, NoCall
<1>4. PaidInv
  BY <1>1 DEF Init, PaidInv, Gained, NoCall
<1>. QED
  BY <1>2, <1>3, <1>4 DEF CaptionInv

\* A call in progress works on a key of the table.
LEMMA CallKey ==
  ASSUME CallInv, call.pc # "idle"
  PROVE  PromptKey \in Keys
BY DEF CallInv, PromptKey, Keys, Prompts

\* An edit in Immich touches no call and no row.
LEMMA EditMetadataStep ==
  ASSUME CaptionInv, NEW a \in Assets, EditMetadata(a)
  PROVE  CaptionInv'
<1>1. UNCHANGED <<captions, call, paid, lost, captioned>>
  BY DEF EditMetadata
<1>2. TypeOK'
  BY <1>1 DEF CaptionInv, TypeOK, EditMetadata
<1>3. CallInv' /\ PaidInv' /\ CaptionedInv'
  BY <1>1 DEF CaptionInv, CallInv, PaidInv, Gained, CaptionedInv, PromptKey
<1>. QED
  BY <1>2, <1>3 DEF CaptionInv

\* A call begins with what the search said of the asset.
LEMMA BeginStep ==
  ASSUME CaptionInv, NEW a \in Assets, Begin(a)
  PROVE  CaptionInv'
<1>1. /\ UNCHANGED <<metadata, captions, paid, lost, captioned>>
      /\ call.pc = "idle" /\ metadata[a] \in Metadata
      /\ call' = [NoCall EXCEPT !.pc = "lookup", !.asset = a, !.metadata = metadata[a]]
  BY DEF CaptionInv, TypeOK, Begin, At
<1>2. TypeOK'
  BY <1>1 DEF CaptionInv, TypeOK, NoCall
<1>3. CallInv'
  BY <1>1 DEF CallInv, NoCall
<1>4. PaidInv' /\ CaptionedInv'
  BY <1>1 DEF CaptionInv, PaidInv, Gained, CaptionedInv, NoCall
<1>. QED
  BY <1>2, <1>3, <1>4 DEF CaptionInv

\* A call that ends, with nothing in hand, leaves the table as it was.
LEMMA CallEnds ==
  ASSUME CaptionInv, call.pc # "insert", call' = NoCall,
         UNCHANGED <<metadata, captions, paid, lost, captioned>>
  PROVE  CaptionInv'
<1>1. TypeOK'
  BY DEF CaptionInv, TypeOK, NoCall
<1>2. CallInv'
  BY DEF CallInv, NoCall
<1>3. PaidInv' /\ CaptionedInv'
  BY DEF CaptionInv, PaidInv, Gained, CaptionedInv, NoCall
<1>. QED
  BY <1>1, <1>2, <1>3 DEF CaptionInv

\* A hit returns what is stored; a miss finds that nothing is.
LEMMA LookupStep ==
  ASSUME CaptionInv, Lookup
  PROVE  CaptionInv'
<1>1. /\ UNCHANGED <<metadata, captions, paid, lost, captioned>>
      /\ call.pc = "lookup" /\ PromptKey \in Keys
  BY CallKey DEF CaptionInv, Lookup, At
<1>2. CASE call' = NoCall
  BY <1>1, <1>2, CallEnds
<1>3. CASE /\ captions[PromptKey] # NoCaption
           /\ call' = [call EXCEPT !.pc = "return", !.caption = captions[PromptKey]]
  <2>1. TypeOK'
    BY <1>1, <1>3 DEF CaptionInv, TypeOK
  <2>2. PromptKey' = PromptKey
    BY <1>3 DEF PromptKey, CaptionInv, TypeOK
  <2>3. CallInv'
    BY <1>1, <1>3, <2>2 DEF CaptionInv, CallInv, TypeOK
  <2>4. PaidInv' /\ CaptionedInv'
    BY <1>1, <1>3, <2>2 DEF CaptionInv, TypeOK, PaidInv, Gained, CaptionedInv
  <2>. QED
    BY <2>1, <2>3, <2>4 DEF CaptionInv
<1>4. CASE captions[PromptKey] = NoCaption /\ Goto("generate")
  <2>1. TypeOK'
    BY <1>1, <1>4 DEF CaptionInv, TypeOK, Goto
  <2>2. PromptKey' = PromptKey
    BY <1>4 DEF PromptKey, CaptionInv, TypeOK, Goto
  <2>3. CallInv'
    BY <1>1, <1>4, <2>2 DEF CaptionInv, CallInv, TypeOK, Goto
  <2>4. PaidInv' /\ CaptionedInv'
    BY <1>1, <1>4, <2>2 DEF CaptionInv, TypeOK, PaidInv, Gained, CaptionedInv, Goto
  <2>. QED
    BY <2>1, <2>3, <2>4 DEF CaptionInv
<1>. QED
  BY <1>2, <1>3, <1>4 DEF Lookup

\* An answer is paid for, and in hand.
LEMMA GenerateStep ==
  ASSUME CaptionInv, Generate
  PROVE  CaptionInv'
<1>1. PICK w \in Wordings :
        call' = [call EXCEPT !.pc = "insert",
                             !.caption = [key |-> PromptKey, wording |-> w]]
  BY DEF Generate
<1>2. /\ UNCHANGED <<metadata, captions, lost, captioned>>
      /\ call.pc = "generate" /\ PromptKey \in Keys
      /\ captions[PromptKey] = NoCaption
      /\ paid' = [paid EXCEPT ![PromptKey] = @ + 1]
  BY CallKey DEF CaptionInv, CallInv, Generate, At, Bump
<1>3. [key |-> PromptKey, wording |-> w] \in Caption
  BY <1>2 DEF Caption
<1>4. TypeOK'
  <2>1. paid[PromptKey] < MaxPaid /\ paid[PromptKey] \in Nat
    BY <1>2, EachIsBounded DEF CaptionInv, TypeOK, Generate
  <2>2. paid' \in [Keys -> 0..MaxPaid]
    BY <1>2, <2>1 DEF CaptionInv, TypeOK
  <2>. QED
    BY <1>1, <1>2, <1>3, <2>2 DEF CaptionInv, TypeOK
<1>5. PromptKey' = PromptKey
  BY <1>1 DEF PromptKey, CaptionInv, TypeOK
<1>6. CallInv'
  BY <1>1, <1>2, <1>3, <1>5 DEF CaptionInv, CallInv, TypeOK
<1>7. PaidInv'
  <2>1. call'.pc = "insert"
    BY <1>1 DEF CaptionInv, TypeOK
  <2>2. \A k \in Keys : lost[k] \in Nat /\ paid[k] \in Nat
    BY DEF CaptionInv, TypeOK
  <2>3. paid'[PromptKey] = paid[PromptKey] + 1
        /\ \A k \in Keys \ {PromptKey} : paid'[k] = paid[k]
    BY <1>2 DEF CaptionInv, TypeOK
  <2>. QED
    BY <1>2, <1>5, <2>1, <2>2, <2>3 DEF CaptionInv, PaidInv, Gained
<1>8. CaptionedInv'
  BY <1>2 DEF CaptionInv, CaptionedInv
<1>. QED
  BY <1>4, <1>6, <1>7, <1>8 DEF CaptionInv

\* An answer that cannot be used is paid for and lost.
LEMMA GenerateInVainStep ==
  ASSUME CaptionInv, GenerateInVain
  PROVE  CaptionInv'
<1>1. /\ UNCHANGED <<metadata, captions, captioned>> /\ call' = NoCall
      /\ call.pc = "generate" /\ PromptKey \in Keys
      /\ captions[PromptKey] = NoCaption
      /\ paid' = [paid EXCEPT ![PromptKey] = @ + 1]
      /\ lost' = [lost EXCEPT ![PromptKey] = @ + 1]
  BY CallKey DEF CaptionInv, CallInv, GenerateInVain, At, Bump
<1>2. /\ paid[PromptKey] < MaxPaid /\ paid[PromptKey] = lost[PromptKey]
      /\ paid[PromptKey] \in Nat
  BY <1>1, EachIsBounded DEF CaptionInv, TypeOK, PaidInv, Gained, GenerateInVain
<1>3. TypeOK'
  <2>1. paid' \in [Keys -> 0..MaxPaid] /\ lost' \in [Keys -> 0..MaxPaid]
    BY <1>1, <1>2 DEF CaptionInv, TypeOK
  <2>. QED
    BY <1>1, <2>1 DEF CaptionInv, TypeOK, NoCall
<1>4. CallInv' /\ CaptionedInv'
  BY <1>1 DEF CaptionInv, CallInv, CaptionedInv, NoCall
<1>5. PaidInv'
  <2>1. /\ paid'[PromptKey] = paid[PromptKey] + 1
        /\ lost'[PromptKey] = lost[PromptKey] + 1
        /\ \A k \in Keys \ {PromptKey} : paid'[k] = paid[k] /\ lost'[k] = lost[k]
    BY <1>1 DEF CaptionInv, TypeOK
  <2>2. ASSUME NEW k \in Keys
        PROVE  paid'[k] = IF captions[k] # NoCaption THEN lost'[k] + 1 ELSE lost'[k]
    BY <1>1, <1>2, <2>1 DEF CaptionInv, PaidInv, Gained
  <2>. QED
    BY <1>1, <2>2 DEF PaidInv, Gained, NoCall
<1>. QED
  BY <1>3, <1>4, <1>5 DEF CaptionInv

\* The caption in hand becomes the stored one, or is lost.
LEMMA InsertStep ==
  ASSUME CaptionInv, Insert
  PROVE  CaptionInv'
<1>1. /\ UNCHANGED <<metadata, paid, captioned>>
      /\ call.pc = "insert" /\ PromptKey \in Keys
      /\ captions[PromptKey] = NoCaption
      /\ call.caption \in Caption /\ call.caption.key = PromptKey
      /\ call.caption # NoCaption
  BY CallKey, NoCaptionAssumption DEF CaptionInv, CallInv, Insert, At, NoCaptionAssumption
<1>2. CASE /\ captions' = [captions EXCEPT ![PromptKey] = call.caption]
           /\ Goto("return")
           /\ UNCHANGED lost
  <2>1. /\ captions'[PromptKey] = call.caption
        /\ \A k \in Keys \ {PromptKey} : captions'[k] = captions[k]
    BY <1>1, <1>2 DEF CaptionInv, TypeOK
  <2>2. TypeOK'
    <3>1. captions' \in [Keys -> Caption \cup {NoCaption}]
      BY <1>1, <1>2 DEF CaptionInv, TypeOK
    <3>2. \A k \in Keys : captions'[k] # NoCaption => captions'[k].key = k
      BY <1>1, <2>1 DEF CaptionInv, TypeOK
    <3>. QED
      BY <1>1, <1>2, <3>1, <3>2 DEF CaptionInv, TypeOK, Goto
  <2>3. PromptKey' = PromptKey /\ call'.pc = "return" /\ call'.caption = call.caption
    BY <1>2 DEF PromptKey, CaptionInv, TypeOK, Goto
  <2>4. CallInv'
    <3>1. call'.asset = call.asset /\ call'.metadata = call.metadata
      BY <1>2 DEF CaptionInv, TypeOK, Goto
    <3>. QED
      BY <1>1, <2>1, <2>3, <3>1 DEF CaptionInv, CallInv
  <2>5. PaidInv' /\ CaptionedInv'
    BY <1>1, <1>2, <2>1, <2>3 DEF CaptionInv, TypeOK, PaidInv, Gained, CaptionedInv
  <2>. QED
    BY <2>2, <2>4, <2>5 DEF CaptionInv
<1>3. CASE lost' = Bump(lost) /\ call' = NoCall /\ UNCHANGED captions
  <2>1. /\ lost'[PromptKey] = lost[PromptKey] + 1
        /\ \A k \in Keys \ {PromptKey} : lost'[k] = lost[k]
    BY <1>1, <1>3 DEF CaptionInv, TypeOK, Bump
  <2>2. paid[PromptKey] = lost[PromptKey] + 1
    BY <1>1 DEF CaptionInv, PaidInv, Gained
  <2>3. TypeOK'
    <3>1. lost[PromptKey] + 1 \in 0..MaxPaid
      BY <1>1, <2>2 DEF CaptionInv, TypeOK
    <3>2. lost' \in [Keys -> 0..MaxPaid]
      BY <1>1, <1>3, <3>1 DEF CaptionInv, TypeOK, Bump
    <3>. QED
      BY <1>1, <1>3, <3>2 DEF CaptionInv, TypeOK, NoCall
  <2>4. CallInv' /\ CaptionedInv'
    BY <1>1, <1>3 DEF CaptionInv, CallInv, CaptionedInv, NoCall
  <2>5. ASSUME NEW k \in Keys
        PROVE  paid[k] = IF captions[k] # NoCaption THEN lost'[k] + 1 ELSE lost'[k]
    BY <1>1, <2>1, <2>2 DEF CaptionInv, PaidInv, Gained
  <2>6. PaidInv'
    BY <1>1, <1>3, <2>5 DEF PaidInv, Gained, NoCall
  <2>. QED
    BY <2>3, <2>4, <2>6 DEF CaptionInv
<1>. QED
  BY <1>2, <1>3 DEF Insert

\* The run gets the stored caption, and the text is made of it.
LEMMA ReturnStep ==
  ASSUME CaptionInv, Return
  PROVE  CaptionInv'
<1>1. /\ UNCHANGED <<metadata, captions, paid, lost>>
      /\ call.pc = "return" /\ PromptKey \in Keys
      /\ call.metadata \in Metadata
      /\ captions[PromptKey] # NoCaption /\ call.caption = captions[PromptKey]
      /\ captioned' = captioned \cup {PromptKey}
      /\ call' = [call EXCEPT !.pc = "handOff",
                              !.text = AssembleBufferText(call.caption, call.metadata)]
  BY CallKey DEF CaptionInv, CallInv, Return, At
<1>2. call.caption \in Caption
  BY <1>1 DEF CaptionInv, TypeOK
<1>3. TypeOK'
  <2>1. AssembleBufferText(call.caption, call.metadata) \in Text
    BY <1>1, <1>2 DEF Text
  <2>. QED
    BY <1>1, <2>1 DEF CaptionInv, TypeOK
<1>4. /\ PromptKey' = PromptKey /\ call'.pc = "handOff"
      /\ call'.asset = call.asset /\ call'.metadata = call.metadata
      /\ call'.text = AssembleBufferText(call.caption, call.metadata)
  BY <1>1 DEF PromptKey, CaptionInv, TypeOK
<1>5. AssembleBufferText(captions[PromptKey], call.metadata)'
        = AssembleBufferText(call.caption, call.metadata)
  BY <1>1, <1>4 DEF AssembleBufferText
<1>6. CallInv'
  BY <1>1, <1>4, <1>5 DEF CaptionInv, CallInv
<1>7. PaidInv' /\ CaptionedInv'
  BY <1>1, <1>4 DEF CaptionInv, PaidInv, Gained, CaptionedInv
<1>. QED
  BY <1>3, <1>6, <1>7 DEF CaptionInv

\* Every step keeps the invariant.
LEMMA CaptionInvStep == CaptionInv /\ [Next]_vars => CaptionInv'
<1>. SUFFICES ASSUME CaptionInv, [Next]_vars PROVE CaptionInv'
  OBVIOUS
<1>1. ASSUME NEW a \in Assets, EditMetadata(a) \/ Begin(a)
      PROVE  CaptionInv'
  BY <1>1, EditMetadataStep, BeginStep
<1>2. CASE GenerateFails
  BY <1>2, CallEnds DEF GenerateFails, At
<1>3. CASE HandOff
  BY <1>3, CallEnds DEF HandOff, At
<1>4. CASE UNCHANGED vars
  BY <1>4 DEF vars, CaptionInv, TypeOK, CallInv, PaidInv, Gained, CaptionedInv, PromptKey
<1>. QED
  BY <1>1, <1>2, <1>3, <1>4, LookupStep, GenerateStep, GenerateInVainStep, InsertStep,
     ReturnStep DEF Next

\* The invariant holds throughout.
LEMMA Invariant == Spec => []CaptionInv
BY CaptionInvInit, CaptionInvStep, PTL DEF Spec

-----------------------------------------------------------------------------
(* The theorems. *)

\* Types; a stored caption is filed under its own key.
THEOREM TypeCorrect == Spec => []TypeOK
<1>1. CaptionInv => TypeOK
  BY DEF CaptionInv
<1>. QED
  BY <1>1, Invariant, PTL

\* OpenAI is paid once for an asset and prompt, and once more for each answer
\* lost on its way to the table.
THEOREM PaidOnceHolds == Spec => []PaidOnce
<1>1. CaptionInv => PaidOnce
  BY DEF CaptionInv, TypeOK, PaidInv, PaidOnce
<1>. QED
  BY <1>1, Invariant, PTL

\* The text handed to Buffer is of one piece: the caption was written for this
\* asset, its date and the location that is appended.
THEOREM CaptionIsForItsKeyHolds == Spec => []CaptionIsForItsKey
<1>1. CaptionInv => CaptionIsForItsKey
  <2>. SUFFICES ASSUME CaptionInv, call.pc = "handOff"
                PROVE  /\ call.text.caption.key = PromptKey
                       /\ call.text.location = call.text.caption.key[2].location
    BY DEF CaptionIsForItsKey, At
  <2>1. /\ PromptKey \in Keys /\ captions[PromptKey].key = PromptKey
        /\ call.text = AssembleBufferText(captions[PromptKey], call.metadata)
    BY CallKey DEF CaptionInv, CallInv, TypeOK
  <2>. QED
    BY <2>1 DEF AssembleBufferText, PromptKey, RenderPrompts
<1>. QED
  BY <1>1, Invariant, PTL

\* Once a run has got the caption of a key, nothing is paid for that key again.
THEOREM RepickIsFreeHolds == Spec => RepickIsFree
<1>1. ASSUME CaptionInv, [Next]_vars, NEW k \in captioned
      PROVE  paid'[k] = paid[k]
  <2>1. captions[k] # NoCaption /\ k \in Keys
    BY <1>1 DEF CaptionInv, CaptionedInv, TypeOK
  <2>2. ASSUME Generate \/ GenerateInVain
        PROVE  paid' = Bump(paid) /\ captions[PromptKey] = NoCaption
    BY <1>1, <2>2 DEF CaptionInv, CallInv, Generate, GenerateInVain, At
  <2>3. CASE Generate \/ GenerateInVain
    <3>1. k # PromptKey /\ DOMAIN paid = Keys
      BY <1>1, <2>1, <2>2, <2>3 DEF CaptionInv, TypeOK
    <3>. QED
      BY <2>1, <2>2, <2>3, <3>1 DEF Bump
  <2>4. CASE ~(Generate \/ GenerateInVain)
    BY <1>1, <2>4 DEF Next, vars, EditMetadata, Begin, Lookup, GenerateFails, Insert,
                      Return, HandOff
  <2>. QED
    BY <2>3, <2>4
<1>2. CaptionInv /\ [Next]_vars => [\A k \in captioned : paid'[k] = paid[k]]_vars
  BY <1>1
<1>. QED
  BY <1>2, Invariant, PTL DEF Spec, RepickIsFree

\* A stored caption is never replaced.
THEOREM StoredCaptionStandsHolds == Spec => StoredCaptionStands
<1>1. ASSUME CaptionInv, [Next]_vars, NEW k \in Keys, captions[k] # NoCaption
      PROVE  captions'[k] = captions[k]
  <2>1. CASE Insert
    <3>1. captions[PromptKey] = NoCaption /\ DOMAIN captions = Keys
      BY <1>1, <2>1 DEF CaptionInv, TypeOK, CallInv, Insert, At
    <3>. QED
      BY <1>1, <2>1, <3>1 DEF Insert
  <2>2. CASE ~Insert
    BY <1>1, <2>2 DEF Next, vars, EditMetadata, Begin, Lookup, Generate, GenerateInVain,
                      GenerateFails, Return, HandOff
  <2>. QED
    BY <2>1, <2>2
<1>2. CaptionInv /\ [Next]_vars
        => [\A k \in Keys : captions[k] # NoCaption => captions'[k] = captions[k]]_vars
  BY <1>1
<1>. QED
  BY <1>2, Invariant, PTL DEF Spec, StoredCaptionStands
=============================================================================
