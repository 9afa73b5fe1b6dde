---------------------------- MODULE CaptionCache ----------------------------
(***************************************************************************)
(* Steps 10 and 12 of execute_run (pipeline.rs): get_or_generate_caption   *)
(* (caption/mod.rs) looks the caption up in the captions table, else has   *)
(* OpenAI write it, stores it and returns it; assemble_buffer_text makes   *)
(* it the text of the post.  CONTEXT.md calls the table the only stateful  *)
(* checkpoint a run preserves across retries.                              *)
(*                                                                         *)
(* The prompt names the city, the country and the date of the photo, and   *)
(* tells OpenAI which location will be appended; with the asset it is the  *)
(* key of the table.  Somebody may edit the asset in Immich at any time.   *)
(* A caption is what OpenAI was shown and which of several texts it chose; *)
(* hashtags and alt text go along with it.  The worker is serial, so one   *)
(* call is in progress at most.                                            *)
(***************************************************************************)
EXTENDS Integers, FiniteSetsExt, Sequences

CONSTANTS
  Assets,
  Metadata,      \* what Immich may know of an asset: see MetadataAssumption
  Unknown,       \* a name or date Immich does not know
  Wordings,      \* the answers OpenAI may give to one prompt
  NoCaption,
  MaxPaid        \* bound: answers of OpenAI that are billed, over all keys

\* taken is the date in the photo's EXIF data, created that of the file.  The
\* filter has rejected every asset without a city and a country.
ASSUME MetadataAssumption ==
  \A m \in Metadata : /\ DOMAIN m = {"city", "country", "taken", "created"}
                      /\ m.city # Unknown \/ m.country # Unknown
ASSUME FiniteAssumption == IsFiniteSet(Assets) /\ IsFiniteSet(Metadata)
ASSUME BoundAssumption == MaxPaid \in Nat

VARIABLES
  metadata,      \* what Immich knows of each asset now
  captions,      \* the captions table
  call,          \* steps 10 to 12 in progress: see NoCall
  paid,          \* answers OpenAI was paid for, for each key
  lost,          \* those that never reached the table
  captioned      \* keys for which a run has got a caption

vars == <<metadata, captions, call, paid, lost, captioned>>

Known(names) == SelectSeq(names, LAMBDA name : name # Unknown)

\* render_prompts: the location as render_location writes it, and the date.
RenderPrompts(m) ==
  [location |-> Known(<<m.city, m.country>>),
   date |-> IF m.taken # Unknown THEN m.taken ELSE m.created]

\* assemble_buffer_text: the caption with its location suffix.
AssembleBufferText(caption, m) ==
  [caption |-> caption, location |-> Known(<<m.city, m.country>>)]

Prompts == {RenderPrompts(m) : m \in Metadata}
Keys == Assets \X Prompts
Caption == [key : Keys, wording : Wordings]
Text == {AssembleBufferText(c, m) : c \in Caption, m \in Metadata}

ASSUME NoCaptionAssumption == NoCaption \notin Caption

\* The metadata is what the search returned: a snapshot the run works with to
\* its end.
NoCall == [pc |-> "idle", asset |-> Unknown, metadata |-> Unknown,
           caption |-> NoCaption, text |-> NoCaption]

PromptKey == <<call.asset, RenderPrompts(call.metadata)>>

TypeOK ==
  /\ metadata \in [Assets -> Metadata]
  /\ captions \in [Keys -> Caption \cup {NoCaption}]
  /\ \A k \in Keys : captions[k] # NoCaption => captions[k].key = k
  /\ call \in [pc : {"idle", "lookup", "generate", "insert", "return", "handOff"},
               asset : Assets \cup {Unknown}, metadata : Metadata \cup {Unknown},
               caption : Caption \cup {NoCaption}, text : Text \cup {NoCaption}]
  /\ paid \in [Keys -> 0..MaxPaid]
  /\ lost \in [Keys -> 0..MaxPaid]
  /\ captioned \subseteq Keys

Init ==
  /\ metadata \in [Assets -> Metadata]
  /\ captions = [k \in Keys |-> NoCaption]
  /\ call = NoCall
  /\ paid = [k \in Keys |-> 0]
  /\ lost = [k \in Keys |-> 0]
  /\ captioned = {}

At(pc) == call.pc = pc
Goto(pc) == call' = [call EXCEPT !.pc = pc]
Bump(count) == [count EXCEPT ![PromptKey] = @ + 1]

MayPay == MapThenSumSet(LAMBDA k : paid[k], Keys) < MaxPaid

-----------------------------------------------------------------------------

\* Somebody edits the asset in Immich.
EditMetadata(a) ==
  /\ \E m \in Metadata \ {metadata[a]} : metadata' = [metadata EXCEPT ![a] = m]
  /\ UNCHANGED <<captions, call, paid, lost, captioned>>

\* A run picked the asset and goes on with what the search said of it.
Begin(a) ==
  /\ At("idle")
  /\ call' = [NoCall EXCEPT !.pc = "lookup", !.asset = a, !.metadata = metadata[a]]
  /\ UNCHANGED <<metadata, captions, paid, lost, captioned>>

\* Mutant: every lookup misses.
LookupMisses ==
  /\ At("lookup")
  /\ \/ Goto("generate")
     \/ call' = NoCall
  /\ UNCHANGED <<metadata, captions, paid, lost, captioned>>

\* caption_lookup: a hit returns early; an error ends the call.
Lookup ==
  /\ At("lookup")
  /\ \/ /\ captions[PromptKey] # NoCaption
        /\ call' = [call EXCEPT !.pc = "return", !.caption = captions[PromptKey]]
     \/ captions[PromptKey] = NoCaption /\ Goto("generate")
     \/ call' = NoCall
  /\ UNCHANGED <<metadata, captions, paid, lost, captioned>>

\* openai::generate gets a caption.
Generate ==
  /\ At("generate")
  /\ MayPay
  /\ \E w \in Wordings :
       call' = [call EXCEPT !.pc = "insert",
                            !.caption = [key |-> PromptKey, wording |-> w]]
  /\ paid' = Bump(paid)
  /\ UNCHANGED <<metadata, captions, lost, captioned>>

\* An answer that was billed and cannot be used: unreadable, or the process
\* stops while it is on the way.
GenerateInVain ==
  /\ At("generate")
  /\ MayPay
  /\ paid' = Bump(paid)
  /\ lost' = Bump(lost)
  /\ call' = NoCall
  /\ UNCHANGED <<metadata, captions, captioned>>

\* OpenAI refuses, or cannot be reached.
GenerateFails ==
  /\ At("generate")
  /\ call' = NoCall
  /\ UNCHANGED <<metadata, captions, paid, lost, captioned>>

\* Mutant: the caption is returned although it was not stored.
InsertOrIgnore ==
  /\ At("insert")
  /\ \/ captions' = [captions EXCEPT ![PromptKey] = call.caption] /\ UNCHANGED lost
     \/ lost' = Bump(lost) /\ UNCHANGED captions
  /\ Goto("return")
  /\ UNCHANGED <<metadata, paid, captioned>>

\* Mutant: the row is keyed by the metadata of now.
InsertUnderNewPrompt ==
  /\ At("insert")
  /\ captions' = [captions EXCEPT ![<<call.asset, RenderPrompts(metadata[call.asset])>>]
                                  = call.caption]
  /\ Goto("return")
  /\ UNCHANGED <<metadata, paid, lost, captioned>>

\* caption_insert, an INSERT OR REPLACE: when it fails, or the process stops
\* before it, the caption in hand is dropped.
Insert ==
  /\ At("insert")
  /\ \/ /\ captions' = [captions EXCEPT ![PromptKey] = call.caption]
        /\ Goto("return")
        /\ UNCHANGED lost
     \/ lost' = Bump(lost) /\ call' = NoCall /\ UNCHANGED captions
  /\ UNCHANGED <<metadata, paid, captioned>>

\* Mutant: the asset is fetched again for the location of the post.
ReturnAndRefetch ==
  /\ At("return")
  /\ captioned' = captioned \cup {PromptKey}
  /\ call' = [call EXCEPT !.pc = "handOff",
                          !.text = AssembleBufferText(call.caption, metadata[call.asset])]
  /\ UNCHANGED <<metadata, captions, paid, lost>>

\* The run has got its caption; step 12 makes the text of it.
Return ==
  /\ At("return")
  /\ captioned' = captioned \cup {PromptKey}
  /\ call' = [call EXCEPT !.pc = "handOff",
                          !.text = AssembleBufferText(call.caption, call.metadata)]
  /\ UNCHANGED <<metadata, captions, paid, lost>>

\* Step 13 sends the text, and the run ends one way or another.
HandOff ==
  /\ At("handOff")
  /\ call' = NoCall
  /\ UNCHANGED <<metadata, captions, paid, lost, captioned>>

Next ==
  \/ \E a \in Assets : EditMetadata(a) \/ Begin(a)
  \/ Lookup
  \/ Generate \/ GenerateInVain \/ GenerateFails
  \/ Insert
  \/ Return
  \/ HandOff

Spec == Init /\ [][Next]_vars

-----------------------------------------------------------------------------
(* Properties *)

\* OpenAI is paid once for an asset and prompt, and once more for each
\* answer that was lost on its way to the table.
PaidOnce == \A k \in Keys : paid[k] <= 1 + lost[k]

\* A run that re-picks an asset after a failed hand-off does not pay again:
\* once any run has got the caption of a key, its count stands still.
RepickIsFree == [][\A k \in captioned : paid'[k] = paid[k]]_vars

\* The text handed to Buffer is of one piece, however the metadata changed
\* since and before: its caption was written for this very asset, for the date
\* and location the run read, and with the promise of the location appended.
CaptionIsForItsKey ==
  At("handOff") =>
    /\ call.text.caption.key = PromptKey
    /\ call.text.location = call.text.caption.key[2].location

\* INSERT OR REPLACE never replaces: a stored caption is never reworded.
StoredCaptionStands ==
  [][\A k \in Keys : captions[k] # NoCaption => captions'[k] = captions[k]]_vars
=============================================================================
