---------------------------- MODULE MCCaptionCache ----------------------------
(* A model-checking instance of CaptionCache: metadata that renders to      *)
(* three prompts.  Singapore may be known as a city or as a country, and a  *)
(* date from the photo or from the file.                                    *)
EXTENDS CaptionCache, TLC

Photo(city, country, taken, created) ==
  [city |-> city, country |-> country, taken |-> taken, created |-> created]

MCMetadata ==
  { Photo("Lisbon", "Portugal", "monday", "tuesday"),
    Photo("Singapore", Unknown, "monday", "tuesday"),
    Photo(Unknown, "Singapore", Unknown, "monday"),
    Photo(Unknown, "Portugal", "monday", "monday") }

Symmetry == Permutations(Assets) \cup Permutations(Wordings)
=============================================================================
