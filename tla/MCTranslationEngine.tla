------------------------- MODULE MCTranslationEngine -------------------------
(* The engine and its cache alone: texts are alike, and so are settings.       *)
EXTENDS TranslationEngine

EngineSymmetry == Permutations(CacheKeys) \cup Permutations(Signatures)
=============================================================================
