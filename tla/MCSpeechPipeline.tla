--------------------------- MODULE MCSpeechPipeline ---------------------------
(* Constants for checking SpeechPipeline.  a and b are lines of one block and    *)
(* interchangeable.  The third line, which fills the queue, is not combined with *)
(* a reset or a recovery.                                                        *)
EXTENDS SpeechPipeline, TLC

CONSTANTS a, b, c

MCPhrases == {a, b, c}
MCBlocks == {{a, b}, {c}}
MCSymmetry == Permutations({a, b})

Bounded ==
  upsets > 0 => c \notin keys \union Waiting \union {pump.phrase} /\ enq[c].pc = "none" /\ fetches[c] = 0
OneLine == keys \subseteq {a}
=============================================================================
