-------------------------------- MODULE MCObs --------------------------------
(* Captions of payloads, to OBS itself, without delay and with deduplication.  *)
EXTENDS ObsCaptions, TLC

CONSTANTS a, b

Texts2 == {a, b}
Sym == Permutations(Texts2)

OneSetting ==
  {[mode |-> "payload", native |-> TRUE, mirror |-> FALSE, partials |-> TRUE, delay |-> FALSE,
    clear |-> TRUE, dedupe |-> TRUE, host |-> "h1"]}

SameMode == settings'.mode = settings.mode
==============================================================================
