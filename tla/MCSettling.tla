------------------------------ MODULE MCSettling ------------------------------
(* The recognition of the page and the subtitle router, checked in one run for *)
(* what must happen in the end.  They share nothing: a behaviour is one of     *)
(* RecognitionSession or one of SubtitleRouter, and the other stays at its     *)
(* initial state, where its fairness asks for no step and no property for      *)
(* anything.                                                                   *)
EXTENDS RecognitionSession

CONSTANTS
  MaxSequence, RecordsMax, Slots, SourceTtl, TranslationTtl, ShowSource, ShowTranslations,
  TranslationEnabled, AllowEarlyReplace, SyncExpiry, KeepTranslation, QueueBound

VARIABLES
  which, \* the component of this behaviour
  core, translation_queue, overlay, last_final, job, shown \* those of SubtitleRouter

subtitle_vars == <<core, translation_queue, overlay, last_final, job, shown>>
all_vars == <<which, vars, subtitle_vars>>

Subtitles == INSTANCE SubtitleRouter

-----------------------------------------------------------------------------
MCInit == which \in {"recognition", "subtitles"} /\ Init /\ Subtitles!Init

MCNext ==
  /\ UNCHANGED which
  /\ \/ which = "recognition" /\ Next /\ UNCHANGED subtitle_vars
     \/ which = "subtitles" /\ Subtitles!Next /\ UNCHANGED vars

MCSpec ==
  /\ MCInit /\ [][MCNext]_all_vars
  /\ Fairness
  /\ Subtitles!Fairness

-----------------------------------------------------------------------------
(* The properties of the router: RecognitionSession keeps them by standing still *)

BlockClears == Subtitles!BlockClears
DeferredFinalSettles == Subtitles!DeferredFinalSettles
===============================================================================
