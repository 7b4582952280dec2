----------------------------- MODULE MCTranscripts -----------------------------
(* From the update of a page to the end of its translation: the ingest path and *)
(* the dispatcher, checked in one run.  They share nothing: a behaviour is one  *)
(* of SpeechIngest or one of TranslationDispatcher, and the other stays at its  *)
(* initial state.                                                               *)
EXTENDS SpeechIngest, TranslationDispatcher

VARIABLE which \* the component of this behaviour

MCInit == which \in {"ingest", "jobs"} /\ IngestInit /\ Init

MCNext ==
  /\ UNCHANGED which
  /\ \/ which = "ingest" /\ IngestNext /\ UNCHANGED vars
     \/ which = "jobs" /\ Next /\ UNCHANGED ingest_vars

MCSpec == MCInit /\ [][MCNext]_<<which, ingest_vars, vars>>

\* Bounds: page 2 sends one update, and job 3 (it fills the queue and takes a
\* slot) gets no further than the question before its provider call.
Bounded ==
  /\ pages[2].sent <= 1
  /\ \A j \in Jobs : j > 2 => \A l \in Lines : line[j][l] \in {"idle", "gate"}

NoKeys == {}
===============================================================================
