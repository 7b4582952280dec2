----------------------------- MODULE MCUtterances -----------------------------
(* What is said, from the recogniser's results to the end of its translation: *)
(* the segments of the page and the jobs of the dispatcher, checked in one    *)
(* run.  They share nothing: a behaviour is one of SpeechSegments or one of   *)
(* TranslationDispatcher, and the other stays at its initial state.           *)
EXTENDS SpeechSegments, TranslationDispatcher

VARIABLE which \* the component of this behaviour

Everything == AllUpsets

-----------------------------------------------------------------------------
MCInit == which \in {"segments", "jobs"} /\ SegmentsInit /\ Init

MCNext ==
  /\ UNCHANGED which
  /\ \/ which = "segments" /\ SegmentsNext /\ UNCHANGED vars
     \/ which = "jobs" /\ Next /\ UNCHANGED segment_vars

\* The fairness of each component, in its own behaviours.
InSegments(A) == which = "segments" /\ A
InJobs(A) == which = "jobs" /\ A

MCSpec ==
  /\ MCInit /\ [][MCNext]_<<which, segment_vars, vars>>
  /\ WF_segment_vars(InSegments(ForceFinalize))
  /\ WF_segment_vars(InSegments(\E u \in wire : Build(u)))
  /\ WF_segment_vars(InSegments(HandleEvent))
  /\ WF_segment_vars(InSegments(Noticed))
  /\ WF_segment_vars(InSegments(ClearScreen))
  /\ WF_segment_vars(InSegments(ClearTracking))
  /\ WF_vars(InJobs(SubmitStep))
  /\ WF_vars(InJobs(WorkerStep))
  /\ \A j \in Jobs : WF_vars(InJobs(JobStep(j)))
  /\ \A j \in Jobs, l \in Lines : WF_vars(InJobs(LineStep(j, l)))
===============================================================================
