------------------------------ MODULE MCCaptions ------------------------------
(* The subtitle router, the captions of OBS, the overlay and the status of the  *)
(* session, checked in one run.  They share nothing: a behaviour is one of      *)
(* SubtitleRouter, EventHub, StatusBroadcast or ObsCaptions; the others stay at *)
(* an initial state.                                                            *)
EXTENDS MCSubtitleRouter, EventHub, StatusBroadcast, ObsCaptions

CONSTANTS a, b \* captions

VARIABLE which \* the component of this behaviour

\* Captions of the source, of a payload, of both sinks, with and without delay and deduplication;
\* a mirror alone; and another host to move to.
Conf(mode, native, mirror, delay, dedupe, host) ==
  [mode |-> mode, native |-> native, mirror |-> mirror, partials |-> TRUE, delay |-> delay,
   clear |-> TRUE, dedupe |-> dedupe, host |-> host]
ObsSettings ==
  {Conf("source", TRUE, FALSE, FALSE, TRUE, "h1"), Conf("source", TRUE, FALSE, FALSE, TRUE, "h2"),
   Conf("payload", TRUE, TRUE, TRUE, FALSE, "h1"), Conf("payload", TRUE, FALSE, FALSE, TRUE, "h1"),
   Conf("payload", FALSE, FALSE, TRUE, FALSE, "h1")}

-----------------------------------------------------------------------------
MCInit ==
  /\ Init /\ HubInit /\ StatusInit /\ ObsInit
  /\ which \in {"subtitles", "hub", "beat", "obs"}
  /\ which # "hub" => page = NewPage
  /\ which # "beat" => status = "idle"
  /\ which # "obs" => settings = Conf("source", TRUE, FALSE, FALSE, TRUE, "h1")

MCNext ==
  /\ UNCHANGED which
  /\ \/ which = "subtitles" /\ Next /\ UNCHANGED <<hubVars, statusVars, obsVars>>
     \/ which = "obs" /\ ObsNext /\ UNCHANGED <<vars, hubVars, statusVars>>
     \/ which = "hub" /\ HubNext /\ UNCHANGED <<vars, statusVars, obsVars>>
     \/ which = "beat" /\ StatusNext /\ UNCHANGED <<vars, hubVars, obsVars>>

MCSpec == MCInit /\ [][MCNext]_<<which, vars, hubVars, statusVars, obsVars>>

CaptionSymmetry == Permutations({a, b})

\* Bounds on ObsCaptions: the user keeps the mode, and little is published once something was lost.
SameMode == settings'.mode = settings.mode
BoundedObs == excused # {} => published <= 2

\* Bound on EventHub: of what the properties make an exception for, one kind happens.
BoundedHub == blamed \subseteq {"dropped"} \/ blamed \subseteq {"overtaken"}
===============================================================================
