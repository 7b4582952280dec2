------------------------------ MODULE MCSessions ------------------------------
(* A session, the translation engine with its cache and the limits of a        *)
(* provider, checked in one run.  They share nothing: a behaviour is one of    *)
(* RuntimeSession, of ProviderLimits or of TranslationEngine; the variables of *)
(* the others stay at an initial state.                                        *)
EXTENDS RuntimeSession, ProviderLimits, TranslationEngine, TLC

CONSTANTS a, b  \* cache keys, signatures and two of the lines

SessionSymmetry == Permutations({a, b})

VARIABLE which \* the component of this behaviour

-----------------------------------------------------------------------------
MCInit ==
  /\ SessionInit /\ LimitsInit /\ EngineInit
  /\ which \in {"session", "gate", "engine"}
  /\ which # "gate" => limit = 0
  /\ which # "engine" => setup.size = 1

MCNext ==
  /\ UNCHANGED which
  /\ \/ which = "session" /\ ExitNext /\ UNCHANGED <<limitVars, engineVars>>
     \/ which = "engine" /\ EngineNext /\ UNCHANGED <<session_vars, limitVars>>
     \/ which = "gate" /\ LimitsNext /\ UNCHANGED <<session_vars, engineVars>>

MCSpec == MCInit /\ [][MCNext]_<<which, session_vars, limitVars, engineVars>>

\* Bounds on the sessions: the worker is not told to stop and start again while requests are made,
\* a second page sends one update, and the pages none when the window closes.
BoundedSession ==
  /\ \A p \in Pages : pages[p].generation = 0 /\ (requests["exit"].pc # "none" => pages[p].sent = 0)
  /\ pages[2].sent <= 1

\* Bound on the engine: the second session is one after at most one change of the settings.
BoundedEngine == session.count = 2 => saves <= 1

\* Bound on the limits.
BoundedGate == allowedAt <= 4

===============================================================================
