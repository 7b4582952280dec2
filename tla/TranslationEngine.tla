--------------------------- MODULE TranslationEngine ---------------------------
(***************************************************************************)
(* TranslationEngine with its cache: the settings that are saved at any    *)
(* moment, the lines of the dispatcher's jobs that plan under the lock of  *)
(* the engine, fetch outside of it and take it again to store the answer,  *)
(* and the controller that makes an engine for each session, as the start  *)
(* of the program does.                                                    *)
(*                                                                         *)
(* A signature stands for the provider settings, lines and prompts that    *)
(* build_settings_signature collects; a key of the cache holds none of     *)
(* them, so that the cache is emptied when they change.  An entry says     *)
(* under which signature its text was made.                                *)
(***************************************************************************)
EXTENDS Naturals, Sequences, SequencesExt, FiniteSets

CONSTANTS
  CacheKeys,   \* provider, languages and text
  Signatures,  \* settings of the translation
  Sizes,       \* what max_entries may be set to, all below DEFAULT_MAX_ENTRIES
  MaxLines,    \* bound on the lines under way
  MaxSaves,    \* bound on the settings saved
  MaxSessions  \* bound on the sessions started

ASSUME EngineAssumption == IsFiniteSet(CacheKeys) /\ Sizes \subseteq Nat \ {0}

VARIABLES
  setup,   \* the translation section of the configuration
  engine,  \* settings_signature, and of the cache: entries, order, limits, dirty, loaded
  disk,    \* translation_cache.json
  lines,   \* lines under way
  session, \* whether the dispatcher is there, and how many there were
  saves,
  kept     \* what the file held when the session began, and under which signature

engineVars == <<setup, engine, disk, lines, session, saves, kept>>

Nothing == <<>>
LinesUnderWay == 1..MaxLines

NewEngine ==
  [signature |-> "unset", entries |-> Nothing, order |-> <<>>, limit |-> Cardinality(CacheKeys),
   enabled |-> TRUE, persist |-> TRUE, dirty |-> FALSE, loaded |-> FALSE]

Configurations == [signature : Signatures, enabled : BOOLEAN, persist : BOOLEAN, size : Sizes]

\* What build_settings_signature tells apart; the settings of the cache are not in it.
SignatureOf(configuration) == configuration.signature

EngineInit ==
  /\ setup \in {c \in Configurations : c.enabled /\ c.persist}
  /\ engine = NewEngine
  /\ disk = Nothing
  /\ lines = [l \in LinesUnderWay |-> [pc |-> "free"]]
  /\ session = [on |-> FALSE, count |-> 0]
  /\ saves = 0
  /\ kept = [entries |-> Nothing, signature |-> "unset"]

-----------------------------------------------------------------------------
(* The cache: operations from an engine record to the next *)

Keyed(e) == DOMAIN e.entries
WithEntry(f, k, v) == [x \in DOMAIN f \cup {k} |-> IF x = k THEN v ELSE f[x]]

TouchAtEnd(e, k) == [e EXCEPT !.order = Append(@, k)]

Touch(e, k) == [e EXCEPT !.order = Append(RemoveFirst(@, k), k)]

\* The oldest go until the limit holds.
Evict(e) ==
  LET surplus == Len(e.order) - e.limit
      old == {e.order[i] : i \in 1..surplus}
  IN IF surplus <= 0 THEN e
     ELSE [e EXCEPT !.order = SubSeq(@, surplus + 1, Len(@)), !.dirty = TRUE,
                    !.entries = [k \in DOMAIN e.entries \ old |-> e.entries[k]]]

Insert(e, k, v) ==
  LET stored == [e EXCEPT !.entries = WithEntry(@, k, v)]
  IN IF k \in Keyed(e)
     THEN IF e.entries[k] = v THEN Touch(e, k) ELSE Touch(stored, k)
     ELSE Evict([stored EXCEPT !.order = Append(@, k)])

\* The file is read in no order; what it holds fits.
Loaded(e) ==
  IF e.loaded THEN e
  ELSE [e EXCEPT !.loaded = TRUE, !.entries = disk, !.order = SetToSeq(DOMAIN disk)]

Cleared(e) == [e EXCEPT !.entries = Nothing, !.order = <<>>, !.dirty = FALSE]

\* maybe_flush: at most every two seconds, so that it may or may not be time.
Flushed(e, file) ==
  IF e.persist /\ e.dirty
  THEN {[engine |-> [e EXCEPT !.dirty = FALSE], disk |-> e.entries], [engine |-> e, disk |-> file]}
  ELSE {[engine |-> e, disk |-> file]}

\* update_settings; a cache that is switched off is emptied, on disk too while it persists.
UpdatedCache(e, file) ==
  IF ~setup'.enabled
  THEN {[engine |-> [Cleared(e) EXCEPT !.enabled = FALSE], disk |-> IF e.persist THEN Nothing ELSE file]}
  ELSE LET sized == Evict([e EXCEPT !.enabled = TRUE, !.limit = setup'.size])
       IN Flushed([sized EXCEPT !.persist = setup'.persist], file)

LiveSettingsKeepingEntries ==
  LET known == [engine EXCEPT !.signature = SignatureOf(setup')]
  IN UpdatedCache(IF engine.signature = "unset" THEN Cleared(Loaded(known)) ELSE known, disk)

\* apply_live_settings: clear loads the file first and then empties both.
LiveSettings ==
  LET changed == engine.signature # SignatureOf(setup')
      known == [engine EXCEPT !.signature = SignatureOf(setup')]
  IN IF changed
     THEN UpdatedCache(Cleared(Loaded(known)), IF engine.persist THEN Nothing ELSE disk)
     ELSE UpdatedCache(engine, disk)

ApplyLiveSettings == \E after \in LiveSettings : engine' = after.engine /\ disk' = after.disk

-----------------------------------------------------------------------------
(* Settings and sessions *)

\* Saved while a line has the lock of the engine the settings wait for the next job.
SaveSettings ==
  /\ saves < MaxSaves /\ saves' = saves + 1
  /\ setup' \in Configurations
  /\ \/ ApplyLiveSettings
     \/ session.on /\ UNCHANGED <<engine, disk>>
  /\ UNCHANGED <<lines, session, kept>>

StartController ==
  /\ ~session.on /\ session.count < MaxSessions
  /\ session' = [on |-> TRUE, count |-> session.count + 1]
  /\ kept' = [entries |-> disk, signature |-> SignatureOf(setup)]
  /\ UNCHANGED <<setup, lines, saves>>
  /\ ApplyLiveSettings

\* The lines are aborted, and a new engine waits for the next session.  An aborted line that was
\* just storing its answer may still write the file; the next engine empties it all the same.
StopController ==
  /\ session.on
  /\ session' = [session EXCEPT !.on = FALSE]
  /\ lines' = [l \in LinesUnderWay |-> [pc |-> "free"]]
  /\ engine' = NewEngine
  /\ UNCHANGED <<setup, disk, saves, kept>>

-----------------------------------------------------------------------------
(* The lines *)

\* run_job: settings applied and lines prepared under one lock.
Prepare(l) ==
  /\ session.on /\ lines[l].pc = "free"
  /\ UNCHANGED <<setup, session, saves, kept>>
  /\ ApplyLiveSettings
  /\ \E k \in CacheKeys : lines' = [lines EXCEPT ![l] = [pc |-> "plan", key |-> k, made |-> SignatureOf(setup)]]

\* plan_line_translate: a hit ends the line.
Plan(l) ==
  /\ lines[l].pc = "plan"
  /\ LET hit == engine.enabled /\ lines[l].key \in Keyed(engine)
     IN /\ lines' = IF hit THEN [lines EXCEPT ![l] = [pc |-> "free"]] ELSE [lines EXCEPT ![l].pc = "fetch"]
        /\ engine' = IF hit THEN Touch(engine, lines[l].key) ELSE engine
  /\ UNCHANGED <<setup, disk, session, saves, kept>>

Entry(l) == [made |-> lines[l].made, late |-> lines[l].made # engine.signature]

\* execute_line_fetch_shared with an answer; the entry is marked when the settings are others by now.
Store(l) ==
  LET k == lines[l].key
      known == k \in Keyed(engine) /\ engine.entries[k] = Entry(l)
      stored == [Insert(engine, k, Entry(l)) EXCEPT !.dirty = @ \/ ~known]
  IN /\ lines[l].pc = "fetch"
     /\ lines' = [lines EXCEPT ![l] = [pc |-> "free"]]
     /\ IF engine.enabled
        THEN \E after \in Flushed(stored, disk) : engine' = after.engine /\ disk' = after.disk
        ELSE UNCHANGED <<engine, disk>>
     /\ UNCHANGED <<setup, session, saves, kept>>

\* No answer, a failure or the time of the line is over.
Fails(l) ==
  /\ lines[l].pc = "fetch"
  /\ lines' = [lines EXCEPT ![l] = [pc |-> "free"]]
  /\ UNCHANGED <<setup, engine, disk, session, saves, kept>>

EngineNext ==
  \/ SaveSettings \/ StartController \/ StopController
  \/ \E l \in LinesUnderWay : Prepare(l) \/ Plan(l) \/ Store(l) \/ Fails(l)

EngineSpec == EngineInit /\ [][EngineNext]_engineVars

-----------------------------------------------------------------------------
(* Properties *)

\* The queue of the keys and the map agree, the limit holds, and a cache that is off is empty,
\* also after an answer that was asked for before it was switched off or made smaller.  Though a key
\* does not tell the settings apart, the cache holds a text made under others than the engine's only
\* if its call was under way when they changed.
CacheIsSound ==
  /\ ToSet(engine.order) = Keyed(engine) /\ IsInjective(engine.order)
  /\ Len(engine.order) <= engine.limit
  /\ ~engine.enabled => Keyed(engine) = {}
  /\ \A k \in Keyed(engine) : engine.entries[k].made # engine.signature => engine.entries[k].late

\* "Save translation cache to disk between sessions" (en.json:636), "Persistent translation cache"
\* (README.md:66): while the settings are as they were, nothing is fetched that the file held when
\* the session began.
SavedIsServed ==
  \A l \in LinesUnderWay :
    lines[l].pc = "fetch" /\ setup.enabled /\ setup.persist /\ saves = 0
      => ~(lines[l].key \in DOMAIN kept.entries /\ kept.signature = lines[l].made)
=============================================================================
