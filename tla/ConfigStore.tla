------------------------------ MODULE ConfigStore ------------------------------
(***************************************************************************)
(* ConfigStore: the document in memory and config.toml, and everyone who   *)
(* writes a whole document to them: the dashboard with its Save, its Start *)
(* and its switch of the language, the worker page, which saves what it    *)
(* fetched before with its own settings put in, and the check for updates, *)
(* which patches two fields.  A start of the program migrates, imports,    *)
(* repairs and normalises what the file holds.                             *)
(*                                                                         *)
(* A document is reduced to the parts that its normalisers relate to each  *)
(* other or that several of the writers own.                               *)
(***************************************************************************)
EXTENDS Naturals, Sequences, SequencesExt

CONSTANTS
  Slots,     \* CANONICAL_SLOT_IDS, in order
  OldFiles,  \* documents of earlier versions that the first start may find
  LineEdits, \* lists of translation lines the user may make
  OrderEdits,\* display orders the user may make
  MaxEdits,  \* bound on the edits of the user
  MaxWrites, \* bound on the writes of the file
  MaxStarts  \* bound on the starts of the program

VARIABLES
  store,   \* document in memory, <<>> while the program is not running
  file,    \* config.toml, <<>> when there is none
  page,    \* what the dashboard shows, <<>> before it has loaded
  saved,   \* lastSavedConfig of the dashboard
  worker,  \* the worker page: its copy of the document, and the one it is about to send
  updater, \* whether releases have been asked for
  edits, writes, starts,
  blamed   \* what has happened that the properties make an exception for

configVars == <<store, file, page, saved, worker, updater, edits, writes, starts, blamed>>

Absent == <<>>
Current == 8
DefaultPause == 1
PauseFloor == 1

Line(slot, lang, on) == [slot |-> slot, lang |-> lang, on |-> on]

\* An empty list stands for lines that are missing, 0 for a number and "none" for filters that are.
Defaults ==
  [version |-> Current, lines |-> <<Line(Slots[1], "en", TRUE)>>, targets |-> <<"en">>,
   order |-> <<"source", Slots[1]>>, pause |-> DefaultPause, hold |-> 0, filters |-> "none",
   keep |-> TRUE, mode |-> "google", browser |-> "default", language |-> "",
   checks |-> TRUE, latest |-> ""]

Bare == [Defaults EXCEPT !.lines = <<>>, !.targets = <<>>, !.order = <<>>, !.pause = 0]

-----------------------------------------------------------------------------
(* Normalisation *)

Enabled(lines) == SelectSeq(lines, LAMBDA line : line.on)

Deduplicated(s) == FoldLeft(LAMBDA found, x : IF x \in ToSet(found) THEN found ELSE Append(found, x), <<>>, s)

\* normalize_display_order on one item: kept, a language's first line, or nothing.
Place(item, lines) ==
  LET speaking == SelectSeq(lines, LAMBDA line : line.lang = item)
  IN CASE item = "source" \/ \E i \in DOMAIN lines : lines[i].slot = item -> <<item>>
       [] speaking # <<>> -> <<speaking[1].slot>>
       [] OTHER -> <<>>

SlotsOf(lines) == [i \in DOMAIN lines |-> lines[i].slot]

DisplayOrder(order, lines) ==
  LET given == IF order = <<>> THEN <<"source", Slots[1]>> ELSE order
      placed == FlattenSeq([i \in DOMAIN given |-> Place(given[i], Enabled(lines))])
  IN Deduplicated(placed \o <<"source">> \o SlotsOf(Enabled(lines)))

\* Lines with a place of their own in Slots; without any, one for each target language.
TranslationLines(lines, targets) ==
  LET languages == IF targets = <<>> THEN <<"en">> ELSE targets
  IN IF lines # <<>> THEN lines ELSE [i \in DOMAIN languages |-> Line(Slots[i], languages[i], TRUE)]

TargetLanguages(lines) ==
  LET enabled == Enabled(lines)
      languages == Deduplicated([i \in DOMAIN enabled |-> enabled[i].lang])
  IN IF languages = <<>> THEN <<"en">> ELSE languages

\* normalize_translation_config
Translation(doc) ==
  LET lines == TranslationLines(doc.lines, doc.targets)
  IN [doc EXCEPT !.lines = lines, !.targets = TargetLanguages(lines)]

AtLeast(n, floor) == IF n < floor THEN floor ELSE n

\* normalize_subtitle_lifecycle: the pause of the lifecycle, or else the hold of the realtime
\* section, and both are the same from then on.
Pause(doc) == AtLeast(IF doc.pause > 0 THEN doc.pause ELSE IF doc.hold > 0 THEN doc.hold ELSE DefaultPause, PauseFloor)

\* normalize_updates_config: as long as releases were never asked for, the check is on.
Checks(doc) == doc.checks \/ doc.latest = ""

\* normalize_config_payload: the display order is made from the lines as they come, before the
\* translation section is normalised.
Normalized(doc) ==
  [Translation(doc) EXCEPT !.version = Current, !.pause = Pause(doc), !.hold = Pause(doc),
                           !.checks = Checks(doc), !.order = DisplayOrder(doc.order, doc.lines)]

\* normalizeConfigPayload of the dashboard.
Shown(doc) ==
  [Translation(doc) EXCEPT
     !.order = IF doc.order = <<>> THEN <<"source", Slots[1]>> ELSE doc.order,
     !.filters = IF doc.filters = "none" THEN "default" ELSE doc.filters,
     !.mode = "google", !.pause = Pause(doc), !.hold = Pause(doc)]

\* migrate_sst_payload
Migrated(doc) == [Translation(doc) EXCEPT !.version = Current]

\* apply_voicesub_import_rules: the realtime section goes with what only SST had.
Imported(doc) == [doc EXCEPT !.filters = "none", !.hold = 0]

RepairedAlways(doc, version) == [doc EXCEPT !.keep = TRUE]

\* repair_legacy_keep_completed_false
Repaired(doc, version) == IF version < Current THEN [doc EXCEPT !.keep = TRUE] ELSE doc

Loaded(doc) ==
  LET current == IF doc.version < Current THEN Migrated(doc) ELSE doc
  IN Normalized(Repaired(Imported(current), doc.version))

-----------------------------------------------------------------------------
(* The file *)

\* save: a file next to it is written and renamed over it.  The write may fail, and a rename that is
\* refused is repeated after the old file has been removed.
Written(doc) ==
  /\ writes < MaxWrites /\ writes' = writes + 1
  /\ \/ file' = doc /\ blamed' = blamed \ {"failed"}
     \/ file' = file /\ blamed' = blamed \cup {"failed"}
     \/ file' = Absent /\ blamed' = blamed \cup {"failed"}

\* apply_save_payload: every section of the document is replaced, and stays so when the write fails.
Saves(doc) == store' = Normalized(doc) /\ Written(Normalized(doc))

ConfigInit ==
  /\ store = Absent /\ page = Absent /\ saved = Absent
  /\ file \in {Absent} \cup OldFiles
  /\ worker = [copy |-> Absent, sends |-> Absent]
  /\ updater = FALSE
  /\ edits = 0 /\ writes = 0 /\ starts = 0 /\ blamed = {}

\* load_or_create
Start ==
  /\ store = Absent /\ starts < MaxStarts
  /\ starts' = starts + 1
  /\ store' = IF file = Absent THEN Defaults ELSE Loaded(file)
  /\ file' = store' /\ blamed' = blamed \ {"failed"}
  /\ UNCHANGED <<page, saved, worker, updater, edits, writes>>

\* The program ends, or crashes at any moment: a save that was not renamed yet has left the old file.
Stop ==
  /\ store # Absent
  /\ store' = Absent /\ page' = Absent /\ saved' = Absent
  /\ worker' = [copy |-> Absent, sends |-> Absent] /\ updater' = FALSE
  /\ UNCHANGED <<file, edits, writes, starts, blamed>>

-----------------------------------------------------------------------------
(* The dashboard *)

Bootstrap ==
  /\ store # Absent /\ page = Absent
  /\ page' = Shown(store) /\ saved' = Shown(store)
  /\ UNCHANGED <<store, file, worker, updater, edits, writes, starts, blamed>>

Edit ==
  /\ page # Absent /\ edits < MaxEdits
  /\ edits' = edits + 1
  /\ \/ \E lines \in LineEdits : page' = [page EXCEPT !.lines = lines]
     \/ \E order \in OrderEdits : page' = [page EXCEPT !.order = order]
     \/ page' = [page EXCEPT !.filters = "own"]
     \/ page' = [page EXCEPT !.keep = FALSE]
     \/ page' = [page EXCEPT !.pause = 2]
  /\ UNCHANGED <<store, file, saved, worker, updater, writes, starts, blamed>>

\* handleSave; an answer that reports an error leaves the page as it is.
SavePage ==
  /\ store # Absent /\ page # Absent
  /\ Saves(Shown(page))
  /\ IF file' = store'
     THEN page' = Shown(store') /\ saved' = Shown(store')
     ELSE UNCHANGED <<page, saved>>
  /\ UNCHANGED <<worker, updater, edits, starts>>

\* handleStart: the session starts with what the page shows, saved or not.
StartSession ==
  /\ store # Absent /\ page # Absent
  /\ Saves(Shown(page))
  /\ UNCHANGED <<page, saved, worker, updater, edits, starts>>

\* persistUiLanguage: what was saved last, with the language put in.
SwitchLanguage ==
  /\ store # Absent /\ page # Absent
  /\ LET doc == Shown([saved EXCEPT !.language = "ja"])
     IN /\ Saves(doc)
        /\ saved' = IF file' = store' THEN Shown(store') ELSE saved
  /\ page' = [page EXCEPT !.language = "ja"]
  /\ UNCHANGED <<worker, updater, edits, starts>>

-----------------------------------------------------------------------------
(* The worker page and the check for updates *)

\* loadSettings; when it fails the page keeps to its defaults.
WorkerLoads ==
  /\ store # Absent /\ worker.copy = Absent
  /\ \/ worker' = [worker EXCEPT !.copy = store] /\ UNCHANGED blamed
     \/ worker' = [worker EXCEPT !.copy = Bare] /\ blamed' = blamed \cup {"unread"}
  /\ UNCHANGED <<store, file, page, saved, updater, edits, writes, starts>>

\* buildSettingsSavePayload: the document is fetched again, or the copy has to do.
WorkerPrepares ==
  /\ store # Absent /\ worker.copy # Absent /\ worker.sends = Absent
  /\ \E base \in {store, worker.copy} :
       worker' = [worker EXCEPT !.sends = [base EXCEPT !.browser = "own"]]
  /\ UNCHANGED <<store, file, page, saved, updater, edits, writes, starts, blamed>>

\* queueBrowserSettingsSave: after a save that failed the page has the copy of before.
WorkerSaves ==
  /\ store # Absent /\ worker.sends # Absent
  /\ Saves(worker.sends)
  /\ worker' = [copy |-> IF file' = store' THEN store' ELSE worker.copy, sends |-> Absent]
  /\ UNCHANGED <<page, saved, updater, edits, starts>>

\* check_now reads the settings and asks for the releases.
CheckUpdates ==
  /\ store # Absent /\ ~updater
  /\ updater' = TRUE
  /\ UNCHANGED <<store, file, page, saved, worker, edits, writes, starts, blamed>>

\* persist_updates with patch_updates_metadata, or the check has failed.
UpdateChecked ==
  /\ store # Absent /\ updater
  /\ updater' = FALSE
  /\ \/ Saves([store EXCEPT !.latest = "seen"])
     \/ UNCHANGED <<store, file, writes, blamed>>
  /\ UNCHANGED <<page, saved, worker, edits, starts>>

ConfigNext ==
  \/ Start \/ Stop
  \/ Bootstrap \/ Edit \/ SavePage \/ StartSession \/ SwitchLanguage
  \/ WorkerLoads \/ WorkerPrepares \/ WorkerSaves \/ CheckUpdates \/ UpdateChecked

ConfigSpec == ConfigInit /\ [][ConfigNext]_configVars

-----------------------------------------------------------------------------
(* Properties *)

\* Without the realtime section, which a start drops and the normalisers make anew.
Apart(doc) == [doc EXCEPT !.filters = "none", !.hold = 0]

\* However the writers took turns: each enabled line has its one place in the display order, and
\* nothing else has but the source, unless the worker page saved settings it could never read.
LinesHaveTheirPlace ==
  store # Absent /\ "unread" \notin blamed
    => /\ ToSet(store.order) = {"source"} \cup ToSet(SlotsOf(Enabled(store.lines)))
       /\ IsInjective(store.order)

\* A start of the program at any moment finds the configuration that was in memory, but for the
\* filters of the partials, as long as the last write went through.
RestartKeepsSettings ==
  store # Absent /\ blamed = {} => Apart(Loaded(file)) = Apart(store)

\* Neither a save of what was loaded nor the check for updates changes a setting of the user: the
\* normalisers of the dashboard and of the backend agree on every document that is in use, but for
\* the mode of the recognition, for which the dashboard knows one value only.
SavedBackUnchanged ==
  store # Absent /\ "unread" \notin blamed
    => /\ Apart([Normalized(Shown(store)) EXCEPT !.mode = store.mode]) = Apart(store)
       /\ Apart(Normalized([store EXCEPT !.latest = "seen"])) = Apart([store EXCEPT !.latest = "seen"])

\* Over saves of every writer and over starts, no setting of the user is lost, moved or changed.
SettingsKept == LinesHaveTheirPlace /\ RestartKeepsSettings /\ SavedBackUnchanged

\* "These options map to asr.browser and partial filters in the backend. Save config and restart
\* recognition when needed" (en.json:31), "strip SST-only keys" (TECHNICAL_ARCHITECTURE.en.md:342):
\* a start of the program brings the filters of the partials back that were saved.
FiltersReturn ==
  store # Absent /\ blamed = {} /\ store.filters = "own" => Loaded(file).filters = "own"
=============================================================================
