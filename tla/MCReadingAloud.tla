---------------------------- MODULE MCReadingAloud ----------------------------
(* Speech, the chat connection, the filters of its messages, the status of the *)
(* worker and the configuration, checked in one run.  They share nothing: a    *)
(* behaviour is one of SpeechPipeline, TwitchChat, WorkerStatus, ChatPipeline  *)
(* or ConfigStore; the last two use x1, x2 and so on for their variables, and  *)
(* the others stay at an initial state.                                        *)
EXTENDS MCSpeechPipeline, TwitchChat, WorkerStatus, FiniteSets, SequencesExt

VARIABLES
  which, \* the component of this behaviour
  x1, x2, x3, x4, x5, x6, x7, x8, x9, x10  \* the variables of ChatPipeline and ConfigStore

\* Files of version 7 - the languages without lines, lines without a whole order - and edits.
Slots == <<"translation_1", "translation_2", "translation_3">>
Files == INSTANCE ConfigStore WITH
  OldFiles <- {}, LineEdits <- {}, OrderEdits <- {}, MaxEdits <- 0, MaxWrites <- 0, MaxStarts <- 0,
  store <- x1, file <- x2, page <- x3, saved <- x4, worker <- x5, updater <- x6, edits <- x7,
  writes <- x8, starts <- x9, blamed <- x10
English == Files!Line("translation_1", "en", TRUE)
Japanese == Files!Line("translation_2", "ja", TRUE)
OldFiles ==
  {[Files!Bare EXCEPT !.version = 7, !.targets = <<"en", "ja">>, !.order = <<"ja", "source", "en">>,
                      !.keep = FALSE, !.hold = 2],
   [Files!Defaults EXCEPT !.lines = <<Japanese, English>>, !.order = <<"source">>, !.version = 7,
                          !.mode = "edge", !.checks = FALSE, !.latest = "seen"]}
LineEdits == {<<English, Japanese>>, <<Japanese, [English EXCEPT !.on = FALSE]>>}
OrderEdits == {<<"translation_2", "source", "translation_1">>}

\* The messages of four glyphs, as runs.
Glyphs == {"word", "digit", "www", ".com", "@", ":", "_", "$", "smile", "pog", "!", " "}
Typed(glyphs) ==
  SelectSeq(FoldLeft(LAMBDA runs, u : IF u = " " THEN Append(runs, <<>>)
                                      ELSE [runs EXCEPT ![Len(runs)] = Append(@, u)], <<<<>>>>, glyphs),
            LAMBDA run : run # <<>>)
ChatTexts == {Typed(glyphs) : glyphs \in [1..4 -> Glyphs]}

\* The defaults, others that detect the language and keep emoji, and few filters.
Strict == [links |-> TRUE, emotes |-> TRUE, emoji |-> TRUE, mild |-> TRUE, underscores |-> TRUE,
           commands |-> TRUE, symbols |-> {"$"}, sizes |-> 1..6, detects |-> TRUE, enabled |-> {}]
FilterSettings ==
  {Strict, [Strict EXCEPT !.enabled = {"ru"}, !.emoji = FALSE, !.sizes = 2..4],
   [Strict EXCEPT !.links = FALSE, !.emotes = FALSE, !.symbols = {}, !.detects = FALSE, !.commands = FALSE]}

ReadingSymmetry == MCSymmetry \union Permutations(Sources)

Filters == INSTANCE ChatPipeline WITH
  Texts <- ChatTexts, Settings <- FilterSettings, Users <- {"bob", "troll"},
  Ignored <- {"troll"}, message <- x1, settings <- x2, result <- x3

Config == INSTANCE ConfigStore WITH
  Slots <- Slots, OldFiles <- OldFiles, LineEdits <- LineEdits, OrderEdits <- OrderEdits,
  MaxEdits <- 1, MaxWrites <- 2, MaxStarts <- 2, store <- x1, file <- x2, page <- x3,
  saved <- x4, worker <- x5, updater <- x6, edits <- x7, writes <- x8, starts <- x9,
  blamed <- x10

-----------------------------------------------------------------------------
MCInit ==
  /\ Init /\ TwitchInit /\ StatusDeskInit
  /\ \/ /\ which \in {"speech", "twitch", "desk"}
        /\ x1 = 0 /\ x2 = 0 /\ x3 = 0 /\ x4 = 0 /\ x5 = 0 /\ x6 = 0 /\ x7 = 0 /\ x8 = 0 /\ x9 = 0 /\ x10 = 0
     \/ /\ which = "chat" /\ Filters!ChatInit
        /\ x4 = 0 /\ x5 = 0 /\ x6 = 0 /\ x7 = 0 /\ x8 = 0 /\ x9 = 0 /\ x10 = 0
     \/ which = "config" /\ Config!ConfigInit
  /\ which # "twitch" => settings = [on |-> FALSE, strips |-> FALSE, sources |-> CHOOSE s \in Sources : TRUE]

others == <<x1, x2, x3, x4, x5, x6, x7, x8, x9, x10>>

MCNext ==
  /\ UNCHANGED which
  /\ \/ which = "speech" /\ Next /\ UNCHANGED <<twitchVars, statusDeskVars, others>>
     \/ which = "twitch" /\ TwitchNext /\ UNCHANGED <<vars, statusDeskVars, others>>
     \/ which = "desk" /\ StatusDeskNext /\ UNCHANGED <<vars, twitchVars, others>>
     \/ which = "chat" /\ Filters!ChatNext
        /\ UNCHANGED <<vars, twitchVars, statusDeskVars, x4, x5, x6, x7, x8, x9, x10>>
     \/ which = "config" /\ Config!ConfigNext /\ UNCHANGED <<vars, twitchVars, statusDeskVars>>

MCSpec == MCInit /\ [][MCNext]_<<which, vars, twitchVars, statusDeskVars, others>>

\* Bounds on TwitchChat: an exception that a property makes is not carried on with, but for a status
\* that was overtaken before any line of the chat; two statuses are under way, and one refresh.
BoundedTwitch ==
  /\ blamed = {} \/ (blamed = {"overtaken"} /\ lines = 0)
  /\ Len(wire) <= 2 /\ Len(refreshes) <= 1

\* Bound on ConfigStore: the worker page that could not read the settings is the only one to write.
BoundedConfig == which = "config" /\ "unread" \in x10 => x8 = 0

-----------------------------------------------------------------------------
(* The properties of the instances, each of its own behaviours *)

ReadAsMeant == which = "chat" => Filters!ReadAsMeant
SettingsKept == which = "config" => Config!SettingsKept
===============================================================================
