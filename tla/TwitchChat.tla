------------------------------- MODULE TwitchChat -------------------------------
(***************************************************************************)
(* TwitchChat: the connection to the Twitch chat.  The commands of the     *)
(* panel run one after the other on the main thread; the task of a session *)
(* runs on the threads of the runtime, calls back into the status of the   *)
(* service and may be told to stop, and aborted, at any time.  Each        *)
(* broadcast is delivered by a task of its own, in any order.              *)
(*                                                                         *)
(* A thread is the list of the calls it still has to make: the command in  *)
(* `main`, and for a task in `todo` what it does before its next await.    *)
(***************************************************************************)
EXTENDS Naturals, Sequences, SequencesExt

CONSTANTS
  Sources,    \* choices of emote sources
  MaxPresses, \* bound on the presses of Connect and Disconnect
  MaxSaves,   \* bound on the saves of other settings
  MaxLines    \* bound on the lines of the chat that change something

VARIABLES
  settings, \* live settings, the same as the saved ones
  status,   \* TwitchConnectionStatus of the service
  handle,   \* Inner.active: the session whose handle is kept, 0 for none
  tasks,    \* tasks spawned by connect, in order
  main,     \* calls that the running command still makes
  refreshes,\* emote refreshes of apply_settings under way, oldest first
  emotes,   \* sources the emote sets were fetched for, Nothing before and after a failure
  wire,     \* statuses under way to the panel: broadcasts and answers
  panel,    \* state that the panel shows
  busy,     \* what the pressed button still waits for
  presses, saves, lines,
  blamed    \* what has happened that the properties make an exception for

twitchVars == <<settings, status, handle, tasks, main, refreshes, emotes, wire, panel, busy,
                presses, saves, lines, blamed>>

Nothing == "none"
Abroad == <<handle, tasks, refreshes, emotes>>
Shore == <<wire, panel, busy, presses, saves, lines>>

\* Calls of a thread.
Set(state) == <<"set", state>>
Send == <<"send", Nothing>>
Report(state) == <<Set(state), Send>>
Buffered == <<"buffered", Nothing>>

\* A choice of sources is not the absence of one.
ASSUME SourcesAssumption == Nothing \notin Sources

\* What a session fetches emotes for, Nothing when they stay in the text.
EmotesOf(new) == IF new.strips THEN new.sources ELSE Nothing

Task(new) == [at |-> "new", fetches |-> EmotesOf(new), joined |-> FALSE, todo |-> <<>>,
              stopped |-> FALSE, aborted |-> FALSE]

TwitchInit ==
  /\ settings \in [on : BOOLEAN, strips : BOOLEAN, sources : Sources]
  /\ status = "disconnected" /\ panel = "disconnected"
  /\ handle = 0 /\ tasks = <<>> /\ main = <<>>
  /\ refreshes = <<>> /\ emotes = Nothing
  /\ wire = <<>> /\ busy = Nothing
  /\ presses = 0 /\ saves = 0 /\ lines = 0 /\ blamed = {}

-----------------------------------------------------------------------------
(* Commands *)

\* apply_settings: the session in place gets new emote sets.
Applies(new) ==
  /\ settings' = new
  /\ refreshes' = IF handle # 0 /\ new.strips THEN Append(refreshes, EmotesOf(new)) ELSE refreshes

\* disconnect
Leaving == <<<<"stop", Nothing>>, <<"abort", Nothing>>>> \o Report("disconnected")

\* connect
ConnectingWithoutLeaving == <<<<"spawn", Nothing>>>> \o Report("connecting") \o <<<<"answer", Nothing>>>>

Connecting == Leaving \o <<<<"spawn", Nothing>>>> \o Report("connecting") \o <<<<"answer", Nothing>>>>

\* update_twitch_settings
Save ==
  /\ main = <<>> /\ saves < MaxSaves
  /\ saves' = saves + 1
  /\ \E new \in [on : BOOLEAN, strips : BOOLEAN, sources : Sources] :
       /\ Applies(new)
       /\ main' = IF new.on THEN <<>> ELSE Leaving
  /\ UNCHANGED <<status, handle, tasks, emotes, wire, panel, busy, presses, lines, blamed>>

\* handleConnect: the settings are saved first, with the chat switched on.
PressConnect ==
  /\ main = <<>> /\ busy = Nothing /\ presses < MaxPresses
  /\ panel \notin {"connecting", "connected"}
  /\ presses' = presses + 1 /\ busy' = "save"
  /\ Applies([settings EXCEPT !.on = TRUE])
  /\ UNCHANGED <<status, handle, tasks, main, emotes, wire, panel, saves, lines, blamed>>

\* twitch_connect; when it is refused the panel asks for the status.
Connect ==
  /\ main = <<>> /\ busy = "save"
  /\ busy' = "answer"
  /\ main' = IF settings.on THEN Connecting ELSE <<<<"answer", Nothing>>>>
  /\ UNCHANGED <<settings, status, handle, tasks, refreshes, emotes, wire, panel, presses, saves, lines, blamed>>

\* handleDisconnect
PressDisconnect ==
  /\ main = <<>> /\ busy = Nothing /\ presses < MaxPresses
  /\ panel \in {"connecting", "connected"}
  /\ presses' = presses + 1 /\ busy' = "answer"
  /\ main' = Leaving \o <<<<"left", Nothing>>>>
  /\ UNCHANGED <<settings, status, handle, tasks, refreshes, emotes, wire, panel, saves, lines, blamed>>

Sent(state, answer) == Append(wire, [state |-> state, answer |-> answer])

\* The next call of the command.
MainCalls ==
  /\ main # <<>> /\ main' = Tail(main)
  /\ \/ /\ Head(main)[1] = "stop"
        /\ tasks' = IF handle = 0 THEN tasks ELSE [tasks EXCEPT ![handle].stopped = TRUE]
        /\ UNCHANGED <<status, handle, wire, blamed>>
     \/ /\ Head(main)[1] = "abort"
        /\ tasks' = IF handle = 0 THEN tasks ELSE [tasks EXCEPT ![handle].aborted = TRUE]
        /\ handle' = 0
        /\ UNCHANGED <<status, wire, blamed>>
     \/ /\ Head(main)[1] = "set"
        /\ status' = Head(main)[2]
        \* the task that has just been spawned was faster than this report
        /\ blamed' = IF Head(main)[2] = "connecting" /\ (tasks[handle].at = "over" \/ tasks[handle].joined)
                     THEN blamed \cup {"late"} ELSE blamed
        /\ UNCHANGED <<handle, tasks, wire>>
     \/ /\ Head(main)[1] = "send"
        /\ wire' = Sent(status, FALSE)
        /\ UNCHANGED <<status, handle, tasks, blamed>>
     \/ /\ Head(main)[1] = "spawn"
        /\ tasks' = Append(tasks, Task(settings))
        /\ handle' = Len(tasks) + 1
        /\ UNCHANGED <<status, wire, blamed>>
     \/ /\ Head(main)[1] \in {"answer", "left"}
        /\ wire' = Sent(IF Head(main)[1] = "left" THEN "disconnected" ELSE status, TRUE)
        /\ UNCHANGED <<status, handle, tasks, blamed>>
  /\ UNCHANGED <<settings, refreshes, emotes, panel, busy, presses, saves, lines>>

-----------------------------------------------------------------------------
(* The task of a session *)

Awaits(t) == tasks[t].todo = <<>> /\ tasks[t].at # "over"
Wakes(t) == Awaits(t) /\ ~tasks[t].aborted

\* run_session up to its first await: it joins what the live settings say by now.
Dialing(task) == [task EXCEPT !.at = "dialing", !.fetches = Nothing, !.todo = Report("connecting")]

\* The end of run_session, with the report of connect when it was an error.
SilentlyOver(task, reports) == [task EXCEPT !.at = "over", !.joined = FALSE, !.todo = <<>>]

Over(task, reports) == [task EXCEPT !.at = "over", !.joined = FALSE, !.todo = reports]

Begin(t) ==
  /\ Wakes(t) /\ tasks[t].at = "new"
  /\ tasks' = [tasks EXCEPT ![t] = IF @.fetches # Nothing THEN [@ EXCEPT !.at = "emotes"] ELSE Dialing(@)]
  /\ UNCHANGED <<settings, status, handle, main, refreshes, emotes, blamed>> /\ UNCHANGED Shore

\* refresh_all replaces all sets; a lookup that fails contributes nothing.
EmotesFetched(t) ==
  /\ Wakes(t) /\ tasks[t].at = "emotes"
  /\ emotes' \in {tasks[t].fetches, Nothing}
  /\ blamed' = blamed \cup (IF tasks[t].fetches # settings.sources THEN {"outrun"} ELSE {})
  /\ tasks' = [tasks EXCEPT ![t] = Dialing(@)]
  /\ UNCHANGED <<settings, status, handle, main, refreshes>> /\ UNCHANGED Shore

RefreshEnds ==
  /\ \E i \in DOMAIN refreshes :
       /\ emotes' \in {refreshes[i], Nothing}
       /\ refreshes' = RemoveAt(refreshes, i)
       /\ blamed' = IF i # Len(refreshes) \/ refreshes[i] # settings.sources
                    THEN blamed \cup {"outrun"} ELSE blamed
  /\ UNCHANGED <<settings, status, handle, tasks, main>> /\ UNCHANGED Shore

\* TCP, TLS and the handshake, or the error of one of them.
Dialed(t) ==
  /\ Wakes(t) /\ tasks[t].at = "dialing"
  /\ \/ tasks' = [tasks EXCEPT ![t].at = "lines"]
     \/ tasks' = [tasks EXCEPT ![t] = Over(@, Report("error"))]
  /\ UNCHANGED <<settings, status, handle, main, refreshes, emotes, blamed>> /\ UNCHANGED Shore

\* A line that has come, also after the abort as long as the task has not reached its await.
LineComes(t) ==
  /\ tasks[t].at = "lines" /\ lines < MaxLines
  /\ Wakes(t) \/ tasks[t].todo = <<Buffered>>
  /\ lines' = lines + 1
  /\ \/ /\ ~tasks[t].joined
        /\ tasks' = [tasks EXCEPT ![t].joined = TRUE,
                                  ![t].todo = Report("connected") \o <<Buffered>>]
     \/ tasks' = [tasks EXCEPT ![t].todo = <<Buffered>>]  \* a message, a notice, a ping
     \* an error of the network, a refused login, which is reported twice, a closed stream
     \/ \E reports \in {Report("error"), Report("error") \o Report("error"), Report("disconnected")} :
          tasks' = [tasks EXCEPT ![t] = Over(@, reports)]
  /\ UNCHANGED <<settings, status, handle, main, refreshes, emotes, blamed>>
  /\ UNCHANGED <<wire, panel, busy, presses, saves>>

\* The other branch of select.
StopSeen(t) ==
  /\ tasks[t].at = "lines" /\ tasks[t].stopped
  /\ Wakes(t) \/ tasks[t].todo = <<Buffered>>
  /\ tasks' = [tasks EXCEPT ![t] = Over(@, Report("disconnected"))]
  /\ UNCHANGED <<settings, status, handle, main, refreshes, emotes, blamed>> /\ UNCHANGED Shore

\* The next call of a task that a thread runs; an abort cannot stop it before its next await.
TaskCalls(t) ==
  /\ tasks[t].todo # <<>>
  /\ tasks' = [tasks EXCEPT ![t].todo = Tail(@)]
  /\ \/ /\ Head(tasks[t].todo)[1] = "set"
        /\ status' = Head(tasks[t].todo)[2]
        /\ blamed' = IF tasks[t].stopped THEN blamed \cup {"posthumous"} ELSE blamed
        /\ UNCHANGED wire
     \/ /\ Head(tasks[t].todo) = Send
        /\ wire' = Sent(status, FALSE)
        /\ UNCHANGED <<status, blamed>>
     \/ Head(tasks[t].todo) = Buffered /\ UNCHANGED <<status, wire, blamed>>
  /\ UNCHANGED <<settings, handle, main, refreshes, emotes, panel, busy, presses, saves, lines>>

-----------------------------------------------------------------------------
(* The panel *)

\* handleConnectionUpdate, or the answer of the button.
StatusArrives ==
  /\ \E i \in DOMAIN wire :
       /\ panel' = wire[i].state
       /\ busy' = IF wire[i].answer THEN Nothing ELSE busy
       /\ wire' = RemoveAt(wire, i)
       /\ blamed' = IF i # 1 THEN blamed \cup {"overtaken"} ELSE blamed
  /\ UNCHANGED <<settings, status, main, presses, saves, lines>> /\ UNCHANGED Abroad

TwitchNext ==
  \/ Save \/ PressConnect \/ Connect \/ PressDisconnect \/ MainCalls
  \/ \E t \in DOMAIN tasks :
       \/ Begin(t) \/ EmotesFetched(t) \/ Dialed(t) \/ LineComes(t) \/ StopSeen(t) \/ TaskCalls(t)
  \/ RefreshEnds \/ StatusArrives

TwitchSpec == TwitchInit /\ [][TwitchNext]_twitchVars

-----------------------------------------------------------------------------
(* Properties *)

NobodyReports == main = <<>> /\ \A t \in DOMAIN tasks : tasks[t].todo = <<>>
Listens(t) == tasks[t].at # "over" /\ ~tasks[t].aborted

\* Between commands no session but the one whose handle is kept can still wake up, so a chat that was
\* left, or left for another, is silent once the lines in hand have been handled.
OneListener == main = <<>> => \A t \in DOMAIN tasks : Listens(t) => t = handle

\* When nobody is about to report and everything is delivered, the panel tells what has become of the
\* last session, unless a session reported after it had been told to stop or before the command that
\* connects it did, or a status was overtaken by an older one.
PanelTellsTheSession ==
  NobodyReports /\ wire = <<>> /\ blamed \cap {"late", "posthumous", "overtaken"} = {}
    => LET listening == handle # 0 /\ Listens(handle)
       IN /\ panel \in {"connecting", "connected"} <=> listening
          /\ panel = "connected" <=> listening /\ tasks[handle].joined

\* The emote sets in use are those of the settings, without a new connection, unless refreshes
\* finished in another order than the saves they belong to.
EmotesFollowSettings ==
  NobodyReports /\ refreshes = <<>> /\ "outrun" \notin blamed
  /\ settings.strips /\ handle # 0 /\ tasks[handle].at \notin {"new", "emotes"}
    => emotes \in {settings.sources, Nothing}

\* What the user sees of the chat and what it is filtered by follow the commands and the settings.
ChatFollowsUser == PanelTellsTheSession /\ EmotesFollowSettings
=============================================================================
