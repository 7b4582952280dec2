------------------------- MODULE RecognitionSessionProofs -------------------------
(* Theorems about the two connections that the program keeps up by itself: about    *)
(* RecognitionSession, for every number of stops and whether or not Start is also    *)
(* pressed while a restart is scheduled, and about TwitchChat, for every number of   *)
(* commands, saves and lines and all sets of emote sources.                          *)
EXTENDS RecognitionSession, TwitchChat, SequenceTheorems, TLAPS

\* SocketKept and IdleIsQuiet are inductive with the types; a restart timer of the
\* present generation is what lets the types of the timer be kept.
IInv == TypeOK /\ IdleIsQuiet /\ SocketKept /\ RestartIsCurrent

Supervisors == {"idle", "starting", "running", "stopping", "restarting", "backoff", "fatal"}
Instances == [state : {"none", "unstarted", "starting", "listening"}, ending : BOOLEAN]
Sockets == {"none", "connecting", "open"}

-----------------------------------------------------------------------------
(* What the shared parts of the handlers do, whichever handler uses them *)

\* A restart that is scheduled has the present generation and shows as one.
LEMMA ScheduleEffect ==
  ASSUME ScheduleRestart
  PROVE  supervisor' \in {"restarting", "backoff"} /\ restartTimer' = {generation}
BY DEF ScheduleRestart

\* A recogniser that is made to stop stays the one it was; the page is not idle then.
LEMMA StoppingEffect ==
  ASSUME TypeOK, RestartIsCurrent, TransitionToStopping
  PROVE  /\ supervisor' \in Supervisors \ {"idle"}
         /\ restartTimer' \subseteq {generation}
         /\ instance' \in Instances
         /\ instance'.state = instance.state
BY DEF TransitionToStopping, ScheduleRestart, TypeOK, RestartIsCurrent, Supervisors, Instances

\* A controlled start leaves the present generation in the timer, and a page that is
\* idle afterwards has made no recogniser.
LEMMA StartEffect ==
  ASSUME TypeOK, RestartIsCurrent, SocketKept, IdleIsQuiet,
         NEW timer, timer \subseteq {generation}, ControlledStart(timer)
  PROVE  /\ supervisor' \in Supervisors
         /\ restartTimer' \subseteq {generation}
         /\ instance' \in Instances
         /\ socket' \in Sockets
         /\ (reconnectTimer' \in BOOLEAN)
         /\ supervisor' = "idle" => instance'.state \notin {"starting", "listening"}
         /\ desired => socket' # "none" \/ reconnectTimer'
<1>1. CASE /\ ~Wanted \/ supervisor \in {"starting", "running"}
           /\ restartTimer' = timer
           /\ UNCHANGED <<supervisor, instance, socket_vars>>
  BY <1>1 DEF TypeOK, SocketKept, IdleIsQuiet, Live, Supervisors, Instances, Sockets, socket_vars
<1>2. CASE /\ ensuredSocket
           /\ supervisor' = "starting"
           /\ instance' = [state |-> "starting", ending |-> FALSE]
           /\ restartTimer' = timer
  BY <1>2 DEF ensuredSocket, TypeOK, SocketKept, Supervisors, Instances, Sockets
<1>3. CASE /\ ensuredSocket
           /\ instance' = [state |-> "unstarted", ending |-> FALSE]
           /\ ScheduleRestart
  BY <1>3, ScheduleEffect DEF ensuredSocket, TypeOK, SocketKept, Supervisors, Instances, Sockets
<1> QED BY <1>1, <1>2, <1>3 DEF ControlledStart

-----------------------------------------------------------------------------
(* The invariant *)

LEMMA InitHolds == Init => IInv
<1> SUFFICES ASSUME Init PROVE IInv
  OBVIOUS
<1>1. /\ IdleIsQuiet /\ SocketKept /\ RestartIsCurrent
  BY DEF Init, IdleIsQuiet, SocketKept, RestartIsCurrent, Live, NoInstance
<1>2. /\ desired \in BOOLEAN /\ pendingStart \in BOOLEAN /\ reconnectTimer \in BOOLEAN
      /\ hidden \in BOOLEAN
  BY Zenon DEF Init
<1>3. generation \in Generations /\ restartTimer \subseteq Generations
  BY RecognitionAssumption DEF Init, Generations
<1>4. waiting \in [permission : BOOLEAN, view : BOOLEAN]
  BY DEF Init
<1>5. instance \in Instances
  BY DEF Init, NoInstance, Instances
<1>6. supervisor \in Supervisors /\ socket \in Sockets
  BY DEF Init, Supervisors, Sockets
<1>7. TypeOK
  BY <1>2, <1>3, <1>4, <1>5, <1>6, Zenon DEF TypeOK, Instances, Supervisors, Sockets
<1> QED BY <1>1, <1>7 DEF IInv

\* What an action must leave in place, part by part; goals of the steps below.
Kept ==
  /\ supervisor' \in Supervisors
  /\ restartTimer' \subseteq {generation'}
  /\ instance' \in Instances
  /\ supervisor' = "idle" => instance'.state \notin {"starting", "listening"}
  /\ desired' => socket' # "none" \/ reconnectTimer'

\* The buttons, settings and awaits.
LEMMA RequestsKeep ==
  ASSUME IInv, PressStart \/ Stop \/ SettingsChange \/ PermissionGranted \/ PermissionDenied
               \/ ViewReady
  PROVE  Kept
<1> USE DEF IInv, Kept
<1>1. CASE PressStart
  BY <1>1 DEF PressStart, ensuredSocket, TypeOK, IdleIsQuiet, Live, SocketKept, RestartIsCurrent,
              Supervisors, Instances
<1>2. CASE Stop
  BY <1>2 DEF Stop, TypeOK, Supervisors, Instances
<1>3. CASE SettingsChange
  BY <1>3, StoppingEffect DEF SettingsChange, SocketKept, socket_vars, Supervisors
<1>4. ASSUME Proceed, UNCHANGED <<desired, generation>>
      PROVE  Kept
  <2>1. CASE ControlledStart(restartTimer)
    BY <1>4, <2>1, StartEffect DEF RestartIsCurrent
  <2>2. CASE Deferred(restartTimer)
    BY <1>4, <2>2 DEF Deferred, TypeOK, IdleIsQuiet, Live, SocketKept, RestartIsCurrent,
                      Supervisors, Instances, socket_vars
  <2> QED BY <1>4, <2>1, <2>2 DEF Proceed
<1>5. CASE PermissionGranted
  <2>1. CASE UNCHANGED <<supervisor, pendingStart, restartTimer, instance, socket_vars>>
    BY <1>5, <2>1 DEF PermissionGranted, TypeOK, IdleIsQuiet, Live, SocketKept, RestartIsCurrent,
                      Supervisors, Instances, socket_vars
  <2>2. CASE Proceed
    BY <1>4, <1>5, <2>2 DEF PermissionGranted
  <2> QED BY <1>5, <2>1, <2>2 DEF PermissionGranted
<1>6. CASE PermissionDenied
  BY <1>6 DEF PermissionDenied, TypeOK, RestartIsCurrent, Supervisors, Instances
<1>7. CASE ViewReady
  BY <1>4, <1>7 DEF ViewReady
<1> QED BY <1>1, <1>2, <1>3, <1>5, <1>6, <1>7

\* The timers.
LEMMA TimersKeep ==
  ASSUME IInv, RestartFires \/ WatchdogRearm \/ WatchdogTimeout \/ ReconnectFires
  PROVE  Kept
<1> USE DEF IInv, Kept
<1>1. CASE RestartFires
  <2>1. CASE ControlledStart({})
    BY <1>1, <2>1, StartEffect DEF RestartFires
  <2>2. CASE /\ restartTimer' = {}
             /\ UNCHANGED <<supervisor, instance, socket_vars>>
    BY <1>1, <2>2 DEF RestartFires, TypeOK, IdleIsQuiet, Live, SocketKept, Supervisors, Instances,
                      socket_vars
  <2> QED BY <1>1, <2>1, <2>2 DEF RestartFires, Deferred
<1>2. CASE WatchdogRearm
  BY <1>2, StoppingEffect DEF WatchdogRearm, SocketKept, socket_vars, Supervisors
<1>3. CASE WatchdogTimeout
  BY <1>3, ScheduleEffect DEF WatchdogTimeout, SocketKept, socket_vars, Supervisors, Instances,
                              NoInstance
<1>4. CASE ReconnectFires
  BY <1>4 DEF ReconnectFires, TypeOK, IdleIsQuiet, Live, RestartIsCurrent, Supervisors, Instances
<1> QED BY <1>1, <1>2, <1>3, <1>4

\* The events of the recogniser.
LEMMA RecogniserKeeps ==
  ASSUME IInv, Begins \/ Fails \/ NetworkFails \/ FailsForGood \/ Ends
  PROVE  Kept
<1> USE DEF IInv, Kept, TypeOK, IdleIsQuiet, Live, SocketKept, RestartIsCurrent, Supervisors,
            Instances, socket_vars
<1>1. CASE Begins BY <1>1 DEF Begins
<1>2. CASE Fails BY <1>2 DEF Fails
<1>3. CASE NetworkFails BY <1>3 DEF NetworkFails
<1>4. CASE FailsForGood BY <1>4 DEF FailsForGood
<1>5. CASE Ends BY <1>5, ScheduleEffect DEF Ends, NoInstance
<1> QED BY <1>1, <1>2, <1>3, <1>4, <1>5

\* The events of the document and of the socket.
LEMMA OutsideKeeps ==
  ASSUME IInv, Visibility \/ SocketOpens \/ SocketCloses \/ UNCHANGED vars
  PROVE  Kept
<1> USE DEF IInv, Kept, TypeOK, IdleIsQuiet, Live, SocketKept, RestartIsCurrent, Supervisors,
            Instances, socket_vars
<1>1. CASE Visibility BY <1>1, ScheduleEffect DEF Visibility
<1>2. CASE SocketOpens BY <1>2, ScheduleEffect DEF SocketOpens
<1>3. CASE SocketCloses BY <1>3 DEF SocketCloses
<1>4. CASE UNCHANGED vars BY <1>4 DEF vars
<1> QED BY <1>1, <1>2, <1>3, <1>4

\* The parts of the types that no other part depends on.
LEMMA PlainTypes ==
  ASSUME IInv, [Next]_vars
  PROVE  /\ desired' \in BOOLEAN
         /\ pendingStart' \in BOOLEAN
         /\ generation' \in Generations
         /\ waiting' \in [permission : BOOLEAN, view : BOOLEAN]
         /\ hidden' \in BOOLEAN
         /\ socket' \in Sockets
         /\ reconnectTimer' \in BOOLEAN
<1> USE DEF IInv, TypeOK, Next, vars, socket_vars, PressStart, Stop, SettingsChange,
            PermissionGranted, PermissionDenied, ViewReady, RestartFires, WatchdogRearm,
            WatchdogTimeout, ReconnectFires, Begins, Fails, NetworkFails, FailsForGood, Ends,
            Visibility, SocketOpens, SocketCloses, Proceed, Deferred, ControlledStart, ensuredSocket
<1>1. desired' \in BOOLEAN
  OBVIOUS
<1>2. pendingStart' \in BOOLEAN
  OBVIOUS
<1>3. generation' \in Generations
  BY RecognitionAssumption DEF Generations
<1>4. waiting' \in [permission : BOOLEAN, view : BOOLEAN]
  <2>1. CASE PressStart
    <3>1. \E b \in BOOLEAN : waiting' = [waiting EXCEPT !.permission = b]
      BY <2>1, Zenon
    <3> QED BY <3>1
  <2>2. CASE PermissionGranted
    <3>1. CASE waiting' = [permission |-> FALSE, view |-> TRUE]
      BY <3>1
    <3>2. CASE waiting' = [waiting EXCEPT !.permission = FALSE]
      BY <3>2
    <3> QED BY <2>2, <3>1, <3>2
  <2>3. CASE PermissionDenied
    BY <2>3
  <2>4. CASE ViewReady
    BY <2>4
  <2>5. CASE UNCHANGED waiting
    BY <2>5
  <2> QED BY <2>1, <2>2, <2>3, <2>4, <2>5
<1>5. hidden' \in BOOLEAN
  OBVIOUS
<1>6. socket' \in Sockets
  BY DEF Sockets
<1>7. reconnectTimer' \in BOOLEAN
  OBVIOUS
<1> QED BY <1>1, <1>2, <1>3, <1>4, <1>5, <1>6, <1>7

LEMMA Invariance == Spec => []IInv
<1>1. Init => IInv
  BY InitHolds
<1>2. IInv /\ [Next]_vars => IInv'
  <2> SUFFICES ASSUME IInv, [Next]_vars PROVE IInv'
    OBVIOUS
  <2>1. Kept
    BY RequestsKeep, TimersKeep, RecogniserKeeps, OutsideKeeps DEF Next
  <2>2. TypeOK'
    <3>1. restartTimer' \subseteq Generations
      BY <2>1, PlainTypes DEF Kept
    <3> QED BY <2>1, <3>1, PlainTypes, Zenon DEF TypeOK, Kept, Supervisors, Instances, Sockets
  <2>3. IdleIsQuiet' /\ SocketKept' /\ RestartIsCurrent'
    BY <2>1 DEF Kept, IdleIsQuiet, Live, SocketKept, RestartIsCurrent
  <2> QED BY <2>2, <2>3 DEF IInv
<1> QED BY <1>1, <1>2, PTL DEF Spec

-----------------------------------------------------------------------------
(* The theorems *)

\* Every variable keeps its type, whatever the order of the events.
THEOREM TypeCorrect == Spec => []TypeOK
BY Invariance, PTL DEF IInv

\* The page is idle only when no recogniser has the microphone.
THEOREM QuietWhenIdle == Spec => []IdleIsQuiet
BY Invariance, PTL DEF IInv

\* Recognition that is desired keeps a socket or the timer that opens one.
THEOREM SocketNeverGivenUp == Spec => []SocketKept
BY Invariance, PTL DEF IInv

\* A stop leaves no restart timer behind.
THEOREM NoStaleTimer == Spec => []RestartIsCurrent
BY Invariance, PTL DEF IInv

\* The microphone, the socket and the restart timer together.
THEOREM SessionAlwaysKept == Spec => []SessionKept
<1>1. IInv => SessionKept
  BY DEF IInv, SessionKept
<1>2. QED
  BY <1>1, Invariance, PTL

\* No timer, wait or event starts a recogniser once recognition was stopped.
THEOREM StopIsFinal == Spec => StoppedStaysStopped
<1>1. ASSUME TypeOK, Next, ~desired
      PROVE  instance'.state \in {"starting", "unstarted"} => instance'.state = instance.state
  <2> USE <1>1 DEF TypeOK
  <2>1. CASE PressStart \/ PermissionDenied \/ ReconnectFires \/ Visibility \/ SocketOpens
             \/ SocketCloses
    BY <2>1 DEF PressStart, PermissionDenied, ReconnectFires, Visibility, SocketOpens, SocketCloses
  <2>2. CASE Stop \/ Begins \/ Fails \/ NetworkFails \/ FailsForGood \/ Ends
    BY <2>2 DEF Stop, Begins, Fails, NetworkFails, FailsForGood, Ends, NoInstance
  <2>3. CASE PermissionGranted \/ ViewReady \/ RestartFires
    <3>1. ASSUME NEW timer, ControlledStart(timer) \/ Deferred(timer)
          PROVE  UNCHANGED instance
      BY <3>1 DEF ControlledStart, Deferred, Wanted
    <3> QED BY <2>3, <3>1 DEF PermissionGranted, ViewReady, RestartFires, Proceed
  <2> QED BY <2>1, <2>2, <2>3 DEF Next, SettingsChange, WatchdogRearm, WatchdogTimeout
<1>2. TypeOK /\ [Next]_vars => [~desired =>
        (instance'.state \in {"starting", "unstarted"} => instance'.state = instance.state)]_vars
  BY <1>1
<1> QED BY <1>2, TypeCorrect, PTL DEF Spec, StoppedStaysStopped

\* As long as Start is not pressed over a scheduled restart, recognition that shows as
\* restarting has the timer that restarts it, or a recogniser whose end sets one.
THEOREM RestartNeverLost ==
  ASSUME ~Impatient
  PROVE  Spec => []RestartIsScheduled
<1>1. Init => RestartIsScheduled
  BY DEF Init, RestartIsScheduled
<1>2. IInv /\ RestartIsScheduled /\ [Next]_vars => RestartIsScheduled'
  <2> SUFFICES ASSUME IInv, RestartIsScheduled, [Next]_vars PROVE RestartIsScheduled'
    OBVIOUS
  <2> USE DEF IInv, TypeOK, RestartIsScheduled, Live
  <2>1. CASE PressStart
    BY <2>1 DEF PressStart
  <2>2. CASE Stop \/ PermissionDenied \/ ReconnectFires \/ SocketCloses
    BY <2>2 DEF Stop, PermissionDenied, ReconnectFires, SocketCloses
  <2>3. CASE SettingsChange \/ WatchdogRearm \/ WatchdogTimeout
    BY <2>3 DEF SettingsChange, WatchdogRearm, WatchdogTimeout, TransitionToStopping,
                ScheduleRestart
  <2>4. CASE Begins \/ Fails \/ NetworkFails \/ FailsForGood
    BY <2>4 DEF Begins, Fails, NetworkFails, FailsForGood
  <2>5. CASE Ends
    BY <2>5 DEF Ends, ScheduleRestart
  <2>6. CASE Visibility \/ SocketOpens
    BY <2>6 DEF Visibility, SocketOpens, ScheduleRestart
  <2>7. CASE PermissionGranted \/ ViewReady
    <3>1. CASE ControlledStart(restartTimer) \/ Deferred(restartTimer)
      BY <2>7, <3>1 DEF PermissionGranted, ViewReady, ControlledStart, Deferred, ScheduleRestart,
                        Wanted
    <3> QED BY <2>7, <3>1 DEF PermissionGranted, ViewReady, Proceed
  <2>8. CASE RestartFires
    BY <2>8 DEF RestartFires, ControlledStart, Deferred, ScheduleRestart, Wanted, RestartIsCurrent
  <2>9. CASE UNCHANGED vars
    BY <2>9 DEF vars
  <2> QED BY <2>1, <2>2, <2>3, <2>4, <2>5, <2>6, <2>7, <2>8, <2>9 DEF Next
<1> QED BY <1>1, <1>2, Invariance, PTL DEF Spec


-----------------------------------------------------------------------------
(* The Twitch chat: calls, commands and the invariant *)

States == {"disconnected", "connecting", "connected", "error"}
Phases == {"new", "emotes", "dialing", "lines", "over"}
SomeSources == Sources \cup {Nothing}

TaskCallSet == {Set(state) : state \in States} \cup {Send, Buffered}
ChatTasks ==
  [at : Phases, fetches : SomeSources, joined : BOOLEAN, todo : Seq(TaskCallSet),
   stopped : BOOLEAN, aborted : BOOLEAN]
ChatSettings == [on : BOOLEAN, strips : BOOLEAN, sources : Sources]
Statuses == [state : States, answer : BOOLEAN]

StopCall == <<"stop", Nothing>>
AbortCall == <<"abort", Nothing>>
SpawnCall == <<"spawn", Nothing>>
AnswerCall == <<"answer", Nothing>>
LeftCall == <<"left", Nothing>>
CommandCalls ==
  {Set(state) : state \in States} \cup {Send, StopCall, AbortCall, SpawnCall, AnswerCall, LeftCall}

\* What is left of a command, from its end; Leaving may be followed by a new session, or by the
\* answer to the button, or by nothing.
Then(call, rest) == <<call>> \o rest
Answering == Then(AnswerCall, <<>>)
SendsHello == Then(Send, Answering)
SetsHello == Then(Set("connecting"), SendsHello)
Spawns == Then(SpawnCall, SetsHello)
Left == Then(LeftCall, <<>>)
Followers == {<<>>, Left, Spawns}
SendsBye(end) == Then(Send, end)
SetsBye(end) == Then(Set("disconnected"), SendsBye(end))
Aborts(end) == Then(AbortCall, SetsBye(end))
Stops(end) == Then(StopCall, Aborts(end))

Stopping == {Stops(end) : end \in Followers}
Aborting == {Aborts(end) : end \in Followers}
SettingBye == {SetsBye(end) : end \in Followers}
SayingBye == {SendsBye(end) : end \in Followers}
Hello == {SetsHello, SendsHello, Answering}
Commands == Stopping \cup Aborting \cup SettingBye \cup SayingBye \cup Followers \cup Hello
\* The handle has been taken and no session has been put in its place.
AfterAbort == SettingBye \cup SayingBye \cup {Left, Spawns}

ChatTypeOK ==
  /\ settings \in ChatSettings
  /\ status \in States /\ panel \in States
  /\ tasks \in Seq(ChatTasks) /\ handle \in {0} \cup DOMAIN tasks
  /\ main \in Commands
  /\ refreshes \in Seq(SomeSources)
  /\ wire \in Seq(Statuses)

\* Whoever is not the session whose handle is kept has been told to stop and aborted.
HandleInv ==
  /\ \A t \in DOMAIN tasks : t # handle => tasks[t].stopped /\ tasks[t].aborted
  /\ handle # 0 => ~tasks[handle].aborted
  /\ main \in Aborting /\ handle # 0 => tasks[handle].stopped
  /\ main \in AfterAbort => handle = 0
  /\ main = SetsHello => handle # 0

\* Every status that a task sets is sent right after it.
Followed(todo) ==
  \A i \in DOMAIN todo : todo[i][1] = "set" => i < Len(todo) /\ todo[i + 1] = Send
TaskOK(task) ==
  /\ task.joined => task.at = "lines"
  /\ task.at = "emotes" => task.fetches # Nothing
  /\ Followed(task.todo)
TaskInv == \A t \in DOMAIN tasks : TaskOK(tasks[t])

\* The statuses that tell what has become of a session.
Tells(state, task) ==
  IF task.at = "over" THEN state \in {"error", "disconnected"}
  ELSE state = IF task.joined THEN "connected" ELSE "connecting"
ReportsTell(task) ==
  \A i \in DOMAIN task.todo : task.todo[i][1] = "set" => Tells(task.todo[i][2], task)
NoReport(task) == \A i \in DOMAIN task.todo : task.todo[i][1] # "set"

\* The status tells what has become of the session, unless a call that sets it is still to come.
StatusInv ==
  blamed \cap {"late", "posthumous"} = {} =>
    /\ handle = 0 /\ main \notin SettingBye => status = "disconnected"
    /\ handle # 0 =>
         /\ ReportsTell(tasks[handle])
         /\ main # SetsHello /\ NoReport(tasks[handle]) => Tells(status, tasks[handle])

\* The last status under way to the panel is the one of the service, unless one is still to be sent.
LastSaid == IF wire = <<>> THEN panel ELSE wire[Len(wire)].state
SendsNothing(task) == \A i \in DOMAIN task.todo : task.todo[i] # Send
SaidInv ==
  /\ blamed \cap {"late", "posthumous", "overtaken"} = {}
  /\ main \in {<<>>, Left}
  /\ \A t \in DOMAIN tasks : SendsNothing(tasks[t])
  => LastSaid = status

\* The emote sets are those of the settings once the session and the refreshes have fetched theirs.
Fetching(task) == task.at \in {"new", "emotes"} /\ task.fetches # Nothing
EmoteInv ==
  /\ "outrun" \notin blamed /\ settings.strips /\ refreshes = <<>>
  /\ handle # 0 /\ ~Fetching(tasks[handle])
  => emotes \in {settings.sources, Nothing}

ReportInv == HandleInv /\ TaskInv /\ StatusInv /\ SaidInv
ChatInv == ChatTypeOK /\ ReportInv /\ EmoteInv

-----------------------------------------------------------------------------
(* The calls of a command *)

\* A call in front of a list is its head, and the list its tail.
LEMMA CallInFront ==
  ASSUME NEW call \in CommandCalls, NEW rest \in Seq(CommandCalls)
  PROVE  /\ Then(call, rest) \in Seq(CommandCalls) /\ Then(call, rest) # <<>>
         /\ Head(Then(call, rest)) = call /\ Tail(Then(call, rest)) = rest
<1> DEFINE one == <<call>>
           all == one \o rest
<1>1. one \in Seq(CommandCalls) /\ Len(one) = 1 /\ one[1] = call OBVIOUS
<1> HIDE DEF one
<1>0. /\ all \in Seq(CommandCalls) /\ Len(all) = Len(one) + Len(rest)
      /\ \A i \in 1..(Len(one) + Len(rest)) :
           all[i] = IF i <= Len(one) THEN one[i] ELSE rest[i - Len(one)]
  BY <1>1, ConcatProperties
<1> HIDE DEF all
<1>2. /\ all \in Seq(CommandCalls) /\ Len(all) = 1 + Len(rest)
      /\ \A i \in 1..(1 + Len(rest)) : all[i] = IF i <= 1 THEN one[i] ELSE rest[i - 1]
  BY <1>0, <1>1
<1>3. Len(rest) \in Nat BY LenProperties
<1>4. all # <<>> BY <1>2, <1>3
<1>5. Head(all) = call BY <1>1, <1>2, <1>3, <1>4
<1> DEFINE tail == Tail(all)
<1>6. /\ tail \in Seq(CommandCalls) /\ Len(tail) = Len(all) - 1
      /\ \A i \in 1..Len(tail) : tail[i] = all[i + 1]
  BY <1>2, <1>4, HeadTailProperties
<1> HIDE DEF tail
<1>7. Len(tail) = Len(rest) BY <1>2, <1>3, <1>6
<1>8. \A i \in 1..Len(tail) : tail[i] = rest[i] BY <1>2, <1>3, <1>6, <1>7
<1>9. tail = rest BY <1>6, <1>7, <1>8, SeqEqual
<1> QED BY <1>2, <1>4, <1>5, <1>9 DEF Then, one, all, tail

\* The calls that a command can consist of are different ones.
LEMMA CallsDiffer ==
  /\ \A state \in States : Set(state) \in CommandCalls /\ Set(state)[1] = "set" /\ Set(state)[2] = state
  /\ {Send, StopCall, AbortCall, SpawnCall, AnswerCall, LeftCall} \subseteq CommandCalls
  /\ Send[1] = "send" /\ StopCall[1] = "stop" /\ AbortCall[1] = "abort" /\ SpawnCall[1] = "spawn"
  /\ AnswerCall[1] = "answer" /\ LeftCall[1] = "left"
  /\ {"disconnected", "connecting"} \subseteq States
BY DEF CommandCalls, Set, Send, StopCall, AbortCall, SpawnCall, AnswerCall, LeftCall, States

\* Where a command is, what it calls next and what is left then.
CallsNext(list, call, rest) == list # <<>> /\ Head(list) = call /\ Tail(list) = rest

\* What comes after a session is spawned.
LEMMA HelloCalls ==
  /\ CallsNext(Answering, AnswerCall, <<>>)
  /\ CallsNext(SendsHello, Send, Answering)
  /\ CallsNext(SetsHello, Set("connecting"), SendsHello)
  /\ CallsNext(Spawns, SpawnCall, SetsHello)
  /\ CallsNext(Left, LeftCall, <<>>)
  /\ Followers \subseteq Seq(CommandCalls)
<1>1. /\ Answering \in Seq(CommandCalls) /\ CallsNext(Answering, AnswerCall, <<>>)
      /\ Left \in Seq(CommandCalls) /\ CallsNext(Left, LeftCall, <<>>)
  BY CallInFront, CallsDiffer, EmptySeq DEF Answering, Left, CallsNext
<1>2. SendsHello \in Seq(CommandCalls) /\ CallsNext(SendsHello, Send, Answering)
  BY <1>1, CallInFront, CallsDiffer DEF SendsHello, CallsNext
<1>3. SetsHello \in Seq(CommandCalls) /\ CallsNext(SetsHello, Set("connecting"), SendsHello)
  BY <1>2, CallInFront, CallsDiffer DEF SetsHello, CallsNext
<1>4. Spawns \in Seq(CommandCalls) /\ CallsNext(Spawns, SpawnCall, SetsHello)
  BY <1>3, CallInFront, CallsDiffer DEF Spawns, CallsNext
<1> QED BY <1>1, <1>2, <1>3, <1>4, EmptySeq DEF Followers

\* What Leaving consists of, whatever follows it.
LEMMA ByeCalls ==
  ASSUME NEW end \in Followers
  PROVE  /\ CallsNext(SendsBye(end), Send, end)
         /\ CallsNext(SetsBye(end), Set("disconnected"), SendsBye(end))
         /\ CallsNext(Aborts(end), AbortCall, SetsBye(end))
         /\ CallsNext(Stops(end), StopCall, Aborts(end))
<1>1. end \in Seq(CommandCalls) BY HelloCalls
<1>2. SendsBye(end) \in Seq(CommandCalls) /\ CallsNext(SendsBye(end), Send, end)
  BY <1>1, CallInFront, CallsDiffer DEF SendsBye, CallsNext
<1>3. SetsBye(end) \in Seq(CommandCalls) /\ CallsNext(SetsBye(end), Set("disconnected"), SendsBye(end))
  BY <1>2, CallInFront, CallsDiffer DEF SetsBye, CallsNext
<1>4. Aborts(end) \in Seq(CommandCalls) /\ CallsNext(Aborts(end), AbortCall, SetsBye(end))
  BY <1>3, CallInFront, CallsDiffer DEF Aborts, CallsNext
<1>5. CallsNext(Stops(end), StopCall, Aborts(end))
  BY <1>4, CallInFront, CallsDiffer DEF Stops, CallsNext
<1> QED BY <1>2, <1>3, <1>4, <1>5

\* The places of a command are told apart by the call that comes next, and the two that send a status by
\* what comes after it.
LEMMA PlacesDiffer ==
  /\ (Hello \cup {<<>>}) \cap (Stopping \cup Aborting \cup AfterAbort) = {}
  /\ Stopping \cap (Aborting \cup AfterAbort) = {}
  /\ Aborting \cap AfterAbort = {}
  /\ (SayingBye \cup Followers) \cap SettingBye = {}
  /\ SetsHello # SendsHello /\ SetsHello # Answering /\ SetsHello # <<>> /\ SetsHello \notin Followers
  /\ {SetsHello, SendsHello, Answering} \cap {<<>>, Left} = {}
  /\ ({<<>>, Left} \cap (Stopping \cup Aborting \cup SettingBye \cup SayingBye \cup {Spawns})) = {}
<1> DEFINE first(list) == Head(list)[1]
<1>1. /\ \A list \in Stopping : list # <<>> /\ first(list) = "stop"
      /\ \A list \in Aborting : list # <<>> /\ first(list) = "abort"
      /\ \A list \in SettingBye :
           list # <<>> /\ first(list) = "set" /\ Head(list)[2] = "disconnected"
      /\ \A list \in SayingBye : list # <<>> /\ first(list) = "send" /\ Tail(list) \in Followers
  BY ByeCalls, CallsDiffer DEF CallsNext, Stopping, Aborting, SettingBye, SayingBye
<1>2. /\ Answering # <<>> /\ first(Answering) = "answer"
      /\ SendsHello # <<>> /\ first(SendsHello) = "send" /\ Tail(SendsHello) = Answering
      /\ SetsHello # <<>> /\ first(SetsHello) = "set" /\ Head(SetsHello)[2] = "connecting"
      /\ Spawns # <<>> /\ first(Spawns) = "spawn"
      /\ Left # <<>> /\ first(Left) = "left"
  BY HelloCalls, CallsDiffer DEF CallsNext
<1> HIDE DEF first
<1>3. Answering \notin Followers BY <1>2 DEF Followers
<1>4. SendsHello \notin SayingBye BY <1>1, <1>2, <1>3
<1>5. \A list \in Stopping : list \notin Aborting \cup AfterAbort
  BY <1>1, <1>2 DEF AfterAbort
<1>6. \A list \in Aborting : list \notin AfterAbort
  BY <1>1, <1>2 DEF AfterAbort
<1>7. \A list \in Hello \cup {<<>>} : list \notin Stopping \cup Aborting
  BY <1>1, <1>2 DEF Hello
<1>8. \A list \in Hello \cup {<<>>} : list \notin AfterAbort
  BY <1>1, <1>2, <1>4, CallsDiffer DEF Hello, AfterAbort
<1>9. \A list \in SettingBye : list \notin SayingBye \cup Followers
  BY <1>1, <1>2 DEF Followers
<1>10. SetsHello # SendsHello /\ SetsHello # Answering /\ SetsHello # <<>> /\ SetsHello \notin Followers
  BY <1>2 DEF Followers
<1>11. {SetsHello, SendsHello, Answering} \cap {<<>>, Left} = {}
  BY <1>2
<1>12. ({<<>>, Left} \cap (Stopping \cup Aborting \cup SettingBye \cup SayingBye \cup {Spawns})) = {}
  BY <1>1, <1>2
<1> QED BY <1>5, <1>6, <1>7, <1>8, <1>9, <1>10, <1>11, <1>12

\* A list of calls as the operators of this module write it.
LEMMA Listed ==
  ASSUME NEW call \in CommandCalls, NEW other \in CommandCalls
  PROVE  <<call>> = Then(call, <<>>) /\ <<call, other>> = Then(call, Then(other, <<>>))
<1> DEFINE one == <<call>>
           two == <<other>>
           both == <<call, other>>
           joined == one \o two
<1>1. /\ one \in Seq(CommandCalls) /\ Len(one) = 1 /\ one[1] = call
      /\ two \in Seq(CommandCalls) /\ Len(two) = 1 /\ two[1] = other
      /\ both \in Seq(CommandCalls) /\ Len(both) = 2 /\ both[1] = call /\ both[2] = other
  OBVIOUS
<1>2. one = Then(call, <<>>) /\ two = Then(other, <<>>) /\ joined = Then(call, two)
  <2> HIDE DEF two
  <2>1. one \o <<>> = one BY <1>1, ConcatEmptySeq
  <2>2. <<other>> \o <<>> = <<other>>
    <3>1. two \o <<>> = two BY <1>1, ConcatEmptySeq
    <3> QED BY <3>1 DEF two
  <2> QED BY <2>1, <2>2 DEF Then, two
<1> HIDE DEF one, two, both
<1>3. /\ joined \in Seq(CommandCalls) /\ Len(joined) = Len(one) + Len(two)
      /\ \A i \in 1..(Len(one) + Len(two)) : joined[i] = IF i <= Len(one) THEN one[i] ELSE two[i - Len(one)]
  BY <1>1, ConcatProperties
<1> HIDE DEF joined
<1>4. Len(joined) = Len(both) /\ \A i \in 1..Len(joined) : joined[i] = both[i]
  <2>1. Len(joined) = 2 /\ \A i \in 1..2 : joined[i] = IF i <= 1 THEN one[i] ELSE two[i - 1]
    BY <1>1, <1>3
  <2> QED BY <1>1, <2>1
<1>5. joined = both BY <1>1, <1>3, <1>4, SeqEqual
<1> QED BY <1>2, <1>5 DEF one, two, both

\* What is joined to a list goes to the end of it.
LEMMA JoinedLater ==
  ASSUME NEW call \in CommandCalls, NEW list \in Seq(CommandCalls), NEW rest \in Seq(CommandCalls)
  PROVE  Then(call, list) \o rest = Then(call, list \o rest)
<1> DEFINE one == <<call>>
<1>1. one \in Seq(CommandCalls) OBVIOUS
<1> HIDE DEF one
<1>2. (one \o list) \o rest = one \o (list \o rest) BY <1>1, ConcatAssociative
<1> QED BY <1>2 DEF Then, one

\* Leaving goes to the end of its own calls and on with those that follow.
LEMMA LeavingThen ==
  ASSUME NEW list \in Seq(CommandCalls), NEW rest \in Seq(CommandCalls)
  PROVE  Stops(list) \in Seq(CommandCalls) /\ Stops(list) \o rest = Stops(list \o rest)
<1>1. SendsBye(list) \in Seq(CommandCalls) BY CallsDiffer, CallInFront DEF SendsBye
<1>2. SetsBye(list) \in Seq(CommandCalls) BY <1>1, CallsDiffer, CallInFront DEF SetsBye
<1>3. Aborts(list) \in Seq(CommandCalls) BY <1>2, CallsDiffer, CallInFront DEF Aborts
<1>4. Stops(list) \in Seq(CommandCalls) BY <1>3, CallsDiffer, CallInFront DEF Stops
<1>5. SendsBye(list) \o rest = SendsBye(list \o rest) BY CallsDiffer, JoinedLater DEF SendsBye
<1>6. SetsBye(list) \o rest = SetsBye(list \o rest)
  <2>1. SetsBye(list) \o rest = Then(Set("disconnected"), SendsBye(list) \o rest)
    BY <1>1, CallsDiffer, JoinedLater DEF SetsBye
  <2> QED BY <1>5, <2>1 DEF SetsBye
<1>7. Aborts(list) \o rest = Aborts(list \o rest)
  <2>1. Aborts(list) \o rest = Then(AbortCall, SetsBye(list) \o rest)
    BY <1>2, CallsDiffer, JoinedLater DEF Aborts
  <2> QED BY <1>6, <2>1 DEF Aborts
<1>8. Stops(list) \o rest = Stops(list \o rest)
  <2>1. Stops(list) \o rest = Then(StopCall, Aborts(list) \o rest)
    BY <1>3, CallsDiffer, JoinedLater DEF Stops
  <2> QED BY <1>7, <2>1 DEF Stops
<1> QED BY <1>4, <1>8

\* The commands as they are issued.
LEMMA CommandsIssued ==
  /\ Leaving = Stops(<<>>)
  /\ Connecting = Stops(Spawns)
  /\ Leaving \o <<<<"left", Nothing>>>> = Stops(Left)
  /\ <<<<"answer", Nothing>>>> = Answering
<1> DEFINE none == <<>>
           spawn == Then(SpawnCall, none)
           hello == Then(Set("connecting"), Then(Send, none))
           bye == Then(Set("disconnected"), Then(Send, none))
           stop == Then(StopCall, Then(AbortCall, none))
<1>1. /\ <<<<"spawn", Nothing>>>> = spawn /\ <<<<"answer", Nothing>>>> = Answering
      /\ <<<<"left", Nothing>>>> = Left
      /\ <<<<"stop", Nothing>>, <<"abort", Nothing>>>> = stop
      /\ Report("connecting") = hello /\ Report("disconnected") = bye
  <2>1. /\ <<SpawnCall>> = spawn /\ <<AnswerCall>> = Answering /\ <<LeftCall>> = Left
        /\ <<StopCall, AbortCall>> = stop
        /\ <<Set("connecting"), Send>> = hello /\ <<Set("disconnected"), Send>> = bye
    BY Listed, CallsDiffer DEF Answering, Left
  <2> QED BY <2>1 DEF SpawnCall, AnswerCall, LeftCall, StopCall, AbortCall, Report
<1>2. /\ none \in Seq(CommandCalls) /\ spawn \in Seq(CommandCalls) /\ hello \in Seq(CommandCalls)
      /\ bye \in Seq(CommandCalls) /\ stop \in Seq(CommandCalls)
      /\ Then(AbortCall, none) \in Seq(CommandCalls) /\ Then(Send, none) \in Seq(CommandCalls)
      /\ Answering \in Seq(CommandCalls) /\ Left \in Seq(CommandCalls)
  BY CallInFront, CallsDiffer, EmptySeq DEF Answering, Left
<1>3. none \o bye = bye /\ none \o spawn = spawn /\ none \o hello = hello /\ none \o Answering = Answering
      /\ none \o Left = Left
  BY <1>2, ConcatEmptySeq
<1> HIDE DEF none
<1>4. Leaving = Stops(none)
  <2>1. Then(AbortCall, none) \o bye = Then(AbortCall, none \o bye)
    BY <1>2, JoinedLater, CallsDiffer
  <2>2. stop \o bye = Then(StopCall, Then(AbortCall, none) \o bye)
    BY <1>2, JoinedLater, CallsDiffer
  <2> QED BY <1>1, <1>3, <2>1, <2>2 DEF Leaving, Stops, Aborts, SetsBye, SendsBye
<1>5. Leaving \o Left = Stops(Left)
  <2>1. Stops(none) \o Left = Stops(none \o Left) BY <1>2, LeavingThen
  <2> QED BY <1>3, <1>4, <2>1
<1>6. Connecting = Stops(Spawns)
  <2>1. Leaving \o spawn = Stops(spawn)
    <3>1. Stops(none) \o spawn = Stops(none \o spawn) BY <1>2, LeavingThen
    <3> QED BY <1>3, <1>4, <3>1
  <2>2. spawn \o hello = Then(SpawnCall, hello)
    <3>1. spawn \o hello = Then(SpawnCall, none \o hello) BY <1>2, JoinedLater, CallsDiffer
    <3> QED BY <1>3, <3>1
  <2>3. Then(Send, none) \o Answering = SendsHello
    <3>1. Then(Send, none) \o Answering = Then(Send, none \o Answering)
      BY <1>2, JoinedLater, CallsDiffer
    <3> QED BY <1>3, <3>1 DEF SendsHello
  <2>4. hello \o Answering = SetsHello
    <3>1. hello \o Answering = Then(Set("connecting"), Then(Send, none) \o Answering)
      BY <1>2, JoinedLater, CallsDiffer
    <3> QED BY <2>3, <3>1 DEF SetsHello
  <2>5. Then(SpawnCall, hello) \o Answering = Spawns
    <3>1. Then(SpawnCall, hello) \o Answering = Then(SpawnCall, hello \o Answering)
      BY <1>2, JoinedLater, CallsDiffer
    <3> QED BY <2>4, <3>1 DEF Spawns
  <2>6. Then(SpawnCall, hello) \in Seq(CommandCalls) BY <1>2, CallInFront, CallsDiffer
  <2>7. Stops(spawn) \o hello = Stops(Then(SpawnCall, hello))
    <3>1. Stops(spawn) \o hello = Stops(spawn \o hello) BY <1>2, LeavingThen
    <3> QED BY <2>2, <3>1
  <2>8. Stops(Then(SpawnCall, hello)) \o Answering = Stops(Spawns)
    <3>1. Stops(Then(SpawnCall, hello)) \o Answering = Stops(Then(SpawnCall, hello) \o Answering)
      BY <1>2, <2>6, LeavingThen
    <3> QED BY <2>5, <3>1
  <2> QED BY <1>1, <2>1, <2>7, <2>8 DEF Connecting
<1> QED BY <1>1, <1>4, <1>5, <1>6 DEF none

-----------------------------------------------------------------------------
(* What a task still has to do *)

\* The calls of a task.
LEMMA TaskCallsDiffer ==
  /\ \A state \in States : Set(state) \in TaskCallSet /\ Set(state)[1] = "set" /\ Set(state)[2] = state
  /\ Send \in TaskCallSet /\ Send[1] = "send" /\ Buffered \in TaskCallSet /\ Buffered[1] = "buffered"
  /\ \A call \in TaskCallSet :
       \/ \E state \in States : call = Set(state)
       \/ call = Send
       \/ call = Buffered
BY DEF TaskCallSet, Set, Send, Buffered

\* A report is a status that is sent right away; it makes a task send something.
LEMMA ReportMade ==
  ASSUME NEW state \in States
  PROVE  /\ Report(state) \in Seq(TaskCallSet) /\ Len(Report(state)) = 2
         /\ Report(state)[1] = Set(state) /\ Report(state)[2] = Send
BY TaskCallsDiffer DEF Report

\* The lists of calls that a task is given.
GoodTodo(todo, told) ==
  /\ todo \in Seq(TaskCallSet) /\ Followed(todo)
  /\ \A i \in DOMAIN todo : todo[i][1] = "set" => todo[i][2] \in told
Reporting(todo) ==
  /\ \E i \in DOMAIN todo : todo[i][1] = "set"
  /\ \E i \in DOMAIN todo : todo[i] = Send

\* A report tells one status, alone, before the rest of a buffer, or twice.
LEMMA ReportsMade ==
  ASSUME NEW state \in States
  PROVE  /\ GoodTodo(Report(state), {state}) /\ Reporting(Report(state))
         /\ GoodTodo(Report(state) \o <<Buffered>>, {state}) /\ Reporting(Report(state) \o <<Buffered>>)
         /\ GoodTodo(Report(state) \o Report(state), {state}) /\ Reporting(Report(state) \o Report(state))
<1> DEFINE one == Report(state)
           rest == <<Buffered>>
           p == one \o rest
           q == one \o one
<1>1. one \in Seq(TaskCallSet) /\ Len(one) = 2 /\ one[1] = Set(state) /\ one[2] = Send
  BY ReportMade
<1>2. rest \in Seq(TaskCallSet) /\ Len(rest) = 1 /\ rest[1] = Buffered BY TaskCallsDiffer
<1> HIDE DEF one, rest
<1>3. /\ p \in Seq(TaskCallSet) /\ Len(p) = Len(one) + Len(rest)
      /\ \A i \in 1..(Len(one) + Len(rest)) : p[i] = IF i <= Len(one) THEN one[i] ELSE rest[i - Len(one)]
  BY <1>1, <1>2, ConcatProperties
<1>4. /\ q \in Seq(TaskCallSet) /\ Len(q) = Len(one) + Len(one)
      /\ \A i \in 1..(Len(one) + Len(one)) : q[i] = IF i <= Len(one) THEN one[i] ELSE one[i - Len(one)]
  BY <1>1, ConcatProperties
<1> HIDE DEF p, q
<1>5. Len(p) = 3 /\ p[1] = Set(state) /\ p[2] = Send /\ p[3] = Buffered
  <2>1. /\ Len(p) = 3
        /\ \A i \in 1..3 : p[i] = IF i <= 2 THEN one[i] ELSE rest[i - 2]
    BY <1>1, <1>2, <1>3
  <2> QED BY <1>1, <1>2, <2>1
<1>6. Len(q) = 4 /\ q[1] = Set(state) /\ q[2] = Send /\ q[3] = Set(state) /\ q[4] = Send
  <2>1. /\ Len(q) = 4
        /\ \A i \in 1..4 : q[i] = IF i <= 2 THEN one[i] ELSE one[i - 2]
    BY <1>1, <1>4
  <2> QED BY <1>1, <2>1
<1>7. DOMAIN one = 1..2 /\ DOMAIN p = 1..3 /\ DOMAIN q = 1..4
  <2>1. \A todo \in Seq(TaskCallSet) : DOMAIN todo = 1..Len(todo) BY LenProperties
  <2> QED BY <1>1, <1>3, <1>4, <1>5, <1>6, <2>1
<1>8. GoodTodo(one, {state}) /\ Reporting(one)
  BY <1>1, <1>7, TaskCallsDiffer DEF GoodTodo, Reporting, Followed
<1>9. GoodTodo(p, {state}) /\ Reporting(p)
  <2>1. \A i \in DOMAIN p : i = 1 \/ i = 2 \/ i = 3 BY <1>7
  <2>2. 1 \in DOMAIN p /\ 2 \in DOMAIN p BY <1>7
  <2>3. p[1 + 1] = Send BY <1>5
  <2>4. Followed(p) BY <1>5, <2>1, <2>3, TaskCallsDiffer DEF Followed
  <2> QED BY <1>3, <1>5, <2>1, <2>2, <2>4, TaskCallsDiffer DEF GoodTodo, Reporting
<1>10. GoodTodo(q, {state}) /\ Reporting(q)
  <2>1. \A i \in DOMAIN q : i = 1 \/ i = 2 \/ i = 3 \/ i = 4 BY <1>7
  <2>2. 1 \in DOMAIN q /\ 2 \in DOMAIN q BY <1>7
  <2>3. q[1 + 1] = Send /\ q[3 + 1] = Send /\ Set(state) # Send BY <1>6, TaskCallsDiffer
  <2>4. Followed(q) BY <1>6, <2>1, <2>3, TaskCallsDiffer DEF Followed
  <2> QED BY <1>4, <1>6, <2>1, <2>2, <2>4, TaskCallsDiffer DEF GoodTodo, Reporting
<1> QED BY <1>8, <1>9, <1>10 DEF p, q, rest, one

\* Without a call, or with the rest of a buffer, a task says nothing.
LEMMA NothingToReport ==
  ASSUME NEW todo \in {<<>>, <<Buffered>>}
  PROVE  /\ GoodTodo(todo, {})
         /\ \A i \in DOMAIN todo : todo[i][1] # "set" /\ todo[i] # Send
<1>1. CASE todo = <<>> BY <1>1, EmptySeq DEF GoodTodo, Followed
<1>2. CASE todo = <<Buffered>>
  <2>1. todo \in Seq(TaskCallSet) /\ Len(todo) = 1 /\ todo[1] = Buffered BY <1>2, TaskCallsDiffer
  <2>2. \A i \in DOMAIN todo : todo[i] = Buffered BY <2>1
  <2>3. Buffered[1] = "buffered" /\ Send[1] = "send" BY TaskCallsDiffer
  <2> QED BY <2>1, <2>2, <2>3 DEF GoodTodo, Followed
<1> QED BY <1>1, <1>2

\* What a task has to do after its next call.
LEMMA NextCall ==
  ASSUME NEW todo \in Seq(TaskCallSet), todo # <<>>, Followed(todo)
  PROVE  /\ Tail(todo) \in Seq(TaskCallSet) /\ Followed(Tail(todo))
         /\ Head(todo) = todo[1] /\ 1 \in DOMAIN todo
         /\ \A i \in DOMAIN Tail(todo) : i + 1 \in DOMAIN todo /\ Tail(todo)[i] = todo[i + 1]
         /\ \A i \in DOMAIN todo : i = 1 \/ (i - 1 \in DOMAIN Tail(todo) /\ Tail(todo)[i - 1] = todo[i])
         /\ Head(todo)[1] = "set" => \E i \in DOMAIN Tail(todo) : Tail(todo)[i] = Send
<1> DEFINE rest == Tail(todo)
<1>1. /\ rest \in Seq(TaskCallSet) /\ Len(rest) = Len(todo) - 1
      /\ \A i \in 1..Len(rest) : rest[i] = todo[i + 1]
  BY HeadTailProperties
<1>2. Head(todo) = todo[1] OBVIOUS
<1> HIDE DEF rest
<1>3. Len(todo) \in Nat \ {0} /\ DOMAIN todo = 1..Len(todo) BY EmptySeq, LenProperties
<1>4. DOMAIN rest = 1..Len(rest) BY <1>1, LenProperties
<1>5. \A i \in DOMAIN rest : i + 1 \in DOMAIN todo /\ rest[i] = todo[i + 1] BY <1>1, <1>3, <1>4
<1>6. \A i \in DOMAIN todo : i = 1 \/ (i - 1 \in DOMAIN rest /\ rest[i - 1] = todo[i])
  BY <1>1, <1>3, <1>4
<1>7. Followed(rest)
  <2> SUFFICES ASSUME NEW i \in DOMAIN rest, rest[i][1] = "set" PROVE i < Len(rest) /\ rest[i + 1] = Send
    BY DEF Followed
  <2>1. i + 1 < Len(todo) /\ todo[i + 1 + 1] = Send BY <1>5 DEF Followed
  <2> QED BY <1>1, <1>3, <1>4, <2>1
<1>8. todo[1][1] = "set" => \E i \in DOMAIN rest : rest[i] = Send
  <2> SUFFICES ASSUME todo[1][1] = "set" PROVE 1 \in DOMAIN rest /\ rest[1] = Send OBVIOUS
  <2>1. 1 < Len(todo) /\ todo[1 + 1] = Send BY <1>3 DEF Followed
  <2> QED BY <1>1, <1>3, <1>4, <2>1
<1> QED BY <1>1, <1>2, <1>3, <1>5, <1>6, <1>7, <1>8 DEF rest

\* One task is replaced, the others stay.
LEMMA TaskChanged ==
  ASSUME ChatTypeOK, NEW t \in DOMAIN tasks, NEW task \in ChatTasks, tasks' = [tasks EXCEPT ![t] = task]
  PROVE  /\ tasks' \in Seq(ChatTasks) /\ DOMAIN tasks' = DOMAIN tasks /\ Len(tasks') = Len(tasks)
         /\ tasks'[t] = task /\ \A u \in DOMAIN tasks : u # t => tasks'[u] = tasks[u]
<1>1. tasks \in Seq(ChatTasks) /\ DOMAIN tasks = 1..Len(tasks) /\ t \in 1..Len(tasks)
  BY LenProperties DEF ChatTypeOK
<1>2. /\ tasks' \in Seq(ChatTasks) /\ Len(tasks') = Len(tasks)
      /\ \A u \in 1..Len(tasks) : tasks'[u] = IF u = t THEN task ELSE tasks[u]
  BY <1>1, ExceptSeq
<1>3. DOMAIN tasks' = 1..Len(tasks') BY <1>2, LenProperties
<1> QED BY <1>1, <1>2, <1>3

\* A task goes on by itself: what it will tell is true of it, and unless it tells something it leaves
\* what the status says of it as true as it was.
TaskMoves(t, task) ==
  /\ tasks' = [tasks EXCEPT ![t] = task]
  /\ task \in ChatTasks /\ TaskOK(task) /\ ReportsTell(task)
  /\ task.stopped = tasks[t].stopped /\ task.aborted = tasks[t].aborted
  /\ \/ ~NoReport(task) /\ ~SendsNothing(task)
     \/ /\ NoReport(tasks[t]) /\ (SendsNothing(task) <=> SendsNothing(tasks[t]))
        /\ \A state \in States : Tells(state, tasks[t]) => Tells(state, task)

\* Such a step keeps what the reports depend on.
LEMMA TaskMovesOn ==
  ASSUME ChatTypeOK, ReportInv, NEW t \in DOMAIN tasks, NEW task, TaskMoves(t, task),
         UNCHANGED <<settings, status, handle, main, refreshes, wire, panel>>, blamed \subseteq blamed'
  PROVE  ChatTypeOK' /\ ReportInv'
<1>1. /\ tasks' \in Seq(ChatTasks) /\ DOMAIN tasks' = DOMAIN tasks /\ Len(tasks') = Len(tasks)
      /\ tasks'[t] = task /\ \A u \in DOMAIN tasks : u # t => tasks'[u] = tasks[u]
  BY TaskChanged DEF TaskMoves
<1>2. ChatTypeOK' BY <1>1 DEF ChatTypeOK
<1>3. \A u \in DOMAIN tasks : tasks'[u].stopped = tasks[u].stopped /\ tasks'[u].aborted = tasks[u].aborted
  BY <1>1 DEF TaskMoves
<1>4. handle \in {0} \cup DOMAIN tasks /\ handle' = handle /\ main' = main /\ status' = status /\ status \in States
  BY DEF ChatTypeOK
<1>5. HandleInv'
  <2>1. HandleInv BY DEF ReportInv
  <2>2. \A u \in DOMAIN tasks' : u # handle' => tasks'[u].stopped /\ tasks'[u].aborted
    BY <1>1, <1>3, <1>4, <2>1 DEF HandleInv
  <2>3. handle' # 0 => ~tasks'[handle'].aborted
    BY <1>3, <1>4, <2>1 DEF HandleInv
  <2>4. main' \in Aborting /\ handle' # 0 => tasks'[handle'].stopped
    BY <1>3, <1>4, <2>1 DEF HandleInv
  <2>5. (main' \in AfterAbort => handle' = 0) /\ (main' = SetsHello => handle' # 0)
    BY <1>4, <2>1 DEF HandleInv
  <2> QED BY <2>2, <2>3, <2>4, <2>5 DEF HandleInv
<1>6. TaskInv'
  <2> SUFFICES ASSUME NEW u \in DOMAIN tasks PROVE TaskOK(tasks'[u])
    BY <1>1 DEF TaskInv
  <2> QED BY <1>1 DEF TaskMoves, ReportInv, TaskInv
<1>7. StatusInv'
  <2> SUFFICES ASSUME blamed' \cap {"late", "posthumous"} = {}
               PROVE  /\ handle' = 0 /\ main' \notin SettingBye => status' = "disconnected"
                      /\ handle' # 0 =>
                           /\ ReportsTell(tasks'[handle'])
                           /\ main' # SetsHello /\ NoReport(tasks'[handle']) => Tells(status', tasks'[handle'])
    BY DEF StatusInv
  <2>1. /\ handle = 0 /\ main \notin SettingBye => status = "disconnected"
        /\ handle # 0 =>
             /\ ReportsTell(tasks[handle])
             /\ main # SetsHello /\ NoReport(tasks[handle]) => Tells(status, tasks[handle])
    BY DEF ReportInv, StatusInv
  <2>2. CASE handle = t
    <3>1. tasks[handle] = tasks[t] /\ tasks'[handle'] = task BY <1>1, <1>4, <2>2
    <3> QED BY <1>4, <2>1, <2>2, <3>1 DEF TaskMoves
  <2>3. CASE handle # t /\ handle # 0
    <3>1. tasks'[handle'] = tasks[handle] BY <1>1, <1>4, <2>3
    <3> QED BY <1>4, <2>1, <2>3, <3>1
  <2>4. CASE handle = 0 BY <1>4, <2>1, <2>4
  <2> QED BY <2>2, <2>3, <2>4
<1>8. SaidInv'
  <2> SUFFICES ASSUME blamed' \cap {"late", "posthumous", "overtaken"} = {}, main' \in {<<>>, Left},
                      \A u \in DOMAIN tasks' : SendsNothing(tasks'[u])
               PROVE  LastSaid' = status'
    BY DEF SaidInv
  <2>1. \A u \in DOMAIN tasks : SendsNothing(tasks[u])
    BY <1>1 DEF TaskMoves
  <2>2. blamed \cap {"late", "posthumous", "overtaken"} = {} OBVIOUS
  <2>3. LastSaid' = LastSaid BY DEF LastSaid
  <2> QED BY <1>4, <2>1, <2>2, <2>3 DEF ReportInv, SaidInv
<1> QED BY <1>2, <1>5, <1>6, <1>7, <1>8 DEF ReportInv

\* A task that goes on while nothing else does keeps the emote sets right if it stays as far with its
\* own as it was.
LEMMA TaskKeepsEmotes ==
  ASSUME ChatInv, NEW t \in DOMAIN tasks, NEW task \in ChatTasks, tasks' = [tasks EXCEPT ![t] = task],
         ~Fetching(task) => ~Fetching(tasks[t]),
         UNCHANGED <<settings, handle, refreshes, emotes, blamed>>
  PROVE  EmoteInv'
<1>1. /\ DOMAIN tasks' = DOMAIN tasks /\ tasks'[t] = task
      /\ \A u \in DOMAIN tasks : u # t => tasks'[u] = tasks[u]
  BY TaskChanged DEF ChatInv
<1>2. handle # 0 => handle \in DOMAIN tasks BY DEF ChatInv, ChatTypeOK
<1>3. handle # 0 /\ ~Fetching(tasks'[handle]) => ~Fetching(tasks[handle]) BY <1>1, <1>2
<1> QED BY <1>3 DEF ChatInv, EmoteInv

\* A task that is given a report tells it.
LEMMA GivenReport ==
  ASSUME NEW task, NEW told, GoodTodo(task.todo, told),
         \A state \in told : Tells(state, task)
  PROVE  Followed(task.todo) /\ ReportsTell(task)
BY DEF GoodTodo, ReportsTell

\* A task that is about to report something is silent no longer.
LEMMA ReportingTells ==
  ASSUME NEW task, Reporting(task.todo)
  PROVE  ~NoReport(task) /\ ~SendsNothing(task)
BY DEF Reporting, NoReport, SendsNothing

\* A task that has nothing to say says nothing.
LEMMA SilentTask ==
  ASSUME NEW task, task.todo \in {<<>>, <<Buffered>>}
  PROVE  /\ NoReport(task) /\ SendsNothing(task) /\ Followed(task.todo) /\ ReportsTell(task)
         /\ task.todo \in Seq(TaskCallSet)
<1>1. /\ GoodTodo(task.todo, {})
      /\ \A i \in DOMAIN task.todo : task.todo[i][1] # "set" /\ task.todo[i] # Send
  BY NothingToReport
<1> QED BY <1>1 DEF NoReport, SendsNothing, ReportsTell, GoodTodo

-----------------------------------------------------------------------------
(* The steps of a task by itself *)

\* What dialing and ending make of a task.
LEMMA TaskFields ==
  ASSUME NEW task \in ChatTasks
  PROVE  /\ Dialing(task) \in ChatTasks /\ Dialing(task).at = "dialing" /\ Dialing(task).fetches = Nothing
         /\ Dialing(task).joined = task.joined /\ Dialing(task).todo = Report("connecting")
         /\ Dialing(task).stopped = task.stopped /\ Dialing(task).aborted = task.aborted
         /\ \A reports \in Seq(TaskCallSet) :
              /\ Over(task, reports) \in ChatTasks /\ Over(task, reports).at = "over"
              /\ Over(task, reports).fetches = task.fetches /\ ~Over(task, reports).joined
              /\ Over(task, reports).todo = reports /\ Over(task, reports).stopped = task.stopped
              /\ Over(task, reports).aborted = task.aborted
<1>1. Report("connecting") \in Seq(TaskCallSet) BY ReportMade DEF States
<1> DEFINE todo == Report("connecting")
           none == Nothing
<1> HIDE DEF todo, none
<1>2. none \in SomeSources BY DEF none, SomeSources
<1>3. todo \in Seq(TaskCallSet) BY <1>1 DEF todo
<1> DEFINE dialing == [task EXCEPT !.at = "dialing", !.fetches = none, !.todo = todo]
<1>4. /\ dialing \in ChatTasks /\ dialing.at = "dialing" /\ dialing.fetches = none
      /\ dialing.joined = task.joined /\ dialing.todo = todo
      /\ dialing.stopped = task.stopped /\ dialing.aborted = task.aborted
  BY <1>2, <1>3 DEF ChatTasks, Phases
<1>5. dialing = Dialing(task) BY DEF Dialing, todo, none
<1> HIDE DEF dialing
<1>6. ASSUME NEW reports \in Seq(TaskCallSet)
      PROVE  /\ Over(task, reports) \in ChatTasks /\ Over(task, reports).at = "over"
             /\ Over(task, reports).fetches = task.fetches /\ ~Over(task, reports).joined
             /\ Over(task, reports).todo = reports /\ Over(task, reports).stopped = task.stopped
             /\ Over(task, reports).aborted = task.aborted
  BY DEF Over, ChatTasks, Phases
<1> QED BY <1>4, <1>5, <1>6 DEF todo, none

\* A session that is over reports an error or that it is disconnected.
LEMMA OverMoves ==
  ASSUME ChatTypeOK, NEW t \in DOMAIN tasks, NEW reports, Reporting(reports),
         GoodTodo(reports, {"error", "disconnected"}),
         tasks' = [tasks EXCEPT ![t] = Over(tasks[t], reports)]
  PROVE  TaskMoves(t, Over(tasks[t], reports)) /\ ~Fetching(Over(tasks[t], reports))
<1> DEFINE task == Over(tasks[t], reports)
<1>1. tasks[t] \in ChatTasks BY ElementOfSeq, LenProperties DEF ChatTypeOK
<1>2. /\ task \in ChatTasks /\ task.at = "over" /\ ~task.joined /\ task.todo = reports
      /\ task.stopped = tasks[t].stopped /\ task.aborted = tasks[t].aborted
  BY <1>1, TaskFields DEF GoodTodo
<1>3. tasks' = [tasks EXCEPT ![t] = task] OBVIOUS
<1> HIDE DEF task
<1>4. Followed(task.todo) /\ ReportsTell(task) BY <1>2, GivenReport DEF Tells
<1>5. ~NoReport(task) /\ ~SendsNothing(task) BY <1>2, ReportingTells
<1>6. TaskOK(task) BY <1>2, <1>4 DEF TaskOK
<1>7. TaskMoves(t, task) BY <1>2, <1>3, <1>4, <1>5, <1>6 DEF TaskMoves
<1> QED BY <1>2, <1>7 DEF Fetching, task

\* A session that dials says so.
LEMMA DialingMoves ==
  ASSUME ChatTypeOK, NEW t \in DOMAIN tasks, TaskOK(tasks[t]), tasks[t].at \in {"new", "emotes"},
         tasks' = [tasks EXCEPT ![t] = Dialing(tasks[t])]
  PROVE  TaskMoves(t, Dialing(tasks[t])) /\ Dialing(tasks[t]) \in ChatTasks
<1> DEFINE task == Dialing(tasks[t])
<1>1. tasks[t] \in ChatTasks BY ElementOfSeq, LenProperties DEF ChatTypeOK
<1>2. /\ task \in ChatTasks /\ task.at = "dialing" /\ task.joined = tasks[t].joined
      /\ task.todo = Report("connecting")
      /\ task.stopped = tasks[t].stopped /\ task.aborted = tasks[t].aborted
  BY <1>1, TaskFields
<1>3. tasks' = [tasks EXCEPT ![t] = task] OBVIOUS
<1> HIDE DEF task
<1>4. ~task.joined BY <1>2 DEF TaskOK
<1>5. GoodTodo(task.todo, {"connecting"}) /\ Reporting(task.todo) BY <1>2, ReportsMade DEF States
<1>6. Followed(task.todo) /\ ReportsTell(task) BY <1>2, <1>4, <1>5, GivenReport DEF Tells
<1>7. ~NoReport(task) /\ ~SendsNothing(task) BY <1>5, ReportingTells
<1>8. TaskOK(task) BY <1>2, <1>4, <1>6 DEF TaskOK
<1>9. TaskMoves(t, task) BY <1>2, <1>3, <1>6, <1>7, <1>8 DEF TaskMoves
<1> QED BY <1>2, <1>9 DEF task

\* The first steps of a session.
LEMMA BeginKeepsChat == ASSUME ChatInv, NEW t \in DOMAIN tasks, Begin(t) PROVE ChatInv'
<1>1. tasks[t] \in ChatTasks BY ElementOfSeq, LenProperties DEF ChatInv, ChatTypeOK
<1>2. TaskOK(tasks[t]) /\ tasks[t].at = "new" /\ tasks[t].todo = <<>>
  BY DEF ChatInv, ReportInv, TaskInv, Begin, Wakes, Awaits
<1>3. CASE tasks[t].fetches # Nothing
  <2> DEFINE task == [tasks[t] EXCEPT !.at = "emotes"]
  <2>1. /\ task \in ChatTasks /\ task.at = "emotes" /\ task.joined = tasks[t].joined
        /\ task.todo = tasks[t].todo /\ task.fetches = tasks[t].fetches
        /\ task.stopped = tasks[t].stopped /\ task.aborted = tasks[t].aborted
    BY <1>1 DEF ChatTasks, Phases
  <2>2. tasks' = [tasks EXCEPT ![t] = task] BY <1>3 DEF Begin
  <2> HIDE DEF task
  <2>3. ~task.joined BY <1>2, <2>1 DEF TaskOK
  <2>4. NoReport(task) /\ SendsNothing(task) /\ ReportsTell(task) /\ Followed(task.todo)
    BY <1>2, <2>1, SilentTask
  <2>5. NoReport(tasks[t]) /\ SendsNothing(tasks[t]) BY <1>2, SilentTask
  <2>6. TaskOK(task) BY <1>3, <2>1, <2>3, <2>4 DEF TaskOK
  <2>7. \A state \in States : Tells(state, tasks[t]) => Tells(state, task)
    BY <1>2, <2>1 DEF Tells
  <2>8. TaskMoves(t, task) BY <2>1, <2>2, <2>4, <2>5, <2>6, <2>7 DEF TaskMoves
  <2>9. Fetching(task) BY <1>3, <2>1 DEF Fetching
  <2>10. ChatTypeOK' /\ ReportInv' BY <2>8, TaskMovesOn DEF ChatInv, Begin, Shore
  <2>11. EmoteInv' BY <2>1, <2>2, <2>9, TaskKeepsEmotes DEF Begin
  <2> QED BY <2>10, <2>11 DEF ChatInv
<1>4. CASE tasks[t].fetches = Nothing
  <2>1. tasks' = [tasks EXCEPT ![t] = Dialing(tasks[t])] BY <1>4 DEF Begin
  <2>2. TaskMoves(t, Dialing(tasks[t])) /\ Dialing(tasks[t]) \in ChatTasks
    BY <1>2, <2>1, DialingMoves DEF ChatInv
  <2>3. ChatTypeOK' /\ ReportInv' BY <2>2, TaskMovesOn DEF ChatInv, Begin, Shore
  <2>4. ~Fetching(tasks[t]) BY <1>4 DEF Fetching
  <2>5. EmoteInv' BY <2>1, <2>2, <2>4, TaskKeepsEmotes DEF Begin
  <2> QED BY <2>3, <2>5 DEF ChatInv
<1> QED BY <1>3, <1>4

\* The emote sets are those the session has fetched, or none.
LEMMA EmotesFetchedKeepsChat == ASSUME ChatInv, NEW t \in DOMAIN tasks, EmotesFetched(t) PROVE ChatInv'
<1>1. TaskOK(tasks[t]) /\ tasks[t].at = "emotes" /\ ~tasks[t].aborted
  BY DEF ChatInv, ReportInv, TaskInv, EmotesFetched, Wakes
<1>2. TaskMoves(t, Dialing(tasks[t]))
  BY <1>1, DialingMoves DEF ChatInv, EmotesFetched
<1>3. ChatTypeOK' /\ ReportInv' BY <1>2, TaskMovesOn DEF ChatInv, EmotesFetched, Shore
<1>4. EmoteInv'
  <2> SUFFICES ASSUME "outrun" \notin blamed' PROVE emotes' \in {settings'.sources, Nothing}
    BY DEF EmoteInv
  <2> QED BY DEF EmotesFetched
<1> QED BY <1>3, <1>4 DEF ChatInv

\* The connection is there, or it has failed.
LEMMA DialedKeepsChat == ASSUME ChatInv, NEW t \in DOMAIN tasks, Dialed(t) PROVE ChatInv'
<1>1. tasks[t] \in ChatTasks BY ElementOfSeq, LenProperties DEF ChatInv, ChatTypeOK
<1>2. TaskOK(tasks[t]) /\ tasks[t].at = "dialing" /\ tasks[t].todo = <<>> /\ ~Fetching(tasks[t])
  BY DEF ChatInv, ReportInv, TaskInv, Dialed, Wakes, Awaits, Fetching
<1> DEFINE done == [tasks[t] EXCEPT !.at = "lines"]
           failed == Over(tasks[t], Report("error"))
<1>3. CASE tasks' = [tasks EXCEPT ![t].at = "lines"]
  <2>1. /\ done \in ChatTasks /\ done.at = "lines" /\ done.joined = tasks[t].joined
        /\ done.todo = tasks[t].todo /\ done.stopped = tasks[t].stopped /\ done.aborted = tasks[t].aborted
    BY <1>1 DEF ChatTasks, Phases
  <2>2. tasks' = [tasks EXCEPT ![t] = done] BY <1>3
  <2> HIDE DEF done
  <2>3. NoReport(done) /\ SendsNothing(done) /\ ReportsTell(done) /\ Followed(done.todo)
    BY <1>2, <2>1, SilentTask
  <2>4. NoReport(tasks[t]) /\ SendsNothing(tasks[t]) BY <1>2, SilentTask
  <2>5. TaskOK(done) BY <2>1, <2>3 DEF TaskOK
  <2>6. \A state \in States : Tells(state, tasks[t]) => Tells(state, done)
    BY <1>2, <2>1 DEF Tells
  <2>7. TaskMoves(t, done) BY <2>1, <2>2, <2>3, <2>4, <2>5, <2>6 DEF TaskMoves
  <2>8. ChatTypeOK' /\ ReportInv' BY <2>7, TaskMovesOn DEF ChatInv, Dialed, Shore
  <2>9. EmoteInv' BY <1>2, <2>1, <2>2, TaskKeepsEmotes DEF Dialed
  <2> QED BY <2>8, <2>9 DEF ChatInv
<1>4. CASE tasks' = [tasks EXCEPT ![t] = Over(@, Report("error"))]
  <2>1. Reporting(Report("error")) /\ GoodTodo(Report("error"), {"error", "disconnected"})
    BY ReportsMade DEF States, GoodTodo
  <2>2. tasks' = [tasks EXCEPT ![t] = failed] BY <1>4
  <2>3. TaskMoves(t, failed) BY <2>1, <2>2, OverMoves DEF ChatInv
  <2> HIDE DEF failed
  <2>4. ChatTypeOK' /\ ReportInv' BY <2>3, TaskMovesOn DEF ChatInv, Dialed, Shore
  <2>5. EmoteInv' BY <1>2, <2>2, <2>3, TaskKeepsEmotes DEF Dialed, TaskMoves
  <2> QED BY <2>4, <2>5 DEF ChatInv
<1> QED BY <1>3, <1>4 DEF Dialed

\* A session that handles a line may join, may be over, or has nothing to report.
LEMMA LineComesKeepsChat == ASSUME ChatInv, NEW t \in DOMAIN tasks, LineComes(t) PROVE ChatInv'
<1>1. tasks[t] \in ChatTasks BY ElementOfSeq, LenProperties DEF ChatInv, ChatTypeOK
<1>2. /\ TaskOK(tasks[t]) /\ tasks[t].at = "lines" /\ tasks[t].todo \in {<<>>, <<Buffered>>}
      /\ ~Fetching(tasks[t])
  BY DEF ChatInv, ReportInv, TaskInv, LineComes, Wakes, Awaits, Fetching
<1>3. UNCHANGED <<settings, status, handle, main, refreshes, emotes, blamed, wire, panel>>
  BY DEF LineComes
<1>4. ASSUME NEW task, TaskMoves(t, task) PROVE ChatInv'
  <2>1. ChatTypeOK' /\ ReportInv' BY <1>3, <1>4, TaskMovesOn DEF ChatInv
  <2>2. EmoteInv' BY <1>2, <1>3, <1>4, TaskKeepsEmotes DEF TaskMoves
  <2> QED BY <2>1, <2>2 DEF ChatInv
<1> DEFINE welcome == Report("connected") \o <<Buffered>>
           joining == [tasks[t] EXCEPT !.joined = TRUE, !.todo = welcome]
           going == [tasks[t] EXCEPT !.todo = <<Buffered>>]
<1>5. CASE tasks' = [tasks EXCEPT ![t].joined = TRUE, ![t].todo = welcome]
  <2>1. GoodTodo(welcome, {"connected"}) /\ Reporting(welcome) BY ReportsMade DEF States
  <2>2. tasks' = [tasks EXCEPT ![t] = [[tasks[t] EXCEPT !.joined = TRUE] EXCEPT !.todo = welcome]]
    BY <1>5
  <2> HIDE DEF welcome
  <2>3. /\ joining \in ChatTasks /\ joining.at = "lines" /\ joining.joined = TRUE /\ joining.todo = welcome
        /\ joining.stopped = tasks[t].stopped /\ joining.aborted = tasks[t].aborted
    BY <1>1, <1>2, <2>1 DEF ChatTasks, GoodTodo
  <2>4. tasks' = [tasks EXCEPT ![t] = joining] BY <1>1, <2>2 DEF ChatTasks
  <2> HIDE DEF joining
  <2>5. Followed(joining.todo) /\ ReportsTell(joining) BY <2>1, <2>3, GivenReport DEF Tells
  <2>6. ~NoReport(joining) /\ ~SendsNothing(joining) BY <2>1, <2>3, ReportingTells
  <2>7. TaskOK(joining) BY <2>3, <2>5 DEF TaskOK
  <2> QED BY <1>4, <2>3, <2>4, <2>5, <2>6, <2>7 DEF TaskMoves
<1>6. CASE tasks' = [tasks EXCEPT ![t].todo = <<Buffered>>]
  <2> DEFINE rest == <<Buffered>>
  <2>1. rest \in Seq(TaskCallSet) BY TaskCallsDiffer
  <2>2. rest \in {<<>>, <<Buffered>>} OBVIOUS
  <2>3. going = [tasks[t] EXCEPT !.todo = rest] OBVIOUS
  <2> HIDE DEF rest
  <2>4. /\ going \in ChatTasks /\ going.at = "lines" /\ going.joined = tasks[t].joined
        /\ going.todo = rest
        /\ going.stopped = tasks[t].stopped /\ going.aborted = tasks[t].aborted
    BY <1>1, <1>2, <2>1, <2>3 DEF ChatTasks
  <2>5. tasks' = [tasks EXCEPT ![t] = going] BY <1>6
  <2> HIDE DEF going
  <2>6. NoReport(going) /\ SendsNothing(going) /\ ReportsTell(going) /\ Followed(going.todo)
    BY <2>2, <2>4, SilentTask
  <2>7. NoReport(tasks[t]) /\ SendsNothing(tasks[t]) BY <1>2, SilentTask
  <2>8. TaskOK(going) BY <2>4, <2>6 DEF TaskOK
  <2>9. \A state \in States : Tells(state, tasks[t]) => Tells(state, going)
    BY <1>2, <2>4 DEF Tells
  <2> QED BY <1>4, <2>4, <2>5, <2>6, <2>7, <2>8, <2>9 DEF TaskMoves
<1>7. ASSUME NEW reports \in {Report("error"), Report("error") \o Report("error"), Report("disconnected")},
             tasks' = [tasks EXCEPT ![t] = Over(@, reports)]
      PROVE  ChatInv'
  <2>1. Reporting(reports) /\ GoodTodo(reports, {"error", "disconnected"})
    <3>1. {"error", "disconnected"} \subseteq States BY DEF States
    <3>2. CASE reports = Report("error") BY <3>1, <3>2, ReportsMade DEF GoodTodo
    <3>3. CASE reports = Report("error") \o Report("error") BY <3>1, <3>3, ReportsMade DEF GoodTodo
    <3>4. CASE reports = Report("disconnected") BY <3>1, <3>4, ReportsMade DEF GoodTodo
    <3> QED BY <3>2, <3>3, <3>4
  <2>2. TaskMoves(t, Over(tasks[t], reports)) BY <1>7, <2>1, OverMoves DEF ChatInv
  <2> QED BY <1>4, <2>2
<1> QED BY <1>5, <1>6, <1>7 DEF LineComes

\* A session that sees that it is to stop says that it is disconnected.
LEMMA StopSeenKeepsChat == ASSUME ChatInv, NEW t \in DOMAIN tasks, StopSeen(t) PROVE ChatInv'
<1> DEFINE task == Over(tasks[t], Report("disconnected"))
<1>1. Reporting(Report("disconnected")) /\ GoodTodo(Report("disconnected"), {"error", "disconnected"})
  BY ReportsMade DEF States, GoodTodo
<1>2. tasks' = [tasks EXCEPT ![t] = task] BY DEF StopSeen
<1>3. TaskMoves(t, task) BY <1>1, <1>2, OverMoves DEF ChatInv
<1>4. ~Fetching(tasks[t]) BY DEF Fetching, StopSeen
<1> HIDE DEF task
<1>5. ChatTypeOK' /\ ReportInv' BY <1>3, TaskMovesOn DEF ChatInv, StopSeen, Shore
<1>6. EmoteInv' BY <1>2, <1>3, <1>4, TaskKeepsEmotes DEF StopSeen, TaskMoves
<1> QED BY <1>5, <1>6 DEF ChatInv

\* A status that is under way is the last that the panel is told, until another is sent.
LEMMA SentLast ==
  ASSUME ChatTypeOK, NEW state \in States, NEW answer \in BOOLEAN, wire' = Sent(state, answer)
  PROVE  wire' \in Seq(Statuses) /\ LastSaid' = state
<1> DEFINE item == [state |-> state, answer |-> answer]
<1>1. item \in Statuses /\ item.state = state BY DEF Statuses
<1>2. wire' = Append(wire, item) /\ wire \in Seq(Statuses) BY DEF Sent, ChatTypeOK
<1> HIDE DEF item
<1>3. /\ wire' \in Seq(Statuses) /\ wire' # <<>> /\ Len(wire') = Len(wire) + 1
      /\ wire'[Len(wire) + 1] = item
  BY <1>1, <1>2, AppendProperties
<1>4. wire'[Len(wire')] = item BY <1>3
<1> QED BY <1>1, <1>3, <1>4 DEF LastSaid

\* A call of a task sets or sends the status of its session, which is the one whose handle is kept
\* unless the session has been told to stop.
LEMMA TaskCallsKeepsChat == ASSUME ChatInv, NEW t \in DOMAIN tasks, TaskCalls(t) PROVE ChatInv'
<1> DEFINE todo == tasks[t].todo
           rest == Tail(todo)
           task == [tasks[t] EXCEPT !.todo = rest]
<1>1. tasks[t] \in ChatTasks BY ElementOfSeq, LenProperties DEF ChatInv, ChatTypeOK
<1>2. todo \in Seq(TaskCallSet) /\ todo # <<>> /\ Followed(todo) /\ TaskOK(tasks[t])
  BY <1>1 DEF ChatTasks, TaskCalls, ChatInv, ReportInv, TaskInv, TaskOK
<1> HIDE DEF todo
<1>3. /\ rest \in Seq(TaskCallSet) /\ Followed(rest) /\ Head(todo) = todo[1] /\ 1 \in DOMAIN todo
      /\ \A i \in DOMAIN rest : i + 1 \in DOMAIN todo /\ rest[i] = todo[i + 1]
      /\ \A i \in DOMAIN todo : i = 1 \/ (i - 1 \in DOMAIN rest /\ rest[i - 1] = todo[i])
      /\ Head(todo)[1] = "set" => \E i \in DOMAIN rest : rest[i] = Send
  BY <1>2, NextCall
<1>4. tasks' = [tasks EXCEPT ![t] = [tasks[t] EXCEPT !.todo = Tail(todo)]] BY DEF TaskCalls, todo
<1>5. Head(todo) \in TaskCallSet BY <1>2, HeadTailProperties
<1> HIDE DEF rest
<1>6. /\ task \in ChatTasks /\ task.todo = rest /\ task.at = tasks[t].at /\ task.joined = tasks[t].joined
      /\ task.fetches = tasks[t].fetches
      /\ task.stopped = tasks[t].stopped /\ task.aborted = tasks[t].aborted
  BY <1>1, <1>3 DEF ChatTasks
<1>7. tasks' = [tasks EXCEPT ![t] = task] BY <1>4 DEF rest
<1> HIDE DEF task
<1>8. /\ tasks' \in Seq(ChatTasks) /\ DOMAIN tasks' = DOMAIN tasks /\ Len(tasks') = Len(tasks)
      /\ tasks'[t] = task /\ \A u \in DOMAIN tasks : u # t => tasks'[u] = tasks[u]
  BY <1>6, <1>7, TaskChanged DEF ChatInv
<1>9. UNCHANGED <<settings, handle, main, refreshes, emotes, panel>> BY DEF TaskCalls
<1>10. handle \in {0} \cup DOMAIN tasks /\ status \in States BY DEF ChatInv, ChatTypeOK
<1>11. \A u \in DOMAIN tasks : tasks'[u].stopped = tasks[u].stopped /\ tasks'[u].aborted = tasks[u].aborted
                               /\ tasks'[u].at = tasks[u].at /\ tasks'[u].fetches = tasks[u].fetches
                               /\ tasks'[u].joined = tasks[u].joined
  BY <1>6, <1>8
<1>12. HandleInv'
  <2>1. HandleInv BY DEF ChatInv, ReportInv
  <2>2. \A u \in DOMAIN tasks' : u # handle' => tasks'[u].stopped /\ tasks'[u].aborted
    BY <1>8, <1>9, <1>11, <2>1 DEF HandleInv
  <2>3. handle' # 0 => ~tasks'[handle'].aborted BY <1>9, <1>10, <1>11, <2>1 DEF HandleInv
  <2>4. main' \in Aborting /\ handle' # 0 => tasks'[handle'].stopped
    BY <1>9, <1>10, <1>11, <2>1 DEF HandleInv
  <2>5. (main' \in AfterAbort => handle' = 0) /\ (main' = SetsHello => handle' # 0)
    BY <1>9, <2>1 DEF HandleInv
  <2> QED BY <2>2, <2>3, <2>4, <2>5 DEF HandleInv
<1>13. TaskInv'
  <2>1. TaskOK(task) BY <1>2, <1>3, <1>6 DEF TaskOK
  <2> QED BY <1>8, <2>1 DEF TaskInv, ChatInv, ReportInv
<1>14. EmoteInv'
  <2>1. blamed' = blamed \/ blamed' = blamed \cup {"posthumous"} BY DEF TaskCalls
  <2>2. handle # 0 /\ ~Fetching(tasks'[handle]) => ~Fetching(tasks[handle]) BY <1>10, <1>11 DEF Fetching
  <2> QED BY <1>9, <2>1, <2>2 DEF ChatInv, EmoteInv
<1>15. \A state : Tells(state, task) <=> Tells(state, tasks[t]) BY <1>6 DEF Tells
<1>16. StatusInv => (handle = t /\ blamed \cap {"late", "posthumous"} = {} => ReportsTell(task))
  <2> SUFFICES ASSUME StatusInv, handle = t, blamed \cap {"late", "posthumous"} = {} PROVE ReportsTell(task)
    OBVIOUS
  <2>1. handle # 0 BY LenProperties DEF ChatInv, ChatTypeOK
  <2>2. ReportsTell(tasks[t]) BY <2>1 DEF StatusInv
  <2>3. \A i \in DOMAIN todo : todo[i][1] = "set" => Tells(todo[i][2], tasks[t])
    BY <2>2 DEF ReportsTell, todo
  <2> QED BY <1>3, <1>6, <1>15, <2>3 DEF ReportsTell
<1>17. CASE Head(todo)[1] = "set"
  <2>1. status' = Head(todo)[2] /\ UNCHANGED wire
        /\ blamed' = IF tasks[t].stopped THEN blamed \cup {"posthumous"} ELSE blamed
    BY <1>5, <1>17, TaskCallsDiffer DEF TaskCalls, todo
  <2>2. status' \in States BY <1>5, <1>17, <2>1, TaskCallsDiffer
  <2>3. ChatTypeOK' BY <1>8, <1>9, <2>1, <2>2 DEF ChatInv, ChatTypeOK
  <2>4. StatusInv'
    <3>1. CASE tasks[t].stopped BY <2>1, <3>1 DEF StatusInv
    <3>2. CASE ~tasks[t].stopped
      <4>1. t = handle /\ handle # 0
        BY <3>2, LenProperties DEF ChatInv, ChatTypeOK, ReportInv, HandleInv
      <4>2. StatusInv /\ blamed' = blamed BY <2>1, <3>2 DEF ChatInv, ReportInv
      <4> SUFFICES ASSUME blamed \cap {"late", "posthumous"} = {}
                   PROVE  ReportsTell(task) /\ Tells(status', task)
        BY <1>8, <1>9, <4>1, <4>2 DEF StatusInv
      <4>3. ReportsTell(tasks[t]) BY <4>1, <4>2 DEF StatusInv
      <4>4. Tells(todo[1][2], tasks[t]) BY <1>3, <1>17, <4>3 DEF ReportsTell, todo
      <4> QED BY <1>3, <1>15, <1>16, <2>1, <4>1, <4>2, <4>4
    <3> QED BY <3>1, <3>2
  <2>5. ~SendsNothing(tasks'[t]) BY <1>3, <1>6, <1>8, <1>17 DEF SendsNothing
  <2>6. SaidInv' BY <1>8, <2>5 DEF SaidInv
  <2> QED BY <1>12, <1>13, <1>14, <2>3, <2>4, <2>6 DEF ChatInv, ReportInv
<1>18. CASE Head(todo)[1] # "set"
  <2>1. status' = status /\ blamed' = blamed BY <1>18 DEF TaskCalls, todo
  <2>2. StatusInv'
    <3>1. StatusInv BY DEF ChatInv, ReportInv
    <3> SUFFICES ASSUME blamed \cap {"late", "posthumous"} = {}
                 PROVE  /\ handle = 0 /\ main \notin SettingBye => status = "disconnected"
                        /\ handle # 0 =>
                             /\ ReportsTell(tasks'[handle])
                             /\ main # SetsHello /\ NoReport(tasks'[handle]) => Tells(status, tasks'[handle])
      BY <1>9, <2>1 DEF StatusInv
    <3>2. CASE handle # t BY <1>8, <1>10, <3>1, <3>2 DEF StatusInv
    <3>3. CASE handle = t
      <4>1. handle # 0 BY <3>3, LenProperties DEF ChatInv, ChatTypeOK
      <4>2. NoReport(task) => NoReport(tasks[t])
        <5> SUFFICES ASSUME NoReport(task), NEW i \in DOMAIN todo PROVE todo[i][1] # "set"
          BY DEF NoReport, todo
        <5>1. i = 1 \/ (i - 1 \in DOMAIN rest /\ rest[i - 1] = todo[i]) BY <1>3
        <5> QED BY <1>3, <1>6, <1>18, <5>1 DEF NoReport
      <4> QED BY <1>8, <1>15, <1>16, <3>1, <3>3, <4>1, <4>2 DEF StatusInv
    <3> QED BY <3>2, <3>3
  <2>3. CASE Head(todo) = Send
    <3>1. wire' = Sent(status, FALSE) BY <2>3, TaskCallsDiffer DEF TaskCalls, todo, Send, Buffered
    <3>2. wire' \in Seq(Statuses) /\ LastSaid' = status BY <1>10, <3>1, SentLast DEF ChatInv
    <3>3. ChatTypeOK' BY <1>8, <1>9, <2>1, <3>2 DEF ChatInv, ChatTypeOK
    <3>4. SaidInv' BY <2>1, <3>2 DEF SaidInv
    <3> QED BY <1>12, <1>13, <1>14, <2>2, <3>3, <3>4 DEF ChatInv, ReportInv
  <2>4. CASE Head(todo) # Send
    <3>1. wire' = wire BY <1>18, <2>4 DEF TaskCalls, todo
    <3>2. ChatTypeOK' BY <1>8, <1>9, <2>1, <3>1 DEF ChatInv, ChatTypeOK
    <3>3. SendsNothing(task) => SendsNothing(tasks[t])
      <4> SUFFICES ASSUME SendsNothing(task), NEW i \in DOMAIN todo PROVE todo[i] # Send
        BY DEF SendsNothing, todo
      <4>1. i = 1 \/ (i - 1 \in DOMAIN rest /\ rest[i - 1] = todo[i]) BY <1>3
      <4> QED BY <1>3, <1>6, <2>4, <4>1 DEF SendsNothing
    <3>4. SaidInv'
      <4> SUFFICES ASSUME blamed \cap {"late", "posthumous", "overtaken"} = {}, main \in {<<>>, Left},
                          \A u \in DOMAIN tasks : SendsNothing(tasks'[u])
                   PROVE  LastSaid' = status
        BY <1>8, <1>9, <2>1 DEF SaidInv
      <4>1. \A u \in DOMAIN tasks : SendsNothing(tasks[u]) BY <1>8, <3>3
      <4>2. LastSaid' = LastSaid BY <1>9, <3>1 DEF LastSaid
      <4> QED BY <4>1, <4>2 DEF ChatInv, ReportInv, SaidInv
    <3> QED BY <1>12, <1>13, <1>14, <2>2, <3>2, <3>4 DEF ChatInv, ReportInv
  <2> QED BY <2>3, <2>4
<1> QED BY <1>17, <1>18

-----------------------------------------------------------------------------
(* The calls of a command *)

\* A session that is told to stop, or aborted, is otherwise the one it was.
LEMMA MarkedTasks ==
  ASSUME ChatTypeOK,
         \/ tasks' = IF handle = 0 THEN tasks ELSE [tasks EXCEPT ![handle].stopped = TRUE]
         \/ tasks' = IF handle = 0 THEN tasks ELSE [tasks EXCEPT ![handle].aborted = TRUE]
  PROVE  /\ tasks' \in Seq(ChatTasks) /\ DOMAIN tasks' = DOMAIN tasks
         /\ \A u \in DOMAIN tasks :
              /\ tasks'[u].at = tasks[u].at /\ tasks'[u].fetches = tasks[u].fetches
              /\ tasks'[u].joined = tasks[u].joined /\ tasks'[u].todo = tasks[u].todo
              /\ u # handle => tasks'[u] = tasks[u]
<1>1. tasks \in Seq(ChatTasks) BY DEF ChatTypeOK
<1>2. CASE handle = 0
  <2>1. tasks' = tasks BY <1>2
  <2> QED BY <1>1, <2>1
<1>3. CASE handle # 0
  <2>1. handle \in DOMAIN tasks BY <1>3 DEF ChatTypeOK
  <2>2. tasks[handle] \in ChatTasks BY <1>1, <2>1, ElementOfSeq, LenProperties
  <2>3. ASSUME NEW task \in ChatTasks, tasks' = [tasks EXCEPT ![handle] = task],
               task.at = tasks[handle].at, task.fetches = tasks[handle].fetches,
               task.joined = tasks[handle].joined, task.todo = tasks[handle].todo
        PROVE  /\ tasks' \in Seq(ChatTasks) /\ DOMAIN tasks' = DOMAIN tasks
               /\ \A u \in DOMAIN tasks :
                    /\ tasks'[u].at = tasks[u].at /\ tasks'[u].fetches = tasks[u].fetches
                    /\ tasks'[u].joined = tasks[u].joined /\ tasks'[u].todo = tasks[u].todo
                    /\ u # handle => tasks'[u] = tasks[u]
    <3>1. /\ tasks' \in Seq(ChatTasks) /\ DOMAIN tasks' = DOMAIN tasks
          /\ tasks'[handle] = task /\ \A u \in DOMAIN tasks : u # handle => tasks'[u] = tasks[u]
      BY <2>1, <2>3, TaskChanged
    <3> QED BY <2>3, <3>1
  <2>4. CASE tasks' = [tasks EXCEPT ![handle].stopped = TRUE]
    <3> DEFINE task == [tasks[handle] EXCEPT !.stopped = TRUE]
    <3>1. task \in ChatTasks /\ task.at = tasks[handle].at /\ task.fetches = tasks[handle].fetches
          /\ task.joined = tasks[handle].joined /\ task.todo = tasks[handle].todo
      BY <2>2 DEF ChatTasks
    <3>2. tasks' = [tasks EXCEPT ![handle] = task] BY <2>4
    <3> HIDE DEF task
    <3> QED BY <2>3, <3>1, <3>2
  <2>5. CASE tasks' = [tasks EXCEPT ![handle].aborted = TRUE]
    <3> DEFINE task == [tasks[handle] EXCEPT !.aborted = TRUE]
    <3>1. task \in ChatTasks /\ task.at = tasks[handle].at /\ task.fetches = tasks[handle].fetches
          /\ task.joined = tasks[handle].joined /\ task.todo = tasks[handle].todo
      BY <2>2 DEF ChatTasks
    <3>2. tasks' = [tasks EXCEPT ![handle] = task] BY <2>5
    <3> HIDE DEF task
    <3> QED BY <2>3, <3>1, <3>2
  <2> QED BY <1>3, <2>4, <2>5
<1> QED BY <1>2, <1>3

\* Flags apart, the same is to be said of the sessions.
LEMMA SameTasksSame ==
  ASSUME DOMAIN tasks' = DOMAIN tasks,
         \A u \in DOMAIN tasks :
           /\ tasks'[u].at = tasks[u].at /\ tasks'[u].fetches = tasks[u].fetches
           /\ tasks'[u].joined = tasks[u].joined /\ tasks'[u].todo = tasks[u].todo
  PROVE  /\ TaskInv => TaskInv'
         /\ \A u \in DOMAIN tasks :
              /\ ReportsTell(tasks[u]) => ReportsTell(tasks'[u])
              /\ NoReport(tasks'[u]) => NoReport(tasks[u])
              /\ SendsNothing(tasks'[u]) => SendsNothing(tasks[u])
              /\ Fetching(tasks'[u]) <=> Fetching(tasks[u])
              /\ \A state : Tells(state, tasks'[u]) <=> Tells(state, tasks[u])
<1>1. TaskInv => TaskInv' BY DEF TaskInv, TaskOK
<1>2. ASSUME NEW u \in DOMAIN tasks
      PROVE  /\ NoReport(tasks'[u]) => NoReport(tasks[u])
             /\ SendsNothing(tasks'[u]) => SendsNothing(tasks[u])
             /\ Fetching(tasks'[u]) <=> Fetching(tasks[u])
  BY DEF NoReport, SendsNothing, Fetching
<1>3. ASSUME NEW u \in DOMAIN tasks PROVE \A state : Tells(state, tasks'[u]) <=> Tells(state, tasks[u])
  BY DEF Tells
<1>4. ASSUME NEW u \in DOMAIN tasks PROVE ReportsTell(tasks[u]) => ReportsTell(tasks'[u])
  BY <1>3 DEF ReportsTell
<1> QED BY <1>1, <1>2, <1>3, <1>4

\* The session whose handle is kept is told to stop.
LEMMA StopCallKeepsChat == ASSUME ChatInv, MainCalls, NEW end \in Followers, main = Stops(end) PROVE ChatInv'
<1>1. main \in Stopping /\ main' = Aborts(end) /\ main' \in Aborting /\ Head(main)[1] = "stop"
  BY ByeCalls, CallsDiffer DEF CallsNext, MainCalls, Stopping, Aborting
<1>2. /\ tasks' = IF handle = 0 THEN tasks ELSE [tasks EXCEPT ![handle].stopped = TRUE]
      /\ UNCHANGED <<status, handle, wire, blamed, settings, refreshes, emotes, panel>>
  BY <1>1 DEF MainCalls
<1>3. /\ tasks' \in Seq(ChatTasks) /\ DOMAIN tasks' = DOMAIN tasks
      /\ \A u \in DOMAIN tasks :
           /\ tasks'[u].at = tasks[u].at /\ tasks'[u].fetches = tasks[u].fetches
           /\ tasks'[u].joined = tasks[u].joined /\ tasks'[u].todo = tasks[u].todo
           /\ u # handle => tasks'[u] = tasks[u]
  BY <1>2, MarkedTasks DEF ChatInv
<1>4. main \notin Hello \cup {<<>>} /\ main' \notin AfterAbort /\ main' # SetsHello
      /\ main' \notin {<<>>, Left} /\ main \notin SettingBye
  BY <1>1, PlacesDiffer DEF Hello, AfterAbort
<1>5. handle \in {0} \cup DOMAIN tasks BY DEF ChatInv, ChatTypeOK
<1>6. ChatTypeOK' BY <1>1, <1>2, <1>3 DEF ChatInv, ChatTypeOK, Commands
<1>7. handle # 0 => tasks'[handle].stopped /\ ~tasks'[handle].aborted
  <2> SUFFICES ASSUME handle # 0 PROVE tasks'[handle].stopped /\ ~tasks'[handle].aborted OBVIOUS
  <2> DEFINE task == [tasks[handle] EXCEPT !.stopped = TRUE]
  <2>1. handle \in DOMAIN tasks /\ tasks \in Seq(ChatTasks) BY <1>5 DEF ChatInv, ChatTypeOK
  <2>2. tasks[handle] \in ChatTasks BY <2>1, ElementOfSeq, LenProperties
  <2>3. task \in ChatTasks /\ task.stopped /\ task.aborted = tasks[handle].aborted
    BY <2>2 DEF ChatTasks
  <2>4. tasks' = [tasks EXCEPT ![handle] = task] BY <1>2
  <2> HIDE DEF task
  <2>5. tasks'[handle] = task BY <2>1, <2>3, <2>4, TaskChanged DEF ChatInv
  <2> QED BY <2>3, <2>5 DEF ChatInv, ReportInv, HandleInv
<1>8. HandleInv'
  <2>1. \A u \in DOMAIN tasks' : u # handle' => tasks'[u].stopped /\ tasks'[u].aborted
    BY <1>2, <1>3 DEF ChatInv, ReportInv, HandleInv
  <2> QED BY <1>2, <1>4, <1>7, <2>1 DEF HandleInv
<1>9. TaskInv' BY <1>3, SameTasksSame DEF ChatInv, ReportInv
<1>10. StatusInv'
  <2>1. main # SetsHello BY <1>4 DEF Hello
  <2> QED BY <1>2, <1>3, <1>4, <1>5, <2>1, SameTasksSame DEF ChatInv, ReportInv, StatusInv
<1>11. SaidInv' BY <1>4 DEF SaidInv
<1>12. EmoteInv' BY <1>2, <1>3, <1>5, SameTasksSame DEF ChatInv, EmoteInv
<1> QED BY <1>6, <1>8, <1>9, <1>10, <1>11, <1>12 DEF ChatInv, ReportInv

\* The handle goes with the abort.
LEMMA AbortCallKeepsChat == ASSUME ChatInv, MainCalls, NEW end \in Followers, main = Aborts(end) PROVE ChatInv'
<1>1. main \in Aborting /\ main' = SetsBye(end) /\ main' \in SettingBye /\ Head(main)[1] = "abort"
  BY ByeCalls, CallsDiffer DEF CallsNext, MainCalls, SettingBye, Aborting
<1>2. /\ tasks' = IF handle = 0 THEN tasks ELSE [tasks EXCEPT ![handle].aborted = TRUE]
      /\ handle' = 0
      /\ UNCHANGED <<status, wire, blamed, settings, refreshes, emotes, panel>>
  BY <1>1 DEF MainCalls
<1>3. /\ tasks' \in Seq(ChatTasks) /\ DOMAIN tasks' = DOMAIN tasks
      /\ \A u \in DOMAIN tasks :
           /\ tasks'[u].at = tasks[u].at /\ tasks'[u].fetches = tasks[u].fetches
           /\ tasks'[u].joined = tasks[u].joined /\ tasks'[u].todo = tasks[u].todo
           /\ u # handle => tasks'[u] = tasks[u]
  BY <1>2, MarkedTasks DEF ChatInv
<1>4. main' \in AfterAbort /\ main' \notin Hello \cup Aborting \cup {<<>>, Left}
  BY <1>1, PlacesDiffer DEF AfterAbort
<1>5. ChatTypeOK' BY <1>1, <1>2, <1>3 DEF ChatInv, ChatTypeOK, Commands
<1>6. handle # 0 => tasks'[handle].stopped /\ tasks'[handle].aborted
  <2> SUFFICES ASSUME handle # 0 PROVE tasks'[handle].stopped /\ tasks'[handle].aborted OBVIOUS
  <2> DEFINE task == [tasks[handle] EXCEPT !.aborted = TRUE]
  <2>1. handle \in DOMAIN tasks /\ tasks \in Seq(ChatTasks) BY DEF ChatInv, ChatTypeOK
  <2>2. tasks[handle] \in ChatTasks BY <2>1, ElementOfSeq, LenProperties
  <2>3. task \in ChatTasks /\ task.aborted /\ task.stopped = tasks[handle].stopped
    BY <2>2 DEF ChatTasks
  <2>4. tasks' = [tasks EXCEPT ![handle] = task] BY <1>2
  <2> HIDE DEF task
  <2>5. tasks'[handle] = task BY <2>1, <2>3, <2>4, TaskChanged DEF ChatInv
  <2> QED BY <1>1, <2>3, <2>5 DEF ChatInv, ReportInv, HandleInv
<1>7. HandleInv'
  <2>1. \A u \in DOMAIN tasks' : tasks'[u].stopped /\ tasks'[u].aborted
    <3> SUFFICES ASSUME NEW u \in DOMAIN tasks PROVE tasks'[u].stopped /\ tasks'[u].aborted
      BY <1>3
    <3>1. CASE u = handle
      <4>1. handle # 0 BY <3>1, LenProperties DEF ChatInv, ChatTypeOK
      <4> QED BY <1>6, <3>1, <4>1
    <3>2. CASE u # handle BY <1>3, <3>2 DEF ChatInv, ReportInv, HandleInv
    <3> QED BY <3>1, <3>2
  <2> QED BY <1>2, <1>4, <2>1 DEF HandleInv, Hello
<1>8. TaskInv' BY <1>3, SameTasksSame DEF ChatInv, ReportInv
<1>9. StatusInv' BY <1>1, <1>2 DEF StatusInv
<1>10. SaidInv' BY <1>4 DEF SaidInv
<1>11. EmoteInv' BY <1>2 DEF EmoteInv
<1> QED BY <1>5, <1>7, <1>8, <1>9, <1>10, <1>11 DEF ChatInv, ReportInv

\* A command that only sets or sends the status leaves the sessions and the sets as they are.
LEMMA CallLeavesTasks ==
  ASSUME ChatInv, main' \notin Aborting, main' \in AfterAbort => handle = 0,
         main' = SetsHello => handle # 0,
         UNCHANGED <<tasks, handle, settings, refreshes, emotes>>,
         blamed' = blamed \/ blamed' = blamed \cup {"late"}
  PROVE  HandleInv' /\ TaskInv' /\ EmoteInv'
<1>1. HandleInv' BY DEF ChatInv, ReportInv, HandleInv
<1>2. TaskInv' BY DEF ChatInv, ReportInv, TaskInv
<1>3. EmoteInv' BY DEF ChatInv, EmoteInv
<1> QED BY <1>1, <1>2, <1>3

\* The status says that the chat has been left.
LEMMA ByeSetKeepsChat == ASSUME ChatInv, MainCalls, NEW end \in Followers, main = SetsBye(end) PROVE ChatInv'
<1>1. /\ main \in AfterAbort /\ main' \in SayingBye
      /\ Head(main)[1] = "set" /\ Head(main)[2] = "disconnected"
  BY ByeCalls, CallsDiffer DEF CallsNext, MainCalls, AfterAbort, SettingBye, SayingBye
<1>2. /\ status' = "disconnected" /\ blamed' = blamed
      /\ UNCHANGED <<tasks, handle, wire, settings, refreshes, emotes, panel>>
  BY <1>1 DEF MainCalls
<1>3. handle = 0 BY <1>1 DEF ChatInv, ReportInv, HandleInv
<1>4. main' \notin Aborting \cup Hello \cup {<<>>, Left}
  BY <1>1, PlacesDiffer DEF AfterAbort
<1>5. ChatTypeOK' BY <1>1, <1>2 DEF ChatInv, ChatTypeOK, Commands, States
<1>6. HandleInv' /\ TaskInv' /\ EmoteInv' BY <1>2, <1>3, <1>4, CallLeavesTasks DEF Hello
<1>7. StatusInv' BY <1>2, <1>3 DEF StatusInv
<1>8. SaidInv' BY <1>4 DEF SaidInv
<1> QED BY <1>5, <1>6, <1>7, <1>8 DEF ChatInv, ReportInv

\* The panel is told so.
LEMMA ByeSentKeepsChat == ASSUME ChatInv, MainCalls, NEW end \in Followers, main = SendsBye(end) PROVE ChatInv'
<1>1. main \in SayingBye /\ main \in AfterAbort /\ main' \in Followers /\ Head(main)[1] = "send"
  BY ByeCalls, CallsDiffer DEF CallsNext, MainCalls, AfterAbort, SayingBye
<1>2. /\ wire' = Sent(status, FALSE) /\ blamed' = blamed
      /\ UNCHANGED <<tasks, handle, status, settings, refreshes, emotes, panel>>
  BY <1>1 DEF MainCalls
<1>3. handle = 0 /\ status \in States BY <1>1 DEF ChatInv, ReportInv, HandleInv, ChatTypeOK
<1>4. main' \notin Aborting /\ main' # SetsHello /\ main \notin SettingBye
  BY <1>1, PlacesDiffer DEF AfterAbort, Followers
<1>5. wire' \in Seq(Statuses) /\ LastSaid' = status BY <1>2, <1>3, SentLast DEF ChatInv
<1>6. ChatTypeOK' BY <1>1, <1>2, <1>5 DEF ChatInv, ChatTypeOK, Commands
<1>7. HandleInv' /\ TaskInv' /\ EmoteInv' BY <1>2, <1>3, <1>4, CallLeavesTasks
<1>8. StatusInv' BY <1>2, <1>3, <1>4 DEF ChatInv, ReportInv, StatusInv
<1>9. SaidInv' BY <1>2, <1>5 DEF SaidInv
<1> QED BY <1>6, <1>7, <1>8, <1>9 DEF ChatInv, ReportInv

\* The new session takes the place of the one that has been left.
LEMMA SpawnKeepsChat == ASSUME ChatInv, MainCalls, main = Spawns PROVE ChatInv'
<1>1. main \in AfterAbort /\ main' = SetsHello /\ Head(main)[1] = "spawn"
  BY HelloCalls, CallsDiffer DEF CallsNext, MainCalls, AfterAbort
<1> DEFINE task == Task(settings)
           last == Len(tasks) + 1
<1>2. /\ tasks' = Append(tasks, task) /\ handle' = last /\ blamed' = blamed
      /\ UNCHANGED <<status, wire, settings, refreshes, emotes, panel>>
  BY <1>1 DEF MainCalls
<1>3. handle = 0 BY <1>1 DEF ChatInv, ReportInv, HandleInv
<1>4. EmotesOf(settings) \in SomeSources /\ (settings.strips => EmotesOf(settings) # Nothing)
  BY SourcesAssumption DEF EmotesOf, SomeSources, ChatInv, ChatTypeOK, ChatSettings
<1>5. /\ task \in ChatTasks /\ task.at = "new" /\ task.fetches = EmotesOf(settings) /\ task.joined = FALSE
      /\ task.todo = <<>> /\ task.stopped = FALSE /\ task.aborted = FALSE
  BY <1>4, EmptySeq DEF Task, ChatTasks, Phases
<1>6. tasks \in Seq(ChatTasks) /\ Len(tasks) \in Nat /\ DOMAIN tasks = 1..Len(tasks)
  BY LenProperties DEF ChatInv, ChatTypeOK
<1> HIDE DEF task
<1>7. /\ tasks' \in Seq(ChatTasks) /\ Len(tasks') = Len(tasks) + 1
      /\ \A u \in 1..Len(tasks) : tasks'[u] = tasks[u]
      /\ tasks'[Len(tasks) + 1] = task
  BY <1>2, <1>5, <1>6, AppendProperties
<1>8. last \in Nat \ {0} /\ last \notin DOMAIN tasks BY <1>6
<1>9. DOMAIN tasks' = DOMAIN tasks \cup {last} /\ tasks'[last] = task
      /\ \A u \in DOMAIN tasks : tasks'[u] = tasks[u]
  <2>1. DOMAIN tasks' = 1..(Len(tasks) + 1) BY <1>7, LenProperties
  <2> QED BY <1>6, <1>7, <2>1
<1> HIDE DEF last
<1>10. main' \notin Aborting \cup AfterAbort \cup SettingBye \cup {<<>>, Left}
  BY <1>1, PlacesDiffer DEF Hello, AfterAbort
<1>11. ChatTypeOK' BY <1>1, <1>2, <1>7, <1>9 DEF ChatInv, ChatTypeOK, Commands, Hello
<1>12. HandleInv'
  <2>1. \A u \in DOMAIN tasks : tasks[u].stopped /\ tasks[u].aborted
    BY <1>3, <1>6 DEF ChatInv, ReportInv, HandleInv
  <2> QED BY <1>2, <1>5, <1>8, <1>9, <1>10, <2>1 DEF HandleInv
<1>13. NoReport(task) /\ ReportsTell(task) /\ Followed(task.todo) BY <1>5, SilentTask
<1>14. TaskInv'
  <2>1. TaskOK(task) BY <1>5, <1>13 DEF TaskOK
  <2> QED BY <1>9, <2>1 DEF ChatInv, ReportInv, TaskInv
<1>15. StatusInv' BY <1>1, <1>2, <1>8, <1>9, <1>13 DEF StatusInv
<1>16. SaidInv' BY <1>10 DEF SaidInv
<1>17. EmoteInv'
  <2>1. settings.strips => Fetching(task) BY <1>4, <1>5 DEF Fetching
  <2> QED BY <1>2, <1>9, <2>1 DEF EmoteInv
<1> QED BY <1>11, <1>12, <1>14, <1>15, <1>16, <1>17 DEF ChatInv, ReportInv

\* The command reports the connection, and answers.
LEMMA HelloKeepsChat == ASSUME ChatInv, MainCalls, main \in Hello PROVE ChatInv'
<1>1. handle \in {0} \cup DOMAIN tasks /\ status \in States BY DEF ChatInv, ChatTypeOK
<1>2. CASE main = SetsHello
  <2>1. main' = SendsHello /\ Head(main)[1] = "set" /\ Head(main)[2] = "connecting"
    BY <1>2, HelloCalls, CallsDiffer DEF CallsNext, MainCalls
  <2>2. /\ status' = "connecting"
        /\ blamed' = IF tasks[handle].at = "over" \/ tasks[handle].joined THEN blamed \cup {"late"} ELSE blamed
        /\ UNCHANGED <<tasks, handle, wire, settings, refreshes, emotes, panel>>
    BY <2>1 DEF MainCalls
  <2>3. main' \notin Aborting \cup AfterAbort \cup {<<>>, Left} /\ main' # SetsHello
    BY <2>1, PlacesDiffer DEF Hello
  <2>4. handle # 0 BY <1>2 DEF ChatInv, ReportInv, HandleInv
  <2>5. ChatTypeOK' BY <2>1, <2>2 DEF ChatInv, ChatTypeOK, Commands, Hello, States
  <2>6. HandleInv' /\ TaskInv' /\ EmoteInv' BY <2>2, <2>3, CallLeavesTasks
  <2>7. StatusInv'
    <3> SUFFICES ASSUME blamed' \cap {"late", "posthumous"} = {}
                 PROVE  ReportsTell(tasks[handle]) /\ Tells("connecting", tasks[handle])
      BY <2>2, <2>4 DEF StatusInv
    <3>1. blamed' = blamed /\ tasks[handle].at # "over" /\ ~tasks[handle].joined BY <2>2
    <3> QED BY <2>4, <3>1 DEF ChatInv, ReportInv, StatusInv, Tells
  <2>8. SaidInv' BY <2>3 DEF SaidInv
  <2> QED BY <2>5, <2>6, <2>7, <2>8 DEF ChatInv, ReportInv
<1>3. CASE main = SendsHello \/ main = Answering
  <2>1. /\ main' \in {Answering, <<>>}
        /\ Head(main)[1] \in {"send", "answer"}
    BY <1>3, HelloCalls, CallsDiffer DEF CallsNext, MainCalls
  <2>2. /\ wire' \in {Sent(status, FALSE), Sent(status, TRUE)} /\ blamed' = blamed
        /\ UNCHANGED <<tasks, handle, status, settings, refreshes, emotes, panel>>
    BY <2>1 DEF MainCalls
  <2>3. main' \notin Aborting \cup AfterAbort /\ main' # SetsHello
        /\ main # SetsHello /\ main \notin SettingBye
    BY <1>3, <2>1, PlacesDiffer DEF Hello, AfterAbort
  <2>4. wire' \in Seq(Statuses) /\ LastSaid' = status BY <1>1, <2>2, SentLast DEF ChatInv
  <2>5. ChatTypeOK' BY <2>1, <2>2, <2>4 DEF ChatInv, ChatTypeOK, Commands, Hello, Followers
  <2>6. HandleInv' /\ TaskInv' /\ EmoteInv' BY <2>2, <2>3, CallLeavesTasks
  <2>7. StatusInv' BY <2>2, <2>3 DEF ChatInv, ReportInv, StatusInv
  <2>8. SaidInv' BY <2>2, <2>4 DEF SaidInv
  <2> QED BY <2>5, <2>6, <2>7, <2>8 DEF ChatInv, ReportInv
<1> QED BY <1>2, <1>3 DEF Hello

\* The answer to Disconnect says that the chat is left, as the status does.
LEMMA LeftKeepsChat == ASSUME ChatInv, MainCalls, main = Left PROVE ChatInv'
<1>1. main \in AfterAbort /\ main' = <<>> /\ Head(main)[1] = "left"
  BY HelloCalls, CallsDiffer DEF CallsNext, MainCalls, AfterAbort
<1>2. /\ wire' = Sent("disconnected", TRUE) /\ blamed' = blamed
      /\ UNCHANGED <<tasks, handle, status, settings, refreshes, emotes, panel>>
  BY <1>1 DEF MainCalls
<1>3. handle = 0 BY <1>1 DEF ChatInv, ReportInv, HandleInv
<1>4. main' \notin Aborting /\ main' # SetsHello /\ main \notin SettingBye
  BY <1>1, PlacesDiffer
<1>5. wire' \in Seq(Statuses) /\ LastSaid' = "disconnected" BY <1>2, SentLast DEF ChatInv, States
<1>6. ChatTypeOK' BY <1>1, <1>2, <1>5 DEF ChatInv, ChatTypeOK, Commands, Followers
<1>7. HandleInv' /\ TaskInv' /\ EmoteInv' BY <1>2, <1>3, <1>4, CallLeavesTasks
<1>8. blamed \cap {"late", "posthumous"} = {} => status = "disconnected"
  BY <1>3, <1>4 DEF ChatInv, ReportInv, StatusInv
<1>9. StatusInv' BY <1>2, <1>3, <1>8 DEF StatusInv
<1>10. SaidInv' BY <1>2, <1>5, <1>8 DEF SaidInv
<1> QED BY <1>6, <1>7, <1>9, <1>10 DEF ChatInv, ReportInv

\* A call of a command, whichever it is.
LEMMA MainCallsKeepsChat == ASSUME ChatInv, MainCalls PROVE ChatInv'
<1>1. main \in Commands /\ main # <<>> BY DEF ChatInv, ChatTypeOK, MainCalls
<1>2. CASE main \in Stopping BY <1>2, StopCallKeepsChat DEF Stopping
<1>3. CASE main \in Aborting BY <1>3, AbortCallKeepsChat DEF Aborting
<1>4. CASE main \in SettingBye BY <1>4, ByeSetKeepsChat DEF SettingBye
<1>5. CASE main \in SayingBye BY <1>5, ByeSentKeepsChat DEF SayingBye
<1>6. CASE main = Left BY <1>6, LeftKeepsChat
<1>7. CASE main = Spawns BY <1>7, SpawnKeepsChat
<1>8. CASE main \in Hello BY <1>8, HelloKeepsChat
<1> QED BY <1>1, <1>2, <1>3, <1>4, <1>5, <1>6, <1>7, <1>8 DEF Commands, Followers

-----------------------------------------------------------------------------
(* The user, the panel and the refreshes *)

\* What is left of a list when the item at one place is taken out.
LEMMA ItemRemoved ==
  ASSUME NEW S, NEW s \in Seq(S), NEW i \in DOMAIN s
  PROVE  /\ RemoveAt(s, i) \in Seq(S) /\ Len(RemoveAt(s, i)) = Len(s) - 1
         /\ \A j \in 1..(Len(s) - 1) : RemoveAt(s, i)[j] = IF j < i THEN s[j] ELSE s[j + 1]
<1>1. i \in 1..Len(s) /\ Len(s) \in Nat OBVIOUS
<1> DEFINE l == SubSeq(s, 1, i - 1)
           r == SubSeq(s, i + 1, Len(s))
<1>2. l \in Seq(S) /\ Len(l) = i - 1 /\ \A j \in 1..(i - 1) : l[j] = s[j]
  BY <1>1
<1>3. r \in Seq(S) /\ Len(r) = Len(s) - i /\ \A j \in 1..(Len(s) - i) : r[j] = s[i + j]
  BY <1>1
<1>4. RemoveAt(s, i) = l \o r BY DEF RemoveAt
<1> HIDE DEF l, r
<1> DEFINE t == l \o r
<1>5. /\ t \in Seq(S) /\ Len(t) = Len(l) + Len(r)
      /\ \A j \in 1..Len(t) : t[j] = IF j <= Len(l) THEN l[j] ELSE r[j - Len(l)]
  <2>1. l \in Seq(S) /\ r \in Seq(S) BY <1>2, <1>3
  <2> QED BY <2>1, ConcatProperties
<1> HIDE DEF t
<1>6. Len(t) = Len(s) - 1 BY <1>1, <1>2, <1>3, <1>5
<1>7. ASSUME NEW j \in 1..(Len(s) - 1) PROVE t[j] = IF j < i THEN s[j] ELSE s[j + 1]
  <2>1. CASE j < i
    <3>1. j \in 1..(i - 1) /\ j <= Len(l) /\ j \in 1..Len(t) BY <1>1, <1>2, <1>6, <2>1
    <3> QED BY <1>2, <1>5, <2>1, <3>1
  <2>2. CASE ~(j < i)
    <3>1. j + 1 - i \in 1..(Len(s) - i) /\ ~(j <= Len(l)) /\ j \in 1..Len(t)
      BY <1>1, <1>2, <1>6, <2>2
    <3>2. t[j] = r[j - Len(l)] BY <1>5, <3>1
    <3>3. j - Len(l) = j + 1 - i /\ i + (j + 1 - i) = j + 1 BY <1>1, <1>2
    <3>4. r[j + 1 - i] = s[j + 1] BY <1>3, <3>1, <3>3
    <3> QED BY <2>2, <3>2, <3>3, <3>4
  <2> QED BY <2>1, <2>2
<1> QED BY <1>4, <1>5, <1>6, <1>7 DEF t

\* Buttons and saves give the main thread a command, and nothing else that the reports depend on.
LEMMA CommandIssued ==
  ASSUME ChatInv, main = <<>>, main' \in {<<>>, Stops(<<>>), Stops(Spawns), Stops(Left), Answering},
         settings' \in ChatSettings, refreshes' \in Seq(SomeSources),
         UNCHANGED <<status, handle, tasks, emotes, wire, panel, blamed>>,
         EmoteInv'
  PROVE  ChatInv'
<1>1. main' \in Stopping \cup {<<>>, Answering} BY DEF Stopping, Followers
<1>2. /\ main' \notin Aborting \cup AfterAbort \cup SettingBye /\ main' # SetsHello
      /\ main \notin AfterAbort /\ main # SetsHello /\ main \notin SettingBye
      /\ (main' \in {<<>>, Left} => main' = <<>>)
  BY <1>1, PlacesDiffer DEF Hello, AfterAbort
<1>3. ChatTypeOK' BY <1>1 DEF ChatInv, ChatTypeOK, Commands, Followers, Hello
<1>4. HandleInv' BY <1>2 DEF ChatInv, ReportInv, HandleInv
<1>5. TaskInv' BY DEF ChatInv, ReportInv, TaskInv
<1>6. StatusInv' BY <1>2 DEF ChatInv, ReportInv, StatusInv
<1>7. SaidInv' BY <1>2 DEF ChatInv, ReportInv, SaidInv, LastSaid
<1> QED BY <1>3, <1>4, <1>5, <1>6, <1>7 DEF ChatInv, ReportInv

\* A session that stays gets new sets from a refresh of its own.
LEMMA AppliedSettings ==
  ASSUME ChatInv, NEW new \in ChatSettings, Applies(new), UNCHANGED <<handle, tasks, emotes, blamed>>
  PROVE  settings' \in ChatSettings /\ refreshes' \in Seq(SomeSources) /\ EmoteInv'
<1>1. settings' = new BY DEF Applies
<1>2. refreshes \in Seq(SomeSources) BY DEF ChatInv, ChatTypeOK
<1>3. EmotesOf(new) \in SomeSources BY DEF EmotesOf, SomeSources, ChatSettings
<1>4. CASE handle # 0 /\ new.strips
  <2>1. refreshes' = Append(refreshes, EmotesOf(new)) BY <1>4 DEF Applies
  <2>2. refreshes' \in Seq(SomeSources) /\ refreshes' # <<>> BY <1>2, <1>3, <2>1, AppendProperties
  <2> QED BY <1>1, <2>2 DEF EmoteInv
<1>5. CASE ~(handle # 0 /\ new.strips)
  <2>1. refreshes' = refreshes BY <1>5 DEF Applies
  <2> QED BY <1>1, <1>2, <1>5, <2>1 DEF EmoteInv
<1> QED BY <1>4, <1>5

\* What the user does.
LEMMA UserKeepsChat ==
  ASSUME ChatInv, Save \/ PressConnect \/ Connect \/ PressDisconnect PROVE ChatInv'
<1>1. settings \in ChatSettings /\ refreshes \in Seq(SomeSources) /\ EmoteInv
  BY DEF ChatInv, ChatTypeOK
<1>2. CASE Save
  <2>1. PICK new \in ChatSettings : Applies(new) /\ main' = IF new.on THEN <<>> ELSE Leaving
    BY <1>2 DEF Save, ChatSettings
  <2>2. main = <<>> /\ UNCHANGED <<status, handle, tasks, emotes, wire, panel, blamed>>
    BY <1>2 DEF Save
  <2>3. settings' \in ChatSettings /\ refreshes' \in Seq(SomeSources) /\ EmoteInv'
    BY <2>1, <2>2, AppliedSettings
  <2> QED BY <2>1, <2>2, <2>3, CommandIssued, CommandsIssued
<1>3. CASE PressConnect
  <2> DEFINE new == [settings EXCEPT !.on = TRUE]
  <2>1. new \in ChatSettings BY <1>1 DEF ChatSettings
  <2>2. main = <<>> /\ main' = <<>> /\ UNCHANGED <<status, handle, tasks, emotes, wire, panel, blamed>>
    BY <1>3 DEF PressConnect
  <2>3. Applies(new) BY <1>3 DEF PressConnect
  <2> HIDE DEF new
  <2>4. settings' \in ChatSettings /\ refreshes' \in Seq(SomeSources) /\ EmoteInv'
    BY <2>1, <2>2, <2>3, AppliedSettings
  <2> QED BY <2>2, <2>4, CommandIssued
<1>4. CASE Connect
  <2>1. /\ main = <<>> /\ main' \in {Connecting, <<<<"answer", Nothing>>>>}
        /\ UNCHANGED <<settings, status, handle, tasks, refreshes, emotes, wire, panel, blamed>>
    BY <1>4 DEF Connect
  <2>2. EmoteInv' BY <1>1, <2>1 DEF EmoteInv
  <2> QED BY <1>1, <2>1, <2>2, CommandIssued, CommandsIssued
<1>5. CASE PressDisconnect
  <2>1. /\ main = <<>> /\ main' = Leaving \o <<<<"left", Nothing>>>>
        /\ UNCHANGED <<settings, status, handle, tasks, refreshes, emotes, wire, panel, blamed>>
    BY <1>5 DEF PressDisconnect
  <2>2. EmoteInv' BY <1>1, <2>1 DEF EmoteInv
  <2> QED BY <1>1, <2>1, <2>2, CommandIssued, CommandsIssued
<1> QED BY <1>2, <1>3, <1>4, <1>5

\* A refresh that ends, alone and for the present settings, fetches what they ask for.
LEMMA RefreshKeepsChat == ASSUME ChatInv, RefreshEnds PROVE ChatInv'
<1>1. PICK i \in DOMAIN refreshes :
        /\ emotes' \in {refreshes[i], Nothing}
        /\ refreshes' = RemoveAt(refreshes, i)
        /\ blamed' = IF i # Len(refreshes) \/ refreshes[i] # settings.sources
                     THEN blamed \cup {"outrun"} ELSE blamed
  BY DEF RefreshEnds
<1>2. UNCHANGED <<settings, status, handle, tasks, main, wire, panel>> BY DEF RefreshEnds, Shore
<1>3. refreshes' \in Seq(SomeSources) BY <1>1, ItemRemoved DEF ChatInv, ChatTypeOK
<1>4. ChatTypeOK' BY <1>2, <1>3 DEF ChatInv, ChatTypeOK
<1>5. HandleInv' BY <1>2 DEF ChatInv, ReportInv, HandleInv
<1>6. TaskInv' BY <1>2 DEF ChatInv, ReportInv, TaskInv
<1>7. blamed \subseteq blamed' BY <1>1
<1>8. StatusInv' BY <1>2, <1>7 DEF ChatInv, ReportInv, StatusInv
<1>9. SaidInv' BY <1>2, <1>7 DEF ChatInv, ReportInv, SaidInv, LastSaid
<1>10. EmoteInv' BY <1>1, <1>2 DEF EmoteInv
<1> QED BY <1>4, <1>5, <1>6, <1>8, <1>9, <1>10 DEF ChatInv, ReportInv

\* The panel shows what it is told; when that is the oldest message, the last one is what it was.
LEMMA DeliverKeepsChat == ASSUME ChatInv, StatusArrives PROVE ChatInv'
<1>1. PICK i \in DOMAIN wire :
        /\ panel' = wire[i].state
        /\ wire' = RemoveAt(wire, i)
        /\ blamed' = IF i # 1 THEN blamed \cup {"overtaken"} ELSE blamed
  BY DEF StatusArrives
<1>2. UNCHANGED <<settings, status, handle, tasks, main, refreshes, emotes>> BY DEF StatusArrives, Abroad
<1>3. wire \in Seq(Statuses) BY DEF ChatInv, ChatTypeOK
<1>4. DOMAIN wire = 1..Len(wire) /\ Len(wire) \in Nat BY <1>3, LenProperties
<1>5. /\ wire' \in Seq(Statuses) /\ Len(wire') = Len(wire) - 1
      /\ \A j \in 1..(Len(wire) - 1) : wire'[j] = IF j < i THEN wire[j] ELSE wire[j + 1]
  BY <1>1, <1>3, ItemRemoved
<1>6. wire[i] \in Statuses BY <1>3, <1>4, ElementOfSeq
<1>7. panel' \in States BY <1>1, <1>6 DEF Statuses
<1>8. ChatTypeOK' BY <1>2, <1>5, <1>7 DEF ChatInv, ChatTypeOK
<1>9. HandleInv' BY <1>2 DEF ChatInv, ReportInv, HandleInv
<1>10. TaskInv' BY <1>2 DEF ChatInv, ReportInv, TaskInv
<1>11. blamed \subseteq blamed' BY <1>1
<1>12. StatusInv' BY <1>2, <1>11 DEF ChatInv, ReportInv, StatusInv
<1>13. EmoteInv' BY <1>2, <1>11 DEF ChatInv, EmoteInv
<1>14. i = 1 => LastSaid' = LastSaid
  <2> SUFFICES ASSUME i = 1 PROVE LastSaid' = LastSaid OBVIOUS
  <2>1. wire # <<>> BY <1>4
  <2>2. CASE Len(wire) = 1
    <3>1. wire' = <<>> BY <1>5, <2>2, EmptySeq
    <3> QED BY <1>1, <2>1, <2>2, <3>1 DEF LastSaid
  <2>3. CASE Len(wire) # 1
    <3>1. Len(wire') \in 1..(Len(wire) - 1) /\ Len(wire') + 1 = Len(wire) BY <1>4, <1>5, <2>3
    <3>2. wire' # <<>> BY <3>1
    <3>3. wire'[Len(wire')] = wire[Len(wire)]
      <4>1. wire'[Len(wire')] = wire[Len(wire') + 1] BY <1>5, <3>1
      <4> QED BY <3>1, <4>1
    <3> QED BY <2>1, <3>2, <3>3 DEF LastSaid
  <2> QED BY <2>2, <2>3
<1>15. SaidInv'
  <2>1. "overtaken" \notin blamed' => i = 1 BY <1>1
  <2> QED BY <1>2, <1>11, <1>14, <2>1 DEF ChatInv, ReportInv, SaidInv
<1> QED BY <1>8, <1>9, <1>10, <1>12, <1>13, <1>15 DEF ChatInv, ReportInv

-----------------------------------------------------------------------------
(* The theorems *)

\* The invariant holds when the program starts.
LEMMA ChatInitOK == TwitchInit => ChatInv
<1> SUFFICES ASSUME TwitchInit PROVE ChatInv OBVIOUS
<1>1. main = <<>> /\ main \in Followers /\ tasks = <<>> /\ handle = 0 /\ wire = <<>> /\ refreshes = <<>>
      /\ settings \in ChatSettings /\ status = "disconnected" /\ panel = "disconnected"
  BY DEF TwitchInit, Followers, ChatSettings
<1>2. DOMAIN tasks = {} BY <1>1
<1>3. main \notin Aborting \cup AfterAbort \cup SettingBye /\ main # SetsHello
  BY <1>1, PlacesDiffer DEF AfterAbort
<1>4. ChatTypeOK BY <1>1, EmptySeq DEF ChatTypeOK, Commands, States
<1>5. HandleInv BY <1>1, <1>2, <1>3 DEF HandleInv
<1>6. TaskInv BY <1>2 DEF TaskInv
<1>7. StatusInv BY <1>1 DEF StatusInv
<1>8. SaidInv BY <1>1 DEF SaidInv, LastSaid
<1>9. EmoteInv BY <1>1 DEF EmoteInv
<1> QED BY <1>4, <1>5, <1>6, <1>7, <1>8, <1>9 DEF ChatInv, ReportInv

\* Every step keeps it.
LEMMA ChatStep == ChatInv /\ [TwitchNext]_twitchVars => ChatInv'
<1> SUFFICES ASSUME ChatInv, [TwitchNext]_twitchVars PROVE ChatInv' OBVIOUS
<1>1. CASE Save \/ PressConnect \/ Connect \/ PressDisconnect BY <1>1, UserKeepsChat
<1>2. CASE MainCalls BY <1>2, MainCallsKeepsChat
<1>3. ASSUME NEW t \in DOMAIN tasks,
             \/ Begin(t) \/ EmotesFetched(t) \/ Dialed(t) \/ LineComes(t) \/ StopSeen(t) \/ TaskCalls(t)
      PROVE  ChatInv'
  BY <1>3, BeginKeepsChat, EmotesFetchedKeepsChat, DialedKeepsChat, LineComesKeepsChat,
     StopSeenKeepsChat, TaskCallsKeepsChat
<1>4. CASE RefreshEnds BY <1>4, RefreshKeepsChat
<1>5. CASE StatusArrives BY <1>5, DeliverKeepsChat
<1>6. CASE UNCHANGED twitchVars
  <2>1. UNCHANGED <<settings, status, handle, tasks, main, refreshes, emotes, wire, panel, blamed>>
    BY <1>6 DEF twitchVars
  <2>2. ChatTypeOK' BY <2>1 DEF ChatInv, ChatTypeOK
  <2>3. HandleInv' BY <2>1 DEF ChatInv, ReportInv, HandleInv
  <2>4. TaskInv' BY <2>1 DEF ChatInv, ReportInv, TaskInv
  <2>5. StatusInv' BY <2>1 DEF ChatInv, ReportInv, StatusInv
  <2>6. SaidInv' BY <2>1 DEF ChatInv, ReportInv, SaidInv, LastSaid
  <2>7. EmoteInv' BY <2>1 DEF ChatInv, EmoteInv
  <2> QED BY <2>2, <2>3, <2>4, <2>5, <2>6, <2>7 DEF ChatInv, ReportInv
<1> QED BY <1>1, <1>2, <1>3, <1>4, <1>5, <1>6 DEF TwitchNext

\* Between commands, at most the session whose handle is kept can still wake up.
LEMMA OnlyTheKept == ChatInv => OneListener
BY DEF ChatInv, ReportInv, HandleInv, OneListener, Listens

\* The panel and the emote sets are as the invariant says, once everybody has reported.
LEMMA FollowsTheUser == ChatInv => ChatFollowsUser
<1> SUFFICES ASSUME ChatInv PROVE ChatFollowsUser OBVIOUS
<1>1. PanelTellsTheSession
  <2> SUFFICES ASSUME NobodyReports, wire = <<>>, blamed \cap {"late", "posthumous", "overtaken"} = {}
               PROVE  LET listening == handle # 0 /\ Listens(handle)
                      IN /\ panel \in {"connecting", "connected"} <=> listening
                         /\ panel = "connected" <=> listening /\ tasks[handle].joined
    BY DEF PanelTellsTheSession
  <2>1. main = <<>> /\ main # SetsHello /\ main \notin SettingBye BY PlacesDiffer DEF NobodyReports
  <2>2. \A t \in DOMAIN tasks : SendsNothing(tasks[t]) /\ NoReport(tasks[t]) BY SilentTask DEF NobodyReports
  <2>3. panel = status BY <2>1, <2>2 DEF ChatInv, ReportInv, SaidInv, LastSaid
  <2>4. handle # 0 => handle \in DOMAIN tasks /\ ~tasks[handle].aborted
    BY DEF ChatInv, ChatTypeOK, ReportInv, HandleInv
  <2>5. blamed \cap {"late", "posthumous"} = {} OBVIOUS
  <2>6. CASE handle = 0
    <3>1. status = "disconnected" BY <2>1, <2>5, <2>6 DEF ChatInv, ReportInv, StatusInv
    <3> QED BY <2>3, <2>6, <3>1
  <2>7. CASE handle # 0
    <3>1. Tells(status, tasks[handle]) BY <2>1, <2>2, <2>4, <2>5, <2>7 DEF ChatInv, ReportInv, StatusInv
    <3>2. Listens(handle) <=> tasks[handle].at # "over" BY <2>4, <2>7 DEF Listens
    <3>3. tasks[handle].joined => tasks[handle].at = "lines"
      BY <2>4, <2>7 DEF ChatInv, ReportInv, TaskInv, TaskOK
    <3> QED BY <2>3, <2>7, <3>1, <3>2, <3>3 DEF Tells
  <2> QED BY <2>6, <2>7
<1>2. EmotesFollowSettings BY DEF EmotesFollowSettings, ChatInv, EmoteInv, Fetching
<1> QED BY <1>1, <1>2 DEF ChatFollowsUser

\* Between the commands of the panel no session of the Twitch chat but the one whose handle is kept can
\* still wake up, for every set of emote sources.
THEOREM OneListenerAlways == TwitchSpec => []OneListener
<1>1. TwitchInit => ChatInv BY ChatInitOK
<1>2. ChatInv /\ [TwitchNext]_twitchVars => ChatInv' BY ChatStep
<1>3. ChatInv => OneListener BY OnlyTheKept
<1> QED BY <1>1, <1>2, <1>3, PTL DEF TwitchSpec

\* What the panel shows of the chat, and the emote sets in use, follow the commands and the settings.
THEOREM ChatAlwaysFollowsUser == TwitchSpec => []ChatFollowsUser
<1>1. TwitchInit => ChatInv BY ChatInitOK
<1>2. ChatInv /\ [TwitchNext]_twitchVars => ChatInv' BY ChatStep
<1>3. ChatInv => ChatFollowsUser BY FollowsTheUser
<1> QED BY <1>1, <1>2, <1>3, PTL DEF TwitchSpec
==============================================================================
