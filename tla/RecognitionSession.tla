--------------------------- MODULE RecognitionSession ---------------------------
(***************************************************************************)
(* The browser worker's recognition session (BrowserAsrSessionManager) in  *)
(* its default mode: one SpeechRecognition object at a time.               *)
(*                                                                         *)
(* Every action is one callback of the page's event loop: a button, a      *)
(* timer, an event of the recogniser, of the socket or of the document, or *)
(* what follows an await.  The recogniser belongs to the browser: once     *)
(* started it may begin, fail and end when it likes.                       *)
(*                                                                         *)
(* Reasons of a restart only choose its delay; a delay above the normal    *)
(* one shows as "backoff".                                                 *)
(***************************************************************************)
EXTENDS Naturals, FiniteSets

CONSTANTS
  MaxGeneration, \* bound on the stops
  Impatient      \* whether Start is also pressed while a restart is scheduled
                 \* or after a fatal error

ASSUME RecognitionAssumption == MaxGeneration \in Nat /\ Impatient \in BOOLEAN

VARIABLES
  desired,      \* desiredRunning
  supervisor,   \* browserSupervisorState
  pendingStart,
  generation,
  restartTimer, \* generations captured by the restart timer: one if it is set
  instance,     \* the recogniser, and whether it was told to stop or has failed
  waiting,      \* start() waits for the permission, for the document to be seen
  hidden,       \* document.hidden
  socket,
  reconnectTimer

socket_vars == <<socket, reconnectTimer>>
vars == <<desired, supervisor, pendingStart, generation, restartTimer, instance, waiting,
          hidden, socket, reconnectTimer>>

Generations == 0..MaxGeneration
NoInstance == [state |-> "none", ending |-> FALSE]

Init ==
  /\ desired = FALSE
  /\ supervisor = "idle"
  /\ pendingStart = FALSE
  /\ generation = 0
  /\ restartTimer = {}
  /\ instance = NoInstance
  /\ waiting = [permission |-> FALSE, view |-> FALSE]
  /\ hidden \in BOOLEAN
  /\ socket = "connecting"
  /\ reconnectTimer = FALSE

Live == instance.state \in {"starting", "listening"}

-----------------------------------------------------------------------------
(* What the handlers share *)

WantedOnce == desired \/ pendingStart \/ restartTimer # {}

\* Whether recognition may still be started; asked again after every wait.
Wanted == desired

ensuredSocket ==
  /\ socket' = IF socket = "none" THEN "connecting" ELSE socket
  /\ reconnectTimer' = (reconnectTimer /\ socket # "none")

\* scheduleRestart replaces the timer.
ScheduleRestart ==
  /\ supervisor' \in {"restarting", "backoff"}
  /\ restartTimer' = {generation}

TransitionWithoutTimer ==
  IF instance.state = "none"
  THEN /\ supervisor' = "restarting"
       /\ UNCHANGED <<restartTimer, instance>>
  ELSE /\ supervisor' = "stopping"
       /\ instance' = [instance EXCEPT !.ending = TRUE]
       /\ UNCHANGED restartTimer

\* transitionToStopping while recognition is desired.
TransitionToStopping ==
  IF instance.state = "none"
  THEN /\ ScheduleRestart
       /\ UNCHANGED instance
  ELSE /\ supervisor' = "stopping"
       /\ instance' = [instance EXCEPT !.ending = TRUE]
       /\ UNCHANGED restartTimer

\* performControlledStart; timer is what is left of the restart timer.  A new
\* recogniser takes the place of the old one, whose handlers are removed.
ControlledStart(timer) ==
  \/ /\ ~Wanted \/ supervisor \in {"starting", "running"}
     /\ restartTimer' = timer
     /\ UNCHANGED <<supervisor, instance, socket_vars>>
  \/ /\ Wanted
     /\ supervisor \notin {"starting", "running", "stopping"}
     /\ ensuredSocket
     /\ \/ /\ supervisor' = "starting"
           /\ instance' = [state |-> "starting", ending |-> FALSE]
           /\ restartTimer' = timer
        \/ /\ instance' = [state |-> "unstarted", ending |-> FALSE]
           /\ ScheduleRestart

\* Recognition that is stopping is started again when it has ended.
Deferred(timer) ==
  /\ Wanted /\ supervisor = "stopping"
  /\ pendingStart' = TRUE
  /\ restartTimer' = timer
  /\ UNCHANGED <<supervisor, instance, socket_vars>>

-----------------------------------------------------------------------------
(* Buttons and settings *)

\* start(), up to the permission.
PressStart ==
  /\ Impatient \/ supervisor \notin {"restarting", "backoff", "fatal"}
  /\ desired' = TRUE
  /\ restartTimer' = {}
  /\ ensuredSocket
  /\ pendingStart' = (pendingStart \/ supervisor \in {"stopping", "restarting", "backoff"})
  /\ waiting' = [waiting EXCEPT !.permission = @ \/ supervisor = "idle"]
  /\ UNCHANGED <<supervisor, generation, instance, hidden>>

\* start() after its waits.
Proceed ==
  \/ /\ pendingStart' = (pendingStart /\ ~Wanted)
     /\ ControlledStart(restartTimer)
  \/ Deferred(restartTimer)

\* getUserMedia is granted.  Further calls of start() share its promise.
PermissionGranted ==
  /\ waiting.permission
  /\ \/ /\ hidden
        /\ waiting' = [permission |-> FALSE, view |-> TRUE]
        /\ UNCHANGED <<supervisor, pendingStart, restartTimer, instance, socket_vars>>
     \/ /\ ~hidden
        /\ waiting' = [waiting EXCEPT !.permission = FALSE]
        /\ Proceed
  /\ UNCHANGED <<desired, generation, hidden>>

PermissionDenied ==
  /\ waiting.permission
  /\ waiting' = [waiting EXCEPT !.permission = FALSE]
  /\ desired' = FALSE
  /\ supervisor' = "fatal"
  /\ UNCHANGED <<pendingStart, generation, restartTimer, instance, hidden, socket_vars>>

\* The document is seen, or start() has waited long enough.
ViewReady ==
  /\ waiting.view
  /\ waiting' = [waiting EXCEPT !.view = FALSE]
  /\ Proceed
  /\ UNCHANGED <<desired, generation, hidden>>

\* stop(), by its button or a control frame; clearAllTimers is part of it.
Stop ==
  /\ generation < MaxGeneration
  /\ desired' = FALSE
  /\ pendingStart' = FALSE
  /\ generation' = generation + 1
  /\ restartTimer' = {}
  /\ reconnectTimer' = FALSE
  /\ supervisor' = IF instance.state = "none" THEN "idle" ELSE "stopping"
  /\ instance' = [instance EXCEPT !.ending = instance.state # "none"]
  /\ UNCHANGED <<waiting, hidden, socket>>

\* maybeRestartAfterSettingsChange
SettingsChange ==
  /\ desired
  /\ pendingStart' = TRUE
  /\ TransitionToStopping
  /\ UNCHANGED <<desired, generation, waiting, hidden, socket_vars>>

-----------------------------------------------------------------------------
(* Timers *)

RestartFires ==
  /\ restartTimer # {}
  /\ IF Wanted /\ generation \in restartTimer
     THEN \/ ControlledStart({}) /\ UNCHANGED pendingStart
          \/ Deferred({})
     ELSE restartTimer' = {} /\ UNCHANGED <<supervisor, pendingStart, instance, socket_vars>>
  /\ UNCHANGED <<desired, generation, waiting, hidden>>

\* The watchdog ends a session that is too old or idle, or stalled.
WatchdogRearm ==
  /\ desired
  /\ supervisor = "running"
  /\ pendingStart' = TRUE
  /\ TransitionToStopping
  /\ UNCHANGED <<desired, generation, waiting, hidden, socket_vars>>

\* The watchdog gives up on a recogniser that does not end.
WatchdogTimeout ==
  /\ desired
  /\ supervisor = "stopping"
  /\ instance' = NoInstance
  /\ ScheduleRestart
  /\ UNCHANGED <<desired, pendingStart, generation, waiting, hidden, socket_vars>>

ReconnectFires ==
  /\ reconnectTimer
  /\ socket' = IF socket = "none" THEN "connecting" ELSE socket
  /\ reconnectTimer' = FALSE
  /\ UNCHANGED <<desired, supervisor, pendingStart, generation, restartTimer, instance, waiting,
                 hidden>>

-----------------------------------------------------------------------------
(* Events of the recogniser *)

\* onstart, which may still come after stop().
Begins ==
  /\ instance.state = "starting"
  /\ instance' = [instance EXCEPT !.state = "listening"]
  /\ supervisor' = "running"
  /\ UNCHANGED <<desired, pendingStart, generation, restartTimer, waiting, hidden, socket_vars>>

\* onerror: no speech, aborted, unsupported hints; an end follows.
Fails ==
  /\ Live
  /\ instance' = [instance EXCEPT !.ending = TRUE]
  /\ UNCHANGED <<desired, supervisor, pendingStart, generation, restartTimer, waiting, hidden,
                 socket_vars>>

NetworkFails ==
  /\ Live
  /\ instance' = [instance EXCEPT !.ending = TRUE]
  /\ supervisor' = "backoff"
  /\ UNCHANGED <<desired, pendingStart, generation, restartTimer, waiting, hidden, socket_vars>>

\* The microphone or the language is refused.
FailsForGood ==
  /\ Live
  /\ instance' = [instance EXCEPT !.ending = TRUE]
  /\ supervisor' = "fatal"
  /\ desired' = FALSE
  /\ pendingStart' = FALSE
  /\ restartTimer' = {}
  /\ reconnectTimer' = FALSE
  /\ UNCHANGED <<generation, waiting, hidden, socket>>

EndsIfPending ==
  /\ Live
  /\ instance' = NoInstance
  /\ \/ /\ desired /\ pendingStart
        /\ pendingStart' = FALSE
        /\ ScheduleRestart
     \/ /\ ~desired \/ ~pendingStart
        /\ supervisor' = IF desired THEN supervisor ELSE "idle"
        /\ UNCHANGED <<pendingStart, restartTimer>>
  /\ UNCHANGED <<desired, generation, waiting, hidden, socket_vars>>

\* onend.  The recogniser also ends of itself.
Ends ==
  /\ Live
  /\ instance' = NoInstance
  /\ \/ /\ desired
        /\ pendingStart' = FALSE
        /\ ScheduleRestart
     \/ /\ ~desired
        /\ supervisor' = "idle"
        /\ UNCHANGED <<pendingStart, restartTimer>>
  /\ UNCHANGED <<desired, generation, waiting, hidden, socket_vars>>

-----------------------------------------------------------------------------
(* Events of the document and of the socket *)

\* handleVisibilityChange, which focus and blur call as well.
Visibility ==
  /\ hidden' \in BOOLEAN
  /\ IF ~hidden' /\ desired /\ supervisor \notin {"running", "starting", "stopping"}
     THEN ScheduleRestart
     ELSE UNCHANGED <<supervisor, restartTimer>>
  /\ UNCHANGED <<desired, pendingStart, generation, instance, waiting, socket_vars>>

SocketOpens ==
  /\ socket = "connecting"
  /\ socket' = "open"
  /\ IF desired /\ supervisor \notin {"running", "starting"}
     THEN ScheduleRestart
     ELSE UNCHANGED <<supervisor, restartTimer>>
  /\ UNCHANGED <<desired, pendingStart, generation, instance, waiting, hidden, reconnectTimer>>

SocketClosesForGood ==
  /\ socket # "none"
  /\ socket' = "none"
  /\ reconnectTimer' = (reconnectTimer \/ (desired /\ supervisor = "running"))
  /\ UNCHANGED <<desired, supervisor, pendingStart, generation, restartTimer, instance, waiting,
                 hidden>>

SocketCloses ==
  /\ socket # "none"
  /\ socket' = "none"
  /\ reconnectTimer' = (reconnectTimer \/ desired)
  /\ UNCHANGED <<desired, supervisor, pendingStart, generation, restartTimer, instance, waiting,
                 hidden>>

Next ==
  \/ PressStart \/ Stop \/ SettingsChange
  \/ PermissionGranted \/ PermissionDenied \/ ViewReady
  \/ RestartFires \/ WatchdogRearm \/ WatchdogTimeout \/ ReconnectFires
  \/ Begins \/ Fails \/ NetworkFails \/ FailsForGood \/ Ends
  \/ Visibility \/ SocketOpens \/ SocketCloses

Spec == Init /\ [][Next]_vars

\* Timers fire, a document that is not seen is waited for 20 s at most, a recogniser
\* that was stopped or has failed ends, and the browser does not refuse every start.
\* Nothing is asked of the user.
Fairness ==
  /\ WF_vars(RestartFires)
  /\ SF_vars(RestartFires /\ supervisor' = "starting")
  /\ WF_vars(ViewReady)
  /\ WF_vars(WatchdogTimeout)
  /\ WF_vars(instance.ending /\ Ends)

FairSpec == Spec /\ Fairness

-----------------------------------------------------------------------------
(* Properties *)

\* Every variable keeps its type.
TypeOK ==
  /\ desired \in BOOLEAN
  /\ supervisor \in {"idle", "starting", "running", "stopping", "restarting", "backoff", "fatal"}
  /\ pendingStart \in BOOLEAN
  /\ generation \in Generations
  /\ restartTimer \subseteq Generations
  /\ instance \in [state : {"none", "unstarted", "starting", "listening"}, ending : BOOLEAN]
  /\ waiting \in [permission : BOOLEAN, view : BOOLEAN]
  /\ hidden \in BOOLEAN
  /\ socket \in {"none", "connecting", "open"}
  /\ reconnectTimer \in BOOLEAN

\* Once stopped, whatever timers, awaits and events were under way, the
\* recogniser is not started again unless Start is pressed.
StoppedStaysStopped ==
  [][~desired /\ instance'.state \in {"starting", "unstarted"} => instance'.state = instance.state]_vars

\* The page never shows idle while a recogniser still has the microphone.
IdleIsQuiet ==
  supervisor = "idle" => ~Live

\* While recognition is desired there is a socket, or a timer that opens one.
SocketKept ==
  desired => socket # "none" \/ reconnectTimer

\* A restart timer belongs to the present generation: a stop leaves none behind,
\* so the check of the generation when it fires never has to save the day.
RestartIsCurrent ==
  restartTimer \subseteq {generation}

\* The three together, over every race of timers, waits and recogniser events.
SessionKept == IdleIsQuiet /\ SocketKept /\ RestartIsCurrent

\* The log of start() says "start requested while restart/backoff is already
\* scheduled": in these states a timer is set, or the end of a recogniser is to come.
RestartIsScheduled ==
  desired /\ supervisor \in {"restarting", "backoff"} => restartTimer # {} \/ Live

\* Recognition that is desired is started again and again: it never stays down but
\* for a fatal error or a question the user leaves unanswered.
Recovers ==
  desired ~> (~desired \/ supervisor \in {"starting", "running", "fatal"} \/ waiting.permission)

=================================================================================
