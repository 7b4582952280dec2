----------------------------- MODULE RuntimeSession -----------------------------
(***************************************************************************)
(* A session from POST /api/runtime/start to POST /api/runtime/stop, step  *)
(* by step, over the ingest of SpeechIngest.                               *)
(*                                                                         *)
(* Neither request holds a lock from one end to the other: while one is    *)
(* between two steps the pages, the serve loops and the ingest tasks go    *)
(* on.  The dashboard has one request at a time (its buttons are disabled  *)
(* while it waits); closing the main window posts a stop of its own at any *)
(* moment, which ExitSpec adds.                                            *)
(*                                                                         *)
(* The Chrome process of a launch and the worker page it opens are one: a  *)
(* pid is the number of the page.  This is the Windows build, where        *)
(* terminate_worker kills the process tree.                                *)
(***************************************************************************)
EXTENDS SpeechIngest

VARIABLES
  orchestrator, \* OrchestratorInner
  requests      \* per client: the step its request is at, and what it has read

control_vars == <<orchestrator, requests>>
session_vars == <<ingest_vars, control_vars>>

Clients == {"dashboard", "exit"}

NoRequest == [pc |-> "none", pid |-> None]

SessionInit ==
  /\ IngestInit
  /\ orchestrator = [phase |-> "idle", running |-> FALSE, pid |-> None]
  /\ requests = [r \in Clients |-> NoRequest]

At(r, pc) == requests[r].pc = pc
Goto(r, pc) == requests' = [requests EXCEPT ![r].pc = pc]
Answer(r) == requests' = [requests EXCEPT ![r] = NoRequest]

-----------------------------------------------------------------------------
(* POST /api/runtime/start *)

PressStart ==
  /\ At("dashboard", "none")
  /\ ~orchestrator.running
  /\ orchestrator' = [orchestrator EXCEPT !.phase = "starting"]
  /\ Goto("dashboard", "save")
  /\ UNCHANGED ingest_vars

\* The configuration that comes with the request is saved, or is not.
SaveConfig(r) ==
  /\ At(r, "save")
  /\ Goto(r, "reset numbers")
  /\ UNCHANGED <<orchestrator, ingest_vars>>

SaveFails(r) ==
  /\ At(r, "save")
  /\ orchestrator' = [orchestrator EXCEPT !.phase = "error", !.running = FALSE]
  /\ Answer(r)
  /\ UNCHANGED ingest_vars

\* partial_emit.reset, then runtime_running.
OpenGate(r) ==
  /\ At(r, "reset numbers")
  /\ sequence' = 0
  /\ running' = TRUE
  /\ Goto(r, "reset source")
  /\ UNCHANGED <<orchestrator, page_vars, service, tasks, source, handling, sink_vars, heard>>

ResetSourceAtOnce(r, next) ==
  /\ source' = EmptySource
  /\ heard' = {}
  /\ Goto(r, next)
  /\ UNCHANGED <<orchestrator, page_vars, service, tasks, running, sequence, handling, sink_vars>>

\* browser_speech.start waits for the task that holds the mutex.
ResetSource(r, next) ==
  /\ MutexFree
  /\ source' = EmptySource
  /\ heard' = {}
  /\ Goto(r, next)
  /\ UNCHANGED <<orchestrator, page_vars, service, tasks, running, sequence, handling, sink_vars>>

\* start of the controller keeps a dispatcher that is there.
StartTranslation(r) ==
  /\ At(r, "start translation")
  /\ translation' = [translation EXCEPT !.dispatcher = TRUE]
  /\ Goto(r, "reset subtitles")
  /\ UNCHANGED <<orchestrator, page_vars, service, tasks, running, source, sequence, handling,
                 subtitle, heard>>

ResetSubtitles(r, next) ==
  /\ subtitle' = 0
  /\ Goto(r, next)
  /\ UNCHANGED <<orchestrator, page_vars, service, tasks, running, source, sequence, handling,
                 translation, heard>>

\* The pid is read under the lock of the orchestrator, which is then given back.
ReadPid(r, next) ==
  /\ requests' = [requests EXCEPT ![r] = [pc |-> next, pid |-> orchestrator.pid]]
  /\ UNCHANGED <<orchestrator, ingest_vars>>

TerminateNothing(r, next) ==
  /\ Goto(r, next)
  /\ UNCHANGED <<orchestrator, ingest_vars>>

\* terminate_worker; a process that is gone already is none of its business.
Terminate(r, next) ==
  LET pid == requests[r].pid
      killed == {p \in OpenPages : p = pid}
  IN /\ pages' = [p \in Pages |-> IF p \in killed THEN ClosedPage(pages[p]) ELSE pages[p]]
     /\ link' = Hangup(killed)
     /\ Goto(r, next)
     /\ UNCHANGED <<orchestrator, service, tasks, running, source, sequence, handling, sink_vars,
                    heard>>

\* launch_worker and the lock of the orchestrator, taken before the result is looked at.
Launch(r) ==
  /\ At(r, "launch")
  /\ \E p \in Pages :
       /\ OpenPage(p)
       /\ orchestrator' = [phase |-> "listening", running |-> TRUE, pid |-> p]
  /\ Answer(r)

\* Chrome is not found or does not start.  runtime_running stays as it is.
LaunchFails(r) ==
  /\ At(r, "launch")
  /\ orchestrator' = [orchestrator EXCEPT !.phase = "error", !.running = FALSE]
  /\ Goto(r, "undo translation")
  /\ UNCHANGED ingest_vars

StopTranslation(r) ==
  /\ translation' = NoDispatcher
  /\ UNCHANGED <<orchestrator, page_vars, service, tasks, running, source, sequence, handling,
                 subtitle, heard>>

StartStep(r) ==
  \/ SaveConfig(r)
  \/ SaveFails(r)
  \/ OpenGate(r)
  \/ At(r, "reset source") /\ ResetSource(r, "start translation")
  \/ StartTranslation(r)
  \/ At(r, "reset subtitles") /\ ResetSubtitles(r, "read previous")
  \/ At(r, "read previous") /\ ReadPid(r, "kill previous")
  \/ At(r, "kill previous") /\ Terminate(r, "launch")
  \/ Launch(r)
  \/ LaunchFails(r)
  \/ At(r, "undo translation") /\ StopTranslation(r) /\ Answer(r)

-----------------------------------------------------------------------------
(* POST /api/runtime/stop.  The control frame it sends is StopRecognition,   *)
(* which a page may run at any time, or not at all.                          *)

BeginStop(r) == At(r, "none") /\ ReadPid(r, "kill")

PressStop ==
  /\ orchestrator.running
  /\ BeginStop("dashboard")

CloseGate(r) ==
  /\ At(r, "close gate")
  /\ running' = FALSE
  /\ Goto(r, "empty source")
  /\ UNCHANGED <<orchestrator, page_vars, service, tasks, source, sequence, handling, sink_vars,
                 heard>>

ResetNumbers(r) ==
  /\ At(r, "empty numbers")
  /\ sequence' = 0
  /\ Goto(r, "finish")
  /\ UNCHANGED <<orchestrator, page_vars, service, tasks, running, source, handling, sink_vars,
                 heard>>

FinishStop(r) ==
  /\ At(r, "finish")
  /\ orchestrator' = [phase |-> "idle", running |-> FALSE, pid |-> None]
  /\ UNCHANGED ingest_vars

StopStep(r) ==
  \/ At(r, "kill") /\ Terminate(r, "empty subtitles")
  \/ At(r, "empty subtitles") /\ ResetSubtitles(r, "stop translation")
  \/ At(r, "stop translation") /\ StopTranslation(r) /\ Goto(r, "close gate")
  \/ CloseGate(r)
  \/ At(r, "empty source") /\ ResetSource(r, "empty numbers")
  \/ ResetNumbers(r)

Ingesting == IngestStep /\ UNCHANGED control_vars

Working ==
  \/ StartStep("dashboard")
  \/ StopStep("dashboard")
  \/ FinishStop("dashboard") /\ Answer("dashboard")
  \/ Ingesting

SessionNext ==
  \/ PressStart
  \/ PressStop
  \/ Working

SessionSpec == SessionInit /\ [][SessionNext]_session_vars

-----------------------------------------------------------------------------
(* The main window closes: a stop is posted and, once it is answered, the    *)
(* server shuts down, which lets a request that is in progress finish.       *)

Exited == At("exit", "exited")

ExitNext ==
  \/ ~Exited /\ (PressStart \/ PressStop)
  \/ Working
  \/ BeginStop("exit")
  \/ StopStep("exit")
  \/ FinishStop("exit") /\ Goto("exit", "exited")

ExitSpec == SessionInit /\ [][ExitNext]_session_vars

-----------------------------------------------------------------------------
(* Properties *)

Serving == \E r \in Clients : ~At(r, "none")

\* Every variable keeps its type.
SessionTypeOK ==
  /\ IngestTypeOK
  /\ orchestrator \in [phase : {"idle", "starting", "listening", "error"}, running : BOOLEAN,
                       pid : Pages \union {None}]
  /\ \A r \in Clients : requests[r].pid \in Pages \union {None}

\* While the dashboard shows a session that listens, the pipeline behind it is
\* open: updates are ingested and there is a dispatcher for their finals.
ListeningIngests ==
  ~Serving /\ orchestrator.phase = "listening" => running /\ translation.dispatcher

\* Between requests the only worker that is alive is the one the next stop kills.
WorkerIsKnown ==
  ~Serving => OpenPages \subseteq {orchestrator.pid}

\* Between requests the dashboard, the pipeline and the worker that is alive agree.
PartsAgree == ListeningIngests /\ WorkerIsKnown

\* Once a stop is answered no transcript that was still on its way reaches the
\* subtitles or the translation, until the next start; and between requests the
\* subtitles get transcripts in the order of their numbers, whatever was being
\* handled when the numbers began anew.
SilentWhenStopped ==
  ~Serving => /\ subtitle' >= subtitle
              /\ orchestrator.phase = "idle" => UNCHANGED sink_vars
StoppedIsSilent == [][SilentWhenStopped]_session_vars

\* TECHNICAL_ARCHITECTURE.en.md, "Stop": "stop translation, OBS; reset subtitle
\* state/metrics".  After a stop there is no dispatcher and no subtitle.
StoppedIsReset ==
  ~Serving /\ orchestrator.phase = "idle" => subtitle = 0 /\ ~translation.dispatcher

=================================================================================
