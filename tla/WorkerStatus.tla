------------------------------ MODULE WorkerStatus ------------------------------
(***************************************************************************)
(* What the server knows of the speech worker, and what its log says of    *)
(* it: the status frames of a worker page that is wanted, over the socket  *)
(* it opens again whenever it is lost, through the loops of AsrWorkerHub,  *)
(* to the snapshot and the phase of BrowserAsrService and to               *)
(* BrowserAsrGateway with its log.  A loop takes the lock of the service   *)
(* twice for a status and calls the gateway outside of it, so the loop of  *)
(* a lost socket may come in between at each point.                        *)
(*                                                                         *)
(* A report is two fields that stand for the some sixty of a frame: the    *)
(* degraded reason and the last error.  Which session and generation a     *)
(* frame is of is SpeechIngest's.  Heartbeat records, which name neither   *)
(* field, are left out.  The page never sends rearm_count, so that the     *)
(* sampling of routine events, which depends on it, lets all of them pass. *)
(***************************************************************************)
EXTENDS Naturals, Sequences

CONSTANTS
  MaxSockets, \* bound on the connections
  MaxEdits,   \* bound on the changes of the page
  MaxWire     \* bound on the frames under way on a socket

VARIABLES
  worker,   \* the page: health of the recognition and error; its socket and whether it is open
  edits,    \* changes so far
  wires,    \* per socket: frames under way, and whether the page has closed it
  loops,    \* per socket: where serve_connection is, and the frame it handles
  desk,     \* BrowserAsrService: active transport, outbound, snapshot, phase
  gate,     \* GatewayDiagnostics
  record,   \* the last the log says of each field
  author    \* the sockets whose loops wrote the snapshot and the gateway last, 0 for none

workerVars == <<worker, edits, wires>>
deskVars == <<loops, desk>>
gateVars == <<gate, record>>
statusDeskVars == <<workerVars, deskVars, gateVars, author>>

Nil == "nil"
Sockets == 1..MaxSockets

\* resolveDegradedReason: a socket that is lost counts before the health of the recognition.
Degraded(w) == IF w.open THEN w.health ELSE "websocket_disconnected"
WorkerPayload(w) == [degraded |-> Degraded(w), error |-> w.error]
Frame(reason) == [reason |-> reason, report |-> WorkerPayload(worker')]

Gone == [degraded |-> Nil, error |-> Nil]

StatusDeskInit ==
  /\ worker = [health |-> Nil, error |-> Nil, socket |-> 0, open |-> FALSE]
  /\ edits = 0
  /\ wires = [s \in Sockets |-> [frames |-> <<>>, closed |-> FALSE]]
  /\ loops = [s \in Sockets |-> [pc |-> "none"]]
  /\ desk = [active |-> 0, outbound |-> FALSE, connected |-> FALSE, shown |-> Gone, phase |-> "idle"]
  /\ gate = [connected |-> FALSE, now |-> Gone]
  /\ record = Gone
  /\ author = [desk |-> 0, gate |-> 0]

-----------------------------------------------------------------------------
(* The page *)

\* Frames go out on an open socket and are lost otherwise.
SendAll(frames) ==
  /\ worker'.open => Len(wires[worker.socket].frames) + Len(frames) <= MaxWire
  /\ wires' = IF worker'.open THEN [wires EXCEPT ![worker.socket].frames = @ \o frames] ELSE wires

HealthChanges ==
  /\ edits < MaxEdits /\ edits' = edits + 1
  /\ \E h \in {Nil, "silent"} \ {worker.health} : worker' = [worker EXCEPT !.health = h]
  /\ SendAll(<<Frame("degraded")>>)
  /\ UNCHANGED <<deskVars, gateVars, author>>

ErrorHappens ==
  /\ edits < MaxEdits /\ edits' = edits + 1
  /\ \E e \in {Nil, "aborted"} \ {worker.error} : worker' = [worker EXCEPT !.error = e]
  /\ SendAll(<<Frame("mapped")>>)
  /\ UNCHANGED <<deskVars, gateVars, author>>

\* A restart, a result, the watchdog's heartbeat: any other reason to report.
Reports ==
  /\ worker.open
  /\ UNCHANGED <<worker, edits>>
  /\ \E reason \in {"mapped", "plain"} : SendAll(<<Frame(reason)>>)
  /\ UNCHANGED <<deskVars, gateVars, author>>

SocketOpens ==
  /\ ~worker.open /\ worker.socket + 1 \in Sockets
  /\ worker' = [worker EXCEPT !.socket = @ + 1, !.open = TRUE]
  /\ wires' = [wires EXCEPT ![worker'.socket].frames = <<Frame("degraded"), Frame("told")>>]
  /\ UNCHANGED <<edits, deskVars, gateVars, author>>

\* Closed or in error; the frames under way may still be read.
SocketCloses ==
  /\ worker.open
  /\ worker' = [worker EXCEPT !.open = FALSE]
  /\ wires' = [wires EXCEPT ![worker.socket].closed = TRUE]
  /\ UNCHANGED <<edits, deskVars, gateVars, author>>

-----------------------------------------------------------------------------
(* AsrWorkerHub::serve_connection with BrowserAsrService *)

Goes(s, pc) == loops' = [loops EXCEPT ![s] = [pc |-> pc]]

Register(s) ==
  /\ loops[s].pc = "none" /\ s <= worker.socket
  /\ Goes(s, "hello")
  /\ desk' = [desk EXCEPT !.active = s, !.outbound = TRUE, !.connected = TRUE,
                          !.shown = Gone]
  /\ author' = [author EXCEPT !.desk = 0]
  /\ UNCHANGED <<workerVars, gateVars>>

Hello(s) ==
  /\ loops[s].pc = "hello"
  /\ \/ /\ Goes(s, "announce")
        /\ desk' = [desk EXCEPT !.phase = "worker_socket_idle"]
     \/ /\ wires[s].closed /\ Goes(s, "disconnect")
        /\ UNCHANGED desk
  /\ UNCHANGED <<workerVars, gateVars, author>>

WorkerConnected(s) ==
  /\ loops[s].pc = "announce"
  /\ Goes(s, "serve")
  /\ gate' = [gate EXCEPT !.connected = TRUE, !.now.error = Nil]
  /\ author' = [author EXCEPT !.gate = s]
  /\ UNCHANGED <<workerVars, desk, record>>

\* A frame is read and passes accept_payload, or is dropped because another transport is active.
Accept(s) ==
  /\ loops[s].pc = "serve" /\ wires[s].frames # <<>>
  /\ wires' = [wires EXCEPT ![s].frames = Tail(@)]
  /\ loops' = IF s = desk.active
              THEN [loops EXCEPT ![s] = [pc |-> "apply", frame |-> Head(wires[s].frames)]]
              ELSE loops
  /\ UNCHANGED <<worker, edits, desk, gateVars, author>>

\* apply_status_snapshot asks nothing of the transport: whoever was accepted is shown.
Apply(s) ==
  /\ loops[s].pc = "apply"
  /\ LET report == loops[s].frame.report
     IN desk' = [desk EXCEPT !.connected = TRUE, !.shown = report,
                             !.phase = IF report.degraded # Nil THEN "degraded_hint" ELSE "worker_live"]
  /\ loops' = [loops EXCEPT ![s].pc = "forward"]
  /\ author' = [author EXCEPT !.desk = s]
  /\ UNCHANGED <<workerVars, gateVars>>

\* A transcript: accept_payload and note_ingest; what becomes of it is SpeechIngest's.
NotesIngest(s) ==
  /\ loops[s].pc = "serve" /\ s = desk.active
  /\ desk' = [desk EXCEPT !.phase = "ingest"]
  /\ UNCHANGED <<workerVars, loops, gateVars, author>>

\* The page has closed and all is read or lost, or a newer connection has taken the outbound channel.
EndsLoop(s) ==
  /\ loops[s].pc = "serve"
  /\ wires[s].closed \/ s # desk.active
  /\ Goes(s, "disconnect")
  /\ UNCHANGED <<workerVars, desk, gateVars, author>>

Disconnect(s) ==
  /\ loops[s].pc = "disconnect"
  /\ IF s = desk.active
     THEN /\ desk' = [desk EXCEPT !.outbound = FALSE, !.connected = FALSE, !.phase = "idle"]
          /\ Goes(s, "notify")
          /\ author' = [author EXCEPT !.desk = 0]
     ELSE /\ Goes(s, "ended")
          /\ UNCHANGED <<desk, author>>
  /\ UNCHANGED <<workerVars, gateVars>>

-----------------------------------------------------------------------------
(* BrowserAsrGateway *)

NotifyDisconnected(s) ==
  /\ loops[s].pc = "notify"
  /\ Goes(s, "ended")
  /\ gate' = [gate EXCEPT !.connected = FALSE]
  /\ author' = [author EXCEPT !.gate = s]
  /\ UNCHANGED <<workerVars, desk, record>>

\* A payload holds each field, and overwrites it, also by nothing.
Applied(frame) == [gate EXCEPT !.now = frame.report]

\* Both fields are in CoreStatusSnapshot; the counters that are not are logged once an hour.
CoreChanged(frame) == Applied(frame) # gate

StatusLogged(frame) ==
  \/ frame.reason = "told"
  \/ frame.reason = "plain" /\ CoreChanged(frame)

ErrorLogged(frame) ==
  /\ frame.report.error # Nil
  /\ frame.reason = "mapped" \/ frame.report.error # gate.now.error

DegradedLoggedOnReason(frame) == frame.report.degraded # Nil /\ frame.reason = "degraded"

\* Any frame may be the first to carry the reason: the one that announced it can be lost.
DegradedLogged(frame) == frame.report.degraded # Nil /\ frame.report.degraded # gate.now.degraded

\* A status record names both fields, the others their own.
Logged(frame) ==
  [degraded |-> IF StatusLogged(frame) \/ DegradedLogged(frame) THEN frame.report.degraded ELSE record.degraded,
   error |-> IF StatusLogged(frame) \/ ErrorLogged(frame) THEN frame.report.error ELSE record.error]

Forward(s) ==
  /\ loops[s].pc = "forward"
  /\ LET frame == loops[s].frame
     IN /\ record' = Logged(frame)
        /\ gate' = Applied(frame)
  /\ Goes(s, "serve")
  /\ author' = [author EXCEPT !.gate = s]
  /\ UNCHANGED <<workerVars, desk>>

StatusDeskNext ==
  \/ HealthChanges \/ ErrorHappens \/ Reports \/ SocketOpens \/ SocketCloses
  \/ \E s \in Sockets :
       \/ Register(s) \/ Hello(s) \/ WorkerConnected(s)
       \/ Accept(s) \/ Apply(s) \/ Forward(s) \/ NotesIngest(s)
       \/ EndsLoop(s) \/ Disconnect(s) \/ NotifyDisconnected(s)

StatusDeskSpec == StatusDeskInit /\ [][StatusDeskNext]_statusDeskVars

-----------------------------------------------------------------------------
(* Properties *)

\* The frames of the open socket are all handled and the active loop waits for more.
Handled == /\ worker.open /\ wires[worker.socket].frames = <<>>
           /\ desk.active = worker.socket /\ loops[worker.socket].pc = "serve"

\* Whatever was lost while the socket was away, once the frames of the open socket are handled
\* the snapshot and the gateway show the worker's own degraded reason and error, unless the loop
\* of a lost socket wrote last: every change is reported at once and a new socket reports all.
ReportIsShown ==
  Handled =>
    /\ author.desk \in {0, worker.socket} =>
         /\ desk.connected /\ desk.outbound /\ desk.phase # "idle"
         /\ desk.shown.degraded = worker.health /\ desk.shown.error = worker.error
    /\ author.gate \in {0, worker.socket} =>
         gate.now.degraded = worker.health /\ gate.now.error = worker.error

\* Though most frames leave no status record, the log never names another degraded reason or
\* another error than the one the gateway has: it tells each by itself, whichever frame brings it.
LogTellsTrouble ==
  /\ gate.now.degraded # Nil => record.degraded = gate.now.degraded
  /\ gate.now.error # Nil => record.error = gate.now.error

\* Whatever is lost with a socket, the trouble of the worker is shown and logged as it is.
TroubleIsKnown == ReportIsShown /\ LogTellsTrouble
=============================================================================
