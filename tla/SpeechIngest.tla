------------------------------ MODULE SpeechIngest ------------------------------
(***************************************************************************)
(* How speech gets from a browser worker page to the subtitles.            *)
(*                                                                         *)
(* A page sends numbered frames over its websocket.  One serve loop per    *)
(* connection (AsrWorkerHub) hands them to BrowserAsrService, which keeps  *)
(* only those of the newest connection and spawns a task for each update.  *)
(* The tasks take the mutex of BrowserSpeechSource in any order; the one   *)
(* that holds it filters its update, gives it a sequence number and keeps  *)
(* the mutex until the subtitles and the translation have it.              *)
(*                                                                         *)
(* StartSession and StopSession stand for a session that begins or ends    *)
(* while no task holds the mutex; RuntimeSession takes them apart.         *)
(***************************************************************************)
EXTENDS Naturals, Sequences, FiniteSets

CONSTANTS
  MaxPages,       \* bound on page loads; each has a session id of its own
  MaxConnections, \* bound on connections
  MaxMessages,    \* bound on the transcript frames of a page
  MaxGeneration,  \* bound on the times a page is told to stop
  Kinds           \* the kinds of frames the pages send

ASSUME IngestAssumption ==
  /\ MaxPages \in Nat \ {0}
  /\ MaxConnections \in Nat \ {0}
  /\ MaxMessages \in Nat \ {0}
  /\ MaxGeneration \in Nat
  /\ Kinds \subseteq {"partial", "final", "status"}

VARIABLES
  pages,       \* per page: its state, its socket, its generation, frames it has sent
  link,        \* per connection: its state and the frames in flight
  service,     \* BrowserAsrService
  tasks,       \* updates whose ingest task waits for the mutex
  running,     \* runtime_running
  source,      \* BrowserSpeechSource
  sequence,    \* SegmentStateController::sequence
  handling,    \* the events in handle_event: one, of the task that holds the mutex
  subtitle,    \* newest sequence in the subtitle core, 0 after a reset
  translation, \* TranslationRuntimeController
  heard        \* history: transcripts of the session so far

page_vars == <<pages, link>>
sink_vars == <<subtitle, translation>>
ingest_vars ==
  <<pages, link, service, tasks, running, source, sequence, handling,
    subtitle, translation, heard>>

Pages == 1..MaxPages
Connections == 1..MaxConnections
Generations == 0..MaxGeneration
None == 0

Frame == [page : Pages, generation : Generations, n : 0..MaxMessages,
          kind : Kinds]

EmptySource ==
  [session |-> None, generation |-> 0,
   watermark |-> [k \in Pages \X Generations |-> 0]]

NoDispatcher == [dispatcher |-> FALSE, submitted |-> {}]

IngestInit ==
  /\ pages = [p \in Pages |-> [state |-> "new", socket |-> None, generation |-> 0, sent |-> 0]]
  /\ link = [c \in Connections |-> [state |-> "unused", frames |-> <<>>]]
  /\ service = [next |-> None, active |-> None, outbound |-> FALSE,
                session |-> None, generation |-> 0]
  /\ tasks = {}
  /\ running = FALSE
  /\ source = EmptySource
  /\ sequence = 0
  /\ handling = {}
  /\ subtitle = 0
  /\ translation = NoDispatcher
  /\ heard = {}

-----------------------------------------------------------------------------
(* The worker pages *)

OpenPages == {p \in Pages : pages[p].state = "open"}

\* A page is loaded: Chrome was launched, or the page was reloaded.
OpenPage(p) ==
  /\ pages[p].state = "new"
  /\ \A q \in Pages : q < p => pages[q].state # "new"
  /\ pages' = [pages EXCEPT ![p].state = "open"]
  /\ UNCHANGED <<link, service, tasks, running, source, sequence, handling, sink_vars, heard>>

\* The sockets of a set of pages close; what they sent may still arrive.
Hangup(ps) ==
  [c \in Connections |->
     IF \E p \in ps : pages[p].socket = c THEN [link[c] EXCEPT !.state = "closed"]
                                          ELSE link[c]]

\* destroy closes the socket; a process that is killed takes it along.
ClosedPage(page) == [page EXCEPT !.state = "closed", !.socket = None]

ClosePage(p) ==
  /\ p \in OpenPages
  /\ pages' = [pages EXCEPT ![p] = ClosedPage(@)]
  /\ link' = Hangup({p})
  /\ UNCHANGED <<service, tasks, running, source, sequence, handling, sink_vars, heard>>

\* The network drops the connection; the page will connect again.
DropSocket(p) ==
  /\ pages[p].socket # None
  /\ pages' = [pages EXCEPT ![p].socket = None]
  /\ link' = Hangup({p})
  /\ UNCHANGED <<service, tasks, running, source, sequence, handling, sink_vars, heard>>

Send(p, kind) ==
  LET conn == pages[p].socket
      n == IF kind = "status" THEN 0 ELSE pages[p].sent + 1
  IN /\ conn # None
     /\ n <= MaxMessages
     /\ kind = "status" => Len(link[conn].frames) < MaxMessages
     /\ link' = [link EXCEPT ![conn].frames =
          Append(@, [page |-> p, generation |-> pages[p].generation, n |-> n, kind |-> kind])]
     /\ pages' = [pages EXCEPT ![p].sent = IF kind = "status" THEN @ ELSE n]
     /\ UNCHANGED <<service, tasks, running, source, sequence, handling, sink_vars, heard>>

\* The user, or a control frame, stops recognition: a new generation begins.
StopRecognition(p) ==
  /\ p \in OpenPages
  /\ pages[p].generation < MaxGeneration
  /\ pages' = [pages EXCEPT ![p].generation = @ + 1]
  /\ UNCHANGED <<link, service, tasks, running, source, sequence, handling, sink_vars, heard>>

-----------------------------------------------------------------------------
(* AsrWorkerHub and BrowserAsrService *)

\* register_connection.  It replaces the sender of the previous connection,
\* whose serve loop ends for that.
Connect(p) ==
  /\ p \in OpenPages /\ pages[p].socket = None
  /\ service.next < MaxConnections
  /\ LET conn == service.next + 1
     IN /\ service' = [next |-> conn, active |-> conn, outbound |-> TRUE,
                       session |-> None, generation |-> 0]
        /\ pages' = [pages EXCEPT ![p].socket = conn]
        /\ link' = [link EXCEPT ![conn].state = "open"]
  /\ UNCHANGED <<tasks, running, source, sequence, handling, sink_vars, heard>>

\* accept_payload on a service s: whether it takes a frame, and what becomes of s.
OtherSession(s, f) == s.session # None /\ s.session # f.page
Accepts(s, f) ==
  IF OtherSession(s, f) THEN ~(f.generation > 0 /\ f.generation <= s.generation)
                        ELSE ~(f.generation > 0 /\ f.generation < s.generation)
Accepted(s, f) ==
  [s EXCEPT !.session = f.page,
            !.generation = IF OtherSession(s, f) \/ f.generation > 0 THEN f.generation ELSE @]

\* handle_text: the serve loop takes the next frame.  A frame that is refused
\* changes counters only; an update that is taken becomes a task.
Receive(c) ==
  /\ link[c].state \in {"open", "closed"}
  /\ link[c].frames # <<>>
  /\ link' = [link EXCEPT ![c].frames = Tail(@)]
  /\ LET f == Head(link[c].frames)
     IN IF c = service.active /\ Accepts(service, f)
        THEN /\ service' = Accepted(service, f)
             /\ tasks' = IF f.kind = "status" THEN tasks ELSE tasks \union {f}
        ELSE UNCHANGED <<service, tasks>>
  /\ UNCHANGED <<pages, running, source, sequence, handling, sink_vars, heard>>

\* The loop ends: the page hung up, a read failed with frames still to come, or
\* a newer connection took the sender.  disconnect ignores an older connection.
EndLoop(c) ==
  /\ \/ link[c].state = "closed"
     \/ link[c].state = "open" /\ service.active # c
  /\ link' = [link EXCEPT ![c] = [state |-> "ended", frames |-> <<>>]]
  /\ pages' = [p \in Pages |-> IF pages[p].socket = c
                               THEN [pages[p] EXCEPT !.socket = None] ELSE pages[p]]
  /\ service' = IF service.active = c THEN [service EXCEPT !.outbound = FALSE] ELSE service
  /\ UNCHANGED <<tasks, running, source, sequence, handling, sink_vars, heard>>

-----------------------------------------------------------------------------
(* BrowserSpeechSource *)

SharedMutex == TRUE
MutexFree == handling = {}

OtherSpeaker(s, u) == s.session # None /\ s.session # u.page
GenerationOnce(s, u) == u.generation > 0 /\ u.generation <= s.generation
StaleGeneration(s, u) == u.generation > 0 /\ u.generation < s.generation
Key(u) == <<u.page, u.generation>>
NoWatermark(s, u) == FALSE
AlreadySeen(s, u) == u.n <= s.watermark[Key(u)]

\* ingest_external_asr_update up to the event builder; each filter that drops
\* the update leaves behind what the ones before it have noted.
Filtered(s, u) ==
  LET pinned == [s EXCEPT !.session = u.page]
      known  == [pinned EXCEPT !.generation = IF u.generation > 0 THEN u.generation ELSE @]
  IN IF OtherSpeaker(s, u) THEN [takes |-> FALSE, source |-> s]
     ELSE IF StaleGeneration(s, u) THEN [takes |-> FALSE, source |-> pinned]
     ELSE IF AlreadySeen(s, u) THEN [takes |-> FALSE, source |-> known]
     ELSE [takes |-> TRUE, source |-> [known EXCEPT !.watermark[Key(u)] = u.n]]

\* A task gets the mutex.  The builder numbers the event.
Ingest(u) ==
  /\ u \in tasks
  /\ MutexFree
  /\ tasks' = tasks \ {u}
  /\ LET result == Filtered(source, u)
     IN IF running
        THEN /\ source' = result.source
             /\ sequence' = IF result.takes THEN sequence + 1 ELSE sequence
             /\ handling' = IF result.takes
                            THEN handling \union
                                   {[update |-> u, sequence |-> sequence', step |-> "subtitle"]}
                            ELSE handling
             /\ heard' = IF result.takes
                         THEN heard \union {[update |-> u, sequence |-> sequence']} ELSE heard
        ELSE UNCHANGED <<source, sequence, handling, heard>>
  /\ UNCHANGED <<page_vars, service, running, sink_vars>>

Finals == {e \in handling : e.update.kind = "final"}

\* handle_event: subtitle.handle_transcript is acknowledged before the job of a
\* final is submitted.
ToSubtitle ==
  \E e \in handling :
    /\ e.step = "subtitle"
    /\ subtitle' = e.sequence
    /\ handling' = (handling \ {e}) \union
                     {[d EXCEPT !.step = "translation"] : d \in {e} \intersect Finals}
    /\ UNCHANGED <<page_vars, service, tasks, running, source, sequence, translation, heard>>

\* submit_final of the controller starts a dispatcher if there is none.
ToTranslation ==
  \E e \in handling :
    /\ e.step = "translation"
    /\ translation' = [dispatcher |-> TRUE, submitted |-> translation.submitted \union {e.sequence}]
    /\ handling' = handling \ {e}
    /\ UNCHANGED <<page_vars, service, tasks, running, source, sequence, subtitle, heard>>

-----------------------------------------------------------------------------
(* A session as a whole *)

\* The dashboard offers Start only while no session runs.
StartSession ==
  /\ MutexFree
  /\ ~running
  /\ running' = TRUE
  /\ source' = EmptySource
  /\ sequence' = 0
  /\ subtitle' = 0
  /\ translation' = [translation EXCEPT !.dispatcher = TRUE]
  /\ heard' = {}
  /\ UNCHANGED <<page_vars, service, tasks, handling>>

StopSession ==
  /\ MutexFree
  /\ running
  /\ running' = FALSE
  /\ source' = EmptySource
  /\ sequence' = 0
  /\ subtitle' = 0
  /\ translation' = NoDispatcher
  /\ heard' = {}
  /\ UNCHANGED <<page_vars, service, tasks, handling>>

\* What pages, serve loops and tasks do in any session.
IngestStep ==
  \/ \E p \in Pages :
       \/ ClosePage(p)
       \/ DropSocket(p)
       \/ \E kind \in Kinds : Send(p, kind)
       \/ StopRecognition(p)
       \/ Connect(p)
  \/ \E c \in Connections : Receive(c) \/ EndLoop(c)
  \/ \E u \in tasks : Ingest(u)
  \/ ToSubtitle
  \/ ToTranslation

IngestNext ==
  \/ IngestStep
  \/ \E p \in Pages : OpenPage(p)
  \/ StartSession
  \/ StopSession

IngestSpec == IngestInit /\ [][IngestNext]_ingest_vars

-----------------------------------------------------------------------------
(* Properties *)

Sequence == 0..(MaxPages * MaxMessages)
Event == [update : Frame, sequence : Sequence, step : {"subtitle", "translation"}]

\* Every variable keeps its type.
IngestTypeOK ==
  /\ pages \in [Pages -> [state : {"new", "open", "closed"}, socket : Connections \union {None},
                          generation : Generations, sent : 0..MaxMessages]]
  /\ \A c \in Connections : link[c].state \in {"unused", "open", "closed", "ended"}
  /\ \A c \in Connections : link[c].frames \in Seq(Frame)
  /\ service \in [next : Connections \union {None}, active : Connections \union {None},
                  outbound : BOOLEAN, session : Pages \union {None}, generation : Generations]
  /\ tasks \subseteq Frame
  /\ running \in BOOLEAN
  /\ source \in [session : Pages \union {None}, generation : Generations,
                 watermark : [Pages \X Generations -> 0..MaxMessages]]
  /\ sequence \in Sequence
  /\ handling \subseteq Event
  /\ subtitle \in Sequence
  /\ translation.dispatcher \in BOOLEAN /\ translation.submitted \subseteq Sequence

\* The service never refuses what comes over the newest connection: its filters
\* only ever hit what an older connection still had in flight.
ActiveNeverRefused ==
  \A c \in Connections : c = service.active /\ link[c].frames # <<>>
    => Accepts(service, Head(link[c].frames))

\* The transcripts of a session come from one page, whichever pages are open.
OneSpeaker ==
  \A a, b \in heard : a.update.page = b.update.page

\* In whatever order the tasks run, transcripts are numbered in the order in
\* which the page sent them.  The filters let one exception through: an update
\* of generation zero may follow those of a later generation.
SpokenOrder ==
  \A a, b \in heard :
    a.sequence < b.sequence /\ (a.update.generation = b.update.generation
                                \/ b.update.generation > 0)
      => a.update.n < b.update.n

\* A session hears one page at a time in the order it spoke, and nothing of the newest connection is
\* refused.
HeardAsSpoken == ActiveNeverRefused /\ OneSpeaker /\ SpokenOrder

\* The subtitles and the dispatcher get transcripts in the order of their
\* numbers: both rely on a newer final having the larger one.
DeliverInOrder ==
  /\ subtitle' \in {subtitle, 0} \/ subtitle' > subtitle
  /\ \A s \in translation'.submitted \ translation.submitted :
       \A t \in translation.submitted : t < s
DeliversInOrder == [][DeliverInOrder]_ingest_vars

\* While a session runs, an update that was received and is not waiting any more
\* was heard, or one sent after it was: only being overtaken loses an update.
Drops(u) == u \in tasks /\ u \notin tasks' /\ running /\ \A e \in heard' : e.update # u
LoseOnlyWhenOvertaken ==
  \A u \in tasks : Drops(u) /\ u.page = source.session => \E e \in heard : e.update.n > u.n
LostOnlyWhenOvertaken == [][LoseOnlyWhenOvertaken]_ingest_vars

=============================================================================
