----------------------------- MODULE SessionProofs -----------------------------
(***************************************************************************)
(* Proofs about the ingest path (SpeechIngest) and the requests that begin *)
(* and end a session (RuntimeSession).                                     *)
(*                                                                         *)
(* The invariant of the ingest path has four parts.  Spoken relates every  *)
(* update that still exists anywhere to the page that sent it; LinkInv     *)
(* says whose frames a connection carries; HeardInv says what the speech   *)
(* source remembers of what was heard; DeliverInv follows the one event    *)
(* that is handled.                                                        *)
(***************************************************************************)
EXTENDS RuntimeSession, TLAPS

Page == [state : {"new", "open", "closed"}, socket : Connections \union {None},
         generation : Generations, sent : Nat]
Link == [state : {"unused", "open", "closed", "ended"}, frames : Seq(Frame)]
Service == [next : Connections \union {None}, active : Connections \union {None},
            outbound : BOOLEAN, session : Pages \union {None}, generation : Generations]
Source == [session : Pages \union {None}, generation : Generations,
           watermark : [Pages \X Generations -> 0..MaxMessages]]
Handled == [update : Frame, sequence : Nat, step : {"subtitle", "translation"}]
Heard == [update : Frame, sequence : Nat]
Translation == [dispatcher : BOOLEAN, submitted : SUBSET Nat]

IngestTypes ==
  /\ pages \in [Pages -> Page]
  /\ link \in [Connections -> Link]
  /\ service \in Service
  /\ tasks \subseteq Frame
  /\ running \in BOOLEAN
  /\ source \in Source
  /\ sequence \in Nat
  /\ handling \subseteq Handled
  /\ subtitle \in Nat
  /\ translation \in Translation
  /\ heard \subseteq Heard

-----------------------------------------------------------------------------
(* Types *)

\* The bounds are numbers, and nobody is page or connection None.
LEMMA Bounds ==
  /\ MaxPages \in Nat /\ MaxConnections \in Nat /\ MaxMessages \in Nat /\ MaxGeneration \in Nat
  /\ Pages \subseteq Nat \ {0} /\ Connections \subseteq Nat \ {0} /\ Generations \subseteq Nat
  /\ None = 0 /\ 0 \in Generations /\ None \notin Pages /\ None \notin Connections
  BY IngestAssumption DEF Pages, Connections, Generations, None

\* The parts of a frame.
LEMMA FrameFields ==
  ASSUME NEW f \in Frame
  PROVE  /\ f.page \in Pages /\ f.generation \in Generations /\ f.generation \in Nat
         /\ f.n \in 0..MaxMessages /\ f.n \in Nat /\ f.kind \in Kinds
         /\ Key(f) \in Pages \X Generations
<1>1. /\ f.page \in Pages /\ f.generation \in Generations /\ f.n \in 0..MaxMessages
      /\ f.kind \in Kinds
  BY DEF Frame
<1>2. f.generation \in Nat /\ f.n \in Nat
  <2>1. f.generation \in Nat
    BY <1>1, Bounds
  <2>2. f.n \in Nat
    BY <1>1
  <2> QED
    BY <2>1, <2>2
<1>3. Key(f) \in Pages \X Generations
  BY <1>1 DEF Key
<1> QED
  BY <1>1, <1>2, <1>3

\* An empty source is one.
LEMMA EmptySourceType == EmptySource \in Source
  BY Bounds DEF EmptySource, Source

\* The filters keep the type of the source.
LEMMA FilteredType ==
  ASSUME NEW s \in Source, NEW u \in Frame
  PROVE  Filtered(s, u).source \in Source /\ Filtered(s, u).takes \in BOOLEAN
<1> DEFINE pinned == [s EXCEPT !.session = u.page]
           known == [pinned EXCEPT !.generation = IF u.generation > 0 THEN u.generation ELSE @]
           noted == [known EXCEPT !.watermark[Key(u)] = u.n]
<1>1. u.page \in Pages /\ u.generation \in Generations /\ u.n \in 0..MaxMessages
      /\ Key(u) \in Pages \X Generations
  BY FrameFields
<1>2. pinned \in Source
  BY <1>1 DEF Source
<1>3. known \in Source
  BY <1>1, <1>2 DEF Source
<1>4. noted \in Source
  <2> HIDE DEF known
  <2>1. [known.watermark EXCEPT ![Key(u)] = u.n] \in [Pages \X Generations -> 0..MaxMessages]
    BY <1>1, <1>3 DEF Source
  <2> QED
    BY <1>3, <2>1 DEF Source
<1> HIDE DEF pinned, known, noted
<1>5. Filtered(s, u).source \in {s, pinned, known, noted} /\ Filtered(s, u).takes \in BOOLEAN
  BY DEF Filtered, pinned, known, noted
<1> QED
  BY <1>2, <1>3, <1>4, <1>5

\* The types hold at the start.
LEMMA IngestTypesInit == IngestInit => IngestTypes
<1> SUFFICES ASSUME IngestInit PROVE IngestTypes
  OBVIOUS
<1>1. pages \in [Pages -> Page]
  BY Bounds DEF IngestInit, Page
<1>2. <<>> \in Seq(Frame)
  OBVIOUS
<1>3. link \in [Connections -> Link]
  BY <1>2 DEF IngestInit, Link
<1>4. service \in Service
  BY Bounds DEF IngestInit, Service
<1>5. translation \in Translation
  BY DEF IngestInit, Translation, NoDispatcher
<1> QED
  BY <1>1, <1>3, <1>4, <1>5, EmptySourceType DEF IngestInit, IngestTypes

\* Hanging up keeps the types.
LEMMA HangupType ==
  ASSUME IngestTypes, NEW ps
  PROVE  /\ Hangup(ps) \in [Connections -> Link]
         /\ \A c \in Connections : Hangup(ps)[c].frames = link[c].frames
  BY DEF IngestTypes, Hangup, Link

\* Every step of the ingest path keeps the types.
LEMMA IngestTypesStep == IngestTypes /\ [IngestNext]_ingest_vars => IngestTypes'
<1> SUFFICES ASSUME IngestTypes, [IngestNext]_ingest_vars PROVE IngestTypes'
  OBVIOUS
<1> USE Bounds DEF IngestTypes
<1>1. ASSUME NEW p \in Pages, ClosePage(p) PROVE IngestTypes'
  <2>1. ClosedPage(pages[p]) \in Page
    BY DEF ClosedPage, Page
  <2> QED
    BY <1>1, <2>1, HangupType DEF ClosePage, sink_vars
<1>2. ASSUME NEW p \in Pages, DropSocket(p) PROVE IngestTypes'
  <2>1. [pages[p] EXCEPT !.socket = None] \in Page
    BY DEF Page
  <2> QED
    BY <1>2, <2>1, HangupType DEF DropSocket, sink_vars
<1>3. ASSUME NEW p \in Pages, NEW kind \in Kinds, Send(p, kind) PROVE IngestTypes'
  <2> PICK n : n = IF kind = "status" THEN 0 ELSE pages[p].sent + 1
    OBVIOUS
  <2> DEFINE f == [page |-> p, generation |-> pages[p].generation, n |-> n, kind |-> kind]
             conn == pages[p].socket
  <2>1. n \in Nat /\ n <= MaxMessages /\ conn \in Connections /\ pages[p].generation \in Generations
    BY <1>3 DEF Send, Page
  <2>2. f \in Frame
    BY <2>1 DEF Frame
  <2>3. /\ link' = [link EXCEPT ![conn].frames = Append(@, f)]
        /\ pages' = [pages EXCEPT ![p].sent = IF kind = "status" THEN @ ELSE n]
        /\ UNCHANGED <<service, tasks, running, source, sequence, handling, sink_vars, heard>>
    BY <1>3 DEF Send
  <2> HIDE DEF f
  <2>4. [link[conn] EXCEPT !.frames = Append(@, f)] \in Link
    <3>1. link[conn] \in Link
      BY <2>1
    <3>2. Append(link[conn].frames, f) \in Seq(Frame)
      BY <2>2, <3>1 DEF Link
    <3> QED
      BY <3>1, <3>2 DEF Link
  <2>5. [pages[p] EXCEPT !.sent = IF kind = "status" THEN @ ELSE n] \in Page
    BY <2>1 DEF Page
  <2> QED
    BY <2>1, <2>3, <2>4, <2>5 DEF sink_vars
<1>4. ASSUME NEW p \in Pages, StopRecognition(p) PROVE IngestTypes'
  <2>1. pages[p].generation + 1 \in Generations
    BY <1>4 DEF StopRecognition, Page, Generations
  <2>2. [pages[p] EXCEPT !.generation = @ + 1] \in Page
    BY <2>1 DEF Page
  <2> QED
    BY <1>4, <2>2 DEF StopRecognition, sink_vars
<1>5. ASSUME NEW p \in Pages, Connect(p) PROVE IngestTypes'
  <2> DEFINE conn == service.next + 1
  <2>1. conn \in Connections
    BY <1>5 DEF Connect, Service, Connections
  <2>2. /\ service' = [next |-> conn, active |-> conn, outbound |-> TRUE,
                       session |-> None, generation |-> 0]
        /\ pages' = [pages EXCEPT ![p].socket = conn]
        /\ link' = [link EXCEPT ![conn].state = "open"]
        /\ UNCHANGED <<tasks, running, source, sequence, handling, sink_vars, heard>>
    BY <1>5 DEF Connect
  <2> HIDE DEF conn
  <2>3. [pages[p] EXCEPT !.socket = conn] \in Page /\ [link[conn] EXCEPT !.state = "open"] \in Link
    BY <2>1 DEF Page, Link
  <2>4. service' \in Service
    BY <2>1, <2>2 DEF Service
  <2> QED
    BY <2>1, <2>2, <2>3, <2>4 DEF sink_vars
<1>6. ASSUME NEW c \in Connections, Receive(c) PROVE IngestTypes'
  <2> DEFINE f == Head(link[c].frames)
  <2>1. f \in Frame /\ Tail(link[c].frames) \in Seq(Frame)
    BY <1>6 DEF Receive, Link
  <2>2. [link[c] EXCEPT !.frames = Tail(@)] \in Link
    BY <2>1 DEF Link
  <2>3. link' \in [Connections -> Link]
    BY <1>6, <2>2 DEF Receive
  <2>4. f.page \in Pages /\ f.generation \in Generations
    BY <2>1, FrameFields
  <2>5. Accepted(service, f) \in Service
    BY <2>4 DEF Accepted, Service
  <2>6. service' \in {service, Accepted(service, f)} /\ tasks' \subseteq tasks \union {f}
    BY <1>6 DEF Receive
  <2> QED
    BY <1>6, <2>1, <2>3, <2>5, <2>6 DEF Receive, sink_vars
<1>7. ASSUME NEW c \in Connections, EndLoop(c) PROVE IngestTypes'
  <2>1. [state |-> "ended", frames |-> <<>>] \in Link
    BY DEF Link
  <2>2. \A p \in Pages : [pages[p] EXCEPT !.socket = None] \in Page
    BY DEF Page
  <2>3. [service EXCEPT !.outbound = FALSE] \in Service
    BY DEF Service
  <2> QED
    BY <1>7, <2>1, <2>2, <2>3 DEF EndLoop, sink_vars
<1>8. ASSUME NEW u \in tasks, Ingest(u) PROVE IngestTypes'
  <2>1. u \in Frame
    OBVIOUS
  <2>2. Filtered(source, u).source \in Source
    BY <2>1, FilteredType
  <2>3. source' \in {source, Filtered(source, u).source} /\ sequence' \in {sequence, sequence + 1}
    BY <1>8 DEF Ingest
  <2>4. sequence' \in Nat
    BY <2>3
  <2>5. [update |-> u, sequence |-> sequence', step |-> "subtitle"] \in Handled
        /\ [update |-> u, sequence |-> sequence'] \in Heard
    BY <2>1, <2>4 DEF Handled, Heard
  <2>6. handling' \subseteq Handled /\ heard' \subseteq Heard
    BY <1>8, <2>5 DEF Ingest
  <2> QED
    BY <1>8, <2>2, <2>3, <2>4, <2>6 DEF Ingest, sink_vars, page_vars
<1>9. CASE ToSubtitle
  <2> PICK e \in handling :
         /\ subtitle' = e.sequence
         /\ handling' = (handling \ {e}) \union
                          {[d EXCEPT !.step = "translation"] : d \in {e} \intersect Finals}
         /\ UNCHANGED <<page_vars, service, tasks, running, source, sequence, translation, heard>>
    BY <1>9 DEF ToSubtitle
  <2>1. e \in Handled
    OBVIOUS
  <2>2. e.sequence \in Nat /\ [e EXCEPT !.step = "translation"] \in Handled
    BY <2>1 DEF Handled
  <2>3. handling' \subseteq Handled
    BY <2>2
  <2> QED
    BY <2>2, <2>3 DEF page_vars
<1>10. CASE ToTranslation
  <2> PICK e \in handling :
         /\ translation' = [dispatcher |-> TRUE,
                            submitted |-> translation.submitted \union {e.sequence}]
         /\ handling' = handling \ {e}
         /\ UNCHANGED <<page_vars, service, tasks, running, source, sequence, subtitle, heard>>
    BY <1>10 DEF ToTranslation
  <2>1. e.sequence \in Nat
    BY DEF Handled
  <2> QED
    BY <2>1 DEF page_vars, Translation
<1>11. ASSUME NEW p \in Pages, OpenPage(p) PROVE IngestTypes'
  <2>1. [pages[p] EXCEPT !.state = "open"] \in Page
    BY DEF Page
  <2> QED
    BY <1>11, <2>1 DEF OpenPage, sink_vars
<1>12. CASE StartSession \/ StopSession
  <2>1. translation' \in Translation
    <3>1. NoDispatcher \in Translation
      BY DEF NoDispatcher, Translation
    <3>2. [translation EXCEPT !.dispatcher = TRUE] \in Translation
      BY DEF Translation
    <3> QED
      BY <1>12, <3>1, <3>2 DEF StartSession, StopSession
  <2> QED
    BY <1>12, <2>1, EmptySourceType DEF StartSession, StopSession, page_vars
<1>13. CASE UNCHANGED ingest_vars
  BY <1>13 DEF ingest_vars, page_vars, sink_vars
<1> QED
  BY <1>1, <1>2, <1>3, <1>4, <1>5, <1>6, <1>7, <1>8, <1>9, <1>10, <1>11, <1>12, <1>13
     DEF IngestNext, IngestStep

-----------------------------------------------------------------------------
(* The updates and the pages that sent them *)

InFlight(c) == {link[c].frames[i] : i \in DOMAIN link[c].frames}

\* Every update that is still somewhere: in a connection, waiting for the mutex, or heard.
Updates ==
  {f \in UNION {InFlight(c) : c \in Connections} : f.kind # "status"}
  \union tasks \union {e.update : e \in heard}

\* A page numbers its updates without gap or repeat, also from one generation to the next.
SentInv ==
  \A u \in Updates :
    u.n >= 1 /\ u.n <= pages[u.page].sent /\ u.generation <= pages[u.page].generation
NumberInv ==
  \A u, v \in Updates :
    u.page = v.page => /\ u.n = v.n => u = v
                       /\ u.generation < v.generation => u.n < v.n
Spoken == SentInv /\ NumberInv

\* Updates are frames.
LEMMA UpdatesType == IngestTypes => Updates \subseteq Frame
<1> SUFFICES ASSUME IngestTypes PROVE Updates \subseteq Frame
  OBVIOUS
<1>1. \A c \in Connections : InFlight(c) \subseteq Frame
  BY DEF IngestTypes, Link, InFlight
<1>2. \A e \in heard : e.update \in Frame
  BY DEF IngestTypes, Heard
<1> QED
  BY <1>1, <1>2 DEF IngestTypes, Updates

\* A queue without its head holds what it held before.
LEMMA TailFrames ==
  ASSUME NEW q \in Seq(Frame), q # <<>>
  PROVE  /\ 1 \in DOMAIN q /\ q[1] = Head(q)
         /\ \A i \in DOMAIN Tail(q) : i + 1 \in DOMAIN q /\ Tail(q)[i] = q[i + 1]
  OBVIOUS

\* Only a page that sends makes an update.
LEMMA NoNewUpdate ==
  ASSUME IngestTypes,
         \/ \E p \in Pages : ClosePage(p) \/ DropSocket(p) \/ StopRecognition(p) \/ Connect(p)
                               \/ OpenPage(p)
         \/ \E c \in Connections : Receive(c) \/ EndLoop(c)
         \/ \E u \in tasks : Ingest(u)
         \/ ToSubtitle \/ ToTranslation \/ StartSession \/ StopSession \/ UNCHANGED ingest_vars
  PROVE  /\ Updates' \subseteq Updates
         /\ \A p \in Pages : /\ pages'[p].sent = pages[p].sent
                             /\ pages'[p].generation >= pages[p].generation
<1> USE Bounds
<1> /\ \A p \in Pages : pages[p] \in Page
    /\ \A c \in Connections : link[c] \in Link
  BY DEF IngestTypes
<1>0. \A p \in Pages : pages[p].generation \in Nat
  BY DEF Page
<1>1. ASSUME NEW p \in Pages,
             ClosePage(p) \/ DropSocket(p) \/ StopRecognition(p) \/ Connect(p) \/ OpenPage(p)
      PROVE  /\ Updates' \subseteq Updates
             /\ \A q \in Pages : /\ pages'[q].sent = pages[q].sent
                                 /\ pages'[q].generation >= pages[q].generation
  <2>1. \A c \in Connections : link'[c].frames = link[c].frames
    <3>1. CASE ClosePage(p) \/ DropSocket(p)
      BY <3>1, HangupType DEF ClosePage, DropSocket
    <3>2. CASE StopRecognition(p) \/ OpenPage(p)
      BY <3>2 DEF StopRecognition, OpenPage
    <3>3. CASE Connect(p)
      BY <3>3 DEF Connect, IngestTypes, Link
    <3> QED
      BY <1>1, <3>1, <3>2, <3>3
  <2>2. tasks' = tasks /\ heard' = heard
    BY <1>1 DEF ClosePage, DropSocket, StopRecognition, Connect, OpenPage
  <2>3. \A c \in Connections : InFlight(c)' = InFlight(c)
    BY <2>1 DEF InFlight
  <2>4. \A q \in Pages : /\ pages'[q].sent = pages[q].sent
                         /\ pages'[q].generation >= pages[q].generation
    <3>1. CASE ClosePage(p)
      <4>1. pages[p] \in Page
        BY <1>0
      <4>2. ClosedPage(pages[p]).sent = pages[p].sent
            /\ ClosedPage(pages[p]).generation = pages[p].generation
        BY <4>1 DEF ClosedPage, Page
      <4> QED
        BY <1>0, <3>1, <4>2 DEF ClosePage, IngestTypes
    <3>2. CASE DropSocket(p) \/ OpenPage(p)
      BY <1>0, <3>2 DEF DropSocket, OpenPage, IngestTypes, Page
    <3>3. CASE StopRecognition(p)
      BY <1>0, <3>3 DEF StopRecognition, IngestTypes, Page
    <3>4. CASE Connect(p)
      BY <1>0, <3>4 DEF Connect, IngestTypes, Page
    <3> QED
      BY <1>1, <3>1, <3>2, <3>3, <3>4
  <2> QED
    BY <2>2, <2>3, <2>4 DEF Updates
<1>2. ASSUME NEW c \in Connections, Receive(c)
      PROVE  Updates' \subseteq Updates /\ pages' = pages
  <2> DEFINE f == Head(link[c].frames)
  <2>1. link[c].frames \in Seq(Frame) /\ link[c].frames # <<>>
    BY <1>2 DEF Receive, Link
  <2>2. link'[c].frames = Tail(link[c].frames)
        /\ \A d \in Connections : d # c => link'[d] = link[d]
    BY <1>2 DEF Receive, IngestTypes, Link
  <2>3. InFlight(c)' \subseteq InFlight(c) /\ f \in InFlight(c)
    BY <2>1, <2>2, TailFrames DEF InFlight
  <2>4. \A d \in Connections : InFlight(d)' \subseteq InFlight(d)
    BY <2>2, <2>3 DEF InFlight
  <2>5. /\ heard' = heard /\ pages' = pages /\ tasks' \subseteq tasks \union {f}
        /\ f \in tasks' => f \in tasks \/ f.kind # "status"
    BY <1>2 DEF Receive
  <2> QED
    <3>1. \A g \in tasks' : g \in tasks \/ (g = f /\ f.kind # "status")
      BY <2>5
    <3>2. \A g \in tasks' : g \in Updates
      BY <2>3, <3>1 DEF Updates
    <3>3. \A d \in Connections : \A g \in InFlight(d)' : g.kind # "status" => g \in Updates
      BY <2>4 DEF Updates
    <3> QED
      BY <2>5, <3>2, <3>3 DEF Updates
<1>3. ASSUME NEW c \in Connections, EndLoop(c)
      PROVE  /\ Updates' \subseteq Updates
             /\ \A q \in Pages : /\ pages'[q].sent = pages[q].sent
                                 /\ pages'[q].generation >= pages[q].generation
  <2>1. link'[c].frames = <<>> /\ \A d \in Connections : d # c => link'[d] = link[d]
    BY <1>3 DEF EndLoop, IngestTypes
  <2>2. \A d \in Connections : InFlight(d)' \subseteq InFlight(d)
    BY <2>1 DEF InFlight
  <2>3. \A q \in Pages : /\ pages'[q].sent = pages[q].sent
                         /\ pages'[q].generation >= pages[q].generation
    BY <1>0, <1>3 DEF EndLoop, Page
  <2> QED
    BY <1>3, <2>2, <2>3 DEF EndLoop, Updates
<1>4. ASSUME NEW u \in tasks, Ingest(u)
      PROVE  Updates' \subseteq Updates /\ pages' = pages
  <2>1. /\ pages' = pages /\ link' = link /\ tasks' \subseteq tasks
        /\ \A e \in heard' : e \in heard \/ e.update = u
    BY <1>4 DEF Ingest, page_vars
  <2> QED
    BY <2>1 DEF Updates, InFlight
<1>5. CASE ToSubtitle \/ ToTranslation \/ UNCHANGED ingest_vars
  <2>1. pages' = pages /\ link' = link /\ tasks' = tasks /\ heard' = heard
    BY <1>5 DEF ToSubtitle, ToTranslation, ingest_vars, page_vars
  <2> QED
    BY <1>0, <2>1 DEF Updates, InFlight
<1>6. CASE StartSession \/ StopSession
  <2>1. pages' = pages /\ link' = link /\ tasks' = tasks /\ heard' = {}
    BY <1>6 DEF StartSession, StopSession, page_vars
  <2> QED
    BY <1>0, <2>1 DEF Updates, InFlight
<1> QED
  BY <1>0, <1>1, <1>2, <1>3, <1>4, <1>5, <1>6

\* The new update of a page has the next number, and the generation the page is in.
LEMMA NewUpdate ==
  ASSUME IngestTypes, NEW p \in Pages, NEW kind \in Kinds, Send(p, kind)
  PROVE  /\ \A q \in Pages : q # p => pages'[q] = pages[q]
         /\ pages'[p].generation = pages[p].generation /\ pages'[p].socket = pages[p].socket
         /\ kind = "status" => pages'[p].sent = pages[p].sent
         /\ kind # "status" => pages'[p].sent = pages[p].sent + 1
         /\ \E f \in Frame :
              /\ f.page = p /\ f.generation = pages[p].generation /\ f.kind = kind
              /\ kind # "status" => f.n = pages[p].sent + 1
              /\ pages[p].socket \in Connections
              /\ link'[pages[p].socket].frames = Append(link[pages[p].socket].frames, f)
              /\ \A c \in Connections : c # pages[p].socket => link'[c] = link[c]
              /\ Updates' \subseteq Updates \union (IF kind = "status" THEN {} ELSE {f})
<1> USE Bounds
<1> PICK n : n = IF kind = "status" THEN 0 ELSE pages[p].sent + 1
  OBVIOUS
<1> PICK conn : conn = pages[p].socket
  OBVIOUS
<1> DEFINE f == [page |-> p, generation |-> pages[p].generation, n |-> n, kind |-> kind]
<1>0. pages[p] \in Page /\ \A c \in Connections : link[c] \in Link
  BY DEF IngestTypes
<1>1. n \in Nat /\ n <= MaxMessages /\ conn \in Connections /\ pages[p].generation \in Generations
  BY <1>0 DEF Send, Page
<1>2. f \in Frame
  BY <1>1 DEF Frame
<1>3. /\ link' = [link EXCEPT ![conn].frames = Append(@, f)]
      /\ pages' = [pages EXCEPT ![p].sent = IF kind = "status" THEN @ ELSE n]
      /\ UNCHANGED <<tasks, heard>>
  BY DEF Send
<1>4. f.page = p /\ f.generation = pages[p].generation /\ f.kind = kind /\ f.n = n
  OBVIOUS
<1> HIDE DEF f
<1>5. /\ link'[conn].frames = Append(link[conn].frames, f)
      /\ \A c \in Connections : c # conn => link'[c] = link[c]
  BY <1>0, <1>1, <1>3 DEF IngestTypes, Link
<1>6. InFlight(conn)' \subseteq InFlight(conn) \union {f}
  <2>1. link[conn].frames \in Seq(Frame)
    BY <1>0, <1>1 DEF Link
  <2>2. \A i \in DOMAIN Append(link[conn].frames, f) :
          \/ Append(link[conn].frames, f)[i] = f
          \/ i \in DOMAIN link[conn].frames /\ Append(link[conn].frames, f)[i] = link[conn].frames[i]
    BY <1>2, <2>1
  <2> QED
    <3>1. \A i \in DOMAIN link'[conn].frames : link'[conn].frames[i] \in InFlight(conn) \union {f}
      BY <1>5, <2>2 DEF InFlight
    <3> QED
      BY <3>1 DEF InFlight
<1>7. \A c \in Connections : c # conn => InFlight(c)' = InFlight(c)
  BY <1>5 DEF InFlight
<1>8. Updates' \subseteq Updates \union (IF kind = "status" THEN {} ELSE {f})
  BY <1>3, <1>4, <1>6, <1>7 DEF Updates
<1>9. /\ \A q \in Pages : q # p => pages'[q] = pages[q]
      /\ pages'[p].generation = pages[p].generation /\ pages'[p].socket = pages[p].socket
      /\ pages'[p].sent = IF kind = "status" THEN pages[p].sent ELSE n
  BY <1>0, <1>3 DEF IngestTypes, Page
<1> QED
  BY <1>1, <1>2, <1>4, <1>5, <1>8, <1>9

\* Every step keeps the numbers of the updates.
LEMMA SpokenStep == IngestTypes /\ Spoken /\ [IngestNext]_ingest_vars => Spoken'
<1> SUFFICES ASSUME IngestTypes, Spoken, [IngestNext]_ingest_vars PROVE Spoken'
  OBVIOUS
<1>0. \A u \in Updates : /\ u.page \in Pages /\ u.n \in Nat /\ u.generation \in Nat
                         /\ pages[u.page].sent \in Nat /\ pages[u.page].generation \in Nat
  BY UpdatesType, FrameFields, Bounds DEF IngestTypes, Page
<1>1. ASSUME NEW p \in Pages, NEW kind \in Kinds, Send(p, kind) PROVE Spoken'
  <2> PICK f \in Frame :
         /\ f.page = p /\ f.generation = pages[p].generation /\ f.kind = kind
         /\ kind # "status" => f.n = pages[p].sent + 1
         /\ Updates' \subseteq Updates \union (IF kind = "status" THEN {} ELSE {f})
    BY <1>1, NewUpdate
  <2>1. /\ \A q \in Pages : q # p => pages'[q] = pages[q]
        /\ pages'[p].generation = pages[p].generation
        /\ kind = "status" => pages'[p].sent = pages[p].sent
        /\ kind # "status" => pages'[p].sent = pages[p].sent + 1
    BY <1>1, NewUpdate
  <2>2. pages[p].sent \in Nat /\ pages[p].generation \in Nat
    BY Bounds DEF IngestTypes, Page
  <2>3. CASE kind = "status"
    BY <1>0, <2>1, <2>3 DEF Spoken, SentInv, NumberInv
  <2>4. CASE kind # "status"
    <3>1. Updates' \subseteq Updates \union {f} /\ f.n = pages[p].sent + 1
      BY <2>4
    <3>2. SentInv'
      BY <1>0, <2>1, <2>2, <2>4, <3>1 DEF Spoken, SentInv
    <3>3. \A u \in Updates : u.page = p => u.n < f.n /\ u.generation <= f.generation
      BY <1>0, <2>2, <3>1 DEF Spoken, SentInv
    <3>4. NumberInv'
      BY <1>0, <2>2, <3>1, <3>3 DEF Spoken, NumberInv
    <3> QED
      BY <3>2, <3>4 DEF Spoken
  <2> QED
    BY <2>3, <2>4
<1>2. CASE /\ Updates' \subseteq Updates
           /\ \A p \in Pages : /\ pages'[p].sent = pages[p].sent
                               /\ pages'[p].generation >= pages[p].generation
  <2>1. IngestTypes'
    BY IngestTypesStep
  <2>2. \A p \in Pages : pages[p].generation \in Nat /\ pages'[p].generation \in Nat
    BY <2>1, Bounds DEF IngestTypes, Page
  <2> QED
    BY <1>0, <1>2, <2>2 DEF Spoken, SentInv, NumberInv
<1> QED
  BY <1>1, <1>2, NoNewUpdate DEF IngestNext, IngestStep

-----------------------------------------------------------------------------
(* The connections and the service *)

\* Connections are numbered as they come, and begin empty.
Numbered ==
  /\ service.active = service.next
  /\ \A c \in Connections : c > service.next => link[c].frames = <<>>
  /\ \A p \in Pages : pages[p].socket # None => pages[p].socket <= service.next
  /\ \A p, q \in Pages : pages[p].socket # None /\ pages[p].socket = pages[q].socket => p = q

\* A connection carries the frames of one page, in the order of their generations.
OneSender ==
  /\ \A c \in Connections : \A f, g \in InFlight(c) : f.page = g.page
  /\ \A c \in Connections : \A i, j \in DOMAIN link[c].frames :
       i <= j => link[c].frames[i].generation <= link[c].frames[j].generation
  /\ \A p \in Pages : \A c \in Connections : pages[p].socket = c =>
       \A f \in InFlight(c) : f.page = p /\ f.generation <= pages[p].generation

\* What the service knows comes from the page of the newest connection.
Known ==
  /\ service.session = None => service.generation = 0
  /\ \A c \in Connections : c = service.active => \A f \in InFlight(c) :
       /\ service.session # None => f.page = service.session
       /\ service.generation <= f.generation
  /\ \A p \in Pages : pages[p].socket # None /\ pages[p].socket = service.active =>
       /\ service.session # None => p = service.session
       /\ service.generation <= pages[p].generation

LinkInv == Numbered /\ OneSender /\ Known

\* Fewer frames and fewer sockets do no harm.
LEMMA FewerFrames ==
  ASSUME IngestTypes, IngestTypes', LinkInv,
         service'.next = service.next, service'.active = service.active,
         service'.session = service.session, service'.generation = service.generation,
         \A c \in Connections : link'[c].frames \in {link[c].frames, <<>>},
         \A p \in Pages : /\ pages'[p].socket \in {pages[p].socket, None}
                          /\ pages'[p].generation >= pages[p].generation
  PROVE  LinkInv'
<1>0. /\ \A c \in Connections : InFlight(c) \subseteq Frame /\ InFlight(c)' \subseteq InFlight(c)
      /\ \A p \in Pages : pages[p].generation \in Nat /\ pages'[p].generation \in Nat
      /\ service.generation \in Nat
  <2>1. \A c \in Connections : InFlight(c) \subseteq Frame
    BY DEF IngestTypes, Link, InFlight
  <2>2. ASSUME NEW c \in Connections PROVE InFlight(c)' \subseteq InFlight(c)
    <3>1. CASE link'[c].frames = link[c].frames
      BY <3>1 DEF InFlight
    <3>2. CASE link'[c].frames = <<>>
      BY <3>2 DEF InFlight
    <3> QED
      BY <3>1, <3>2
  <2>3. \A p \in Pages : pages[p].generation \in Nat /\ pages'[p].generation \in Nat
    BY Bounds DEF IngestTypes, Page
  <2> QED
    BY <2>1, <2>2, <2>3, Bounds DEF IngestTypes, Service
<1>1. \A c \in Connections : \A f \in InFlight(c) : f.generation \in Nat
  BY <1>0, FrameFields
<1>2. Numbered'
  BY DEF LinkInv, Numbered
<1>3. OneSender'
  <2>1. \A c \in Connections : \A i, j \in DOMAIN link'[c].frames :
          i <= j => link'[c].frames[i].generation <= link'[c].frames[j].generation
    <3> SUFFICES ASSUME NEW c \in Connections, NEW i \in DOMAIN link'[c].frames,
                        NEW j \in DOMAIN link'[c].frames, i <= j
                 PROVE  link'[c].frames[i].generation <= link'[c].frames[j].generation
      OBVIOUS
    <3>1. link'[c].frames # <<>>
      OBVIOUS
    <3>2. link'[c].frames = link[c].frames
      BY <3>1
    <3> QED
      BY <3>2 DEF LinkInv, OneSender
  <2>2. ASSUME NEW p \in Pages, NEW c \in Connections, pages'[p].socket = c,
               NEW f \in InFlight(c)'
        PROVE  f.page = p /\ f.generation <= pages'[p].generation
    <3>0. c # None
      BY Bounds
    <3>1. pages[p].socket = c /\ f \in InFlight(c)
      BY <1>0, <2>2, <3>0
    <3>2. f.page = p /\ f.generation <= pages[p].generation /\ f.generation \in Nat
      BY <1>1, <3>1 DEF LinkInv, OneSender
    <3>3. /\ pages[p].generation \in Nat /\ pages'[p].generation \in Nat
          /\ pages'[p].generation >= pages[p].generation
      BY <1>0
    <3> QED
      BY <3>2, <3>3
  <2>3. \A c \in Connections : \A f, g \in InFlight(c)' : f.page = g.page
    BY <1>0 DEF LinkInv, OneSender
  <2> QED
    BY <2>1, <2>2, <2>3 DEF OneSender
<1>4. Known'
  <2>1. \A c \in Connections : c = service.active => \A f \in InFlight(c)' :
          /\ service.session # None => f.page = service.session
          /\ service.generation <= f.generation
    BY <1>0 DEF LinkInv, Known
  <2>2. ASSUME NEW p \in Pages, pages'[p].socket # None, pages'[p].socket = service.active
        PROVE  /\ service.session # None => p = service.session
               /\ service.generation <= pages'[p].generation
    <3>1. pages[p].socket = service.active /\ pages[p].socket # None
      BY <2>2
    <3>2. /\ service.session # None => p = service.session
          /\ service.generation <= pages[p].generation
      BY <3>1 DEF LinkInv, Known
    <3> QED
      BY <1>0, <3>2
  <2>3. service.session = None => service.generation = 0
    BY DEF LinkInv, Known
  <2> QED
    BY <2>1, <2>2, <2>3 DEF Known
<1> QED
  BY <1>2, <1>3, <1>4 DEF LinkInv

\* The connections are in order at the start.
LEMMA LinkInit == IngestInit => LinkInv
  BY Bounds DEF IngestInit, LinkInv, Numbered, OneSender, Known, InFlight

\* Every step keeps them in order.
LEMMA LinkStep == IngestTypes /\ LinkInv /\ [IngestNext]_ingest_vars => LinkInv'
<1> SUFFICES ASSUME IngestTypes, LinkInv, [IngestNext]_ingest_vars PROVE LinkInv'
  OBVIOUS
<1> IngestTypes'
  BY IngestTypesStep
<1>0. /\ \A p \in Pages : pages[p] \in Page
      /\ \A c \in Connections : link[c] \in Link
      /\ \A p \in Pages : pages[p].generation \in Nat
      /\ service.generation \in Nat /\ service.next \in Nat
  <2>1. /\ \A p \in Pages : pages[p] \in Page
        /\ \A c \in Connections : link[c] \in Link
    BY DEF IngestTypes
  <2>2. service.generation \in Nat /\ service.next \in Nat
    BY Bounds DEF IngestTypes, Service
  <2> QED
    BY <2>1, <2>2, Bounds DEF Page
<1>b. None \notin Connections /\ None \notin Pages /\ Connections \subseteq Nat
  BY Bounds
<1>1. ASSUME NEW p \in Pages, ClosePage(p) \/ DropSocket(p) \/ StopRecognition(p) \/ OpenPage(p)
      PROVE  LinkInv'
  <2>1. \A c \in Connections : link'[c].frames = link[c].frames
    <3>1. CASE ClosePage(p) \/ DropSocket(p)
      BY <3>1, HangupType DEF ClosePage, DropSocket
    <3>2. CASE StopRecognition(p) \/ OpenPage(p)
      BY <3>2 DEF StopRecognition, OpenPage
    <3> QED
      BY <1>1, <3>1, <3>2
  <2>2. service' = service
    BY <1>1 DEF ClosePage, DropSocket, StopRecognition, OpenPage
  <2>3. \A q \in Pages : /\ pages'[q].socket \in {pages[q].socket, None}
                         /\ pages'[q].generation >= pages[q].generation
    <3>1. CASE ClosePage(p)
      <4>1. pages[p] \in Page
        BY <1>0
      <4>2. ClosedPage(pages[p]).socket = None
            /\ ClosedPage(pages[p]).generation = pages[p].generation
        BY <4>1 DEF ClosedPage, Page
      <4> QED
        BY <1>0, <3>1, <4>2 DEF ClosePage, IngestTypes
    <3>2. CASE DropSocket(p) \/ OpenPage(p)
      BY <1>0, <3>2 DEF DropSocket, OpenPage, IngestTypes, Page
    <3>3. CASE StopRecognition(p)
      BY <1>0, <3>3 DEF StopRecognition, IngestTypes, Page
    <3> QED
      BY <1>1, <3>1, <3>2, <3>3
  <2> QED
    BY <2>1, <2>2, <2>3, FewerFrames
<1>2. ASSUME NEW p \in Pages, NEW kind \in Kinds, Send(p, kind) PROVE LinkInv'
  <2> PICK conn : conn = pages[p].socket
    OBVIOUS
  <2> PICK f \in Frame :
         /\ f.page = p /\ f.generation = pages[p].generation
         /\ conn \in Connections
         /\ link'[conn].frames = Append(link[conn].frames, f)
         /\ \A c \in Connections : c # conn => link'[c] = link[c]
    BY <1>2, NewUpdate
  <2>1. /\ service' = service
        /\ \A q \in Pages : /\ pages'[q].socket = pages[q].socket
                            /\ pages'[q].generation = pages[q].generation
    BY <1>2, NewUpdate DEF Send
  <2>2. link[conn].frames \in Seq(Frame) /\ conn # None
    BY <1>0, <1>b DEF Link
  <2>3. \A c \in Connections : \A g \in InFlight(c)' : g \in InFlight(c) \/ (c = conn /\ g = f)
    <3>1. \A i \in DOMAIN link'[conn].frames : link'[conn].frames[i] \in InFlight(conn) \union {f}
      BY <2>2 DEF InFlight
    <3>2. \A g \in InFlight(conn)' : g \in InFlight(conn) \/ g = f
      BY <3>1 DEF InFlight
    <3>3. \A c \in Connections : c # conn => InFlight(c)' = InFlight(c)
      BY DEF InFlight
    <3> QED
      BY <3>2, <3>3
  <2>4. \A g \in InFlight(conn) : g.page = p /\ g.generation <= f.generation
    BY DEF LinkInv, OneSender
  <2>5. conn <= service.next /\ ~(conn > service.next)
    BY <1>0, <1>b, <2>2 DEF LinkInv, Numbered
  <2>6. Numbered'
    <3>1. \A c \in Connections : c > service.next => link'[c].frames = <<>>
      BY <2>5 DEF LinkInv, Numbered
    <3> QED
      BY <2>1, <3>1 DEF LinkInv, Numbered
  <2>7. \A c \in Connections : \A g, h \in InFlight(c)' : g.page = h.page
    BY <2>3, <2>4 DEF LinkInv, OneSender
  <2>8. ASSUME NEW c \in Connections, NEW i \in DOMAIN link'[c].frames,
               NEW j \in DOMAIN link'[c].frames, i <= j
        PROVE  link'[c].frames[i].generation <= link'[c].frames[j].generation
    <3>1. CASE c # conn
      BY <2>8, <3>1 DEF LinkInv, OneSender
    <3>2. CASE c = conn
      <4> PICK q \in Seq(Frame) : q = link[conn].frames
        BY <2>2
      <4>1. link'[c].frames = Append(q, f)
        BY <3>2
      <4>2. \A k \in DOMAIN Append(q, f) :
              \/ k \in DOMAIN q /\ Append(q, f)[k] = q[k]
              \/ k = Len(q) + 1 /\ Append(q, f)[k] = f
        OBVIOUS
      <4>3. i \in Nat /\ j \in Nat /\ Len(q) \in Nat /\ \A k \in DOMAIN q : k <= Len(q)
        BY <2>8, <4>1
      <4>4. \A k \in DOMAIN q : q[k].generation <= f.generation
        BY <2>4 DEF InFlight
      <4>5. f.generation <= f.generation
        BY FrameFields
      <4>6. CASE j = Len(q) + 1 /\ Append(q, f)[j] = f
        BY <2>8, <4>1, <4>2, <4>4, <4>5, <4>6
      <4>7. CASE j \in DOMAIN q /\ Append(q, f)[j] = q[j]
        <5>1. i \in DOMAIN q /\ Append(q, f)[i] = q[i]
          BY <2>8, <4>1, <4>2, <4>3, <4>7
        <5> QED
          BY <2>8, <4>1, <4>7, <5>1 DEF LinkInv, OneSender
      <4> QED
        BY <2>8, <4>1, <4>2, <4>6, <4>7
    <3> QED
      BY <3>1, <3>2
  <2>9. \A q \in Pages : \A c \in Connections : pages[q].socket = c =>
          \A g \in InFlight(c)' : g.page = q /\ g.generation <= pages[q].generation
    <3> SUFFICES ASSUME NEW q \in Pages, NEW c \in Connections, pages[q].socket = c,
                        NEW g \in InFlight(c)'
                 PROVE  g.page = q /\ g.generation <= pages[q].generation
      OBVIOUS
    <3>1. CASE g \in InFlight(c)
      BY <3>1 DEF LinkInv, OneSender
    <3>2. CASE c = conn /\ g = f
      <4>1. q = p
        BY <2>2, <3>2 DEF LinkInv, Numbered
      <4>2. f.generation <= f.generation
        BY FrameFields
      <4> QED
        BY <3>2, <4>1, <4>2
    <3> QED
      BY <2>3, <3>1, <3>2
  <2>10. OneSender'
    BY <2>1, <2>7, <2>8, <2>9 DEF OneSender
  <2>11. \A c \in Connections : c = service.active => \A g \in InFlight(c)' :
           /\ service.session # None => g.page = service.session
           /\ service.generation <= g.generation
    <3> SUFFICES ASSUME NEW c \in Connections, c = service.active, NEW g \in InFlight(c)'
                 PROVE  /\ service.session # None => g.page = service.session
                        /\ service.generation <= g.generation
      OBVIOUS
    <3>1. CASE g \in InFlight(c)
      BY <3>1 DEF LinkInv, Known
    <3>2. CASE c = conn /\ g = f
      BY <2>2, <3>2 DEF LinkInv, Known
    <3> QED
      BY <2>3, <3>1, <3>2
  <2>12. Known'
    BY <2>1, <2>11 DEF LinkInv, Known
  <2> QED
    BY <2>6, <2>10, <2>12 DEF LinkInv
<1>3. ASSUME NEW p \in Pages, Connect(p) PROVE LinkInv'
  <2> PICK conn : conn = service.next + 1
    OBVIOUS
  <2>1. /\ service' = [next |-> conn, active |-> conn, outbound |-> TRUE,
                       session |-> None, generation |-> 0]
        /\ pages' = [pages EXCEPT ![p].socket = conn]
        /\ link' = [link EXCEPT ![conn].state = "open"]
        /\ service.next < MaxConnections /\ pages[p].socket = None
    BY <1>3 DEF Connect
  <2>2. conn \in Connections /\ conn > service.next
    BY <1>0, <2>1, Bounds DEF Connections
  <2>3. \A c \in Connections : link'[c].frames = link[c].frames
    BY <2>1 DEF IngestTypes, Link
  <2>4. \A c \in Connections : InFlight(c)' = InFlight(c)
    BY <2>3 DEF InFlight
  <2>5. /\ \A q \in Pages : q # p => pages'[q] = pages[q]
        /\ pages'[p].socket = conn /\ pages'[p].generation = pages[p].generation
    BY <1>0, <2>1 DEF IngestTypes, Page
  <2>6. InFlight(conn) = {}
    BY <2>2 DEF LinkInv, Numbered, InFlight
  <2>7. \A q \in Pages : pages[q].socket # conn
    <3>1. ~(conn <= service.next) /\ conn # None
      BY <1>0, <1>b, <2>2
    <3> QED
      BY <3>1 DEF LinkInv, Numbered
  <2>8. Numbered'
    <3>1. service'.active = conn /\ service'.next = conn
      BY <2>1
    <3>0. service.next \in Nat /\ conn = service.next + 1
      BY <1>0
    <3>2. \A c \in Connections : c > conn => c > service.next
      BY <1>b, <3>0
    <3>3. \A q \in Pages : pages[q].socket # None =>
             pages[q].socket \in Connections /\ pages[q].socket <= service.next
      BY <1>0 DEF LinkInv, Numbered, Page
    <3>4. \A q \in Pages : pages'[q].socket # None => pages'[q].socket <= conn
      <4>1. ASSUME NEW c \in Connections, c <= service.next PROVE c <= conn
        BY <1>b, <3>0, <4>1
      <4>2. conn <= conn
        BY <3>0
      <4> QED
        BY <2>5, <3>3, <4>1, <4>2
    <3>5. \A p1, q \in Pages :
            pages'[p1].socket # None /\ pages'[p1].socket = pages'[q].socket => p1 = q
      BY <2>5, <2>7 DEF LinkInv, Numbered
    <3> QED
      BY <2>3, <3>1, <3>2, <3>4, <3>5 DEF LinkInv, Numbered
  <2>9. OneSender'
    BY <2>3, <2>4, <2>5, <2>6 DEF LinkInv, OneSender
  <2>10. Known'
    BY <1>0, <2>1, <2>4, <2>5, <2>6, <2>7 DEF Known
  <2> QED
    BY <2>8, <2>9, <2>10 DEF LinkInv
<1>4. ASSUME NEW c \in Connections, Receive(c) PROVE LinkInv'
  <2> DEFINE q == link[c].frames
  <2> PICK f : f = Head(q)
    OBVIOUS
  <2>1. q \in Seq(Frame) /\ q # <<>> /\ f \in Frame
    BY <1>0, <1>4 DEF Receive, Link
  <2>2. /\ link'[c].frames = Tail(q)
        /\ \A d \in Connections : d # c => link'[d] = link[d]
    BY <1>4 DEF Receive, IngestTypes, Link
  <2>3. /\ pages' = pages
        /\ service' # service => c = service.active /\ service' = Accepted(service, f)
    BY <1>4 DEF Receive
  <2>4. \A d \in Connections : InFlight(d)' \subseteq InFlight(d)
    <3>1. InFlight(c)' \subseteq InFlight(c)
      BY <2>1, <2>2, TailFrames DEF InFlight
    <3> QED
      BY <2>2, <3>1 DEF InFlight
  <2>5. f \in InFlight(c) /\ \A g \in InFlight(c)' : f.generation <= g.generation
    <3>1. 1 \in DOMAIN q /\ q[1] = f
      BY <2>1, TailFrames
    <3>2. \A i \in DOMAIN Tail(q) : i + 1 \in DOMAIN q /\ Tail(q)[i] = q[i + 1] /\ 1 <= i + 1
      BY <2>1, TailFrames
    <3> QED
      BY <2>2, <3>1, <3>2 DEF InFlight, LinkInv, OneSender
  <2>6. /\ service'.next = service.next /\ service'.active = service.active
    BY <2>3 DEF Accepted, IngestTypes, Service
  <2>7. Numbered'
    <3>1. c > service.next => FALSE
      BY <2>1 DEF LinkInv, Numbered
    <3> QED
      BY <2>2, <2>3, <2>6, <3>1 DEF LinkInv, Numbered
  <2>8. \A d \in Connections : \A i, j \in DOMAIN link'[d].frames :
          i <= j => link'[d].frames[i].generation <= link'[d].frames[j].generation
    <3> SUFFICES ASSUME NEW i \in DOMAIN Tail(q), NEW j \in DOMAIN Tail(q), i <= j
                 PROVE  Tail(q)[i].generation <= Tail(q)[j].generation
      BY <2>2 DEF LinkInv, OneSender
    <3>1. /\ i + 1 \in DOMAIN q /\ Tail(q)[i] = q[i + 1]
          /\ j + 1 \in DOMAIN q /\ Tail(q)[j] = q[j + 1] /\ i + 1 <= j + 1
      BY <2>1, TailFrames
    <3> QED
      BY <3>1 DEF LinkInv, OneSender
  <2>9. OneSender'
    BY <2>3, <2>4, <2>8 DEF LinkInv, OneSender
  <2>10. CASE service' = service
    <3>1. \A d \in Connections : d = service.active => \A g \in InFlight(d)' :
            /\ service.session # None => g.page = service.session
            /\ service.generation <= g.generation
      BY <2>4 DEF LinkInv, Known
    <3>2. Known'
      BY <2>3, <2>10, <3>1 DEF LinkInv, Known
    <3> QED
      BY <2>7, <2>9, <3>2 DEF LinkInv
  <2>11. CASE c = service.active /\ service' = Accepted(service, f)
    <3>1. /\ service.session # None => f.page = service.session
          /\ service.generation <= f.generation
          /\ service.session = None => service.generation = 0
      BY <2>5, <2>11 DEF LinkInv, Known
    <3>2. f.generation \in Nat /\ f.page \in Pages
      BY <2>1, FrameFields
    <3>3. service'.session = f.page /\ service'.generation = f.generation
      <4>1. ~OtherSession(service, f)
        BY <3>1 DEF OtherSession
      <4>2. service.generation \in Nat
        BY <1>0
      <4> QED
        BY <2>11, <3>1, <3>2, <4>1, <4>2 DEF Accepted, IngestTypes, Service
    <3>4. \A g \in InFlight(c)' : g.page = f.page /\ f.generation <= g.generation
      BY <2>4, <2>5 DEF LinkInv, OneSender
    <3>5. \A p \in Pages : pages[p].socket = c => p = f.page /\ f.generation <= pages[p].generation
      BY <2>5 DEF LinkInv, OneSender
    <3> QED
      <4>1. service'.session # None
        BY <1>b, <3>2, <3>3
      <4>2. \A d \in Connections : d = service'.active => d = c
        BY <2>6, <2>11
      <4>3. \A p \in Pages : pages'[p].socket = service'.active => pages[p].socket = c
        BY <2>3, <2>6, <2>11
      <4>4. Known'
        BY <2>3, <3>3, <3>4, <3>5, <4>1, <4>2, <4>3 DEF Known
      <4> QED
        BY <2>7, <2>9, <4>4 DEF LinkInv
  <2> QED
    BY <2>3, <2>10, <2>11
<1>5. ASSUME NEW c \in Connections, EndLoop(c) PROVE LinkInv'
  <2>1. link'[c].frames = <<>> /\ \A d \in Connections : d # c => link'[d] = link[d]
    BY <1>5 DEF EndLoop, IngestTypes
  <2>2. \A q \in Pages : /\ pages'[q].socket \in {pages[q].socket, None}
                         /\ pages'[q].generation >= pages[q].generation
    BY <1>0, <1>5 DEF EndLoop, Page
  <2>3. /\ service'.next = service.next /\ service'.active = service.active
        /\ service'.session = service.session /\ service'.generation = service.generation
    BY <1>5 DEF EndLoop, IngestTypes, Service
  <2> QED
    BY <2>1, <2>2, <2>3, FewerFrames
<1>6. CASE \/ \E u \in tasks : Ingest(u)
           \/ ToSubtitle \/ ToTranslation \/ StartSession \/ StopSession \/ UNCHANGED ingest_vars
  <2>1. UNCHANGED <<pages, link, service>>
    BY <1>6 DEF Ingest, ToSubtitle, ToTranslation, StartSession, StopSession, ingest_vars, page_vars
  <2> QED
    BY <2>1 DEF LinkInv, Numbered, OneSender, Known, InFlight
<1> QED
  BY <1>1, <1>2, <1>3, <1>4, <1>5, <1>6 DEF IngestNext, IngestStep

-----------------------------------------------------------------------------
(* The speech source and what was heard *)

\* The source remembers the page, the latest generation and the newest number it has heard, and
\* nothing that it has not heard.
SourceInv ==
  /\ \A e \in heard :
       /\ e.update.page = source.session
       /\ e.sequence <= sequence
       /\ e.update.n <= source.watermark[Key(e.update)]
       /\ e.update.generation <= source.generation
  /\ source.generation > 0 => \E e \in heard : e.update.generation = source.generation
  /\ \A k \in Pages \X Generations : source.watermark[k] > 0 =>
       \E e \in heard : Key(e.update) = k /\ e.update.n = source.watermark[k]

HeardInv == SourceInv /\ SpokenOrder

\* The ways an update can go once its task has the mutex.
Refused(u) ==
  /\ ~running \/ OtherSpeaker(source, u)
  /\ UNCHANGED <<source, sequence, handling, heard>>
Filter(u, generation) ==
  /\ running /\ ~OtherSpeaker(source, u)
  /\ source'.session = u.page /\ source'.generation = generation
  /\ source'.watermark = source.watermark
  /\ UNCHANGED <<sequence, handling, heard>>
FilteredStale(u) == StaleGeneration(source, u) /\ Filter(u, source.generation)
NewGeneration(u) == IF u.generation > 0 THEN u.generation ELSE source.generation
FilteredSeen(u) ==
  ~StaleGeneration(source, u) /\ AlreadySeen(source, u) /\ Filter(u, NewGeneration(u))
Taken(u) ==
  /\ running /\ ~OtherSpeaker(source, u)
  /\ ~StaleGeneration(source, u) /\ ~AlreadySeen(source, u)
  /\ source'.session = u.page /\ source'.generation = NewGeneration(u)
  /\ source'.watermark = [source.watermark EXCEPT ![Key(u)] = u.n]
  /\ sequence' = sequence + 1
  /\ handling' = handling \union {[update |-> u, sequence |-> sequence', step |-> "subtitle"]}
  /\ heard' = heard \union {[update |-> u, sequence |-> sequence']}

\* There is no other way.
LEMMA IngestResult ==
  ASSUME IngestTypes, NEW u \in tasks, Ingest(u)
  PROVE  Refused(u) \/ FilteredStale(u) \/ FilteredSeen(u) \/ Taken(u)
<1> DEFINE pinned == [source EXCEPT !.session = u.page]
           known == [pinned EXCEPT !.generation = IF u.generation > 0 THEN u.generation ELSE @]
           noted == [known EXCEPT !.watermark[Key(u)] = u.n]
<1>1. source \in Source /\ u \in Frame /\ Key(u) \in Pages \X Generations
      /\ u.page \in Pages /\ u.generation \in Generations
  BY FrameFields DEF IngestTypes
<1>2. /\ pinned.session = u.page /\ pinned.generation = source.generation
      /\ pinned.watermark = source.watermark /\ pinned \in Source
  BY <1>1 DEF Source
<1>3. /\ known.session = u.page /\ known.generation = NewGeneration(u)
      /\ known.watermark = source.watermark /\ known \in Source
  BY <1>1, <1>2 DEF Source, NewGeneration
<1>4. /\ noted.session = u.page /\ noted.generation = NewGeneration(u)
      /\ noted.watermark = [source.watermark EXCEPT ![Key(u)] = u.n]
  <2> HIDE DEF known
  <2> QED
    BY <1>3 DEF Source
<1>5. CASE ~running \/ OtherSpeaker(source, u)
  BY <1>5 DEF Ingest, Filtered, Refused
<1>6. CASE running /\ ~OtherSpeaker(source, u) /\ StaleGeneration(source, u)
  <2>1. Filtered(source, u) = [takes |-> FALSE, source |-> pinned]
    BY <1>6 DEF Filtered
  <2> HIDE DEF pinned
  <2> QED
    BY <1>2, <1>6, <2>1 DEF Ingest, FilteredStale, Filter
<1>7. CASE /\ running /\ ~OtherSpeaker(source, u) /\ ~StaleGeneration(source, u)
           /\ AlreadySeen(source, u)
  <2>1. Filtered(source, u) = [takes |-> FALSE, source |-> known]
    BY <1>7 DEF Filtered
  <2> HIDE DEF known
  <2> QED
    BY <1>3, <1>7, <2>1 DEF Ingest, FilteredSeen, Filter
<1>8. CASE /\ running /\ ~OtherSpeaker(source, u) /\ ~StaleGeneration(source, u)
           /\ ~AlreadySeen(source, u)
  <2>1. Filtered(source, u) = [takes |-> TRUE, source |-> noted]
    BY <1>8 DEF Filtered
  <2> HIDE DEF noted
  <2> QED
    BY <1>4, <1>8, <2>1 DEF Ingest, Taken
<1> QED
  BY <1>5, <1>6, <1>7, <1>8

\* Nothing is heard at the start.
LEMMA HeardInit == IngestInit => HeardInv
  BY DEF IngestInit, HeardInv, SourceInv, SpokenOrder, EmptySource

\* Every step keeps the source and what was heard in step.
LEMMA HeardStep ==
  IngestTypes /\ Spoken /\ HeardInv /\ [IngestNext]_ingest_vars => HeardInv'
<1> SUFFICES ASSUME IngestTypes, Spoken, HeardInv, [IngestNext]_ingest_vars PROVE HeardInv'
  OBVIOUS
<1>1. CASE UNCHANGED <<source, sequence, heard>>
  BY <1>1 DEF HeardInv, SourceInv, SpokenOrder
<1>2. CASE StartSession \/ StopSession
  <2>1. source' = EmptySource /\ heard' = {}
    BY <1>2 DEF StartSession, StopSession
  <2> QED
    BY <2>1 DEF HeardInv, SourceInv, SpokenOrder, EmptySource
<1>3. ASSUME NEW u \in tasks, Ingest(u) PROVE HeardInv'
  <2>0. /\ u.page \in Pages /\ u.generation \in Generations /\ u.generation \in Nat /\ u.n \in Nat
        /\ Key(u) \in Pages \X Generations
        /\ source.generation \in Nat /\ sequence \in Nat
        /\ source.watermark \in [Pages \X Generations -> 0..MaxMessages]
        /\ u \in Updates
    BY FrameFields, Bounds DEF IngestTypes, Source, Updates
  <2>00. u.n >= 1
    BY <2>0 DEF Spoken, SentInv
  <2>1. \A e \in heard : /\ e.update \in Frame /\ e.update \in Updates /\ e.sequence \in Nat
                         /\ e.update.n \in Nat /\ e.update.generation \in Nat
                         /\ Key(e.update) \in Pages \X Generations
    BY FrameFields DEF IngestTypes, Heard, Updates
  <2>2. CASE Refused(u)
    BY <1>1, <2>2 DEF Refused
  <2>3. \A e \in heard : ~OtherSpeaker(source, u) => e.update.page = u.page
    <3>1. \A e \in heard : source.session = e.update.page /\ e.update.page \in Pages
      BY <2>1, FrameFields DEF HeardInv, SourceInv
    <3> QED
      BY <3>1, Bounds DEF OtherSpeaker
  <2>4. CASE FilteredStale(u)
    <3>1. /\ source'.session = u.page /\ source'.generation = source.generation
          /\ source'.watermark = source.watermark
          /\ heard' = heard /\ sequence' = sequence /\ ~OtherSpeaker(source, u)
      BY <2>4 DEF FilteredStale, Filter
    <3> QED
      BY <2>3, <3>1 DEF HeardInv, SourceInv, SpokenOrder
  <2>5. CASE FilteredSeen(u)
    <3>1. /\ source'.session = u.page /\ source'.generation = NewGeneration(u)
          /\ source'.watermark = source.watermark
          /\ heard' = heard /\ sequence' = sequence /\ ~OtherSpeaker(source, u)
          /\ ~StaleGeneration(source, u) /\ u.n <= source.watermark[Key(u)]
      BY <2>5 DEF FilteredSeen, Filter, AlreadySeen
    <3>2. NewGeneration(u) \in Nat /\ source.generation <= NewGeneration(u)
      BY <2>0, <3>1 DEF NewGeneration, StaleGeneration
    <3>3. \A e \in heard : e.update.generation <= NewGeneration(u)
      BY <2>0, <2>1, <3>2 DEF HeardInv, SourceInv
    <3>4. PICK e \in heard : Key(e.update) = Key(u)
      <4>1. source.watermark[Key(u)] > 0
        BY <2>0, <2>00, <3>1
      <4> QED
        BY <2>0, <4>1 DEF HeardInv, SourceInv
    <3>5. e.update.generation = u.generation
      BY <3>4 DEF Key
    <3>6. NewGeneration(u) > 0 => \E d \in heard : d.update.generation = NewGeneration(u)
      BY <3>5 DEF NewGeneration, HeardInv, SourceInv
    <3> QED
      BY <2>3, <3>1, <3>3, <3>6 DEF HeardInv, SourceInv, SpokenOrder
  <2>6. CASE Taken(u)
    <3> PICK x : x = [update |-> u, sequence |-> sequence + 1]
      OBVIOUS
    <3>1. /\ source'.session = u.page /\ source'.generation = NewGeneration(u)
          /\ source'.watermark = [source.watermark EXCEPT ![Key(u)] = u.n]
          /\ sequence' = sequence + 1 /\ heard' = heard \union {x}
          /\ ~OtherSpeaker(source, u) /\ ~StaleGeneration(source, u)
          /\ u.n > source.watermark[Key(u)]
          /\ x.update = u /\ x.sequence = sequence + 1
      BY <2>0, <2>6 DEF Taken, AlreadySeen
    <3>2. NewGeneration(u) \in Nat /\ source.generation <= NewGeneration(u)
          /\ u.generation <= NewGeneration(u)
      BY <2>0, <3>1 DEF NewGeneration, StaleGeneration
    <3>3. \A e \in heard : /\ e.update.generation <= source.generation
                           /\ e.update.generation <= NewGeneration(u)
      BY <2>0, <2>1, <3>2 DEF HeardInv, SourceInv
    <3>4. \A e \in heard : e.update.n <= source.watermark[Key(e.update)]
                           /\ e.sequence <= sequence
      BY DEF HeardInv, SourceInv
    <3>5. \A k \in Pages \X Generations :
            source'.watermark[k] = IF k = Key(u) THEN u.n ELSE source.watermark[k]
      BY <2>0, <3>1
    <3>6. ASSUME NEW e \in heard'
          PROVE  /\ e.update.page = source'.session
                 /\ e.sequence <= sequence'
                 /\ e.update.n <= source'.watermark[Key(e.update)]
                 /\ e.update.generation <= source'.generation
      <4>1. CASE e = x
        BY <2>0, <3>1, <3>2, <3>5, <4>1
      <4>2. CASE e \in heard
        <5>1. e.update.page = u.page /\ e.sequence <= sequence + 1
          BY <2>0, <2>1, <2>3, <3>1, <3>4, <4>2
        <5>2. e.update.n <= source'.watermark[Key(e.update)]
          <6>1. source.watermark[Key(u)] \in Nat /\ source.watermark[Key(u)] < u.n
            BY <2>0, <3>1
          <6> QED
            BY <2>0, <2>1, <3>4, <3>5, <4>2, <6>1
        <5> QED
          BY <3>1, <3>3, <4>2, <5>1, <5>2
      <4> QED
        BY <3>1, <4>1, <4>2
    <3>7. source'.generation > 0 => \E e \in heard' : e.update.generation = source'.generation
      <4>1. CASE u.generation > 0
        BY <3>1, <4>1 DEF NewGeneration
      <4>2. CASE ~(u.generation > 0)
        BY <3>1, <4>2 DEF NewGeneration, HeardInv, SourceInv
      <4> QED
        BY <4>1, <4>2
    <3>8. ASSUME NEW k \in Pages \X Generations, source'.watermark[k] > 0
          PROVE  \E e \in heard' : Key(e.update) = k /\ e.update.n = source'.watermark[k]
      <4>1. CASE k = Key(u)
        BY <3>1, <3>5, <4>1
      <4>2. CASE k # Key(u)
        BY <3>1, <3>5, <3>8, <4>2 DEF HeardInv, SourceInv
      <4> QED
        BY <4>1, <4>2
    <3>9. SourceInv'
      BY <3>6, <3>7, <3>8 DEF SourceInv
    <3>10. ASSUME NEW a \in heard, a.update.generation = u.generation \/ u.generation > 0
           PROVE  a.update.n < u.n
      <4>0. a.update.page = u.page /\ a.update \in Updates
        BY <2>1, <2>3, <3>1
      <4>1. CASE a.update.generation = u.generation
        <5>1. Key(a.update) = Key(u)
          BY <4>0, <4>1 DEF Key
        <5>2. source.watermark[Key(u)] \in Nat /\ a.update.n <= source.watermark[Key(u)]
          BY <2>0, <3>4, <5>1
        <5> QED
          BY <2>0, <2>1, <3>1, <5>2
      <4>2. CASE a.update.generation # u.generation /\ u.generation > 0
        <5>1. NewGeneration(u) = u.generation
          BY <4>2 DEF NewGeneration
        <5>2. a.update.generation < u.generation
          BY <2>0, <2>1, <3>3, <4>2, <5>1
        <5> QED
          BY <2>0, <4>0, <5>2 DEF Spoken, NumberInv
      <4> QED
        BY <3>10, <4>1, <4>2
    <3>11. \A a \in heard : ~(x.sequence < a.sequence)
      BY <2>0, <2>1, <3>1, <3>4
    <3>12. ~(x.sequence < x.sequence)
      BY <2>0, <3>1
    <3>13. SpokenOrder'
      BY <3>1, <3>10, <3>11, <3>12 DEF SpokenOrder, HeardInv
    <3> QED
      BY <3>9, <3>13 DEF HeardInv
  <2> QED
    BY <1>3, <2>2, <2>4, <2>5, <2>6, IngestResult
<1>4. CASE \/ \E p \in Pages : \/ ClosePage(p) \/ DropSocket(p) \/ StopRecognition(p)
                               \/ Connect(p) \/ OpenPage(p) \/ \E kind \in Kinds : Send(p, kind)
           \/ \E c \in Connections : Receive(c) \/ EndLoop(c)
           \/ ToSubtitle \/ ToTranslation \/ UNCHANGED ingest_vars
  BY <1>1, <1>4 DEF ClosePage, DropSocket, StopRecognition, Connect, OpenPage, Send, Receive,
                    EndLoop, ToSubtitle, ToTranslation, ingest_vars
<1> QED
  BY <1>2, <1>3, <1>4 DEF IngestNext, IngestStep

-----------------------------------------------------------------------------
(* The event that is handled *)

\* One event at a time is handled, the newest; the subtitles and the translation have seen older
\* ones only.
DeliverInv ==
  /\ \A d, e \in handling : d = e
  /\ \A e \in handling : /\ e.sequence = sequence
                         /\ e.step = "subtitle" => subtitle < sequence
                         /\ \A t \in translation.submitted : t < sequence
  /\ subtitle <= sequence
  /\ \A t \in translation.submitted : t <= sequence
  /\ ~running => handling = {} /\ translation.submitted = {}

\* Nothing is handled at the start.
LEMMA DeliverInit == IngestInit => DeliverInv
  BY DEF IngestInit, DeliverInv, NoDispatcher

\* What becomes of the event that is handled once the subtitles have it.
LEMMA SubtitleStep ==
  ASSUME IngestTypes, \A d, e \in handling : d = e, ToSubtitle
  PROVE  \E e \in handling :
           /\ e.step = "subtitle" /\ subtitle' = e.sequence
           /\ \A d \in handling' : d.sequence = e.sequence /\ d.step = "translation"
           /\ \A c, d \in handling' : c = d
           /\ UNCHANGED <<running, source, sequence, translation, heard, tasks>>
<1> PICK e \in handling :
       /\ e.step = "subtitle"
       /\ subtitle' = e.sequence
       /\ handling' = (handling \ {e}) \union
                        {[d EXCEPT !.step = "translation"] : d \in {e} \intersect Finals}
       /\ UNCHANGED <<page_vars, service, tasks, running, source, sequence, translation, heard>>
  BY DEF ToSubtitle
<1>1. e \in Handled
  BY DEF IngestTypes
<1> PICK moved : moved = [e EXCEPT !.step = "translation"]
  OBVIOUS
<1>2. moved.sequence = e.sequence /\ moved.step = "translation"
  BY <1>1 DEF Handled
<1>3. handling' \subseteq {moved}
  OBVIOUS
<1>4. /\ \A d \in handling' : d.sequence = e.sequence /\ d.step = "translation"
      /\ \A c, d \in handling' : c = d
  BY <1>2, <1>3
<1>5. UNCHANGED <<running, source, sequence, translation, heard, tasks>>
  OBVIOUS
<1> QED
  BY <1>4, <1>5

\* What becomes of it once the translation has it.
LEMMA TranslationStep ==
  ASSUME IngestTypes, \A d, e \in handling : d = e, ToTranslation
  PROVE  \E e \in handling :
           /\ handling' = {}
           /\ translation'.submitted = translation.submitted \union {e.sequence}
           /\ translation'.dispatcher
           /\ UNCHANGED <<running, source, sequence, subtitle, heard, tasks>>
  BY DEF ToTranslation

\* Every step keeps the order of deliveries.
LEMMA DeliverStep == IngestTypes /\ DeliverInv /\ [IngestNext]_ingest_vars => DeliverInv'
<1> SUFFICES ASSUME IngestTypes, DeliverInv, [IngestNext]_ingest_vars PROVE DeliverInv'
  OBVIOUS
<1>0. /\ sequence \in Nat /\ subtitle \in Nat
      /\ \A t \in translation.submitted : t \in Nat
      /\ \A d, e \in handling : d = e
  BY DEF IngestTypes, Translation, DeliverInv
<1>1. CASE UNCHANGED <<running, sequence, handling, sink_vars>>
  BY <1>1 DEF DeliverInv, sink_vars
<1>2. CASE StartSession \/ StopSession
  <2>1. /\ handling = {} /\ handling' = {} /\ sequence' = 0 /\ subtitle' = 0
    BY <1>2 DEF StartSession, StopSession, MutexFree
  <2>2. translation'.submitted = {}
    BY <1>2 DEF StartSession, StopSession, NoDispatcher, DeliverInv, IngestTypes, Translation
  <2> QED
    BY <2>1, <2>2 DEF DeliverInv
<1>3. ASSUME NEW u \in tasks, Ingest(u) PROVE DeliverInv'
  <2>1. handling = {} /\ UNCHANGED <<running, sink_vars>>
    BY <1>3 DEF Ingest, MutexFree
  <2>2. CASE UNCHANGED <<sequence, handling>>
    BY <1>1, <2>1, <2>2
  <2>3. CASE Taken(u)
    <3> PICK x : x = [update |-> u, sequence |-> sequence + 1, step |-> "subtitle"]
      OBVIOUS
    <3>1. handling' = {x} /\ sequence' = sequence + 1 /\ x.sequence = sequence + 1 /\ running
      BY <2>1, <2>3 DEF Taken
    <3>2. subtitle < sequence + 1 /\ \A t \in translation.submitted : t < sequence + 1
      BY <1>0 DEF DeliverInv
    <3> QED
      BY <1>0, <2>1, <3>1, <3>2 DEF DeliverInv, sink_vars
  <2> QED
    BY <1>3, <2>2, <2>3, IngestResult DEF Refused, FilteredStale, FilteredSeen, Filter
<1>4. CASE ToSubtitle
  BY <1>0, <1>4, SubtitleStep DEF DeliverInv
<1>5. CASE ToTranslation
  <2> PICK e \in handling :
           /\ handling' = {}
           /\ translation'.submitted = translation.submitted \union {e.sequence}
           /\ UNCHANGED <<running, source, sequence, subtitle, heard, tasks>>
    BY <1>0, <1>5, TranslationStep
  <2>1. e.sequence = sequence /\ running
    BY DEF DeliverInv, IngestTypes
  <2> QED
    BY <1>0, <2>1 DEF DeliverInv
<1>6. CASE \/ \E p \in Pages : \/ ClosePage(p) \/ DropSocket(p) \/ StopRecognition(p)
                               \/ Connect(p) \/ OpenPage(p) \/ \E kind \in Kinds : Send(p, kind)
           \/ \E c \in Connections : Receive(c) \/ EndLoop(c)
           \/ UNCHANGED ingest_vars
  <2>1. UNCHANGED <<running, sequence, handling, subtitle, translation>>
    BY <1>6 DEF ClosePage, DropSocket, StopRecognition, Connect, OpenPage, Send, Receive,
                EndLoop, ingest_vars, sink_vars
  <2> QED
    BY <1>1, <2>1 DEF sink_vars
<1> QED
  BY <1>2, <1>3, <1>4, <1>5, <1>6 DEF IngestNext, IngestStep

-----------------------------------------------------------------------------
(* Theorems about the ingest path *)

IngestInv == IngestTypes /\ Spoken /\ LinkInv /\ HeardInv /\ DeliverInv

\* The invariant of the ingest path holds at the start.
LEMMA IngestInvInit == IngestInit => IngestInv
<1> SUFFICES ASSUME IngestInit PROVE IngestInv
  OBVIOUS
<1>1. Updates = {}
  BY DEF IngestInit, Updates, InFlight
<1>2. Spoken
  BY <1>1 DEF Spoken, SentInv, NumberInv
<1> QED
  BY <1>2, IngestTypesInit, LinkInit, HeardInit, DeliverInit DEF IngestInv

\* Every step keeps it.
LEMMA IngestInvStep == IngestInv /\ [IngestNext]_ingest_vars => IngestInv'
  BY IngestTypesStep, SpokenStep, LinkStep, HeardStep, DeliverStep DEF IngestInv

\* So it holds always.
LEMMA IngestInvariant == IngestSpec => []IngestInv
  BY IngestInvInit, IngestInvStep, PTL DEF IngestSpec

\* The invariant is all the first property asks for.
LEMMA InvHeardAsSpoken == IngestInv => HeardAsSpoken
<1> SUFFICES ASSUME IngestInv PROVE HeardAsSpoken
  OBVIOUS
<1>1. ActiveNeverRefused
  <2> SUFFICES ASSUME NEW c \in Connections, c = service.active, link[c].frames # <<>>
               PROVE  Accepts(service, Head(link[c].frames))
    BY DEF ActiveNeverRefused
  <2> PICK f : f = Head(link[c].frames)
    OBVIOUS
  <2>1. f \in Frame /\ f \in InFlight(c)
    <3>1. link[c].frames \in Seq(Frame)
      BY DEF IngestInv, IngestTypes, Link
    <3> QED
      BY <3>1, TailFrames DEF InFlight
  <2>2. /\ service.session # None => f.page = service.session
        /\ service.generation <= f.generation
    BY <2>1 DEF IngestInv, LinkInv, Known
  <2>3. f.generation \in Nat /\ service.generation \in Nat
    BY <2>1, FrameFields, Bounds DEF IngestInv, IngestTypes, Service
  <2> QED
    BY <2>2, <2>3 DEF Accepts, OtherSession
<1>2. OneSpeaker
  BY DEF IngestInv, HeardInv, SourceInv, OneSpeaker
<1> QED
  BY <1>1, <1>2 DEF HeardAsSpoken, IngestInv, HeardInv

\* The newest connection is never refused, a session hears one page, and what it hears is numbered
\* as it was spoken, for any number of pages, connections, messages and generations.
THEOREM AlwaysHeardAsSpoken == IngestSpec => []HeardAsSpoken
  BY IngestInvariant, InvHeardAsSpoken, PTL

\* The subtitles and the dispatcher get transcripts in the order of their numbers.
LEMMA StepDelivers == IngestInv /\ [IngestNext]_ingest_vars => [DeliverInOrder]_ingest_vars
<1> SUFFICES ASSUME IngestInv, IngestNext PROVE DeliverInOrder
  OBVIOUS
<1>0. /\ sequence \in Nat /\ subtitle \in Nat /\ DeliverInv /\ IngestTypes
      /\ \A t \in translation.submitted : t \in Nat
      /\ \A d, e \in handling : d = e
  BY DEF IngestInv, IngestTypes, Translation, DeliverInv
<1>1. CASE UNCHANGED sink_vars
  BY <1>1 DEF DeliverInOrder, sink_vars
<1>2. CASE StartSession \/ StopSession
  <2>1. subtitle' = 0
    BY <1>2 DEF StartSession, StopSession
  <2>2. translation'.submitted \subseteq translation.submitted
    BY <1>0, <1>2 DEF StartSession, StopSession, NoDispatcher, IngestTypes, Translation
  <2> QED
    BY <2>1, <2>2 DEF DeliverInOrder
<1>3. CASE ToSubtitle
  BY <1>0, <1>3, SubtitleStep DEF DeliverInv, DeliverInOrder
<1>4. CASE ToTranslation
  BY <1>0, <1>4, TranslationStep DEF DeliverInv, DeliverInOrder
<1>5. CASE \/ \E p \in Pages : \/ ClosePage(p) \/ DropSocket(p) \/ StopRecognition(p)
                               \/ Connect(p) \/ OpenPage(p) \/ \E kind \in Kinds : Send(p, kind)
           \/ \E c \in Connections : Receive(c) \/ EndLoop(c)
           \/ \E u \in tasks : Ingest(u)
  BY <1>1, <1>5 DEF ClosePage, DropSocket, StopRecognition, Connect, OpenPage, Send, Receive,
                    EndLoop, Ingest
<1> QED
  BY <1>2, <1>3, <1>4, <1>5 DEF IngestNext, IngestStep

\* A newer final has the larger number whenever the subtitles or the dispatcher compare two.
THEOREM AlwaysDeliversInOrder == IngestSpec => DeliversInOrder
  BY IngestInvariant, StepDelivers, PTL DEF DeliversInOrder, IngestSpec

\* An update that a filter drops was overtaken.
LEMMA StepLoses ==
  IngestInv /\ [IngestNext]_ingest_vars => [LoseOnlyWhenOvertaken]_ingest_vars
<1> SUFFICES ASSUME IngestInv, IngestNext, NEW u \in tasks, Drops(u), u.page = source.session
             PROVE  \E e \in heard : e.update.n > u.n
  BY DEF LoseOnlyWhenOvertaken
<1> IngestTypes /\ Spoken /\ HeardInv
  BY DEF IngestInv
<1>1. Ingest(u)
  <2>1. u \notin tasks' /\ \A v \in tasks : Ingest(v) => tasks' = tasks \ {v}
    BY DEF Drops, Ingest
  <2>2. tasks \subseteq tasks' \/ \E v \in tasks : Ingest(v)
    BY DEF IngestNext, IngestStep, ClosePage, DropSocket, StopRecognition, Connect, OpenPage, Send,
           Receive, EndLoop, ToSubtitle, ToTranslation, StartSession, StopSession
  <2> QED
    BY <2>1, <2>2
<1>2. /\ u.generation \in Nat /\ u.n \in Nat /\ u.n >= 1 /\ source.generation \in Nat
      /\ Key(u) \in Pages \X Generations /\ u \in Updates
      /\ source.watermark \in [Pages \X Generations -> 0..MaxMessages]
  <2>1. u \in Frame /\ u \in Updates
    BY DEF IngestTypes, Updates
  <2>2. u.n >= 1
    BY <2>1 DEF Spoken, SentInv
  <2> QED
    BY <2>1, <2>2, FrameFields, Bounds DEF IngestTypes, Source
<1>3. \A e \in heard : /\ e.update.page = u.page /\ e.update \in Updates
                       /\ e.update.n \in Nat /\ e.update.generation \in Nat
  BY FrameFields DEF IngestTypes, Heard, Updates, HeardInv, SourceInv
<1>4. ~Refused(u)
  BY DEF Refused, Drops, OtherSpeaker
<1>5. ~Taken(u)
  <2> SUFFICES ASSUME Taken(u) PROVE FALSE
    OBVIOUS
  <2> PICK x : x = [update |-> u, sequence |-> sequence']
    OBVIOUS
  <2>1. x \in heard' /\ x.update = u
    BY DEF Taken
  <2> QED
    BY <2>1 DEF Drops
<1>6. CASE FilteredStale(u)
  <2>1. u.generation < source.generation
    BY <1>6 DEF FilteredStale, StaleGeneration
  <2>2. PICK e \in heard : e.update.generation = source.generation
    BY <1>2, <2>1 DEF HeardInv, SourceInv
  <2>3. u.n < e.update.n
    BY <1>2, <1>3, <2>1, <2>2 DEF Spoken, NumberInv
  <2> QED
    BY <1>2, <1>3, <2>3
<1>7. CASE FilteredSeen(u)
  <2>1. u.n <= source.watermark[Key(u)] /\ heard' = heard
    BY <1>7 DEF FilteredSeen, AlreadySeen, Filter
  <2>2. source.watermark[Key(u)] > 0
    BY <1>2, <2>1
  <2>3. PICK e \in heard : e.update.n = source.watermark[Key(u)]
    BY <1>2, <2>2 DEF HeardInv, SourceInv
  <2>4. e.update # u
    BY <2>1 DEF Drops
  <2>5. e.update.n # u.n
    BY <1>2, <1>3, <2>4 DEF Spoken, NumberInv
  <2> QED
    BY <1>2, <1>3, <2>1, <2>3, <2>5
<1> QED
  BY <1>1, <1>4, <1>5, <1>6, <1>7, IngestResult

\* Only an update that was overtaken by a later one of its page is lost to a running session.
THEOREM AlwaysLostOnlyWhenOvertaken == IngestSpec => LostOnlyWhenOvertaken
  BY IngestInvariant, StepLoses, PTL DEF LostOnlyWhenOvertaken, IngestSpec

-----------------------------------------------------------------------------
(* Types of a session *)

Opened == {"reset source", "start translation", "reset subtitles", "read previous",
           "kill previous", "launch"}
Starting == Opened \union {"save", "reset numbers"}
Stopping == {"kill", "empty subtitles", "stop translation", "close gate", "empty source",
             "empty numbers", "finish"}
Steps == Starting \union Stopping \union {"none", "undo translation", "exited"}

Orchestrator == [phase : {"idle", "starting", "listening", "error"}, running : BOOLEAN,
                 pid : Pages \union {None}]
Request == [pc : Steps, pid : Pages \union {None}]

SessionTypes ==
  /\ IngestTypes
  /\ orchestrator \in Orchestrator
  /\ requests \in [Clients -> Request]

\* The types hold at the start.
LEMMA SessionTypesInit == SessionInit => SessionTypes
<1> SUFFICES ASSUME SessionInit PROVE SessionTypes
  OBVIOUS
<1>1. IngestTypes
  BY IngestTypesInit DEF SessionInit
<1>2. orchestrator \in Orchestrator
  BY DEF SessionInit, Orchestrator
<1>3. requests \in [Clients -> Request]
  BY DEF SessionInit, NoRequest, Request, Steps
<1> QED
  BY <1>1, <1>2, <1>3 DEF SessionTypes

\* Going on keeps the types of the requests, and so does an answer.
LEMMA RequestTypes ==
  ASSUME SessionTypes
  PROVE  /\ \A r \in Clients, pc \in Steps : Goto(r, pc) => requests' \in [Clients -> Request]
         /\ \A r \in Clients : Answer(r) => requests' \in [Clients -> Request]
         /\ \A r \in Clients, pc \in Steps :
              ReadPid(r, pc) => requests' \in [Clients -> Request]
<1> USE DEF SessionTypes
<1>1. NoRequest \in Request
  BY DEF NoRequest, Request, Steps
<1>2. \A r \in Clients, pc \in Steps : [requests[r] EXCEPT !.pc = pc] \in Request
  BY DEF Request
<1>3. \A pc \in Steps : [pc |-> pc, pid |-> orchestrator.pid] \in Request
  BY DEF Request, Orchestrator
<1>4. \A r \in Clients, pc \in Steps : Goto(r, pc) => requests' \in [Clients -> Request]
  BY <1>2 DEF Goto
<1>5. \A r \in Clients : Answer(r) => requests' \in [Clients -> Request]
  BY <1>1 DEF Answer
<1>6. \A r \in Clients, pc \in Steps : ReadPid(r, pc) => requests' \in [Clients -> Request]
  BY <1>3 DEF ReadPid
<1> QED
  BY <1>4, <1>5, <1>6

\* Killing a worker keeps the types of the ingest path.
LEMMA TerminateTypes ==
  ASSUME IngestTypes, NEW r \in Clients, NEW pc, Terminate(r, pc)
  PROVE  IngestTypes'
<1> PICK killed : /\ pages' = [p \in Pages |-> IF p \in killed THEN ClosedPage(pages[p])
                                                              ELSE pages[p]]
                  /\ link' = Hangup(killed)
                  /\ UNCHANGED <<service, tasks, running, source, sequence, handling, sink_vars,
                                 heard>>
  BY DEF Terminate
<1>1. \A p \in Pages : ClosedPage(pages[p]) \in Page
  BY DEF ClosedPage, Page, IngestTypes
<1>2. pages' \in [Pages -> Page]
  BY <1>1 DEF IngestTypes
<1>3. link' \in [Connections -> Link]
  BY HangupType
<1> QED
  BY <1>2, <1>3 DEF IngestTypes, sink_vars

\* The steps of a start and of a stop keep the types.
LEMMA RequestStep ==
  ASSUME SessionTypes, NEW r \in Clients,
         \/ StartStep(r) \/ StopStep(r) \/ PressStart \/ PressStop \/ BeginStop(r)
         \/ FinishStop(r) /\ (Answer(r) \/ Goto(r, "exited"))
  PROVE  /\ IngestTypes'
         /\ orchestrator' \in Orchestrator
         /\ requests' \in [Clients -> Request]
<1> DEFINE Kept == IngestTypes' /\ orchestrator' \in Orchestrator
                   /\ requests' \in [Clients -> Request]
<1> USE DEF SessionTypes
<1>0. \A pc \in Steps : Goto(r, pc) => requests' \in [Clients -> Request]
  BY RequestTypes
<1> "dashboard" \in Clients
  BY DEF Clients
<1>1. CASE PressStart
  <2>1. orchestrator' \in Orchestrator
    BY <1>1 DEF PressStart, Orchestrator
  <2>2. requests' \in [Clients -> Request]
    BY <1>1, RequestTypes DEF PressStart, Steps, Starting
  <2>3. IngestTypes'
    BY <1>1 DEF PressStart, ingest_vars, IngestTypes
  <2> QED
    BY <2>1, <2>2, <2>3
<1>2. CASE PressStop \/ BeginStop(r)
  <2>1. requests' \in [Clients -> Request]
    BY <1>2, RequestTypes DEF PressStop, BeginStop, Steps, Stopping
  <2>2. IngestTypes' /\ UNCHANGED orchestrator
    BY <1>2 DEF PressStop, BeginStop, ReadPid, ingest_vars, IngestTypes
  <2> QED
    BY <2>1, <2>2
<1>3. CASE SaveConfig(r)
  <2>1. IngestTypes' /\ UNCHANGED orchestrator
    BY <1>3 DEF SaveConfig, ingest_vars, IngestTypes
  <2>2. requests' \in [Clients -> Request]
    BY <1>0, <1>3 DEF SaveConfig, Steps, Starting
  <2> QED
    BY <2>1, <2>2
<1>4. CASE SaveFails(r) \/ LaunchFails(r)
  <2>1. IngestTypes'
    BY <1>4 DEF SaveFails, LaunchFails, ingest_vars, IngestTypes
  <2>2. orchestrator' \in Orchestrator
    BY <1>4 DEF SaveFails, LaunchFails, Orchestrator
  <2>3. requests' \in [Clients -> Request]
    BY <1>0, <1>4, RequestTypes DEF SaveFails, LaunchFails, Steps
  <2> QED
    BY <2>1, <2>2, <2>3
<1>5. CASE OpenGate(r)
  <2>1. IngestTypes' /\ UNCHANGED orchestrator
    BY <1>5 DEF OpenGate, page_vars, sink_vars, IngestTypes
  <2>2. requests' \in [Clients -> Request]
    BY <1>0, <1>5 DEF OpenGate, Steps, Starting, Opened
  <2> QED
    BY <2>1, <2>2
<1>6. CASE ResetSource(r, "start translation") \/ ResetSource(r, "empty numbers")
  <2>1. IngestTypes' /\ UNCHANGED orchestrator
    BY <1>6, EmptySourceType DEF ResetSource, page_vars, sink_vars, IngestTypes
  <2>2. requests' \in [Clients -> Request]
    BY <1>0, <1>6 DEF ResetSource, Steps, Starting, Opened, Stopping
  <2> QED
    BY <2>1, <2>2
<1>7. CASE StartTranslation(r)
  <2>1. translation' \in Translation
    BY <1>7 DEF StartTranslation, Translation, IngestTypes
  <2>2. IngestTypes' /\ UNCHANGED orchestrator
    BY <1>7, <2>1 DEF StartTranslation, page_vars, IngestTypes
  <2>3. requests' \in [Clients -> Request]
    BY <1>0, <1>7 DEF StartTranslation, Steps, Starting, Opened
  <2> QED
    BY <2>2, <2>3
<1>8. CASE \/ ResetSubtitles(r, "read previous")
           \/ ResetSubtitles(r, "stop translation")
  <2>0. /\ subtitle' = 0
        /\ UNCHANGED <<orchestrator, pages, link, service, tasks, running, source, sequence,
                       handling, translation, heard>>
    BY <1>8 DEF ResetSubtitles, page_vars
  <2>1. IngestTypes' /\ UNCHANGED orchestrator
    BY <2>0 DEF IngestTypes
  <2>2. requests' \in [Clients -> Request]
    BY <1>0, <1>8 DEF ResetSubtitles, Steps, Starting, Opened, Stopping
  <2> QED
    BY <2>1, <2>2
<1>9. CASE ReadPid(r, "kill previous")
  <2>1. requests' \in [Clients -> Request]
    BY <1>9, RequestTypes DEF Steps, Starting, Opened
  <2>2. IngestTypes' /\ UNCHANGED orchestrator
    BY <1>9 DEF ReadPid, ingest_vars, IngestTypes
  <2> QED
    BY <2>1, <2>2
<1>10. CASE Terminate(r, "launch") \/ Terminate(r, "empty subtitles")
  <2>1. IngestTypes'
    BY <1>10, TerminateTypes
  <2>2. UNCHANGED orchestrator
    BY <1>10 DEF Terminate
  <2>3. requests' \in [Clients -> Request]
    BY <1>0, <1>10 DEF Terminate, Steps, Starting, Opened, Stopping
  <2> QED
    BY <2>1, <2>2, <2>3
<1>11. CASE Launch(r)
  <2> PICK p \in Pages : /\ OpenPage(p)
                         /\ orchestrator' = [phase |-> "listening", running |-> TRUE, pid |-> p]
    BY <1>11 DEF Launch
  <2>1. IngestTypes'
    BY IngestTypesStep DEF IngestNext
  <2>2. orchestrator' \in Orchestrator
    BY DEF Orchestrator
  <2>3. requests' \in [Clients -> Request]
    BY <1>11, RequestTypes DEF Launch
  <2> QED
    BY <2>1, <2>2, <2>3
<1>12. CASE StopTranslation(r) /\ (Answer(r) \/ Goto(r, "close gate"))
  <2>1. translation' \in Translation
    BY <1>12 DEF StopTranslation, Translation, NoDispatcher
  <2>2. IngestTypes' /\ UNCHANGED orchestrator
    BY <1>12, <2>1 DEF StopTranslation, page_vars, IngestTypes
  <2>3. requests' \in [Clients -> Request]
    BY <1>0, <1>12, RequestTypes DEF Steps, Stopping
  <2> QED
    BY <2>2, <2>3
<1>13. CASE CloseGate(r) \/ ResetNumbers(r)
  <2>1. IngestTypes' /\ UNCHANGED orchestrator
    <3>1. CASE CloseGate(r)
      BY <3>1 DEF CloseGate, page_vars, sink_vars, IngestTypes
    <3>2. CASE ResetNumbers(r)
      BY <3>2 DEF ResetNumbers, page_vars, sink_vars, IngestTypes
    <3> QED
      BY <1>13, <3>1, <3>2
  <2>2. requests' \in [Clients -> Request]
    BY <1>0, <1>13 DEF CloseGate, ResetNumbers, Steps, Stopping
  <2> QED
    BY <2>1, <2>2
<1>14. CASE FinishStop(r) /\ (Answer(r) \/ Goto(r, "exited"))
  <2>1. IngestTypes'
    BY <1>14 DEF FinishStop, ingest_vars, IngestTypes
  <2>2. orchestrator' \in Orchestrator
    BY <1>14 DEF FinishStop, Orchestrator
  <2>3. requests' \in [Clients -> Request]
    BY <1>0, <1>14, RequestTypes DEF Steps
  <2> QED
    BY <2>1, <2>2, <2>3
<1> QED
  BY <1>1, <1>2, <1>3, <1>4, <1>5, <1>6, <1>7, <1>8, <1>9, <1>10, <1>11, <1>12, <1>13, <1>14
     DEF StartStep, StopStep

\* Every step of a session keeps the types, the exit of the application included.
LEMMA SessionTypesStep == SessionTypes /\ [ExitNext]_session_vars => SessionTypes'
<1> SUFFICES ASSUME SessionTypes, [ExitNext]_session_vars PROVE SessionTypes'
  OBVIOUS
<1>1. ASSUME NEW r \in Clients,
             \/ StartStep(r) \/ StopStep(r) \/ PressStart \/ PressStop \/ BeginStop(r)
             \/ FinishStop(r) /\ (Answer(r) \/ Goto(r, "exited"))
      PROVE  SessionTypes'
  BY <1>1, RequestStep DEF SessionTypes
<1>2. CASE Ingesting
  <2>1. IngestTypes'
    BY <1>2, IngestTypesStep DEF SessionTypes, Ingesting, IngestNext
  <2> QED
    BY <1>2, <2>1 DEF SessionTypes, Ingesting, control_vars
<1>3. CASE UNCHANGED session_vars
  BY <1>3 DEF SessionTypes, IngestTypes, session_vars, ingest_vars, control_vars
<1>4. "dashboard" \in Clients /\ "exit" \in Clients
  BY DEF Clients
<1> QED
  BY <1>1, <1>2, <1>3, <1>4 DEF ExitNext, Working

-----------------------------------------------------------------------------
(* The worker and the pipeline of a session *)

Step == requests["dashboard"].pc

\* The pid a request has read stays the pid of the session, no worker but that one is alive, and the
\* pipeline opens before the session listens.
ControlInv ==
  /\ OpenPages \subseteq {orchestrator.pid}
  /\ Step \in {"kill", "kill previous"} => requests["dashboard"].pid = orchestrator.pid
  /\ Step \in (Stopping \ {"kill"}) \union {"launch", "undo translation"} => OpenPages = {}
  /\ Step \in Starting => orchestrator.phase = "starting"
  /\ Step = "undo translation" => orchestrator.phase = "error"
  /\ Step \in Opened => running
  /\ Step \in Opened \ {"reset source", "start translation"} => translation.dispatcher
  /\ Step = "none" /\ orchestrator.phase = "listening" => running /\ translation.dispatcher

-----------------------------------------------------------------------------
(* The events of a session *)

\* Nothing is handled and nothing will be.
Quiet == ~running /\ handling = {}

\* What is handled is the newest event, and the subtitles are behind it.
Newest == \A e \in handling : e.sequence = sequence
Behind == /\ subtitle <= sequence
          /\ \A e \in handling : e.step = "subtitle" => subtitle < sequence

\* One event at a time is handled, and after a stop none; the numbers that a start begins anew are
\* in order again before the request is answered.
EventInv ==
  /\ \A d, e \in handling : d = e
  /\ \A e \in handling : e.sequence > 0
  /\ Step \in {"none", "save", "reset numbers"} => Quiet \/ (Newest /\ Behind)
  /\ Step \in {"start translation", "reset subtitles"} => Newest
  /\ Step \in {"read previous", "kill previous", "launch", "undo translation"} => Newest /\ Behind
  /\ Step = "empty source" => ~running
  /\ Step \in {"empty numbers", "finish"} => Quiet
  /\ Step = "none" /\ orchestrator.phase = "idle" => Quiet

-----------------------------------------------------------------------------
(* What the steps of a session do *)

\* Where the dashboard's request goes, and what it has read.
LEMMA Moves ==
  ASSUME SessionTypes
  PROVE  /\ \A pc \in Steps : Goto("dashboard", pc) =>
              Step' = pc /\ requests'["dashboard"].pid = requests["dashboard"].pid
         /\ \A pc \in Steps : ReadPid("dashboard", pc) =>
              Step' = pc /\ requests'["dashboard"].pid = orchestrator.pid
         /\ Answer("dashboard") => Step' = "none"
<1>1. requests \in [Clients -> Request] /\ "dashboard" \in Clients
  BY DEF SessionTypes, Clients
<1>2. ASSUME NEW pc \in Steps, Goto("dashboard", pc)
      PROVE  Step' = pc /\ requests'["dashboard"].pid = requests["dashboard"].pid
  BY <1>1, <1>2 DEF Goto, Step, Request
<1>3. ASSUME NEW pc \in Steps, ReadPid("dashboard", pc)
      PROVE  Step' = pc /\ requests'["dashboard"].pid = orchestrator.pid
  BY <1>1, <1>3 DEF ReadPid, Step, Request
<1>4. ASSUME Answer("dashboard") PROVE Step' = "none"
  BY <1>1, <1>4 DEF Answer, Step, NoRequest
<1> QED
  BY <1>2, <1>3, <1>4

\* The ingest of a session opens no page.
LEMMA PagesStep ==
  ASSUME IngestTypes, IngestStep
  PROVE  OpenPages' \subseteq OpenPages
<1> SUFFICES ASSUME NEW q \in Pages, pages'[q].state = "open" PROVE pages[q].state = "open"
  BY DEF OpenPages
<1>0. \A p \in Pages : pages[p] \in Page
  BY DEF IngestTypes
<1>1. ASSUME NEW p \in Pages, ClosePage(p) PROVE pages[q].state = "open"
  BY <1>0, <1>1 DEF ClosePage, ClosedPage, Page, IngestTypes
<1>2. ASSUME NEW p \in Pages,
             \/ DropSocket(p) \/ StopRecognition(p) \/ Connect(p)
             \/ \E kind \in Kinds : Send(p, kind)
      PROVE  pages[q].state = "open"
  <2>1. CASE DropSocket(p)
    BY <1>0, <2>1 DEF DropSocket, Page, IngestTypes
  <2>2. CASE StopRecognition(p)
    BY <1>0, <2>2 DEF StopRecognition, Page, IngestTypes
  <2>3. CASE Connect(p)
    BY <1>0, <2>3 DEF Connect, Page, IngestTypes
  <2>4. ASSUME NEW kind \in Kinds, Send(p, kind) PROVE pages[q].state = "open"
    <3> PICK n : pages' = [pages EXCEPT ![p].sent = n]
      BY <2>4 DEF Send
    <3> QED
      BY <1>0 DEF Page, IngestTypes
  <2> QED
    BY <1>2, <2>1, <2>2, <2>3, <2>4
<1>3. ASSUME NEW c \in Connections, EndLoop(c) PROVE pages[q].state = "open"
  BY <1>0, <1>3 DEF EndLoop, Page
<1>4. CASE UNCHANGED pages
  BY <1>4
<1>5. CASE \/ \E c \in Connections : Receive(c)
           \/ \E u \in tasks : Ingest(u)
           \/ ToSubtitle \/ ToTranslation
  BY <1>4, <1>5 DEF Receive, Ingest, ToSubtitle, ToTranslation, page_vars
<1> QED
  BY <1>1, <1>2, <1>3, <1>5 DEF IngestStep

\* The worker that is killed was the only one.
LEMMA WorkerKilled ==
  ASSUME NEW next, Terminate("dashboard", next), IngestTypes,
         OpenPages \subseteq {requests["dashboard"].pid}
  PROVE  OpenPages' = {}
<1> SUFFICES ASSUME NEW q \in Pages, pages'[q].state = "open" PROVE FALSE
  BY DEF OpenPages
<1>1. pages' = [p \in Pages |-> IF p \in OpenPages THEN ClosedPage(pages[p]) ELSE pages[p]]
  BY DEF Terminate
<1>2. pages[q] \in Page
  BY DEF IngestTypes
<1> QED
  BY <1>1, <1>2 DEF ClosedPage, Page, OpenPages

\* What the ingest does to the event that is handled: nothing, it begins, the subtitles get it, or
\* the translation does.
LEMMA EventStep ==
  ASSUME IngestTypes, \A d, e \in handling : d = e, IngestStep
  PROVE  /\ UNCHANGED running
         /\ translation.dispatcher => translation'.dispatcher
         /\ \/ UNCHANGED <<sequence, handling, sink_vars>>
            \/ /\ running /\ UNCHANGED sink_vars /\ sequence' = sequence + 1
               /\ \A e \in handling' : e.sequence = sequence'
               /\ \A d, e \in handling' : d = e
            \/ /\ UNCHANGED <<sequence, translation>>
               /\ \E e \in handling :
                    /\ e.step = "subtitle" /\ subtitle' = e.sequence
                    /\ \A d \in handling' : d.sequence = e.sequence /\ d.step = "translation"
                    /\ \A c, d \in handling' : c = d
            \/ handling # {} /\ handling' = {} /\ UNCHANGED <<sequence, subtitle>>
<1> DEFINE Same == UNCHANGED <<running, translation, sequence, handling, subtitle>>
<1>1. CASE \/ \E p \in Pages : \/ ClosePage(p) \/ DropSocket(p) \/ StopRecognition(p) \/ Connect(p)
                               \/ \E kind \in Kinds : Send(p, kind)
           \/ \E c \in Connections : Receive(c) \/ EndLoop(c)
  <2>1. Same
    BY <1>1 DEF ClosePage, DropSocket, StopRecognition, Connect, Send, Receive, EndLoop, sink_vars
  <2> QED
    BY <2>1 DEF sink_vars
<1>2. ASSUME NEW u \in tasks, Ingest(u)
      PROVE  /\ UNCHANGED running /\ UNCHANGED sink_vars
             /\ \/ UNCHANGED <<sequence, handling>>
                \/ /\ running /\ sequence' = sequence + 1
                   /\ \A e \in handling' : e.sequence = sequence'
                   /\ \A d, e \in handling' : d = e
  <2>1. handling = {} /\ UNCHANGED <<running, sink_vars>>
    BY <1>2 DEF Ingest, MutexFree
  <2>2. CASE Taken(u)
    <3> PICK x : x = [update |-> u, sequence |-> sequence', step |-> "subtitle"]
      OBVIOUS
    <3>1. handling' = {x} /\ sequence' = sequence + 1 /\ x.sequence = sequence' /\ running
      BY <2>1, <2>2 DEF Taken
    <3> QED
      BY <2>1, <3>1
  <2> QED
    BY <1>2, <2>1, <2>2, IngestResult DEF Refused, FilteredStale, FilteredSeen, Filter
<1>3. CASE ToSubtitle
  BY <1>3, SubtitleStep
<1>4. CASE ToTranslation
  BY <1>4, TranslationStep
<1>5. CASE \E u \in tasks : Ingest(u)
  BY <1>2, <1>5 DEF sink_vars
<1> QED
  BY <1>1, <1>3, <1>4, <1>5 DEF IngestStep

SessionInv == ControlInv /\ EventInv

\* Nothing is alive and nothing is handled at the start.
LEMMA SessionInvInit == SessionInit => SessionInv
<1> SUFFICES ASSUME SessionInit PROVE SessionInv
  OBVIOUS
<1>1. Step = "none"
  BY DEF SessionInit, Step, Clients, NoRequest
<1>2. OpenPages = {}
  BY DEF SessionInit, IngestInit, OpenPages
<1>3. ControlInv
  BY <1>1, <1>2 DEF SessionInit, ControlInv, Starting, Opened, Stopping
<1>4. EventInv
  BY <1>1 DEF SessionInit, IngestInit, EventInv, Quiet
<1> QED
  BY <1>3, <1>4 DEF SessionInv

\* The ingest keeps the invariant.
LEMMA IngestingKeeps ==
  ASSUME SessionTypes, SessionInv, Ingesting
  PROVE  SessionInv'
<1>0. /\ IngestTypes /\ IngestStep /\ Step' = Step
      /\ UNCHANGED <<orchestrator, requests>>
      /\ \A d, e \in handling : d = e
  BY DEF SessionTypes, Ingesting, control_vars, SessionInv, EventInv, Step
<1>1. OpenPages' \subseteq OpenPages /\ UNCHANGED running
      /\ (translation.dispatcher => translation'.dispatcher)
  BY <1>0, PagesStep, EventStep
<1>2. ControlInv'
  BY <1>0, <1>1 DEF SessionInv, ControlInv
<1>3. sequence \in Nat /\ subtitle \in Nat /\ \A e \in handling : e.sequence \in Nat
  BY <1>0 DEF IngestTypes, Handled
<1>4. EventInv'
  <2>1. CASE UNCHANGED <<sequence, handling, sink_vars>>
    BY <1>0, <1>1, <2>1 DEF SessionInv, EventInv, Quiet, Newest, Behind, sink_vars
  <2>2. CASE /\ running /\ UNCHANGED sink_vars /\ sequence' = sequence + 1
             /\ \A e \in handling' : e.sequence = sequence'
             /\ \A d, e \in handling' : d = e
    <3>1. Newest'
      BY <2>2 DEF Newest
    <3>2. subtitle <= sequence => Behind'
      BY <1>3, <2>2 DEF Behind, sink_vars
    <3>3. \A e \in handling' : e.sequence > 0
      BY <1>3, <2>2
    <3> QED
      BY <1>0, <1>1, <2>2, <3>1, <3>2, <3>3 DEF SessionInv, EventInv, Quiet, Behind
  <2>3. CASE /\ UNCHANGED <<sequence, translation>>
             /\ \E e \in handling :
                  /\ e.step = "subtitle" /\ subtitle' = e.sequence
                  /\ \A d \in handling' : d.sequence = e.sequence /\ d.step = "translation"
                  /\ \A c, d \in handling' : c = d
    <3> PICK e \in handling :
                  /\ e.step = "subtitle" /\ subtitle' = e.sequence
                  /\ \A d \in handling' : d.sequence = e.sequence /\ d.step = "translation"
                  /\ \A c, d \in handling' : c = d
      BY <2>3
    <3>1. ~Quiet /\ e.sequence \in Nat /\ e.sequence > 0
      BY <1>3 DEF Quiet, SessionInv, EventInv
    <3>2. Newest => Newest' /\ Behind'
      BY <1>3, <2>3, <3>1 DEF Newest, Behind
    <3>3. /\ \A d \in handling' : d.sequence > 0
          /\ \A c, d \in handling' : c = d
      BY <3>1
    <3> QED
      BY <1>0, <1>1, <3>1, <3>2, <3>3 DEF SessionInv, EventInv
  <2>4. CASE handling # {} /\ handling' = {} /\ UNCHANGED <<sequence, subtitle>>
    BY <1>0, <1>1, <2>4 DEF SessionInv, EventInv, Quiet, Newest, Behind
  <2> QED
    BY <1>0, <2>1, <2>2, <2>3, <2>4, EventStep
<1> QED
  BY <1>2, <1>4 DEF SessionInv

\* A start and a stop of the dashboard keep the invariant.
LEMMA DashboardKeeps ==
  ASSUME SessionTypes, SessionInv,
         \/ PressStart \/ PressStop \/ StartStep("dashboard") \/ StopStep("dashboard")
         \/ FinishStop("dashboard") /\ Answer("dashboard")
  PROVE  SessionInv'
<1> USE DEF SessionInv
<1>0. /\ \A pc \in Steps : Goto("dashboard", pc) =>
              Step' = pc /\ requests'["dashboard"].pid = requests["dashboard"].pid
      /\ \A pc \in Steps : ReadPid("dashboard", pc) =>
              Step' = pc /\ requests'["dashboard"].pid = orchestrator.pid
      /\ Answer("dashboard") => Step' = "none"
  BY Moves
<1>a. /\ \A pc \in {"kill", "empty subtitles", "stop translation", "close gate", "empty source",
                    "empty numbers", "finish"} : pc \in Steps
      /\ \A pc \in {"save", "reset numbers", "reset source", "start translation",
                    "reset subtitles", "read previous", "kill previous", "launch"} : pc \in Steps
      /\ "undo translation" \in Steps
  BY DEF Steps, Starting, Stopping, Opened
<1>b. /\ sequence \in Nat /\ subtitle \in Nat /\ \A e \in handling : e.sequence \in Nat
      /\ orchestrator \in Orchestrator
  BY DEF SessionTypes, IngestTypes, Handled
<1>c. UNCHANGED pages => OpenPages' = OpenPages
  BY DEF OpenPages
<1>1. CASE PressStart
  <2>1. /\ Step = "none" /\ Step' = "save"
        /\ orchestrator'.phase = "starting" /\ orchestrator'.pid = orchestrator.pid
        /\ UNCHANGED <<pages, running, sequence, handling, subtitle, translation>>
    BY <1>0, <1>a, <1>b, <1>1 DEF PressStart, Orchestrator, ingest_vars, page_vars, sink_vars, At, Step
  <2>2. ControlInv'
    BY <1>c, <2>1 DEF ControlInv, Starting, Opened, Stopping
  <2>3. EventInv'
    BY <1>b, <2>1 DEF EventInv, Quiet, Newest, Behind
  <2> QED
    BY <2>2, <2>3
<1>2. CASE PressStop
  <2>1. /\ Step = "none" /\ Step' = "kill" /\ requests'["dashboard"].pid = orchestrator.pid
        /\ UNCHANGED <<pages, running, sequence, handling, subtitle, translation, orchestrator>>
    BY <1>0, <1>a, <1>b, <1>2
       DEF PressStop, BeginStop, ReadPid, ingest_vars, page_vars, sink_vars, At, Step
  <2>2. ControlInv'
    BY <1>c, <2>1 DEF ControlInv, Starting, Opened, Stopping
  <2>3. EventInv'
    BY <1>b, <2>1 DEF EventInv, Quiet, Newest, Behind
  <2> QED
    BY <2>2, <2>3
<1>3. CASE SaveConfig("dashboard")
  <2>1. /\ Step = "save" /\ Step' = "reset numbers"
        /\ UNCHANGED <<pages, running, sequence, handling, subtitle, translation, orchestrator>>
    BY <1>0, <1>a, <1>b, <1>3 DEF SaveConfig, ingest_vars, page_vars, sink_vars, At, Step
  <2>2. ControlInv'
    BY <1>c, <2>1 DEF ControlInv, Starting, Opened, Stopping
  <2>3. EventInv'
    BY <1>b, <2>1 DEF EventInv, Quiet, Newest, Behind
  <2> QED
    BY <2>2, <2>3
<1>4. CASE SaveFails("dashboard")
  <2>1. /\ Step = "save" /\ Step' = "none"
        /\ orchestrator'.phase = "error" /\ orchestrator'.pid = orchestrator.pid
        /\ UNCHANGED <<pages, running, sequence, handling, subtitle, translation>>
    BY <1>0, <1>a, <1>b, <1>4 DEF SaveFails, Orchestrator, ingest_vars, page_vars, sink_vars, At, Step
  <2>2. ControlInv'
    BY <1>c, <2>1 DEF ControlInv, Starting, Opened, Stopping
  <2>3. EventInv'
    BY <1>b, <2>1 DEF EventInv, Quiet, Newest, Behind
  <2> QED
    BY <2>2, <2>3
<1>5. CASE OpenGate("dashboard")
  <2>1. /\ Step = "reset numbers" /\ Step' = "reset source" /\ running'
        /\ UNCHANGED <<pages, handling, subtitle, translation, orchestrator>>
    BY <1>0, <1>a, <1>b, <1>5 DEF OpenGate, ingest_vars, page_vars, sink_vars, At, Step
  <2>2. ControlInv'
    BY <1>c, <2>1 DEF ControlInv, Starting, Opened, Stopping
  <2>3. EventInv'
    BY <1>b, <2>1 DEF EventInv, Quiet, Newest, Behind
  <2> QED
    BY <2>2, <2>3
<1>6. CASE At("dashboard", "reset source") /\ ResetSource("dashboard", "start translation")
  <2>1. /\ Step = "reset source" /\ Step' = "start translation" /\ handling = {}
        /\ UNCHANGED <<pages, running, sequence, handling, subtitle, translation, orchestrator>>
    BY <1>0, <1>a, <1>b, <1>6 DEF ResetSource, MutexFree, ingest_vars, page_vars, sink_vars, At, Step
  <2>2. ControlInv'
    BY <1>c, <2>1 DEF ControlInv, Starting, Opened, Stopping
  <2>3. EventInv'
    BY <1>b, <2>1 DEF EventInv, Quiet, Newest, Behind
  <2> QED
    BY <2>2, <2>3
<1>7. CASE StartTranslation("dashboard")
  <2>1. /\ Step = "start translation" /\ Step' = "reset subtitles" /\ translation'.dispatcher
        /\ UNCHANGED <<pages, running, sequence, handling, subtitle, orchestrator>>
    BY <1>0, <1>a, <1>b, <1>7
       DEF StartTranslation, SessionTypes, IngestTypes, Translation, ingest_vars, page_vars,
           sink_vars, At, Step
  <2>2. ControlInv'
    BY <1>c, <2>1 DEF ControlInv, Starting, Opened, Stopping
  <2>3. EventInv'
    BY <1>b, <2>1 DEF EventInv, Quiet, Newest, Behind
  <2> QED
    BY <2>2, <2>3
<1>8. CASE At("dashboard", "reset subtitles") /\ ResetSubtitles("dashboard", "read previous")
  <2>1. /\ Step = "reset subtitles" /\ Step' = "read previous" /\ subtitle' = 0
        /\ UNCHANGED <<pages, running, sequence, handling, translation, orchestrator>>
    BY <1>0, <1>a, <1>b, <1>8 DEF ResetSubtitles, ingest_vars, page_vars, sink_vars, At, Step
  <2>2. ControlInv'
    BY <1>c, <2>1 DEF ControlInv, Starting, Opened, Stopping
  <2>3. Newest' /\ Behind'
    <3>1. Newest /\ \A e \in handling : e.sequence > 0
      BY <2>1 DEF EventInv
    <3>2. Newest'
      BY <2>1, <3>1 DEF Newest
    <3>3. \A e \in handling : 0 < sequence
      BY <1>b, <3>1 DEF Newest
    <3>4. subtitle' = 0 /\ sequence' = sequence /\ handling' = handling
      BY <2>1
    <3>5. 0 <= sequence
      BY <1>b
    <3>6. Behind'
      BY <3>3, <3>4, <3>5 DEF Behind
    <3> QED
      BY <3>2, <3>6
  <2>4. EventInv'
    BY <2>1, <2>3 DEF EventInv, Newest
  <2> QED
    BY <2>2, <2>4
<1>9. CASE At("dashboard", "read previous") /\ ReadPid("dashboard", "kill previous")
  <2>1. /\ Step = "read previous" /\ Step' = "kill previous"
        /\ requests'["dashboard"].pid = orchestrator.pid
        /\ UNCHANGED <<pages, running, sequence, handling, subtitle, translation, orchestrator>>
    BY <1>0, <1>a, <1>b, <1>9 DEF ReadPid, ingest_vars, page_vars, sink_vars, At, Step
  <2>2. ControlInv'
    BY <1>c, <2>1 DEF ControlInv, Starting, Opened, Stopping
  <2>3. EventInv'
    BY <1>b, <2>1 DEF EventInv, Quiet, Newest, Behind
  <2> QED
    BY <2>2, <2>3
<1>10. CASE At("dashboard", "kill previous") /\ Terminate("dashboard", "launch")
  <2>1. /\ Step = "kill previous" /\ Step' = "launch"
        /\ UNCHANGED <<running, sequence, handling, subtitle, translation, orchestrator>>
    BY <1>0, <1>a, <1>10 DEF Terminate, ingest_vars, page_vars, sink_vars, At, Step
  <2>2. OpenPages' = {}
    BY <1>10, <2>1, WorkerKilled DEF ControlInv, SessionTypes
  <2>3. ControlInv'
    BY <2>1, <2>2 DEF ControlInv, Starting, Opened, Stopping
  <2>4. EventInv'
    BY <2>1 DEF EventInv, Quiet, Newest, Behind
  <2> QED
    BY <2>3, <2>4
<1>11. CASE Launch("dashboard")
  <2> PICK p \in Pages : /\ OpenPage(p)
                         /\ orchestrator' = [phase |-> "listening", running |-> TRUE, pid |-> p]
    BY <1>11 DEF Launch
  <2>1. /\ Step = "launch" /\ Step' = "none"
        /\ orchestrator'.phase = "listening" /\ orchestrator'.pid = p
        /\ UNCHANGED <<running, sequence, handling, subtitle, translation>>
    BY <1>0, <1>11 DEF Launch, OpenPage, ingest_vars, page_vars, sink_vars, At, Step
  <2>2. OpenPages' \subseteq {p}
    <3>1. OpenPages = {}
      BY <2>1 DEF ControlInv
    <3>2. \A q \in Pages : q # p => pages'[q] = pages[q]
      BY DEF OpenPage, SessionTypes, IngestTypes
    <3> QED
      BY <3>1, <3>2 DEF OpenPages
  <2>3. ControlInv'
    BY <2>1, <2>2 DEF ControlInv, Starting, Opened, Stopping
  <2>4. EventInv'
    BY <2>1 DEF EventInv, Quiet, Newest, Behind
  <2> QED
    BY <2>3, <2>4
<1>12. CASE LaunchFails("dashboard")
  <2>1. /\ Step = "launch" /\ Step' = "undo translation"
        /\ orchestrator'.phase = "error" /\ orchestrator'.pid = orchestrator.pid
        /\ UNCHANGED <<pages, running, sequence, handling, subtitle, translation>>
    BY <1>0, <1>a, <1>b, <1>12 DEF LaunchFails, Orchestrator, ingest_vars, page_vars, sink_vars, At, Step
  <2>2. ControlInv'
    BY <1>c, <2>1 DEF ControlInv, Starting, Opened, Stopping
  <2>3. EventInv'
    BY <1>b, <2>1 DEF EventInv, Quiet, Newest, Behind
  <2> QED
    BY <2>2, <2>3
<1>13. CASE /\ At("dashboard", "undo translation")
            /\ StopTranslation("dashboard")
            /\ Answer("dashboard")
  <2>1. /\ Step = "undo translation" /\ Step' = "none"
        /\ UNCHANGED <<pages, running, sequence, handling, subtitle, orchestrator>>
    BY <1>0, <1>a, <1>b, <1>13 DEF StopTranslation, ingest_vars, page_vars, sink_vars, At, Step
  <2>2. ControlInv'
    BY <1>c, <2>1 DEF ControlInv, Starting, Opened, Stopping
  <2>3. EventInv'
    BY <1>b, <2>1 DEF ControlInv, EventInv, Quiet, Newest, Behind
  <2> QED
    BY <2>2, <2>3
<1>14. CASE At("dashboard", "kill") /\ Terminate("dashboard", "empty subtitles")
  <2>1. /\ Step = "kill" /\ Step' = "empty subtitles"
        /\ UNCHANGED <<running, sequence, handling, subtitle, translation, orchestrator>>
    BY <1>0, <1>a, <1>14 DEF Terminate, ingest_vars, page_vars, sink_vars, At, Step
  <2>2. OpenPages' = {}
    BY <1>14, <2>1, WorkerKilled DEF ControlInv, SessionTypes
  <2>3. ControlInv'
    BY <2>1, <2>2 DEF ControlInv, Starting, Opened, Stopping
  <2>4. EventInv'
    BY <2>1 DEF EventInv, Quiet, Newest, Behind
  <2> QED
    BY <2>3, <2>4
<1>15. CASE At("dashboard", "empty subtitles") /\ ResetSubtitles("dashboard", "stop translation")
  <2>1. /\ Step = "empty subtitles" /\ Step' = "stop translation"
        /\ UNCHANGED <<pages, running, sequence, handling, translation, orchestrator>>
    BY <1>0, <1>a, <1>b, <1>15 DEF ResetSubtitles, ingest_vars, page_vars, sink_vars, At, Step
  <2>2. ControlInv'
    BY <1>c, <2>1 DEF ControlInv, Starting, Opened, Stopping
  <2>3. EventInv'
    BY <1>b, <2>1 DEF EventInv, Quiet, Newest, Behind
  <2> QED
    BY <2>2, <2>3
<1>16. CASE /\ At("dashboard", "stop translation")
            /\ StopTranslation("dashboard")
            /\ Goto("dashboard", "close gate")
  <2>1. /\ Step = "stop translation" /\ Step' = "close gate"
        /\ UNCHANGED <<pages, running, sequence, handling, subtitle, orchestrator>>
    BY <1>0, <1>a, <1>b, <1>16 DEF StopTranslation, ingest_vars, page_vars, sink_vars, At, Step
  <2>2. ControlInv'
    BY <1>c, <2>1 DEF ControlInv, Starting, Opened, Stopping
  <2>3. EventInv'
    BY <1>b, <2>1 DEF EventInv, Quiet, Newest, Behind
  <2> QED
    BY <2>2, <2>3
<1>17. CASE CloseGate("dashboard")
  <2>1. /\ Step = "close gate" /\ Step' = "empty source" /\ ~running'
        /\ UNCHANGED <<pages, sequence, handling, subtitle, translation, orchestrator>>
    BY <1>0, <1>a, <1>b, <1>17 DEF CloseGate, ingest_vars, page_vars, sink_vars, At, Step
  <2>2. ControlInv'
    BY <1>c, <2>1 DEF ControlInv, Starting, Opened, Stopping
  <2>3. EventInv'
    BY <1>b, <2>1 DEF EventInv, Quiet, Newest, Behind
  <2> QED
    BY <2>2, <2>3
<1>18. CASE At("dashboard", "empty source") /\ ResetSource("dashboard", "empty numbers")
  <2>1. /\ Step = "empty source" /\ Step' = "empty numbers" /\ handling = {}
        /\ UNCHANGED <<pages, running, sequence, handling, subtitle, translation, orchestrator>>
    BY <1>0, <1>a, <1>b, <1>18 DEF ResetSource, MutexFree, ingest_vars, page_vars, sink_vars, At, Step
  <2>2. ControlInv'
    BY <1>c, <2>1 DEF ControlInv, Starting, Opened, Stopping
  <2>3. EventInv'
    BY <1>b, <2>1 DEF EventInv, Quiet, Newest, Behind
  <2> QED
    BY <2>2, <2>3
<1>19. CASE ResetNumbers("dashboard")
  <2>1. /\ Step = "empty numbers" /\ Step' = "finish"
        /\ UNCHANGED <<pages, running, handling, subtitle, translation, orchestrator>>
    BY <1>0, <1>a, <1>b, <1>19 DEF ResetNumbers, ingest_vars, page_vars, sink_vars, At, Step
  <2>2. ControlInv'
    BY <1>c, <2>1 DEF ControlInv, Starting, Opened, Stopping
  <2>3. EventInv'
    BY <1>b, <2>1 DEF EventInv, Quiet, Newest, Behind
  <2> QED
    BY <2>2, <2>3
<1>20. CASE FinishStop("dashboard") /\ Answer("dashboard")
  <2>1. /\ Step = "finish" /\ Step' = "none" /\ orchestrator'.phase = "idle"
        /\ UNCHANGED <<pages, running, sequence, handling, subtitle, translation>>
    BY <1>0, <1>a, <1>b, <1>20 DEF FinishStop, ingest_vars, page_vars, sink_vars, At, Step
  <2>2. ControlInv'
    BY <1>c, <2>1 DEF ControlInv, Starting, Opened, Stopping
  <2>3. EventInv'
    BY <1>b, <2>1 DEF EventInv, Quiet, Newest, Behind
  <2> QED
    BY <2>2, <2>3
<1> QED
  BY <1>1, <1>2, <1>3, <1>4, <1>5, <1>6, <1>7, <1>8, <1>9, <1>10, <1>11, <1>12, <1>13, <1>14,
     <1>15, <1>16, <1>17, <1>18, <1>19, <1>20
     DEF StartStep, StopStep

-----------------------------------------------------------------------------
(* Theorems about a session *)

\* Until the window closes the invariant holds.
UntilExit == SessionTypes /\ (requests["exit"].pc = "none" => SessionInv)

\* A request of the exit is not forgotten.
LEMMA ExitStays ==
  ASSUME SessionTypes, [ExitNext]_session_vars, requests'["exit"].pc = "none"
  PROVE  /\ requests["exit"].pc = "none"
         /\ [SessionNext]_session_vars
<1>0. requests \in [Clients -> Request] /\ "dashboard" \in Clients /\ "exit" \in Clients
  BY DEF SessionTypes, Clients
<1>1. ASSUME \/ BeginStop("exit") \/ StopStep("exit")
             \/ FinishStop("exit") /\ Goto("exit", "exited")
      PROVE  FALSE
  <2>1. \A pc : Goto("exit", pc) => requests'["exit"].pc = pc
    BY <1>0 DEF Goto, Request
  <2>2. BeginStop("exit") => requests'["exit"].pc = "kill"
    BY <1>0 DEF BeginStop, ReadPid
  <2>3. \E pc \in (Stopping \ {"kill"}) \union {"exited"} : Goto("exit", pc) \/ BeginStop("exit")
    BY <1>1 DEF StopStep, Terminate, ResetSubtitles, CloseGate, ResetSource, ResetNumbers, Stopping
  <2> QED
    BY <2>1, <2>2, <2>3 DEF Stopping
<1>2. CASE PressStart \/ PressStop \/ Working
  <2>1. SessionNext
    BY <1>2 DEF SessionNext
  <2>2. requests'["exit"] = requests["exit"]
    <3>1. \A pc : Goto("dashboard", pc) => requests'["exit"] = requests["exit"]
      BY <1>0 DEF Goto
    <3>2. \A pc : ReadPid("dashboard", pc) => requests'["exit"] = requests["exit"]
      BY <1>0 DEF ReadPid
    <3>3. Answer("dashboard") => requests'["exit"] = requests["exit"]
      BY <1>0 DEF Answer
    <3>4. Ingesting => requests'["exit"] = requests["exit"]
      BY DEF Ingesting, control_vars
    <3>5. StartStep("dashboard") => requests'["exit"] = requests["exit"]
      BY <3>1, <3>2, <3>3
         DEF StartStep, SaveConfig, SaveFails, OpenGate, ResetSource, StartTranslation,
             ResetSubtitles, Terminate, Launch, LaunchFails
    <3>6. StopStep("dashboard") => requests'["exit"] = requests["exit"]
      BY <3>1 DEF StopStep, Terminate, ResetSubtitles, CloseGate, ResetSource, ResetNumbers
    <3> QED
      BY <1>2, <3>1, <3>2, <3>3, <3>4, <3>5, <3>6 DEF Working, PressStart, PressStop, BeginStop
  <2> QED
    BY <2>1, <2>2
<1>3. CASE UNCHANGED session_vars
  BY <1>3 DEF session_vars, control_vars
<1>4. ExitNext => \/ PressStart \/ PressStop \/ Working
                  \/ BeginStop("exit") \/ StopStep("exit")
                  \/ FinishStop("exit") /\ Goto("exit", "exited")
  BY DEF ExitNext
<1> QED
  BY <1>1, <1>2, <1>3, <1>4

\* The invariant holds at the start.
LEMMA UntilExitInit == SessionInit => UntilExit
  BY SessionTypesInit, SessionInvInit DEF UntilExit

\* Every step of a session keeps it.
LEMMA SessionInvStep ==
  ASSUME SessionTypes, SessionInv, [SessionNext]_session_vars
  PROVE  SessionInv'
<1>1. CASE Ingesting
  BY <1>1, IngestingKeeps
<1>2. CASE UNCHANGED session_vars
  <2>1. OpenPages' = OpenPages /\ Step' = Step
    BY <1>2 DEF session_vars, ingest_vars, control_vars, OpenPages, Step
  <2>2. ControlInv'
    BY <1>2, <2>1 DEF SessionInv, ControlInv, session_vars, ingest_vars, control_vars
  <2>3. EventInv'
    BY <1>2, <2>1
       DEF SessionInv, EventInv, Quiet, Newest, Behind, session_vars, ingest_vars, control_vars
  <2> QED
    BY <2>2, <2>3 DEF SessionInv
<1> QED
  BY <1>1, <1>2, DashboardKeeps DEF SessionNext, Working

\* Every step keeps it, the exit of the application included.
LEMMA UntilExitStep == UntilExit /\ [ExitNext]_session_vars => UntilExit'
<1> SUFFICES ASSUME UntilExit, [ExitNext]_session_vars PROVE UntilExit'
  OBVIOUS
<1>1. SessionTypes'
  BY SessionTypesStep DEF UntilExit
<1>2. ASSUME requests'["exit"].pc = "none" PROVE SessionInv'
  BY <1>2, ExitStays, SessionInvStep DEF UntilExit
<1> QED
  BY <1>1, <1>2 DEF UntilExit

\* So it holds always.
LEMMA UntilExitAlways == ExitSpec => []UntilExit
  BY UntilExitInit, UntilExitStep, PTL DEF ExitSpec

\* Between requests both clients are where the invariant speaks of.
LEMMA NotServing == ~Serving => requests["exit"].pc = "none" /\ Step = "none"
  BY DEF Serving, At, Clients, Step

\* Between requests the dashboard, the pipeline and the worker agree, whatever the requests, the
\* pages and the network did, and whenever the window closes.
THEOREM PartsAlwaysAgree == ExitSpec => []PartsAgree
<1>1. UntilExit => PartsAgree
  BY NotServing DEF UntilExit, SessionInv, ControlInv, PartsAgree, ListeningIngests, WorkerIsKnown
<1> QED
  BY <1>1, UntilExitAlways, PTL

\* Between requests the subtitles move forward only, and not at all after a stop.
LEMMA StepIsSilent ==
  UntilExit /\ [ExitNext]_session_vars => [SilentWhenStopped]_session_vars
<1> SUFFICES ASSUME UntilExit, ExitNext, ~Serving
             PROVE  /\ subtitle' >= subtitle
                    /\ orchestrator.phase = "idle" => UNCHANGED sink_vars
  BY DEF SilentWhenStopped
<1>0. /\ Step = "none" /\ IngestTypes /\ SessionInv
      /\ subtitle \in Nat /\ sequence \in Nat /\ \A e \in handling : e.sequence \in Nat
  BY NotServing DEF UntilExit, SessionTypes, IngestTypes, Handled
<1>1. CASE UNCHANGED sink_vars
  BY <1>0, <1>1 DEF sink_vars
<1>2. CASE Ingesting
  <2>1. IngestStep /\ \A d, e \in handling : d = e
    BY <1>0, <1>2 DEF Ingesting, SessionInv, EventInv
  <2>2. CASE Quiet
    BY <1>0, <1>1, <2>1, <2>2, EventStep DEF Quiet
  <2>3. CASE Newest /\ Behind /\ orchestrator.phase # "idle"
    BY <1>0, <1>1, <2>1, <2>3, EventStep DEF Newest, Behind, sink_vars
  <2> QED
    BY <1>0, <2>2, <2>3 DEF SessionInv, EventInv
<1>3. CASE PressStart \/ PressStop \/ BeginStop("exit")
  BY <1>1, <1>3 DEF PressStart, PressStop, BeginStop, ReadPid, ingest_vars, sink_vars
<1>4. \A r \in Clients : ~StartStep(r) /\ ~StopStep(r) /\ ~FinishStop(r)
  BY DEF Serving, At, StartStep, StopStep, FinishStop, SaveConfig, SaveFails, OpenGate,
         StartTranslation, Launch, LaunchFails, CloseGate, ResetNumbers
<1>5. "dashboard" \in Clients /\ "exit" \in Clients
  BY DEF Clients
<1> QED
  BY <1>2, <1>3, <1>4, <1>5 DEF ExitNext, Working

\* No transcript that was still under way when a session stopped reaches the subtitles or the
\* translation before the next start.
THEOREM StoppedStaysSilent == ExitSpec => StoppedIsSilent
  BY UntilExitAlways, StepIsSilent, PTL DEF StoppedIsSilent, ExitSpec
================================================================================
