------------------------------ MODULE EventHub ------------------------------
(***************************************************************************)
(* How a subtitle frame reaches the overlay page.  The router publishes    *)
(* frames one after the other; each becomes an overlay_update, unless it   *)
(* repeats the frame before, and a subtitle_payload_update; both get the   *)
(* next event_sequence and a time stamp and are broadcast by tasks that    *)
(* run in any order.  A broadcast is remembered for pages that connect     *)
(* later and then queued for those that are connected.  The page drops     *)
(* what its stale guard takes for old.  The clock, the server, the         *)
(* connection and the page may each fail.                                  *)
(***************************************************************************)
EXTENDS Naturals, Sequences, FiniteSets

CONSTANTS
  MaxFrames,  \* bound on frames
  MaxNow,     \* bound on the clock
  MaxTasks,   \* bound on the broadcasts that are on their way
  MaxMishaps, \* bound on repeats, drops, disconnections, reloads, restarts and clock steps
  ClientMax   \* outbound_queue_max

ASSUME HubAssumption ==
  /\ MaxFrames \in Nat /\ MaxMishaps \in Nat
  /\ ClientMax \in Nat \ {0}

VARIABLES
  now,       \* wall clock in milliseconds
  sequence,  \* EventSequencer.global_sequence
  frames,    \* number of frames made so far; a frame is its number
  latest,    \* last_subtitle_payload, 0 at the start
  signature, \* OverlayBroadcaster.last_payload_signature, 0 for none
  flush,     \* flush_overlay_presentations_to_clients: what it has still to send
  tasks,     \* broadcasts that have not finished
  last,      \* EventsHub.last_by_type
  page,      \* the overlay page: connection, outbound queue, stale guard, frame shown
  mishaps,
  blamed     \* what happened that the page cannot know of

hubVars == <<now, sequence, frames, latest, signature, flush, tasks, last, page, mishaps, blamed>>

Channels == {"subtitle", "overlay"}
Unsent == [frame |-> 0, seq |-> 0, at |-> 0]
NewPage == [link |-> "down", queue |-> <<>>, seq |-> 0, at |-> 0, shown |-> 0, top |-> 0]
\* A page that a former run of the server numbered far.
OldPage == [NewPage EXCEPT !.seq = 2 * MaxFrames + MaxMishaps + 1]
NoFlush == [todo |-> <<>>, frame |-> 0]

HubInit ==
  /\ now = 1 /\ sequence = 0 /\ frames = 0 /\ latest = 0 /\ signature = 0
  /\ flush = NoFlush /\ tasks = {}
  /\ last = [c \in Channels |-> Unsent]
  /\ page \in {NewPage, OldPage}
  /\ mishaps = 0 /\ blamed = {}

Mishap == mishaps < MaxMishaps /\ mishaps' = mishaps + 1

-----------------------------------------------------------------------------
(* Publication *)

\* EventSequencer.enrich, for the k-th message of a step; time passes with the frames.
Enriched(channel, frame, k) ==
  [channel |-> channel, msg |-> [frame |-> frame, seq |-> sequence + k, at |-> now'], stored |-> FALSE]

\* The overlay message is left out when it repeats the last one within the cooldown.
Publish(frame, repeated) ==
  /\ Cardinality(tasks) < MaxTasks
  /\ latest' = frame
  /\ flush.todo # <<>> => blamed' = blamed \union {"flush"}
  /\ flush.todo = <<>> => UNCHANGED blamed
  /\ \/ /\ signature' = frame
        /\ tasks' = tasks \union {Enriched("overlay", frame, 1), Enriched("subtitle", frame, 2)}
        /\ sequence' = sequence + 2
     \/ /\ repeated /\ signature = frame
        /\ tasks' = tasks \union {Enriched("subtitle", frame, 1)}
        /\ sequence' = sequence + 1
        /\ UNCHANGED signature

PublishFrame ==
  /\ frames < MaxFrames /\ frames' = frames + 1
  /\ now' \in {now, now + 1} /\ now' <= MaxNow
  /\ Publish(frames + 1, FALSE)
  /\ UNCHANGED <<flush, last, page, mishaps>>

PublishAgain ==
  /\ latest # 0 /\ Mishap
  /\ now' = now
  /\ Publish(latest, TRUE)
  /\ UNCHANGED <<frames, flush, last, page>>

\* A stop publishes the last frame once more, one message after the other.
FlushBegins ==
  /\ flush.todo = <<>> /\ latest # 0 /\ Mishap
  /\ signature' = 0
  /\ flush' = [todo |-> <<"overlay", "subtitle">>, frame |-> latest]
  /\ UNCHANGED <<now, sequence, frames, latest, tasks, last, page, blamed>>

FlushSends ==
  /\ flush.todo # <<>> /\ Cardinality(tasks) < MaxTasks
  /\ now' = now
  /\ tasks' = tasks \union {Enriched(Head(flush.todo), flush.frame, 1)}
  /\ sequence' = sequence + 1
  /\ flush' = [flush EXCEPT !.todo = Tail(@)]
  /\ UNCHANGED <<frames, latest, signature, last, page, mishaps, blamed>>

-----------------------------------------------------------------------------
(* The hub *)

Queued(q, msg) == Append(IF Len(q) >= ClientMax THEN Tail(q) ELSE q, msg)

\* An older message that is stored last is what a page gets that connects afterwards.
StoreLast ==
  \E t \in {u \in tasks : ~u.stored} :
    /\ last' = [last EXCEPT ![t.channel] = t.msg]
    /\ tasks' = (tasks \ {t}) \union {[t EXCEPT !.stored = TRUE]}
    /\ blamed' = IF t.msg.seq < last[t.channel].seq /\ \A c \in Channels : last'[c].frame # latest
                 THEN blamed \union {"overtaken"} ELSE blamed
    /\ UNCHANGED <<now, sequence, frames, latest, signature, flush, page, mishaps>>

\* enqueue_to_client loses the oldest message of a full queue, and the new one when the queue is
\* locked at that moment.
SendToClients ==
  \E t \in {u \in tasks : u.stored} :
    /\ tasks' = tasks \ {t}
    /\ \/ /\ page.link = "down"
          /\ UNCHANGED <<page, mishaps, blamed>>
       \/ /\ page.link # "down"
          /\ page' = [page EXCEPT !.queue = Queued(@, t.msg)]
          /\ blamed' = IF Len(page.queue) >= ClientMax THEN blamed \union {"dropped"} ELSE blamed
          /\ UNCHANGED mishaps
       \/ /\ page.link # "down" /\ Mishap
          /\ blamed' = blamed \union {"dropped"}
          /\ UNCHANGED page
    /\ UNCHANGED <<now, sequence, frames, latest, signature, flush, last>>

\* serve_connection registers the client before it replays.
ClientConnects ==
  /\ page.link = "down"
  /\ page' = [page EXCEPT !.link = "new", !.queue = <<>>]
  /\ UNCHANGED <<now, sequence, frames, latest, signature, flush, tasks, last, mishaps, blamed>>

Remembered(channel) == IF last[channel] = Unsent THEN <<>> ELSE <<last[channel]>>
ReplayLast ==
  /\ page.link = "new"
  /\ LET missed == Remembered("subtitle") \o Remembered("overlay")
     IN page' = [page EXCEPT !.link = "live", !.queue = @ \o missed]
  /\ UNCHANGED <<now, sequence, frames, latest, signature, flush, tasks, last, mishaps, blamed>>

-----------------------------------------------------------------------------
(* The page *)

StaleBySequence(msg) == msg.seq < page.seq
StaleByTime(msg) == msg.at < page.at

\* isWsEventStale: the time decides, and the sequence when it is the same.
IsStale(msg) == msg.at < page.at \/ (msg.at = page.at /\ msg.seq < page.seq)

PageReceives ==
  /\ page.queue # <<>>
  /\ LET msg == Head(page.queue)
         rest == [page EXCEPT !.queue = Tail(@)]
     IN page' = IF IsStale(msg) THEN rest
                ELSE [rest EXCEPT !.seq = msg.seq, !.at = msg.at, !.shown = msg.frame,
                                  !.top = IF msg.frame > @ THEN msg.frame ELSE @]
  /\ UNCHANGED <<now, sequence, frames, latest, signature, flush, tasks, last, mishaps, blamed>>

\* The connection is lost; the page keeps its frame, or clears it when the server is gone, and its
\* guard.
PageDisconnects ==
  /\ page.link # "down" /\ Mishap
  /\ page' = [page EXCEPT !.link = "down", !.queue = <<>>]
  /\ UNCHANGED <<now, sequence, frames, latest, signature, flush, tasks, last, blamed>>

PageReloads ==
  /\ Mishap
  /\ page' = NewPage
  /\ UNCHANGED <<now, sequence, frames, latest, signature, flush, tasks, last, blamed>>

ServerRestarts ==
  /\ now < MaxNow /\ Mishap
  /\ now' = now + 1
  /\ sequence' = 0 /\ latest' = 0 /\ signature' = 0 /\ flush' = NoFlush /\ tasks' = {}
  /\ last' = [c \in Channels |-> Unsent]
  /\ \E shown \in {page.shown, 0} :
       page' = [page EXCEPT !.link = "down", !.queue = <<>>, !.shown = shown]
  /\ UNCHANGED <<frames, blamed>>

ClockSteppedBack ==
  /\ now > 1 /\ Mishap
  /\ now' = now - 1 /\ blamed' = blamed \union {"clock"}
  /\ UNCHANGED <<sequence, frames, latest, signature, flush, tasks, last, page>>

HubNext ==
  \/ PublishFrame \/ PublishAgain \/ FlushBegins \/ FlushSends
  \/ StoreLast \/ SendToClients \/ ClientConnects \/ ReplayLast
  \/ PageReceives \/ PageDisconnects \/ PageReloads \/ ServerRestarts
  \/ ClockSteppedBack

HubSpec == HubInit /\ [][HubNext]_hubVars

-----------------------------------------------------------------------------
(* Properties *)

\* In whatever order the broadcasts and the replay arrive, and over reconnections and restarts of
\* the server, a page never goes back to a frame older than one it showed, unless the clock was
\* set back or a stop flushed a frame that was replaced meanwhile.
NeverBackToOlderFrame ==
  blamed \intersect {"clock", "flush"} = {} => page.shown \in {0, page.top}

\* When everything was delivered a connected page shows the latest frame, also after it connected
\* in the middle of a broadcast or to a restarted server whose sequence began anew.
QuietPageIsCurrent ==
  /\ tasks = {} /\ flush.todo = <<>>
  /\ page.link = "live" /\ page.queue = <<>>
  /\ latest # 0 /\ blamed = {}
  => page.shown = latest
=============================================================================
