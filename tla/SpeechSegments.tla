---------------------------- MODULE SpeechSegments ----------------------------
(***************************************************************************)
(* How what is recognised becomes partials and finals of numbered          *)
(* segments: the worker page's result handler and its forced finals        *)
(* (transcript-logic), the updates on their way to the speech source, the  *)
(* segment tracking of the event builder, the partial that the subtitles   *)
(* show, and the clean-up after the page's connection is lost.             *)
(*                                                                         *)
(* One page, one generation: that a stop makes older updates stale is in   *)
(* SpeechIngest.  Texts are compared only, so they are opaque; a timer may *)
(* fire at any time, and an interim text is old enough whenever one likes. *)
(***************************************************************************)
EXTENDS Integers, Sequences, FiniteSets

CONSTANTS
  Texts,
  NoText,
  None,         \* nothing shown
  MaxSegments,  \* bound on the segments of the page
  MaxUpdates,   \* bound on the updates it sends
  Upsets,       \* what may come between: a subset of AllUpsets
  MaxUpsets     \* bound on them

AllUpsets == {"stop", "fatal", "setting", "drop"}

ASSUME SegmentsAssumption ==
  /\ NoText \notin Texts
  /\ MaxSegments \in Nat \ {0} /\ MaxUpdates \in Nat \ {0} /\ MaxUpsets \in Nat
  /\ Upsets \subseteq AllUpsets

VARIABLES
  page,       \* the segment fields of BrowserAsrState
  timer,      \* forceFinalizeTimer is running
  recogniser, \* desiredRunning; whether an object has handlers, and has failed for good
  enabled,    \* isForceFinalizationEnabled
  link,       \* the socket is open; its end has not been noticed by the server
  wire,       \* updates whose ingest task has not had the mutex yet
  watermark,  \* sequence_watermark
  handling,   \* the event in handle_event
  tracking,   \* SegmentStateController
  shown,      \* active_partial of the subtitles
  cleanups,   \* tasks spawned for lost connections, by their next step
  finals,     \* history: the finals the page made of each segment
  submitted,  \* history: the finals given to the translation
  upsets,
  lost        \* history: an update was lost or overtaken, or an interim text lost its segment

speechVars == <<page, timer, recogniser, enabled>>
backendVars == <<watermark, handling, tracking, shown, submitted>>
segment_vars == <<speechVars, link, wire, backendVars, cleanups, finals, upsets, lost>>

Segments == 1..MaxSegments
NoSegment == 0

Blank ==
  [current |-> NoSegment, ordinal |-> 0, lastPartial |-> NoText, lastFinal |-> NoText,
   lastForced |-> NoText, forced |-> FALSE, partial |-> NoText, stable |-> FALSE, sent |-> 0]

SegmentsInit ==
  /\ page = Blank
  /\ timer = FALSE
  /\ recogniser = [desired |-> FALSE, live |-> FALSE, failed |-> FALSE]
  /\ enabled = TRUE
  /\ link = [open |-> TRUE, unnoticed |-> FALSE]
  /\ wire = {}
  /\ watermark = 0
  /\ handling = {}
  /\ tracking = [active |-> NoSegment, revision |-> 0]
  /\ shown = None
  /\ cleanups = [screen |-> 0, segments |-> 0]
  /\ finals = [s \in Segments |-> <<>>]
  /\ submitted = {}
  /\ upsets = 0
  /\ lost = FALSE

Upset(kind) ==
  /\ kind \in Upsets
  /\ upsets < MaxUpsets
  /\ upsets' = upsets + 1

-----------------------------------------------------------------------------
(* transcript-logic *)

\* A segment that was finalised by force is left as soon as more is recognised.
Ensured(p) ==
  IF p.current # NoSegment /\ ~p.forced
  THEN p
  ELSE [p EXCEPT !.ordinal = @ + 1, !.current = p.ordinal + 1, !.lastPartial = NoText,
                 !.lastFinal = NoText, !.forced = FALSE]

ClearsTextsOnly(p) ==
  [p EXCEPT !.lastPartial = NoText, !.lastFinal = NoText, !.forced = FALSE]

\* consumeCompletedSegment
Consumed(p) ==
  [p EXCEPT !.current = NoSegment, !.lastPartial = NoText, !.lastFinal = NoText, !.forced = FALSE]

\* resetSegmentTrackingFields.  The interim text itself stays.
Reset(p) == [Consumed(p) EXCEPT !.stable = FALSE, !.lastForced = NoText]

LateForced(p, t) == p.forced /\ p.lastForced = t
Suppressed(p, t) == t = p.lastFinal

\* The handlers work on a draft: the page, the segment of a partial to be sent, and the
\* final to be sent after it.
Draft(p, partial, final) == [page |-> p, partial |-> partial, final |-> final]
FinalOf(s, kind, t) == [segment |-> s, kind |-> kind, text |-> t]
NoFinal == FinalOf(NoSegment, "none", NoText)

\* The interim part of a result; one that repeats the last is not sent again.
WithInterim(t) ==
  LET p == Ensured(page)
      q == [p EXCEPT !.partial = t, !.stable = @ \/ t # p.lastPartial]
  IN IF t = p.lastPartial
     THEN Draft(q, NoSegment, NoFinal)
     ELSE Draft([q EXCEPT !.lastPartial = t, !.forced = FALSE], p.current, NoFinal)

\* The final part, after an interim part d.  It belongs to the segment that was finalised
\* by force, unless it repeats that final.
WithFinal(d, t) ==
  LET p == IF d.page.current # NoSegment THEN d.page ELSE Ensured(d.page)
      q == [p EXCEPT !.partial = NoText]
  IN CASE LateForced(p, t) -> Draft(Consumed(q), d.partial, NoFinal)
       [] ~LateForced(p, t) /\ Suppressed(p, t) -> Draft(q, d.partial, NoFinal)
       [] OTHER -> Draft([Consumed(q) EXCEPT !.stable = FALSE], d.partial,
                         FinalOf(p.current, "final", t))

ForcedUnsent(p) ==
  Draft([p EXCEPT !.lastFinal = p.partial, !.forced = TRUE, !.partial = NoText],
        NoSegment, NoFinal)

\* A forced final of the interim text of p.
Forced(p) ==
  Draft([p EXCEPT !.lastFinal = p.partial, !.lastForced = p.partial, !.forced = TRUE,
                  !.partial = NoText],
        NoSegment, FinalOf(p.current, "forced", p.partial))

IsFinal(u) == u.kind # "partial"

\* sendUpdate: numbered and sent if the socket is open, lost otherwise.
Send(d) ==
  LET n == (IF d.partial = NoSegment THEN 0 ELSE 1) + (IF d.final = NoFinal THEN 0 ELSE 1)
      partial == [segment |-> d.partial, kind |-> "partial", n |-> page.sent + 1]
      final == [segment |-> d.final.segment, kind |-> d.final.kind, n |-> page.sent + n]
  IN /\ d.page.ordinal <= MaxSegments
     /\ page' = [d.page EXCEPT !.sent = IF link.open THEN @ + n ELSE @]
     /\ wire' = IF link.open
                THEN wire \union {u \in {partial, final} : u.segment # NoSegment}
                ELSE wire
     /\ lost' = (lost \/ (~link.open /\ n > 0))
     /\ finals' = IF d.final = NoFinal THEN finals
                  ELSE [finals EXCEPT ![d.final.segment] =
                          Append(@, [kind |-> d.final.kind, text |-> d.final.text])]
     /\ UNCHANGED <<recogniser, enabled, link, backendVars, cleanups>>

-----------------------------------------------------------------------------
(* The recogniser's events.  Those of an object that was told to stop count  *)
(* until it ends.                                                            *)

\* There is room for the final that an interim text may need.
Room == page'.sent + (IF page'.partial # NoText THEN 1 ELSE 0) <= MaxUpdates

Interim(t) ==
  /\ recogniser.live
  /\ Send(WithInterim(t))
  /\ timer' = enabled
  /\ Room
  /\ UNCHANGED upsets

Final(t) ==
  /\ recogniser.live
  /\ Send(WithFinal(Draft(page, NoSegment, NoFinal), t))
  /\ timer' = FALSE
  /\ Room
  /\ UNCHANGED upsets

\* A result whose first pieces are final and whose last are not.
InterimAndFinal(i, f) ==
  /\ recogniser.live
  /\ Send(WithFinal(WithInterim(i), f))
  /\ timer' = FALSE
  /\ Room
  /\ UNCHANGED upsets

PressStart ==
  /\ ~recogniser.desired /\ ~recogniser.failed
  /\ recogniser' = [recogniser EXCEPT !.desired = TRUE]
  /\ UNCHANGED <<page, timer, enabled, link, wire, backendVars, cleanups, finals, upsets, lost>>

Begins ==
  /\ recogniser.desired /\ ~recogniser.live
  /\ recogniser' = [recogniser EXCEPT !.live = TRUE]
  /\ UNCHANGED <<page, timer, enabled, link, wire, backendVars, cleanups, finals, upsets, lost>>

\* onend.  While recognition is desired the open segment is kept for the next object; else it
\* is given up, and an interim text that is there stays.
Ends ==
  /\ recogniser.live
  /\ recogniser' = [recogniser EXCEPT !.live = FALSE, !.failed = FALSE]
  /\ IF recogniser.desired
     THEN UNCHANGED <<page, timer, lost>>
     ELSE /\ page' = Reset(page)
          /\ timer' = FALSE
          /\ lost' = (lost \/ page.partial # NoText)
  /\ UNCHANGED <<enabled, link, wire, backendVars, cleanups, finals, upsets>>

\* The microphone or the language is refused: all timers are cleared.
FailsForGood ==
  /\ recogniser.live
  /\ Upset("fatal")
  /\ recogniser' = [recogniser EXCEPT !.desired = FALSE, !.failed = TRUE]
  /\ timer' = FALSE
  /\ UNCHANGED <<page, enabled, link, wire, backendVars, cleanups, finals, lost>>

PressStop ==
  /\ recogniser.desired
  /\ Upset("stop")
  /\ recogniser' = [recogniser EXCEPT !.desired = FALSE]
  /\ page' = Reset([page EXCEPT !.partial = NoText])
  /\ timer' = FALSE
  /\ UNCHANGED <<enabled, link, wire, backendVars, cleanups, finals, lost>>

-----------------------------------------------------------------------------
(* Forced finals *)

\* The timer of scheduleForceFinalize fires.
ForceFinalize ==
  /\ timer
  /\ timer' = FALSE
  /\ LET p == Ensured(page)
     IN IF page.partial = NoText \/ ~recogniser.desired
        THEN UNCHANGED <<page, recogniser, enabled, link, wire, backendVars, cleanups, finals, lost>>
        ELSE Send(IF Suppressed(p, page.partial)
                  THEN Draft([p EXCEPT !.partial = NoText], NoSegment, NoFinal)
                  ELSE Forced(p))
  /\ UNCHANGED upsets

\* transitionToStopping, not by the user: the watchdog or changed settings end the
\* recogniser, and an interim text that is old enough is made final.
Interrupt ==
  /\ recogniser.desired /\ enabled
  /\ page.partial # NoText /\ page.stable
  /\ ~Suppressed(page, page.partial)
  /\ LET p == IF page.current # NoSegment THEN page ELSE Ensured(page)
     IN Send([Forced(p) EXCEPT !.page.stable = FALSE])
  /\ timer' = FALSE
  /\ UNCHANGED upsets

\* handleForceFinalizationSettingChange: the switch, the time of the timer or the settings as a
\* whole have changed.
ChangeSetting ==
  /\ Upset("setting")
  /\ enabled' \in BOOLEAN
  /\ timer' = (enabled' /\ page.partial # NoText)
  /\ UNCHANGED <<page, recogniser, link, wire, backendVars, cleanups, finals, lost>>

-----------------------------------------------------------------------------
(* From the speech source to the subtitles and the translation *)

NeverOvertaken(u) == FALSE
Overtaken(u) == u.n <= watermark

UnchangedByPartials(u) ==
  [active |-> u.segment,
   revision |-> IF tracking.active = u.segment /\ ~IsFinal(u) THEN tracking.revision ELSE 1]

\* assign_segment_tracking with the segment of the page.
Assigned(u) ==
  [active |-> u.segment,
   revision |-> (IF tracking.active = u.segment THEN tracking.revision ELSE 0) + 1]

\* A task gets the mutex: build_partial_event or build_final_event, which closes the segment.
Build(u) ==
  /\ u \in wire /\ handling = {}
  /\ wire' = wire \ {u}
  /\ IF Overtaken(u)
     THEN UNCHANGED <<watermark, handling, tracking>>
     ELSE /\ watermark' = u.n
          /\ handling' = {[segment |-> u.segment, kind |-> u.kind, n |-> u.n,
                           revision |-> Assigned(u).revision]}
          /\ tracking' = IF IsFinal(u) THEN [active |-> NoSegment, revision |-> 0]
                                       ELSE Assigned(u)
  /\ lost' = (lost \/ \E v \in wire : v.n < u.n)
  /\ UNCHANGED <<speechVars, link, shown, submitted, cleanups, finals, upsets>>

\* handle_event: a final takes the place of the partial and is given to the translation.
HandleEvent ==
  \E e \in handling :
    /\ shown' = IF IsFinal(e) THEN None ELSE e
    /\ submitted' = IF IsFinal(e) THEN submitted \union {e} ELSE submitted
    /\ handling' = {}
    /\ UNCHANGED <<speechVars, link, wire, watermark, tracking, cleanups, finals, upsets, lost>>

-----------------------------------------------------------------------------
(* The connection *)

\* The newest updates may be lost with it.
DropSocket ==
  /\ link.open
  /\ Upset("drop")
  /\ link' = [open |-> FALSE, unnoticed |-> TRUE]
  /\ \E k \in 0..page.sent : wire' = {u \in wire : u.n <= k}
  /\ lost' = TRUE
  /\ UNCHANGED <<speechVars, backendVars, cleanups, finals>>

\* disconnect, on_worker_disconnected; a connection that is replaced before is ignored.
Noticed ==
  /\ link.unnoticed
  /\ link' = [link EXCEPT !.unnoticed = FALSE]
  /\ cleanups' = [cleanups EXCEPT !.screen = @ + 1]
  /\ UNCHANGED <<speechVars, wire, backendVars, finals, upsets, lost>>

Reconnect ==
  /\ ~link.open
  /\ link' = [open |-> TRUE, unnoticed |-> FALSE]
  /\ UNCHANGED <<speechVars, wire, backendVars, cleanups, finals, upsets, lost>>

ClearScreen ==
  /\ cleanups.screen > 0
  /\ cleanups' = [screen |-> cleanups.screen - 1, segments |-> cleanups.segments + 1]
  /\ shown' = None
  /\ UNCHANGED <<speechVars, link, wire, watermark, handling, tracking, submitted, finals, upsets, lost>>

ClearTracking ==
  /\ cleanups.segments > 0
  /\ cleanups' = [cleanups EXCEPT !.segments = @ - 1]
  /\ tracking' = [active |-> NoSegment, revision |-> 0]
  /\ UNCHANGED <<speechVars, link, wire, watermark, handling, shown, submitted, finals, upsets, lost>>

SegmentsNext ==
  \/ \E t \in Texts : Interim(t) \/ Final(t)
  \/ \E i, f \in Texts : InterimAndFinal(i, f)
  \/ PressStart \/ Begins \/ Ends \/ FailsForGood \/ PressStop
  \/ ForceFinalize \/ Interrupt \/ ChangeSetting
  \/ \E u \in wire : Build(u)
  \/ HandleEvent
  \/ DropSocket \/ Noticed \/ Reconnect \/ ClearScreen \/ ClearTracking

SegmentsSpec == SegmentsInit /\ [][SegmentsNext]_segment_vars

\* A timer that runs fires, and the tasks of the server go on.
SegmentsFairness ==
  /\ WF_segment_vars(ForceFinalize)
  /\ WF_segment_vars(\E u \in wire : Build(u))
  /\ WF_segment_vars(HandleEvent)
  /\ WF_segment_vars(Noticed) /\ WF_segment_vars(ClearScreen) /\ WF_segment_vars(ClearTracking)

SegmentsFairSpec == SegmentsSpec /\ SegmentsFairness

-----------------------------------------------------------------------------
(* Properties *)

\* Every variable keeps its type.
SegmentsTypeOK ==
  /\ page.current \in Segments \union {NoSegment} /\ page.current <= page.ordinal
  /\ page.ordinal \in 0..MaxSegments /\ page.sent \in 0..MaxUpdates
  /\ {page.lastPartial, page.lastFinal, page.lastForced, page.partial} \subseteq Texts \union {NoText}
  /\ page.forced => page.current # NoSegment
  /\ watermark <= page.sent
  /\ \A u \in wire : u.segment \in Segments /\ u.n \in 1..page.sent
  /\ Cardinality(handling) <= 1
  /\ tracking.active = NoSegment <=> tracking.revision = 0

\* A segment is finalised at most twice, once by force and then by the recogniser, and
\* never twice with the same text, however the timer, the interruptions, late results
\* and restarts of the recogniser fall.
EachTextOnce ==
  \A s \in Segments : \A i, j \in DOMAIN finals[s] :
    i < j => /\ finals[s][i].kind = "forced" /\ finals[s][j].kind = "final"
             /\ finals[s][i].text # finals[s][j].text

\* The partial on the screen is newer than every final that was handled: no update that
\* is late brings back what a final has closed.
NewestIsShown ==
  shown # None => \A e \in submitted : e.n < shown.n

\* As long as no update was lost or overtaken, and no interim text lost its segment, a segment
\* and its revision name one final: the translation of a forced final is not given up for the
\* one that comes after it.
IdentityOfOneFinal ==
  ~lost => \A e, d \in submitted :
             e.segment = d.segment /\ e.revision = d.revision => e = d

\* While nothing is stopped, refused, switched off or disconnected, every partial on the
\* screen becomes a final, also if the recogniser never makes it one.
PartialSettles ==
  shown # None ~> shown = None \/ upsets > 0

===============================================================================
