------------------------------ MODULE ObsCaptions ------------------------------
(***************************************************************************)
(* Closed captions in OBS (ObsCaptionService): publications are queued, a  *)
(* worker sends them one after the other to the stream and to a mirror     *)
(* text source, each final is cleared some time later, a connection task   *)
(* keeps the websocket, and requests of the user start, stop and           *)
(* reconfigure the service, one at a time.                                 *)
(*                                                                         *)
(* A generation is only ever compared with the present one, so that an     *)
(* item carries whether its generation is still the present one.  Time is  *)
(* left open: a delay ends, and a partial is throttled, at any moment.     *)
(***************************************************************************)
EXTENDS Integers, Sequences, SequencesExt, FiniteSets

CONSTANTS
  Texts,      \* captions after normalize_text
  Blank,      \* nothing to show
  Settings,   \* configurations that the user may choose, as records
  OutboxMax,  \* QUEUE_MAX_SIZE
  MaxFinals,  \* bound on the finals that are spoken
  MaxPublish, \* bound on publications
  MaxTrouble  \* bound on failures of OBS and on requests after the first start

ASSUME CaptionsAssumption == Blank \notin Texts /\ MaxFinals \in Nat

VARIABLES
  settings,   \* the configuration
  said,       \* the texts of the finals, numbered in the order they were spoken
  published,  \* number of publications
  announcing, \* a publication that has not been queued yet, for each publisher
  outbox,     \* ObsCaptionService.queue
  sender,     \* the worker task
  memory,     \* what was sent last: partial, signature of a payload, caption, mirror text
  inactive,   \* diagnostics.stream_output_active is false
  client,     \* the endpoint that the client is connected to, or None
  dialler,    \* the connection task
  desired,    \* desired_connection
  request,    \* the request of the user that is being carried out
  screen,     \* what OBS shows
  trouble,    \* number of failures and requests
  excused     \* what happened that may leave a caption where it is

obsVars == <<settings, said, published, announcing, outbox, sender, memory, inactive, client,
             dialler, desired, request, screen, trouble, excused>>

spokenVars == <<settings, said, published>>
linkVars == <<client, dialler, desired>>
userVars == <<request, screen, trouble>>

None == "none"
Sinks == {"stream", "mirror"}
Publishers == {"source", "payload"}

Nothing == [n |-> 0, text |-> Blank, final |-> FALSE]
Absent == [pc |-> None]
Idle == [pc |-> "idle"]

Excuse(lost) == excused' = IF lost THEN excused \union {"lost"} ELSE excused

\* native_enabled, debug_text_input_enabled and the outputs of each handler.
ShouldConnect(c) == c.native \/ c.mirror
SourceSinks(c) ==
  {s \in Sinks : c.mode = "source" /\ ((s = "stream" /\ c.native) \/ (s = "mirror" /\ c.mirror))}
PayloadSinks(c) ==
  {s \in Sinks : (s = "stream" /\ c.native /\ c.mode = "payload") \/ (s = "mirror" /\ c.mirror)}
PartialSinks(c) ==
  {s \in SourceSinks(c) : IF s = "stream" THEN ~inactive /\ c.partials ELSE c.partials}

ObsInit ==
  /\ settings \in Settings
  /\ said = <<>> /\ published = 0
  /\ announcing = [p \in Publishers |-> <<>>]
  /\ outbox = <<>> /\ sender = Absent
  /\ memory = [partial |-> Blank, payload |-> <<>>, stream |-> None, mirror |-> None]
  /\ inactive = FALSE
  /\ client = None /\ dialler = Absent /\ desired = FALSE
  /\ request = None
  /\ screen = [s \in Sinks |-> Nothing]
  /\ trouble = 0 /\ excused = {}

-----------------------------------------------------------------------------
(* Publications *)

\* A bumped generation: what waits or sleeps with the older one is stale.
Stale(item, kinds) == IF item.kind \in kinds THEN [item EXCEPT !.fresh = FALSE] ELSE item
Bump(kinds) ==
  /\ outbox' = [i \in DOMAIN outbox |-> Stale(outbox[i], kinds)]
  /\ sender' = IF sender.pc = "sleep" THEN [sender EXCEPT !.item = Stale(@, kinds)] ELSE sender

Item(kind, n, text, bumps) == [kind |-> kind, n |-> n, text |-> text, bumps |-> bumps]
Delayed(kind, n, text, sinks) ==
  [kind |-> kind, n |-> n, text |-> text, sinks |-> sinks, fresh |-> TRUE]

\* The full queue loses its oldest item.
Pushed(q, item) == Append(IF Len(q) >= OutboxMax THEN Tail(q) ELSE q, item)
Overflows(q) == Len(q) >= OutboxMax

Announce(p, item) ==
  /\ announcing[p] = <<>> /\ published < MaxPublish
  /\ published' = published + 1
  /\ announcing' = [announcing EXCEPT ![p] = <<item>>]

SupersedesAlways(n, text) ==
  PayloadSinks(settings) # {} /\ settings.mode = "payload" /\ text # Blank

\* payload_will_supersede_caption
Supersedes(n, text) ==
  /\ PayloadSinks(settings) # {} /\ settings.mode = "payload" /\ text # Blank
  /\ ~(settings.dedupe /\ memory.payload = <<n, text>>)

\* publish_source
PublishPartial ==
  /\ Len(said) < MaxFinals
  /\ \E text \in Texts : Announce("source", Item("partial", Len(said) + 1, text, FALSE))
  /\ UNCHANGED <<settings, said, outbox, sender, memory, inactive, linkVars, userVars, excused>>

\* In a mode that shows payloads the final only cancels the clear of the caption before.
PublishFinal ==
  /\ settings.mode = "source" => Len(said) < MaxFinals
  /\ \E text \in Texts :
       /\ Announce("source", Item("final", Len(said) + 1, text, FALSE))
       /\ said' = IF settings.mode = "source" THEN Append(said, text) ELSE said
  /\ Bump({"send", "clear"})
  /\ Excuse(settings.mode = "payload")
  /\ UNCHANGED <<settings, memory, inactive, linkVars, userVars>>

\* publish_payload: a new block, one that was published before, or nothing to show.
PublishPayload ==
  /\ \E text \in Texts \union {Blank}, n \in 1..MaxFinals :
       /\ \/ settings.mode = "payload" /\ n = Len(said) + 1 /\ text # Blank /\ said' = Append(said, text)
          \/ n = Len(said) /\ text \in {said[n], Blank} /\ UNCHANGED said
       /\ Announce("payload", Item("payload", n, text, Supersedes(n, text)))
  /\ UNCHANGED <<settings, outbox, sender, memory, inactive, linkVars, userVars, excused>>

\* The answer may be out of date: the worker may have met the same payload meanwhile.
BumpForPayload ==
  /\ announcing["payload"] # <<>> /\ announcing["payload"][1].bumps
  /\ LET item == announcing["payload"][1]
     IN /\ announcing' = [announcing EXCEPT !["payload"] = <<[item EXCEPT !.bumps = FALSE]>>]
        /\ Bump({"send", "clear"})
        /\ Excuse(~Supersedes(item.n, item.text))
  /\ UNCHANGED <<spokenVars, memory, inactive, linkVars, userVars>>

\* The question whether the worker runs is a try_lock, which fails while a request of the user or
\* the other publisher holds the lock.
Refused(p) ==
  sender.pc = None \/ request = "abort" \/ \E q \in Publishers \ {p} : announcing[q] # <<>>

\* drop_queued_partials: at most one is queued, because each takes the place of the one before.
WithoutPartials(q) ==
  LET partials == {i \in DOMAIN q : q[i].kind = "partial"}
  IN IF partials = {} THEN q ELSE RemoveAt(q, CHOOSE i \in partials : TRUE)

Enqueue(p) ==
  /\ announcing[p] # <<>> /\ ~announcing[p][1].bumps
  /\ announcing' = [announcing EXCEPT ![p] = <<>>]
  /\ \/ /\ Refused(p)
        /\ Excuse(TRUE)
        /\ UNCHANGED outbox
     \/ /\ sender.pc # None
        /\ LET q == IF announcing[p][1].kind = "partial" THEN WithoutPartials(outbox) ELSE outbox
           IN /\ outbox' = Pushed(q, announcing[p][1])
              /\ Excuse(Overflows(q))
  /\ UNCHANGED <<spokenVars, sender, memory, inactive, linkVars, userVars>>

-----------------------------------------------------------------------------
(* The worker *)

EnsureDialler == dialler' = IF dialler.pc = None THEN [pc |-> "check"] ELSE dialler

\* send_text begins; the configuration it was called with is kept.
Send(item, sinks, force, clears) ==
  sender' = [pc |-> "send", n |-> item.n, text |-> item.text, sinks |-> sinks, asked |-> sinks,
             force |-> force, clears |-> clears, final |-> item.kind # "partial", conf |-> settings]

\* A delayed item goes to the end of the queue.
Postpone(q, item) ==
  \/ /\ outbox' = Pushed(q, item)
     /\ Excuse(Overflows(q))
  \/ /\ request = "abort" \/ \E p \in Publishers : announcing[p] # <<>>
     /\ outbox' = q /\ Excuse(TRUE)

\* schedule_final_send
Schedule(q, item, sinks) ==
  IF settings.delay
  THEN Postpone(q, Delayed("send", item.n, item.text, sinks)) /\ sender' = Idle
  ELSE Send(item, sinks, FALSE, TRUE) /\ outbox' = q /\ UNCHANGED excused

Skip(q) == sender' = Idle /\ outbox' = q /\ UNCHANGED <<memory, excused>>

HandlePartial(q, item) ==
  LET sinks == PartialSinks(settings)
  IN \/ /\ sinks = {} \/ memory.partial # Blank
        /\ Skip(q)
     \/ /\ sinks # {} /\ item.text # memory.partial
        /\ memory' = [memory EXCEPT !.partial = item.text]
        /\ Send(item, sinks, ~settings.dedupe, FALSE)
        /\ outbox' = q /\ UNCHANGED excused

HandleFinal(q, item) ==
  IF SourceSinks(settings) = {} THEN Skip(q)
  ELSE /\ memory' = [memory EXCEPT !.partial = Blank, !.payload = <<>>]
       /\ Schedule(q, item, SourceSinks(settings))

HandlePayload(q, item) ==
  IF \/ PayloadSinks(settings) = {} \/ settings.mode # "payload" \/ item.text = Blank
     \/ settings.dedupe /\ memory.payload = <<item.n, item.text>>
  THEN Skip(q)
  ELSE /\ memory' = [memory EXCEPT !.payload = <<item.n, item.text>>]
       /\ Schedule(q, item, PayloadSinks(settings))

TakeItem ==
  /\ sender.pc = "idle" /\ outbox # <<>>
  /\ LET item == Head(outbox)
         q == Tail(outbox)
     IN \/ item.kind = "partial" /\ HandlePartial(q, item)
        \/ item.kind = "final" /\ HandleFinal(q, item)
        \/ item.kind = "payload" /\ HandlePayload(q, item)
        \/ /\ item.kind \in {"send", "clear"}
           /\ sender' = [pc |-> "sleep", item |-> item]
           /\ outbox' = q
           /\ UNCHANGED <<memory, excused>>
  /\ UNCHANGED <<spokenVars, announcing, inactive, linkVars, userVars>>

Wake ==
  /\ sender.pc = "sleep"
  /\ LET item == sender.item
     IN CASE ~item.fresh -> sender' = Idle
          [] item.fresh /\ item.kind = "send" -> Send(item, item.sinks, FALSE, TRUE)
          [] OTHER -> Send([item EXCEPT !.text = Blank], item.sinks, TRUE, FALSE)
  /\ UNCHANGED <<spokenVars, announcing, outbox, memory, inactive, linkVars, userVars, excused>>

\* Without a client the worker asks for a connection and waits for it, at most three seconds.
SeekClient ==
  /\ sender.pc = "send"
  /\ IF client # None
     THEN sender' = [sender EXCEPT !.pc = "lock"] /\ UNCHANGED <<dialler, desired, excused>>
     ELSE IF ShouldConnect(sender.conf)
     THEN /\ sender' = [sender EXCEPT !.pc = "wait"]
          /\ desired' = TRUE /\ EnsureDialler
          /\ UNCHANGED excused
     ELSE sender' = Idle /\ Excuse(TRUE) /\ UNCHANGED <<dialler, desired>>
  /\ UNCHANGED <<spokenVars, announcing, outbox, memory, inactive, client, userVars>>

AwaitClient ==
  /\ sender.pc = "wait"
  /\ \/ client # None /\ sender' = [sender EXCEPT !.pc = "lock"] /\ UNCHANGED excused
     \/ sender' = Idle /\ Excuse(TRUE)
  /\ UNCHANGED <<spokenVars, announcing, outbox, memory, inactive, linkVars, userVars>>

\* The client is the worker's now; what OBS already shows is not sent again.
NeedsSending(s) ==
  sender.conf.dedupe /\ ~sender.force => memory[s] # sender.text

Lock ==
  /\ sender.pc = "lock"
  /\ LET sinks == {s \in sender.sinks : NeedsSending(s)}
     IN /\ sender' = IF client = None \/ sinks = {} THEN Idle
                     ELSE [sender EXCEPT !.pc = IF "mirror" \in sinks THEN "mirror" ELSE "stream",
                                         !.sinks = sinks]
        /\ excused' = excused \union {why \in {"lost", "same"} :
                                  IF why = "lost" THEN client = None
                                  ELSE sender.clears /\ sinks # sender.sinks}
  /\ UNCHANGED <<spokenVars, announcing, outbox, memory, inactive, linkVars, userVars>>

Requesting == sender.pc \in Sinks

Shows(s, text) ==
  screen' = [screen EXCEPT ![s] = IF sender.text = Blank THEN [@ EXCEPT !.text = Blank]
                                  ELSE [n |-> sender.n, text |-> text, final |-> sender.final]]
Display(s) == Shows(s, sender.text)

ClearLaterToo(sinks) ==
  IF sender.clears /\ sender.text # Blank /\ sender.conf.clear /\ sinks # {}
  THEN Postpone(outbox, Delayed("clear", sender.n, sender.text, sinks))
  ELSE UNCHANGED <<outbox, excused>>

\* enqueue_clear: every older clear is stale.
ClearLater(sinks) ==
  IF sender.clears /\ sender.text # Blank /\ sender.conf.clear /\ sinks # {}
  THEN Postpone([i \in DOMAIN outbox |-> Stale(outbox[i], {"clear"})],
                Delayed("clear", sender.n, sender.text, sinks))
  ELSE UNCHANGED <<outbox, excused>>

MirrorSent ==
  /\ sender.pc = "mirror"
  /\ Display("mirror")
  /\ memory' = [memory EXCEPT !.mirror = sender.text]
  /\ IF "stream" \in sender.sinks
     THEN sender' = [sender EXCEPT !.pc = "stream"] /\ UNCHANGED <<outbox, excused>>
     ELSE sender' = Idle /\ ClearLater(sender.sinks)
  /\ UNCHANGED <<spokenVars, announcing, inactive, linkVars, request, trouble>>

CaptionSent ==
  /\ sender.pc = "stream"
  /\ Display("stream")
  /\ memory' = [memory EXCEPT !.stream = sender.text]
  /\ inactive' = FALSE
  /\ sender' = Idle /\ ClearLater(sender.sinks)
  /\ UNCHANGED <<spokenVars, announcing, linkVars, request, trouble>>

\* OBS does not stream (501), so that it shows no caption: the mirror alone is cleared.
CaptionRejected ==
  /\ sender.pc = "stream" /\ trouble < MaxTrouble
  /\ trouble' = trouble + 1
  /\ inactive' = TRUE
  /\ Shows("stream", Blank)
  /\ sender' = Idle /\ ClearLater(sender.asked \intersect {"mirror"})
  /\ UNCHANGED <<spokenVars, announcing, memory, linkVars, request>>

\* A request fails or its answer is lost; only after a caption is the client given up.
SendFails ==
  /\ Requesting /\ trouble < MaxTrouble
  /\ trouble' = trouble + 1 /\ Excuse(TRUE)
  /\ sender' = Idle
  /\ Display(sender.pc) \/ UNCHANGED screen
  /\ IF sender.pc = "stream" THEN client' = None /\ EnsureDialler ELSE UNCHANGED <<client, dialler>>
  /\ UNCHANGED <<spokenVars, announcing, outbox, memory, inactive, desired, request>>

SenderStep ==
  \/ TakeItem \/ Wake \/ SeekClient \/ AwaitClient \/ Lock \/ MirrorSent \/ CaptionSent

-----------------------------------------------------------------------------
(* The connection task *)

DiallerChecks ==
  /\ dialler.pc = "check"
  /\ dialler' = IF ~desired \/ ~ShouldConnect(settings) THEN Absent
                ELSE IF client # None THEN [pc |-> "sleep"]
                ELSE [pc |-> "connect", host |-> settings.host]
  /\ UNCHANGED <<spokenVars, announcing, outbox, sender, memory, inactive, client, desired, userVars, excused>>

\* Connected with the configuration it began with; or refused, and tried again later.
DiallerConnects ==
  /\ dialler.pc = "connect"
  /\ client' = dialler.host
  /\ dialler' = [pc |-> "check"]
  /\ inactive' \in IF settings.native THEN BOOLEAN ELSE {FALSE}
  /\ UNCHANGED <<spokenVars, announcing, outbox, sender, memory, desired, userVars, excused>>

DiallerRefused ==
  /\ dialler.pc = "connect"
  /\ dialler' = [pc |-> "check"]
  /\ UNCHANGED <<spokenVars, announcing, outbox, sender, memory, inactive, client, desired, userVars, excused>>

\* The ping waits until the worker's request is answered.
DiallerPings ==
  /\ dialler.pc = "sleep" /\ ~Requesting
  /\ \/ /\ dialler' = IF desired THEN [pc |-> "check"] ELSE Absent
        /\ UNCHANGED <<client, trouble, excused>>
     \/ /\ desired /\ client # None /\ trouble < MaxTrouble
        /\ trouble' = trouble + 1 /\ Excuse(TRUE)
        /\ client' = None /\ dialler' = [pc |-> "check"]
  /\ UNCHANGED <<spokenVars, announcing, outbox, sender, memory, inactive, desired, request, screen>>

DiallerStep == DiallerChecks \/ DiallerConnects \/ DiallerPings

-----------------------------------------------------------------------------
(* Requests of the user: start, stop, apply_live_settings *)

Start ==
  /\ request = None /\ sender.pc = None
  /\ sender' = Idle /\ request' = "apply"
  /\ UNCHANGED <<spokenVars, announcing, outbox, memory, inactive, linkVars, screen, trouble, excused>>

ChangeSettings ==
  /\ request = None /\ sender.pc # None /\ trouble < MaxTrouble
  /\ settings' \in Settings \ {settings}
  /\ request' = "apply" /\ trouble' = trouble + 1 /\ Excuse(TRUE)
  /\ UNCHANGED <<said, published, announcing, outbox, sender, memory, inactive, linkVars, screen>>

ApplyLive ==
  /\ request = "apply" /\ ~Requesting
  /\ IF ShouldConnect(settings)
     THEN /\ Bump({"send", "clear"})
          /\ client' = IF client = settings.host THEN client ELSE None
          /\ desired' = TRUE /\ EnsureDialler
          /\ request' = None
          /\ Excuse(sender.pc = "sleep" \/ outbox # <<>>)
     ELSE /\ sender' = IF sender.pc = "sleep"
                       THEN [sender EXCEPT !.item = Stale(@, {"send", "clear"})] ELSE sender
          /\ outbox' = <<>> /\ desired' = FALSE /\ request' = "wipe"
          /\ Excuse(TRUE)
          /\ UNCHANGED <<client, dialler>>
  /\ UNCHANGED <<spokenVars, announcing, memory, inactive, screen, trouble>>

Stop ==
  /\ request = None /\ sender.pc # None /\ trouble < MaxTrouble
  /\ request' = "wipe and abort" /\ trouble' = trouble + 1 /\ Excuse(TRUE)
  /\ sender' = IF sender.pc = "sleep"
               THEN [sender EXCEPT !.item = Stale(@, {"send", "clear"})] ELSE sender
  /\ outbox' = <<>> /\ desired' = FALSE
  /\ UNCHANGED <<spokenVars, announcing, memory, inactive, client, dialler, screen>>

\* clear_remote_outputs_if_possible, whichever of its requests succeed; the mirror
\* counts as wiped in any case.
WipeOutputs ==
  /\ request \in {"wipe", "wipe and abort"} /\ ~Requesting
  /\ request' = IF request = "wipe" THEN "hang up" ELSE "hang up and abort"
  /\ LET wiped == {s \in Sinks : client # None /\ memory[s] # None}
     IN \E done \in SUBSET wiped :
          /\ screen' = [s \in Sinks |-> IF s \in done THEN Nothing ELSE screen[s]]
          /\ memory' = [k \in DOMAIN memory |->
                          IF k \in done \/ k \in wiped \intersect {"mirror"} THEN Blank ELSE memory[k]]
  /\ UNCHANGED <<spokenVars, announcing, outbox, sender, inactive, linkVars, trouble, excused>>

\* The connection task is aborted and the client closed.
HangUp ==
  /\ request \in {"hang up", "hang up and abort"} /\ ~Requesting
  /\ request' = IF request = "hang up" THEN None ELSE "abort"
  /\ dialler' = Absent /\ client' = None /\ inactive' = FALSE
  /\ UNCHANGED <<spokenVars, announcing, outbox, sender, memory, desired, screen, trouble, excused>>

AbortSender ==
  /\ request = "abort"
  /\ request' = None
  /\ sender' = Absent /\ outbox' = <<>>
  /\ memory' = [memory EXCEPT !.partial = Blank, !.payload = <<>>]
  /\ UNCHANGED <<spokenVars, announcing, inactive, linkVars, screen, trouble, excused>>

RequestStep == ApplyLive \/ WipeOutputs \/ HangUp \/ AbortSender

ObsNext ==
  \/ PublishPartial \/ PublishFinal \/ PublishPayload \/ BumpForPayload
  \/ \E p \in Publishers : Enqueue(p)
  \/ SenderStep \/ CaptionRejected \/ SendFails
  \/ DiallerStep \/ DiallerRefused
  \/ Start \/ ChangeSettings \/ Stop \/ RequestStep

ObsSpec == ObsInit /\ [][ObsNext]_obsVars

-----------------------------------------------------------------------------
(* Properties *)

\* A clear that is sent, late as it may be, never takes away a final newer than the one it was
\* scheduled for, unless both are the same text.
ClearHitsItsCaption ==
  Requesting /\ sender.text = Blank /\ excused = {} =>
    \A s \in sender.sinks :
      screen[s].final /\ screen[s].text # Blank => screen[s].n <= sender.n

AllQuiet == sender.pc = "idle" /\ outbox = <<>> /\ \A p \in Publishers : announcing[p] = <<>>

FinalSinks == IF settings.mode = "payload" THEN PayloadSinks(settings) ELSE SourceSinks(settings)
Spent(s) ==
  screen[s].n >= Len(said) /\ (screen[s].n = Len(said) /\ settings.clear => screen[s].text = Blank)

\* When everything was sent and every delay has passed, the newest final is the last that was
\* shown and it is not left on the screen, unless something failed, was lost or was changed, or
\* a final was left out because OBS showed its text already.
CaptionsSettle ==
  AllQuiet /\ excused = {} => \A s \in FinalSinks : Spent(s)

\* docs/CHANGELOG.md, OBS captions: a payload that is left out as a duplicate does not cancel the
\* pending clear, so that no payload is left on the screen.
DedupKeepsClear ==
  AllQuiet /\ settings.mode = "payload" /\ "lost" \notin excused => \A s \in FinalSinks : Spent(s)
=============================================================================
