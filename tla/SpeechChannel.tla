----------------------------- MODULE SpeechChannel -----------------------------
(***************************************************************************)
(* One text-to-speech channel: the waiting phrases (SpeechQueue), the pump *)
(* and the watchdog of ChannelOrchestrator, its enqueue, fetch and reset   *)
(* tasks, and the playback thread (PlaybackHub) with its two mailboxes.    *)
(*                                                                         *)
(* Every action is one critical section of a lock, one message, or what a  *)
(* task does between two awaits.  The channel's resets run one at a time.  *)
(* Phrases are opaque; a phrase is played in Chunks pieces.                *)
(***************************************************************************)
EXTENDS Integers, Sequences, FiniteSets

CONSTANTS
  Phrases,
  None,
  Cap,           \* max_queue_items
  PrefetchAhead, \* PREFETCH_AHEAD_MAX
  Chunks,        \* pieces of a fetched phrase
  MaxUpsets      \* bound on resets, watchdog recoveries and closed windows

ASSUME ChannelAssumption ==
  /\ None \notin Phrases \union (Phrases \X (1..Chunks)) /\ IsFiniteSet(Phrases)
  /\ Cap \in Nat \ {0} /\ PrefetchAhead \in Nat \ {0} /\ Chunks \in Nat \ {0}
  /\ MaxUpsets \in Nat

VARIABLES
  items, current, \* SpeechQueue: waiting phrases; the current one if Speaking
  st,             \* ChannelState without its map
  audio,          \* ChannelState.prefetched
  fetches,        \* run_prefetch tasks, by phrase
  enq,            \* enqueue tasks: where they are, what they dropped
  pump,           \* the pump task: where it is, its phrase, epoch and piece
  permit,         \* pump_notify
  mailbox, playing, finished, \* the playback thread
  waiter,         \* CompletionWaiter and the pump's receiver
  reset,          \* the task of clear() or set_enabled(false)
  rescue,         \* a recovery: of the watchdog, or of a closed window
  upsets

queueVars == <<items, current>>
fetchVars == <<audio, fetches>>
sinkVars == <<mailbox, playing, finished>>
channelVars == <<items, current, st, audio, fetches, enq, pump, permit, mailbox, playing,
                 finished, waiter, reset, rescue, upsets>>

\* What a fetch brought: pieces, or none because it failed or had nothing to say.
Fetched == {"nothing", "ready"}
Quiet(s) == [s EXCEPT !.speaking = FALSE, !.claim = FALSE]
BumpEpoch(s) == [Quiet(s) EXCEPT !.epoch = @ + 1]
Asleep == [pc |-> "wait", phrase |-> None, epoch |-> 0, chunk |-> 0]
NoTask == [pc |-> "none", phrase |-> None]

ChannelInit ==
  /\ items = <<>> /\ current = None
  /\ st = [enabled |-> TRUE, speaking |-> FALSE, claim |-> FALSE, epoch |-> 0, inflight |-> 0]
  /\ audio = [p \in Phrases |-> "absent"]
  /\ fetches = [p \in Phrases |-> 0]
  /\ enq = [p \in Phrases |-> [pc |-> "none", dropped |-> {}]]
  /\ pump = Asleep
  /\ permit = FALSE
  /\ mailbox = <<>> /\ playing = None /\ finished = <<>>
  /\ waiter = [key |-> None, answer |-> "none"]
  /\ reset = [pc |-> "none", off |-> FALSE]
  /\ rescue = NoTask
  /\ upsets = 0

Waiting == {items[i] : i \in DOMAIN items}
Notify == permit' = TRUE

\* The phrases of a snapshot that have no audio yet are fetched, also those whose fetch runs.
SchedulePrefetch(state, known) ==
  LET lacking == {i \in DOMAIN items : known[items[i]] \notin Fetched}
      taken == {i \in lacking :
                  state.inflight + Cardinality({j \in lacking : j < i}) < PrefetchAhead}
      times(p) == Cardinality({i \in taken : items[i] = p})
  IN /\ st' = [state EXCEPT !.inflight = @ + Cardinality(taken)]
     /\ fetches' = [p \in Phrases |-> fetches[p] + times(p)]
     /\ audio' = [p \in Phrases |-> IF times(p) > 0 THEN "pending" ELSE known[p]]

-----------------------------------------------------------------------------
(* enqueue *)

DropNewest(q) ==
  SubSeq(q, 1, IF Len(q) < Cap THEN Len(q) ELSE (IF Cap > 1 THEN Cap \div 2 ELSE 1))

\* A full queue is cut to half its capacity, its oldest phrases first.
AdaptiveDrop(q) ==
  LET low == IF Cap > 1 THEN Cap \div 2 ELSE 1
  IN IF Len(q) < Cap THEN q ELSE SubSeq(q, Len(q) - low + 1, Len(q))

Push(p) ==
  LET kept == AdaptiveDrop(items)
  IN /\ enq[p].pc = "asked"
     /\ items' = Append(kept, p)
     /\ enq' = [enq EXCEPT ![p] = [pc |-> "pushed", dropped |->
                                   Waiting \ {kept[i] : i \in DOMAIN kept}]]
     /\ UNCHANGED <<current, st, audio, fetches, pump, permit, sinkVars, waiter, reset, rescue, upsets>>

\* The map of the channel after the task removed what it dropped and entered its phrase.
Known(p) ==
  [q \in Phrases |-> IF q = p /\ (audio[q] = "absent" \/ q \in enq[p].dropped) THEN "pending"
                     ELSE IF q \in enq[p].dropped THEN "absent"
                     ELSE audio[q]]

Announce(p) ==
  /\ enq[p].pc = "pushed"
  /\ SchedulePrefetch(st, Known(p))
  /\ enq' = [enq EXCEPT ![p] = [pc |-> "none", dropped |-> {}]]
  /\ Notify
  /\ UNCHANGED <<queueVars, pump, sinkVars, waiter, reset, rescue, upsets>>

-----------------------------------------------------------------------------
(* Prefetch *)

\* A fetch ends; its audio is kept if the phrase is still known.
FinishPrefetch(p, result) ==
  /\ fetches[p] > 0
  /\ fetches' = [fetches EXCEPT ![p] = @ - 1]
  /\ st' = [st EXCEPT !.inflight = IF @ = 0 THEN 0 ELSE @ - 1]
  /\ audio' = IF audio[p] = "absent" THEN audio ELSE [audio EXCEPT ![p] = result]
  /\ Notify
  /\ UNCHANGED <<queueVars, enq, pump, sinkVars, waiter, reset, rescue, upsets>>

-----------------------------------------------------------------------------
(* The pump *)

At(label) == pump' = [pump EXCEPT !.pc = label]
Stale == pump.epoch # st.epoch \/ ~st.enabled

\* Woken by a permit, or coming from the phrase before.
PumpChecks ==
  /\ \/ pump.pc = "wait" /\ permit /\ permit' = FALSE
     \/ pump.pc = "check" /\ UNCHANGED permit
  /\ IF ~st.enabled \/ st.speaking \/ st.claim
     THEN pump' = Asleep
     ELSE pump' = [pump EXCEPT !.pc = "begin", !.epoch = st.epoch]
  /\ UNCHANGED <<queueVars, st, fetchVars, enq, sinkVars, waiter, reset, rescue, upsets>>

\* begin_next: nothing, while a phrase is current.
BeginNext ==
  /\ pump.pc = "begin"
  /\ IF current # None \/ items = <<>>
     THEN pump' = Asleep /\ UNCHANGED queueVars
     ELSE /\ current' = Head(items)
          /\ items' = Tail(items)
          /\ pump' = [pump EXCEPT !.pc = "claim", !.phrase = Head(items)]
  /\ UNCHANGED <<st, fetchVars, enq, permit, sinkVars, waiter, reset, rescue, upsets>>

\* While a phrase is prepared the next ones are fetched.
PumpClaims ==
  /\ pump.pc = "claim"
  /\ LET p == pump.phrase
         known == [audio EXCEPT ![p] = IF @ = "absent" THEN "pending" ELSE @]
     IN SchedulePrefetch([st EXCEPT !.claim = TRUE], known)
  /\ At("poll")
  /\ UNCHANGED <<queueVars, enq, permit, sinkVars, waiter, reset, rescue, upsets>>

ReturnHolding ==
  /\ st' = [st EXCEPT !.claim = FALSE]
  /\ audio' = [audio EXCEPT ![pump.phrase] = "absent"]
  /\ pump' = Asleep
  /\ UNCHANGED current

\* The channel was reset: the pump gives its phrase up and waits.
GiveUp ==
  /\ st' = [st EXCEPT !.claim = FALSE]
  /\ current' = None
  /\ audio' = [audio EXCEPT ![pump.phrase] = "absent"]
  /\ pump' = Asleep

PumpPolls ==
  /\ pump.pc = "poll"
  /\ \/ Stale /\ GiveUp
     \/ /\ ~Stale
        /\ \/ audio[pump.phrase] = "ready" /\ At("start")
           \/ audio[pump.phrase] = "nothing" /\ \E end \in {"finish", "finish empty"} : At(end)
        /\ UNCHANGED <<st, current, audio>>
  /\ UNCHANGED <<items, fetches, enq, permit, sinkVars, waiter, reset, rescue, upsets>>

\* Volume and rate were read meanwhile, so the epoch is compared again.
PumpStarts ==
  /\ pump.pc = "start"
  /\ \/ Stale /\ GiveUp
     \/ /\ ~Stale
        /\ st' = [st EXCEPT !.speaking = TRUE, !.claim = FALSE]
        /\ pump' = [pump EXCEPT !.pc = "chunk", !.chunk = 1]
        /\ UNCHANGED <<current, audio>>
  /\ UNCHANGED <<items, fetches, enq, permit, sinkVars, waiter, reset, rescue, upsets>>

PumpChecksChunk ==
  /\ pump.pc = "chunk"
  /\ At(IF Stale THEN "finish" ELSE "play")
  /\ UNCHANGED <<queueVars, st, fetchVars, enq, permit, sinkVars, waiter, reset, rescue, upsets>>

PumpPlays ==
  /\ pump.pc = "play"
  /\ mailbox' = Append(mailbox, <<pump.phrase, pump.chunk>>)
  /\ At("register")
  /\ UNCHANGED <<queueVars, st, fetchVars, enq, permit, playing, finished, waiter, reset, rescue, upsets>>

\* The receiver is made after the piece was sent: an answer may already be lost.
PumpRegisters ==
  /\ pump.pc = "register"
  /\ waiter' = [key |-> <<pump.phrase, pump.chunk>>, answer |-> "none"]
  /\ At("await")
  /\ UNCHANGED <<queueVars, st, fetchVars, enq, permit, sinkVars, reset, rescue, upsets>>

PumpHears ==
  /\ pump.pc = "await" /\ waiter.answer # "none"
  /\ pump' = IF waiter.answer = "ok" /\ pump.chunk < Chunks
             THEN [pump EXCEPT !.pc = "chunk", !.chunk = @ + 1]
             ELSE [pump EXCEPT !.pc = "finish"]
  /\ waiter' = [key |-> None, answer |-> "none"]
  /\ UNCHANGED <<queueVars, st, fetchVars, enq, permit, sinkVars, reset, rescue, upsets>>

\* mark_finished leaves the queue idle, whichever phrase was current.  After an empty fetch
\* nothing more is fetched.
PumpFinishes ==
  /\ pump.pc \in {"finish", "finish empty"}
  /\ current' = None
  /\ LET known == [audio EXCEPT ![pump.phrase] = "absent"]
     IN IF pump.pc = "finish"
        THEN SchedulePrefetch(Quiet(st), known)
        ELSE st' = Quiet(st) /\ audio' = known /\ UNCHANGED fetches
  /\ pump' = [Asleep EXCEPT !.pc = "check"]
  /\ UNCHANGED <<items, enq, permit, sinkVars, waiter, reset, rescue, upsets>>

PumpStep ==
  \/ PumpChecks \/ BeginNext \/ PumpClaims \/ PumpPolls \/ PumpStarts \/ PumpChecksChunk
  \/ PumpPlays \/ PumpRegisters \/ PumpHears \/ PumpFinishes

-----------------------------------------------------------------------------
(* The playback thread: a piece is a pair, a stop is None *)

PlayerIdle ==
  /\ playing = None /\ mailbox # <<>>
  /\ IF Head(mailbox) = None
     THEN mailbox' = <<>> /\ UNCHANGED playing
     ELSE mailbox' = Tail(mailbox) /\ playing' = Head(mailbox)
  /\ UNCHANGED <<queueVars, st, fetchVars, enq, pump, permit, finished, waiter, reset, rescue, upsets>>

StopDrainsOnly ==
  /\ playing # None /\ mailbox # <<>>
  /\ mailbox' = IF Head(mailbox) = None THEN <<>> ELSE Tail(mailbox)
  /\ UNCHANGED <<queueVars, st, fetchVars, enq, pump, permit, playing, finished, waiter, reset, rescue, upsets>>

\* A stop empties the mailbox; a piece that comes while one is played is dropped.
PlayerBusy ==
  /\ playing # None /\ mailbox # <<>>
  /\ IF Head(mailbox) = None
     THEN /\ mailbox' = <<>> /\ playing' = None
          /\ finished' = Append(finished, [key |-> playing, ok |-> FALSE])
     ELSE mailbox' = Tail(mailbox) /\ UNCHANGED <<playing, finished>>
  /\ UNCHANGED <<queueVars, st, fetchVars, enq, pump, permit, waiter, reset, rescue, upsets>>

PlayerEnds(ok) ==
  /\ playing # None
  /\ playing' = None
  /\ finished' = Append(finished, [key |-> playing, ok |-> ok])
  /\ UNCHANGED <<queueVars, st, fetchVars, enq, pump, permit, mailbox, waiter, reset, rescue, upsets>>

\* on_playback_finished
Deliver ==
  /\ finished # <<>>
  /\ finished' = Tail(finished)
  /\ waiter' = IF waiter.key # Head(finished).key THEN waiter
               ELSE [key |-> None, answer |-> IF Head(finished).ok THEN "ok" ELSE "failed"]
  /\ Notify
  /\ UNCHANGED <<queueVars, st, fetchVars, enq, pump, mailbox, playing, reset, rescue, upsets>>

-----------------------------------------------------------------------------
(* clear() and set_enabled() *)

AskReset(off) ==
  /\ reset.pc = "none" /\ upsets < MaxUpsets
  /\ reset' = [pc |-> "bump", off |-> off]
  /\ upsets' = upsets + 1

ResetBumps ==
  /\ reset.pc = "bump"
  /\ IF reset.off /\ ~st.enabled
     THEN reset' = [reset EXCEPT !.pc = "none"] /\ UNCHANGED <<st, audio>>
     ELSE /\ reset' = [reset EXCEPT !.pc = "cancel"]
          /\ st' = [BumpEpoch(st) EXCEPT !.inflight = 0, !.enabled = @ /\ ~reset.off]
          /\ audio' = [p \in Phrases |-> "absent"]
  /\ UNCHANGED <<queueVars, fetches, enq, pump, permit, sinkVars, waiter, rescue, upsets>>

\* cancel_channel: the receiver of a waiting pump is closed.
ResetCancels ==
  /\ reset.pc = "cancel"
  /\ reset' = [reset EXCEPT !.pc = "queue"]
  /\ waiter' = IF waiter.key = None THEN waiter ELSE [key |-> None, answer |-> "failed"]
  /\ UNCHANGED <<queueVars, st, fetchVars, enq, pump, permit, sinkVars, rescue, upsets>>

ClearQueue ==
  /\ reset.pc = "queue"
  /\ reset' = [reset EXCEPT !.pc = "stop"]
  /\ items' = <<>> /\ current' = None
  /\ UNCHANGED <<st, fetchVars, enq, pump, permit, sinkVars, waiter, rescue, upsets>>

ResetStops ==
  /\ reset.pc = "stop"
  /\ reset' = [reset EXCEPT !.pc = "none"]
  /\ mailbox' = Append(mailbox, None)
  /\ Notify
  /\ UNCHANGED <<queueVars, st, fetchVars, enq, pump, playing, finished, waiter, rescue, upsets>>

Enable ==
  /\ ~st.enabled
  /\ st' = [st EXCEPT !.enabled = TRUE]
  /\ Notify
  /\ UNCHANGED <<queueVars, fetchVars, enq, pump, sinkVars, waiter, reset, rescue, upsets>>

-----------------------------------------------------------------------------
(* check_stuck, and recover_tts_after_window_closed *)

\* A phrase may be spoken for longer than SPEAK_STUCK_TIMEOUT.
WatchdogBites ==
  /\ rescue.pc = "none" /\ st.speaking /\ upsets < MaxUpsets
  /\ rescue' = [pc |-> "stop", phrase |-> pump.phrase]
  /\ upsets' = upsets + 1
  /\ UNCHANGED <<queueVars, st, fetchVars, enq, pump, permit, sinkVars, waiter, reset>>

WindowCloses ==
  /\ rescue.pc = "none" /\ upsets < MaxUpsets
  /\ rescue' = [pc |-> "stop", phrase |-> None]
  /\ upsets' = upsets + 1
  /\ UNCHANGED <<queueVars, st, fetchVars, enq, pump, permit, sinkVars, waiter, reset>>

\* The player is stopped and the queue forced idle; a closed window asks for nothing more.
RescueStops ==
  /\ rescue.pc = "stop"
  /\ rescue' = IF rescue.phrase = None THEN NoTask ELSE [rescue EXCEPT !.pc = "bump"]
  /\ mailbox' = Append(mailbox, None)
  /\ current' = None
  /\ UNCHANGED <<items, st, fetchVars, enq, pump, permit, playing, finished, waiter, reset, upsets>>

WatchdogWakes ==
  /\ rescue.pc = "bump"
  /\ rescue' = NoTask
  /\ SchedulePrefetch(BumpEpoch(st), [audio EXCEPT ![rescue.phrase] = "absent"])
  /\ Notify
  /\ UNCHANGED <<queueVars, enq, pump, sinkVars, waiter, reset, upsets>>

RescueStep == RescueStops \/ WatchdogWakes

PlayerStep == PlayerIdle \/ PlayerBusy \/ Deliver \/ \E ok \in BOOLEAN : PlayerEnds(ok)

ResetStep == ResetBumps \/ ResetCancels \/ ResetStops
=============================================================================
