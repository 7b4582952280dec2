---------------------------- MODULE SpeechPipeline ----------------------------
(***************************************************************************)
(* Subtitles to speech (TtsSpeechPipeline, SubtitleSpeechPlanner): each    *)
(* published payload is planned, a line that was planned before is left    *)
(* out, and the new lines join the speech channel as phrases.  A line that *)
(* is dropped or cleared before it is spoken may be planned again.         *)
(*                                                                         *)
(* A line is one text of one slot of one sequence; sequences are fewer     *)
(* than the 384 after which keys are pruned.                               *)
(* Assumed of time: the reset of a stopped session has run before the next *)
(* one starts, and a line that a reset released is planned again only when *)
(* no task, piece or answer of its earlier life is left.                   *)
(***************************************************************************)
EXTENDS SpeechChannel

CONSTANTS Blocks \* the lines of each sequence that may be spoken

ASSUME PipelineAssumption == Blocks \subseteq SUBSET Phrases

VARIABLES
  active,  \* runtime_active
  wanted,  \* the enabled flag of the configuration
  keys     \* spoken_keys

plannerVars == <<active, wanted, keys>>
vars == <<channelVars, plannerVars>>

Init ==
  /\ ChannelInit
  /\ active = FALSE /\ wanted = TRUE
  /\ keys = {}

Forgotten(p) ==
  /\ enq[p].pc = "none"
  /\ upsets > 0 =>
       /\ p \notin Waiting \union {pump.phrase}
       /\ \A i \in DOMAIN finished : finished[i].key[1] # p
       /\ \A i \in DOMAIN mailbox : mailbox[i] # None => mailbox[i][1] # p
       /\ playing # None => playing[1] # p

Asked(new) ==
  /\ \A p \in new : Forgotten(p)
  /\ keys' = keys \union new
  /\ enq' = [p \in Phrases |-> IF p \in new THEN [pc |-> "asked", dropped |-> {}] ELSE enq[p]]
  /\ UNCHANGED <<queueVars, st, fetchVars, pump, permit, sinkVars, waiter, reset, rescue, upsets,
                 active, wanted>>

PlanUnlessQueued ==
  /\ active /\ wanted
  /\ \E block \in Blocks : \E visible \in SUBSET block \ {{}} : Asked(visible \ Waiting)

\* Each new line of a completed block gets a task of its own.
Plan ==
  /\ active /\ wanted
  /\ \E block \in Blocks : \E visible \in SUBSET block \ {{}} : Asked(visible \ keys)

RuntimeStarts ==
  /\ ~active /\ reset.pc = "none"
  /\ active' = TRUE
  /\ UNCHANGED <<channelVars, wanted, keys>>

\* The planner is reset at once, the channel by a task.
RuntimeStops ==
  /\ active
  /\ active' = FALSE
  /\ keys' = {}
  /\ AskReset(FALSE)
  /\ UNCHANGED <<queueVars, st, fetchVars, enq, pump, permit, sinkVars, waiter, rescue, wanted>>

SwitchOff ==
  /\ wanted
  /\ wanted' = FALSE
  /\ AskReset(TRUE)
  /\ UNCHANGED <<queueVars, st, fetchVars, enq, pump, permit, sinkVars, waiter, rescue, active, keys>>

\* Nothing, if the task of the switch before has not run yet.
SwitchOn ==
  /\ ~wanted
  /\ wanted' = TRUE
  /\ IF st.enabled THEN UNCHANGED channelVars ELSE Enable
  /\ UNCHANGED <<active, keys>>

ReleaseDropped(p) ==
  /\ Announce(p)
  /\ keys' = keys \ enq[p].dropped
  /\ UNCHANGED <<active, wanted>>

\* queue_clear_channel: what waits may be planned again.
ReleaseWaiting ==
  /\ ClearQueue
  /\ keys' = keys \ Waiting
  /\ UNCHANGED <<active, wanted>>

EnqueueStep ==
  \E p \in Phrases :
    \/ Push(p) /\ UNCHANGED plannerVars
    \/ ReleaseDropped(p)

FetchStep ==
  \E p \in Phrases, result \in Fetched : FinishPrefetch(p, result) /\ UNCHANGED plannerVars

Next ==
  \/ Plan \/ RuntimeStarts \/ RuntimeStops \/ SwitchOff \/ SwitchOn
  \/ EnqueueStep \/ FetchStep \/ ReleaseWaiting
  \/ (PumpStep \/ PlayerStep \/ ResetStep \/ RescueStep \/ WatchdogBites \/ WindowCloses)
     /\ UNCHANGED plannerVars

Spec == Init /\ [][Next]_vars

\* The tasks and threads run; payloads, the user and long phrases are the environment's.
Fairness ==
  /\ WF_vars(EnqueueStep) /\ WF_vars(FetchStep)
  /\ WF_vars(PumpStep /\ UNCHANGED plannerVars)
  /\ WF_vars(PlayerStep /\ UNCHANGED plannerVars)
  /\ WF_vars((ResetStep /\ UNCHANGED plannerVars) \/ ReleaseWaiting)
  /\ WF_vars(RescueStep /\ UNCHANGED plannerVars)

FairSpec == Spec /\ Fairness

-----------------------------------------------------------------------------
(* Properties *)

Pieces == Phrases \X (1..Chunks)

\* The types of the variables: at most a full queue, no more fetches than the channel allows.
SpeechTypeOK ==
  /\ items \in Seq(Phrases) /\ Len(items) <= IF Cap = 1 THEN 2 ELSE Cap
  /\ current \in Phrases \union {None}
  /\ st.inflight \in 0..PrefetchAhead /\ st.epoch \in 0..MaxUpsets
  /\ \A p \in Phrases : fetches[p] \in Nat
  /\ pump.phrase \in Phrases \union {None}
  /\ playing \in Pieces \union {None} /\ waiter.key \in Pieces \union {None}
  /\ keys \subseteq Phrases

\* While the pump waits for work the queue is not left speaking and no flag of the channel is
\* left up, whatever resets and recoveries came in between: the next phrase can begin.
PumpLeavesNothing ==
  pump.pc \in {"wait", "check", "begin"} =>
    current = None /\ ~st.speaking /\ ~st.claim /\ pump.phrase = None

\* No phrase waits while the pump sleeps: a permit is stored, or a task that will store one has
\* not finished.
NoPhraseForgotten ==
  pump.pc = "wait" /\ st.enabled /\ items # <<>> =>
    permit \/ reset.pc # "none" \/ \E p \in Phrases : enq[p].pc = "pushed"

Fetches == UNION {{p} \X (1..fetches[p]) : p \in Phrases}

\* The counter that limits the fetches never counts one that has ended, so that resets cannot
\* use the limit up for good.
NoFetchLeaked == st.inflight <= Cardinality(Fetches)

\* Resets, recoveries and lost wake-ups leave nothing behind that would keep the channel from
\* speaking again.
NothingLeftBehind == PumpLeavesNothing /\ NoPhraseForgotten /\ NoFetchLeaked

StopComing ==
  \/ \E i \in DOMAIN mailbox : mailbox[i] = None
  \/ reset.pc \in {"queue", "stop"}

\* What is heard is the phrase in the pump's hand, or a stop for it is on its way: the pump
\* never goes on to the next phrase over a voice that nobody will stop.
VoiceIsCurrent ==
  playing # None => StopComing \/ (pump.phrase = playing[1] /\ pump.pc \in {"register", "await"})

\* Without a reset no line that was planned is planned again while it waits, is prepared or is
\* spoken, although payloads repeat it and other lines are dropped from the queue.
LineSpokenOnce ==
  upsets = 0 =>
    /\ \A i, j \in DOMAIN items : i # j => items[i] # items[j]
    /\ Waiting \union ({pump.phrase} \ {None}) \subseteq
         keys \union UNION {enq[p].dropped : p \in Phrases}

\* The channel speaks in the order of its queue, one phrase at a time.
Ordered ==
  INSTANCE Speaker WITH line <- items, voice <- pump.phrase
SpeaksInOrder == Ordered!SpeakerSpec

\* docs/CHANGELOG.md says of the watchdog of a stuck phrase: it stops the player, forces the queue
\* idle and resumes the pump.
WatchdogResumes == (rescue.pc = "bump" /\ pump.pc = "await") ~> pump.pc # "await"
=============================================================================
