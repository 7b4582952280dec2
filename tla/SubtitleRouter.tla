----------------------------- MODULE SubtitleRouter -----------------------------
(***************************************************************************)
(* The subtitle router actor of crates/voicesub-subtitle: one task that    *)
(* takes commands from a source queue and, only while that one is empty,   *)
(* from a translation queue, applies each to the lifecycle core and then   *)
(* publishes the overlay payload.                                          *)
(*                                                                         *)
(* A source command is applied when it is sent: until the source queue is  *)
(* empty the actor does nothing else, so nothing tells the two apart.  The *)
(* translation queue is kept: between the moment the dispatcher finds a    *)
(* sequence relevant and the moment its event is applied, any number of    *)
(* source commands and any time may pass.                                  *)
(***************************************************************************)
EXTENDS SubtitleLifecycle, Sequences, SequencesExt

CONSTANT QueueBound  \* bound on the translation queue, 512 in the code
ASSUME QueueAssumption == QueueBound \in Nat \ {0}

VARIABLES
  core,               \* SubtitleLifecycleCore
  translation_queue,  \* translation events sent and not yet applied
  overlay,            \* the view last published
  last_final,         \* sequence of the newest final of the session
  job,                \* what the dispatcher has still to send, per sequence
  shown               \* history: the newest block completed in the session

vars == <<core, translation_queue, overlay, last_final, job, shown>>

Completion == "completion"
Parts == Slots \union {Completion}

Init ==
  /\ core = EmptyCore
  /\ translation_queue = <<>>
  /\ overlay = View(EmptyCore)
  /\ last_final = 0
  /\ job = [s \in Sequences |-> {}]
  /\ shown = 0

\* Every command ends with schedule_overlay_publish.
Apply(c) ==
  /\ core' = c
  /\ overlay' = View(core')
  /\ shown' = IF core'.latest = NoSequence THEN 0 ELSE Max({shown, core'.completed})

-----------------------------------------------------------------------------
(* Source commands *)

Partial ==
  /\ Apply(AfterPartial(core))
  /\ UNCHANGED <<translation_queue, last_final, job>>

\* The final is acknowledged before its translation job is submitted; the job
\* owes one event per enabled line and the completion.
Final ==
  /\ last_final < MaxSequence
  /\ last_final' = last_final + 1
  /\ Apply(AfterFinal(core, last_final'))
  /\ job' = [job EXCEPT ![last_final'] = IF TranslationEnabled /\ Slots # {}
                                         THEN Parts ELSE {}]
  /\ UNCHANGED translation_queue

\* The browser worker disconnected, or a stop cleans up.
ClearPartial ==
  /\ core.active_partial # NoSequence
  /\ Apply(AfterClearPartial(core))
  /\ UNCHANGED <<translation_queue, last_final, job>>

\* A tick that came due is sent through the source queue, however late.
ExpiryTick ==
  \E t \in core.timers :
    /\ t[2] = 0
    /\ Apply(AfterExpiryTick([core EXCEPT !.timers = @ \ {t}], t[1]))
    /\ UNCHANGED <<translation_queue, last_final, job>>

\* A session starts or stops: sequence numbers start again at one.
Reset ==
  /\ Apply(AfterReset(core))
  /\ last_final' = 0
  /\ UNCHANGED <<translation_queue, job>>

\* republish_latest and flush_overlay_publish publish what is current now.
Republish ==
  /\ overlay # View(core)
  /\ Apply(core)
  /\ UNCHANGED <<translation_queue, last_final, job>>

-----------------------------------------------------------------------------
(* Translation events *)

InQueue(s) == \E i \in DOMAIN translation_queue : translation_queue[i].sequence = s

Items(s, part, outcome) ==
  IF part = Completion
  THEN [t \in ReceivedSlots(core, s) |-> core.records[s].translations[t]]
  ELSE [t \in {part} |-> outcome]

\* run_job found the sequence relevant and sends the next event; it awaits the
\* acknowledgement before it sends another.
SendTranslation(s, part, outcome) ==
  /\ part \in job[s]
  /\ part = Completion => job[s] = {Completion}
  /\ ~InQueue(s)
  /\ Len(translation_queue) < QueueBound
  /\ RelevantForTranslation(core, s)
  /\ translation_queue' = Append(translation_queue,
       [sequence |-> s, items |-> Items(s, part, outcome),
        complete |-> part = Completion])
  /\ job' = [job EXCEPT ![s] = @ \ {part}]
  /\ UNCHANGED <<core, overlay, last_final, shown>>

\* The line was dropped as stale, skipped or cancelled: nothing is sent for it.
DropTranslation(s, part) ==
  /\ part \in job[s]
  /\ job' = [job EXCEPT ![s] = @ \ {part}]
  /\ UNCHANGED <<core, translation_queue, overlay, last_final, shown>>

ApplyTranslation ==
  /\ translation_queue # <<>>
  /\ LET event == Head(translation_queue)
     IN Apply(AfterTranslation(core, event.sequence, event.items, event.complete))
  /\ translation_queue' = Tail(translation_queue)
  /\ UNCHANGED <<last_final, job>>

-----------------------------------------------------------------------------
Clock ==
  /\ core' = Elapse(core)
  /\ core' # core
  /\ UNCHANGED <<translation_queue, overlay, last_final, job, shown>>

Next ==
  \/ Partial
  \/ Final
  \/ ClearPartial
  \/ ExpiryTick
  \/ Reset
  \/ Republish
  \/ \E s \in Sequences : \E part \in Parts :
       \/ \E outcome \in {"text", "failed"} : SendTranslation(s, part, outcome)
       \/ DropTranslation(s, part)
  \/ ApplyTranslation
  \/ Clock

Spec == Init /\ [][Next]_vars

\* Time passes, sleeping ticks wake and the actor drains its queue: weak
\* fairness of Clock, ExpiryTick and ApplyTranslation.  That of ExpiryTick is
\* written with its enabling condition; only ApplyTranslation dequeues.
TickDue == \E t \in core.timers : t[2] = 0
Dequeue == translation_queue # <<>> /\ translation_queue' = Tail(translation_queue)
Fairness ==
  /\ WF_vars(Clock)
  /\ []<>(~TickDue) \/ []<><<ExpiryTick>>_vars
  /\ WF_translation_queue(Dequeue)
FairSpec == Spec /\ Fairness

-----------------------------------------------------------------------------
(* Properties *)

Deadlines == Unset..OldAge
Events == [sequence : Sequences, complete : BOOLEAN,
           items : UNION {[D -> {"text", "failed"}] : D \in SUBSET Slots}]
Views == [state : {"idle", "partial_only", "completed_only", "completed_with_partial"},
          block : Sequences \union {NoSequence},
          items : SUBSET {"partial", "source", "translation"}]

\* Every variable keeps its type.
TypeOK ==
  /\ DOMAIN core.records \subseteq Sequences
  /\ \A s \in DOMAIN core.records : core.records[s] \in Records
  /\ core.active_partial \in Sequences \union {NoSequence, Live}
  /\ {core.completed, core.latest, core.pending} \subseteq Sequences \union {NoSequence}
  /\ {core.source_left, core.translation_left} \subseteq Deadlines
  /\ core.timers \subseteq Sequences \X Nat
  /\ translation_queue \in Seq(Events)
  /\ overlay \in Views
  /\ last_final \in 0..MaxSequence
  /\ job \in [Sequences -> SUBSET Parts]
  /\ shown \in 0..MaxSequence

\* Each deadline of the completed block that still lies ahead has a tick no
\* later than itself; without one the block would stay up for ever.
DeadlineHasTick ==
  \A p \in FuturePoints(core) :
    \E t \in core.timers : t[1] = core.completed /\ t[2] <= p

\* The overlay shows anything else than the core would publish now only from a
\* deadline to the tick that is due for it.
OverlayCurrent ==
  overlay # View(core) => <<core.completed, 0>> \in core.timers

\* Within a session no block is shown after a newer one, in whichever order
\* translations, ticks and finals arrive.
NeverOlderBlock == core.completed # NoSequence => core.completed = shown

\* Pruning never takes a record that the completed block, the deferred final or
\* the newest final still needs, and a completed block always has deadlines.
ReferencesHeld ==
  /\ {core.completed, core.pending, core.latest} \ {NoSequence} \subseteq DOMAIN core.records
  /\ (core.completed = NoSequence) <=> (core.source_left = Unset)
  /\ (core.completed = NoSequence) <=> (core.translation_left = Unset)

\* A deferred final is never older than the block it waits behind: replacing
\* goes forward only.
DeferredIsNewer ==
  core.pending # NoSequence => core.completed <= core.pending

\* Blocks replace each other forward only, and each keeps what it needs.
BlocksInOrder == ReferencesHeld /\ DeferredIsNewer /\ NeverOlderBlock

\* Whatever the translations do, a block that is shown is not shown for ever.
BlockClears ==
  \A s \in Sequences : overlay.block = s ~> overlay.block # s

\* A final that had to wait, and whose translation has come meanwhile, is shown,
\* replaced or reset in the end.
DeferredFinalSettles ==
  LET Waits(s) == core.pending = s /\ "translation" \in PromotionPayload(core, s)
  IN \A s \in Sequences : Waits(s) ~> ~Waits(s)


=============================================================================
