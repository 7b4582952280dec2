--------------------------- MODULE SubtitleLifecycle ---------------------------
(***************************************************************************)
(* SubtitleLifecycleCore and SubtitlePresentation of crates/               *)
(* voicesub-subtitle as operators on one record `c`, the fields of the     *)
(* core.  The router actor runs one command at a time to its end, so a     *)
(* command is a function from core to core.                                *)
(*                                                                         *)
(* Time is relative: a record carries its age since finalization, a        *)
(* deadline and a scheduled tick carry the time left.  An age above both   *)
(* TTLs makes no difference any more, so it stops there.                   *)
(***************************************************************************)
EXTENDS Integers, FiniteSets, FiniteSetsExt

CONSTANTS
  MaxSequence,         \* bound on the finals of one session
  RecordsMax,          \* LIFECYCLE_RECORDS_MAX
  Slots,               \* enabled translation lines with a slot and a language
  SourceTtl,           \* completed_source_ttl_ms, in clock ticks
  TranslationTtl,      \* completed_translation_ttl_ms, in clock ticks
  ShowSource,          \* subtitle_output.show_source
  ShowTranslations,    \* show_translations and max_translation_languages > 0
  TranslationEnabled,  \* translation.enabled
  AllowEarlyReplace,   \* allow_early_replace_on_next_final
  SyncExpiry,          \* sync_source_and_translation_expiry
  KeepTranslation      \* keep_completed_translation_during_active_partial

ASSUME SubtitleAssumption ==
  /\ MaxSequence \in Nat \ {0}
  /\ RecordsMax \in Nat \ {0}
  /\ SourceTtl \in Nat \ {0} /\ TranslationTtl \in Nat \ {0}
  /\ IsFiniteSet(Slots)

Sequences == 1..MaxSequence
NoSequence == 0
Live == MaxSequence + 1  \* the number of any partial: it equals no final's
OldAge == Max({SourceTtl, TranslationTtl})
Unfinalized == -1        \* age of a record that no final created
Unset == -1              \* a deadline that is None
Outcomes == {"absent", "text", "failed"}
Records == [received : BOOLEAN, age : Unfinalized..OldAge, translations : [Slots -> Outcomes]]

NoTranslations == [t \in Slots |-> "absent"]

\* SubtitleLifecycleCore::new; reset keeps only the timers.
EmptyCore ==
  [records |-> <<>>, active_partial |-> NoSequence, completed |-> NoSequence,
   latest |-> NoSequence, pending |-> NoSequence, source_left |-> Unset,
   translation_left |-> Unset, timers |-> {}]

Known(c, s) == s \in DOMAIN c.records

TranslationRequired == TranslationEnabled /\ ShowTranslations /\ Slots # {}

-----------------------------------------------------------------------------
(* What a record can show *)

\* build_payload: the kinds of the visible, non-empty items.
BuildPayload(r) ==
  (IF ShowSource THEN {"source"} ELSE {})
    \union (IF ShowTranslations /\ \E t \in Slots : r.translations[t] = "text"
            THEN {"translation"} ELSE {})

SourceTtlExpired(c, s) ==
  Known(c, s) /\ c.records[s].age # Unfinalized /\ c.records[s].age >= SourceTtl

TranslationTtlExpired(c, s) ==
  Known(c, s) /\ c.records[s].age # Unfinalized /\ c.records[s].age >= TranslationTtl

AwaitsTranslation(c, s) ==
  /\ TranslationRequired
  /\ Known(c, s)
  /\ ~c.records[s].received
  /\ ~SourceTtlExpired(c, s)

ReceivedSlots(c, s) == {t \in Slots : c.records[s].translations[t] # "absent"}

HasIncompleteTranslations(c, s) ==
  /\ TranslationRequired
  /\ Known(c, s)
  /\ ~c.records[s].received
  /\ ~TranslationTtlExpired(c, s)
  /\ ReceivedSlots(c, s) \notin {{}, Slots}

CanAcceptLateTranslation(c, s) ==
  /\ TranslationRequired
  /\ Known(c, s)
  /\ ~c.records[s].received
  /\ ~TranslationTtlExpired(c, s)

\* The source TTL that applies once a translation is visible.
EffectiveSourceTtl(payload) ==
  IF SyncExpiry /\ "translation" \in payload THEN Max({SourceTtl, TranslationTtl})
  ELSE SourceTtl

\* completed_visibility, as the set of kinds not yet expired.
Unexpired(c) ==
  IF ~Known(c, c.completed) THEN {}
  ELSE LET r == c.records[c.completed] IN
    IF r.age = Unfinalized THEN {"source", "translation"}
    ELSE IF c.source_left = Unset /\ c.translation_left = Unset
    THEN (IF r.age < EffectiveSourceTtl(BuildPayload(r)) THEN {"source"} ELSE {})
           \union (IF r.age < TranslationTtl THEN {"translation"} ELSE {})
    ELSE (IF c.source_left > 0 THEN {"source"} ELSE {})
           \union (IF c.translation_left > 0 THEN {"translation"} ELSE {})

\* current_completed_payload; the empty set is None.
CurrentCompleted(c, hide_source) ==
  IF ~Known(c, c.completed) THEN {}
  ELSE (BuildPayload(c.records[c.completed]) \intersect Unexpired(c))
         \ (IF hide_source THEN {"source"} ELSE {})

\* promotion_payload: only the source is held against its TTL.
PromotionPayload(c, s) ==
  IF ~Known(c, s) THEN {}
  ELSE BuildPayload(c.records[s]) \ (IF SourceTtlExpired(c, s) THEN {"source"} ELSE {})

RelevantForPresentation(c, s) ==
  /\ Known(c, s)
  /\ \/ c.pending = s
     \/ /\ c.completed = s
        /\ CurrentCompleted(c, FALSE) # {} \/ CanAcceptLateTranslation(c, s)
     \/ /\ c.completed = NoSequence /\ c.pending = NoSequence /\ c.latest = s
        /\ PromotionPayload(c, s) # {}

RelevantForTranslation(c, s) ==
  \/ RelevantForPresentation(c, s)
  \/ /\ Known(c, s)
     /\ \/ c.completed = s /\ AwaitsTranslation(c, s)
        \/ c.latest = s /\ CanAcceptLateTranslation(c, s)

-----------------------------------------------------------------------------
(* Expiry *)

FuturePoints(c) == {p \in {c.source_left, c.translation_left} : p > 0}

\* schedule_next_expiry_check: one tick at the nearest deadline still ahead.
ScheduleNextCheckLatest(c) ==
  IF FuturePoints(c) = {} THEN c
  ELSE [c EXCEPT !.timers = @ \union {<<c.completed, Max(FuturePoints(c))>>}]
ScheduleNextCheck(c) ==
  IF FuturePoints(c) = {} THEN c
  ELSE [c EXCEPT !.timers = @ \union {<<c.completed, Min(FuturePoints(c))>>}]

\* schedule_expiry_internal: both TTLs start again from now.
ScheduleExpiryUntimed(c, payload) ==
  [c EXCEPT !.source_left = IF "source" \in payload THEN EffectiveSourceTtl(payload) ELSE 0,
            !.translation_left = IF "translation" \in payload THEN TranslationTtl ELSE 0]
ScheduleExpiry(c, payload) ==
  ScheduleNextCheck(
    [c EXCEPT !.source_left = IF "source" \in payload THEN EffectiveSourceTtl(payload) ELSE 0,
              !.translation_left = IF "translation" \in payload THEN TranslationTtl ELSE 0])

Deferred(c, s) ==
  \/ PromotionPayload(c, s) = {}
  \/ /\ c.completed \notin {NoSequence, s}
     /\ AwaitsTranslation(c, c.completed) \/ ~AllowEarlyReplace

PromoteOrDefer(c, s) ==
  IF Deferred(c, s) THEN [c EXCEPT !.pending = s]
  ELSE ScheduleExpiry(
         [c EXCEPT !.completed = s,
                   !.pending = IF @ = s THEN NoSequence ELSE @,
                   !.active_partial = IF @ = s THEN NoSequence ELSE @],
         PromotionPayload(c, s))

\* maybe_flush_pending_when_unblocked
FlushPendingNever(c) == c
FlushPending(c) ==
  IF \/ c.pending = NoSequence
     \/ c.pending = c.completed
     \/ c.completed # NoSequence /\ AwaitsTranslation(c, c.completed)
  THEN c
  ELSE PromoteOrDefer(c, c.pending)

-----------------------------------------------------------------------------
(* Commands *)

\* prune_old_records: the lowest sequences that nothing refers to go first.
Protected(c) == {c.completed, c.pending, c.latest, c.active_partial}
Prune(c) ==
  LET excess == Cardinality(DOMAIN c.records) - RecordsMax
      removable == DOMAIN c.records \ Protected(c)
      removed == {s \in removable : Cardinality({r \in removable : r < s}) < excess}
  IN [c EXCEPT !.records = [s \in DOMAIN c.records \ removed |-> c.records[s]]]

WithRecord(c, s, r) ==
  [c EXCEPT !.records = [q \in DOMAIN c.records \union {s} |->
                           IF q = s THEN r ELSE c.records[q]]]

AfterPartial(c) == [c EXCEPT !.active_partial = Live]

AfterFinal(c, s) ==
  LET fresh == [received |-> ~TranslationRequired, age |-> 0,
                translations |-> NoTranslations]
      noted == [WithRecord(c, s, fresh) EXCEPT !.active_partial = s, !.pending = s,
                                               !.latest = Max({@, s})]
  IN PromoteOrDefer(Prune(noted), s)

\* items maps the slots of the event to "text" or "failed".
Merged(c, s, items, complete) ==
  LET old == IF Known(c, s) THEN c.records[s]
             ELSE [received |-> TRUE, age |-> Unfinalized, translations |-> NoTranslations]
      translations == [t \in Slots |-> IF t \in DOMAIN items THEN items[t]
                                       ELSE old.translations[t]]
  IN [old EXCEPT !.translations = translations,
                 !.received = complete \/ \A t \in Slots : translations[t] # "absent"]

ShouldPromoteKnown(c, s) == Known(c, s)
ShouldPromote(c, s) ==
  \/ c.pending = s
  \/ c.completed = s
  \/ c.pending = NoSequence /\ c.completed = NoSequence /\ c.latest = s

AfterTranslation(c, s, items, complete) ==
  LET merged == WithRecord(c, s, Merged(c, s, items, complete))
  IN FlushPending(IF ShouldPromote(merged, s) THEN PromoteOrDefer(merged, s) ELSE merged)

\* on_expiry_tick
AfterExpiryTickOnce(c, s) ==
  IF c.completed # s THEN c
  ELSE IF \/ CurrentCompleted(c, FALSE) # {}
          \/ PromotionPayload(c, s) # {}
          \/ HasIncompleteTranslations(c, s)
  THEN FlushPending(c)
  ELSE LET cleared == [c EXCEPT !.completed = NoSequence, !.source_left = Unset,
                                !.translation_left = Unset]
       IN IF c.pending = NoSequence THEN cleared ELSE PromoteOrDefer(cleared, c.pending)
AfterExpiryTick(c, s) ==
  IF c.completed # s THEN c
  ELSE IF \/ CurrentCompleted(c, FALSE) # {}
          \/ PromotionPayload(c, s) # {}
          \/ HasIncompleteTranslations(c, s)
  THEN FlushPending(ScheduleNextCheck(c))
  ELSE LET cleared == [c EXCEPT !.completed = NoSequence, !.source_left = Unset,
                                !.translation_left = Unset]
       IN IF c.pending = NoSequence THEN cleared ELSE PromoteOrDefer(cleared, c.pending)

AfterClearPartial(c) == [c EXCEPT !.active_partial = NoSequence]

\* expiry_task is never set, so reset aborts no tick.
AfterReset(c) == [EmptyCore EXCEPT !.timers = c.timers]

\* One clock tick.
Elapse(c) ==
  LET less(left) == IF left > 0 THEN left - 1 ELSE left
      older(age) == IF age \in {Unfinalized, OldAge} THEN age ELSE age + 1
      aged == [s \in DOMAIN c.records |-> [c.records[s] EXCEPT !.age = older(@)]]
  IN [c EXCEPT
       !.records = aged, !.source_left = less(@), !.translation_left = less(@),
       !.timers = {<<t[1], less(t[2])>> : t \in @}]

-----------------------------------------------------------------------------
(* build_presentation_payload: the lifecycle state, the block whose          *)
(* translations or text are shown, and the kinds of the visible items.       *)

View(c) ==
  LET partial == c.active_partial # NoSequence
      block == CurrentCompleted(c, partial)
      live == IF ShowSource THEN {"partial"} ELSE {}
  IN IF partial /\ block # {}
     THEN [state |-> "completed_with_partial", block |-> c.completed,
           items |-> live \union (IF KeepTranslation THEN block ELSE {})]
     ELSE IF partial
     THEN [state |-> "partial_only", block |-> NoSequence, items |-> live]
     ELSE IF block # {}
     THEN [state |-> "completed_only", block |-> c.completed, items |-> block]
     ELSE [state |-> "idle", block |-> NoSequence, items |-> {}]

=============================================================================
