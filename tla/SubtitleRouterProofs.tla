-------------------------- MODULE SubtitleRouterProofs --------------------------
(***************************************************************************)
(* Theorems about SubtitleRouter, for any settings, any number of finals,  *)
(* lines and records, any two TTLs and any length of the queue, and about  *)
(* ObsCaptions, for any texts, configurations, publications and failures.  *)
(*                                                                         *)
(* A command is a function from core to core, so what the proofs need is   *)
(* said of a core c, and of the number n of the newest block completed in  *)
(* the session: the parts of a command keep it, hence the command does.    *)
(***************************************************************************)
EXTENDS SubtitleRouter, ObsCaptions, SequenceTheorems, TLAPS

NumberOrNone == Sequences \union {NoSequence}
Books == UNION {[D -> Records] : D \in SUBSET Sequences}
Cores ==
  [records : Books, active_partial : NumberOrNone \union {Live}, completed : NumberOrNone,
   latest : NumberOrNone, pending : NumberOrNone, source_left : Deadlines,
   translation_left : Deadlines, timers : SUBSET (Sequences \X Nat)]

\* What a core refers to is there, and a completed block has its deadlines.
Held(c) ==
  /\ {c.completed, c.pending, c.latest} \ {NoSequence} \subseteq DOMAIN c.records
  /\ (c.completed = NoSequence) <=> (c.source_left = Unset)
  /\ (c.completed = NoSequence) <=> (c.translation_left = Unset)

\* A deadline that lies ahead has its tick.
Ticking(c) ==
  \A p \in FuturePoints(c) : \E t \in c.timers : t[1] = c.completed /\ t[2] <= p

\* Nothing that may be shown next is older than block n or than the completed one.
Ahead(c, n) ==
  /\ n <= c.latest /\ c.completed <= c.latest
  /\ c.completed # NoSequence => n <= c.completed
  /\ c.pending # NoSequence => n <= c.pending /\ c.completed <= c.pending /\ c.pending <= c.latest

Sound(c, n) == c \in Cores /\ Held(c) /\ Ahead(c, n)
Good(c, n) == Sound(c, n) /\ Ticking(c)

\* s may be promoted or deferred: it is known, and between what was and what may come.
ComesNext(c, n, s) ==
  /\ s \in Sequences /\ Known(c, s)
  /\ n <= s /\ c.completed <= s /\ s <= c.latest
  /\ c.pending = NoSequence \/ s <= c.pending

USE SubtitleAssumption, QueueAssumption DEF Sequences, NoSequence, Unset, Unfinalized, Live

-----------------------------------------------------------------------------
(* Operators *)

\* Max of two numbers.
LEMMA MaxOfTwo ==
  ASSUME NEW a \in Int, NEW b \in Int
  PROVE  Max({a, b}) \in {a, b} /\ Max({a, b}) >= a /\ Max({a, b}) >= b
BY DEF Max

\* Min of one or two numbers.
LEMMA MinOfFew ==
  ASSUME NEW a \in Int, NEW b \in Int, NEW S \in SUBSET {a, b}, S # {}
  PROVE  Min(S) \in S /\ \A p \in S : Min(S) <= p
<1>1. \E x \in S : \A y \in S : x <= y
  <2>1. \A y \in S : y = a \/ y = b
    OBVIOUS
  <2>2. CASE a \in S /\ (b \notin S \/ a <= b)
    <3>1. \A y \in S : a <= y
      BY <2>1, <2>2
    <3> QED BY <2>2, <3>1
  <2>3. CASE ~(a \in S /\ (b \notin S \/ a <= b))
    <3>1. b \in S
      BY <2>1, <2>3
    <3>2. a \in S => b <= a
      BY <2>3, <3>1
    <3> QED BY <2>1, <3>1, <3>2
  <2> QED BY <2>2, <2>3
<1> QED BY <1>1 DEF Min

\* The TTLs are positive and no longer than the age at which records stop ageing.
LEMMA TtlRange ==
  /\ OldAge \in Nat \ {0} /\ SourceTtl <= OldAge /\ TranslationTtl <= OldAge
  /\ \A payload : EffectiveSourceTtl(payload) \in 1..OldAge
<1>1. /\ OldAge \in {SourceTtl, TranslationTtl} /\ OldAge >= SourceTtl /\ OldAge >= TranslationTtl
      /\ SourceTtl \in Int /\ TranslationTtl \in Int
  BY MaxOfTwo DEF OldAge
<1>2. \A payload : EffectiveSourceTtl(payload) \in {SourceTtl, OldAge}
  BY DEF EffectiveSourceTtl, OldAge
<1> QED BY <1>1, <1>2

\* Books of records.
LEMMA BookShape ==
  ASSUME NEW book \in Books
  PROVE  /\ DOMAIN book \subseteq Sequences
         /\ \A s \in DOMAIN book : book[s] \in Records
         /\ book \in [DOMAIN book -> Records]
BY DEF Books

\* A function on some of the sequences.
LEMMA BookMade ==
  ASSUME NEW D \in SUBSET Sequences, NEW book \in [D -> Records]
  PROVE  book \in Books /\ DOMAIN book = D
BY DEF Books

\* The fields of a core.
LEMMA CoreFields ==
  ASSUME NEW c \in Cores
  PROVE  /\ c.records \in Books /\ c.active_partial \in NumberOrNone \union {Live}
         /\ c.completed \in NumberOrNone /\ c.latest \in NumberOrNone /\ c.pending \in NumberOrNone
         /\ c.source_left \in Deadlines /\ c.translation_left \in Deadlines
         /\ c.timers \in SUBSET (Sequences \X Nat)
         /\ c.completed \in Nat /\ c.latest \in Nat /\ c.pending \in Nat
         /\ c.source_left \in Int /\ c.translation_left \in Int
<1>1. OldAge \in Nat
  BY TtlRange
<1> QED BY <1>1 DEF Cores, NumberOrNone, Deadlines

\* The points that lie ahead are deadlines, and the completed block is there to have them.
LEMMA FutureRange ==
  ASSUME NEW c \in Cores, Held(c)
  PROVE  /\ FuturePoints(c) \in SUBSET {c.source_left, c.translation_left}
         /\ \A p \in FuturePoints(c) : p \in Nat /\ p > 0
         /\ FuturePoints(c) # {} => c.completed \in Sequences
<1>1. /\ c.completed \in NumberOrNone /\ c.source_left \in Int /\ c.translation_left \in Int
  BY CoreFields
<1>2. \A p \in FuturePoints(c) : (p = c.source_left \/ p = c.translation_left) /\ p > 0
  BY DEF FuturePoints
<1>3. FuturePoints(c) # {} => c.completed # NoSequence
  BY <1>1, <1>2 DEF Held
<1> QED BY <1>1, <1>2, <1>3 DEF NumberOrNone

-----------------------------------------------------------------------------
(* The parts of the commands *)

\* schedule_next_expiry_check gives every deadline ahead its tick, whatever ticks there were.
LEMMA CheckScheduled ==
  ASSUME NEW c, NEW n, Sound(c, n)
  PROVE  /\ Good(ScheduleNextCheck(c), n)
         /\ ScheduleNextCheck(c).latest = c.latest
<1> DEFINE m == Min(FuturePoints(c))
           d == [c EXCEPT !.timers = @ \union {<<c.completed, m>>}]
<1>1. c \in Cores /\ Held(c) /\ Ahead(c, n)
  BY DEF Sound
<1>2. CASE FuturePoints(c) = {}
  BY <1>2 DEF ScheduleNextCheck, Good, Ticking
<1>3. CASE FuturePoints(c) # {}
  <2>1. m \in FuturePoints(c) /\ \A p \in FuturePoints(c) : m <= p
    BY <1>1, <1>3, FutureRange, MinOfFew, CoreFields
  <2>2. c.completed \in Sequences /\ m \in Nat
    BY <1>1, <1>3, <2>1, FutureRange
  <2> HIDE DEF m
  <2>3. c.timers \union {<<c.completed, m>>} \in SUBSET (Sequences \X Nat)
    BY <1>1, <2>2, CoreFields
  <2>4. /\ d \in Cores
        /\ d.records = c.records /\ d.active_partial = c.active_partial
        /\ d.completed = c.completed /\ d.latest = c.latest /\ d.pending = c.pending
        /\ d.source_left = c.source_left /\ d.translation_left = c.translation_left
        /\ d.timers = c.timers \union {<<c.completed, m>>}
    BY <1>1, <2>3 DEF Cores
  <2> HIDE DEF d
  <2>5. FuturePoints(d) = FuturePoints(c)
    BY <2>4 DEF FuturePoints
  <2>6. Ticking(d)
    <3>1. <<c.completed, m>> \in d.timers /\ <<c.completed, m>>[1] = d.completed
          /\ <<c.completed, m>>[2] = m
      BY <2>4
    <3> QED BY <2>1, <2>5, <3>1 DEF Ticking
  <2>7. Held(d) /\ Ahead(d, n)
    BY <1>1, <2>4 DEF Held, Ahead
  <2>8. ScheduleNextCheck(c) = d
    BY <1>3 DEF ScheduleNextCheck, d, m
  <2> QED BY <2>4, <2>6, <2>7, <2>8 DEF Good, Sound
<1> QED BY <1>2, <1>3

\* promote_or_defer: only what comes next may be promoted.
LEMMA PromotedGood ==
  ASSUME NEW c, NEW n \in Nat, NEW s, Good(c, n), ComesNext(c, n, s)
  PROVE  Good(PromoteOrDefer(c, s), n) /\ PromoteOrDefer(c, s).latest = c.latest
<1> DEFINE a == IF c.active_partial = s THEN NoSequence ELSE c.active_partial
           w == IF c.pending = s THEN NoSequence ELSE c.pending
           payload == PromotionPayload(c, s)
           x == IF "source" \in payload THEN EffectiveSourceTtl(payload) ELSE 0
           y == IF "translation" \in payload THEN TranslationTtl ELSE 0
           d == [c EXCEPT !.pending = s]
           e == [c EXCEPT !.completed = s, !.pending = w, !.active_partial = a]
           f == [e EXCEPT !.source_left = x, !.translation_left = y]
<1>1. c \in Cores /\ Held(c) /\ Ahead(c, n) /\ Ticking(c)
  BY DEF Good, Sound
<1>2. /\ s \in Sequences /\ s \in NumberOrNone /\ s \in DOMAIN c.records /\ s # NoSequence
      /\ n <= s /\ c.completed <= s /\ s <= c.latest
      /\ c.pending = NoSequence \/ s <= c.pending
  BY DEF ComesNext, Known, NumberOrNone
<1>3. CASE Deferred(c, s)
  <2>1. /\ d \in Cores /\ d.records = c.records /\ d.completed = c.completed
        /\ d.latest = c.latest /\ d.pending = s /\ d.timers = c.timers
        /\ d.source_left = c.source_left /\ d.translation_left = c.translation_left
    BY <1>1, <1>2 DEF Cores
  <2> HIDE DEF d
  <2>2. Held(d)
    BY <1>1, <1>2, <2>1 DEF Held
  <2>3. Ahead(d, n)
    BY <1>1, <1>2, <2>1 DEF Ahead
  <2>4. Ticking(d)
    BY <1>1, <2>1 DEF Ticking, FuturePoints
  <2>5. PromoteOrDefer(c, s) = d
    BY <1>3 DEF PromoteOrDefer, d
  <2> QED BY <2>1, <2>2, <2>3, <2>4, <2>5 DEF Good, Sound
<1>4. CASE ~Deferred(c, s)
  <2>1. /\ c.pending \in NumberOrNone /\ c.active_partial \in NumberOrNone \union {Live}
        /\ c.pending \in Nat /\ c.completed \in Nat /\ c.latest \in Nat
    BY <1>1, CoreFields
  <2>2. w \in NumberOrNone /\ a \in NumberOrNone \union {Live} /\ w \in {NoSequence, c.pending}
    BY <2>1 DEF NumberOrNone
  <2>3. x \in 0..OldAge /\ y \in 0..OldAge
    BY TtlRange
  <2>4. x \in Deadlines /\ y \in Deadlines /\ x # Unset /\ y # Unset
    BY <2>3, TtlRange DEF Deadlines
  <2> HIDE DEF w, a, x, y
  <2>5. /\ e \in Cores /\ e.records = c.records /\ e.completed = s /\ e.latest = c.latest
        /\ e.pending = w
    BY <1>1, <1>2, <2>2 DEF Cores
  <2> HIDE DEF e
  <2>6. /\ f \in Cores /\ f.records = c.records /\ f.completed = s /\ f.latest = c.latest
        /\ f.pending = w /\ f.source_left = x /\ f.translation_left = y
    BY <2>4, <2>5 DEF Cores
  <2> HIDE DEF f
  <2>7. Held(f)
    BY <1>1, <1>2, <2>2, <2>4, <2>6 DEF Held
  <2>8. Ahead(f, n)
    BY <1>1, <1>2, <2>1, <2>2, <2>6 DEF Ahead
  <2>9. PromoteOrDefer(c, s) = ScheduleNextCheck(f)
    BY <1>4 DEF PromoteOrDefer, ScheduleExpiry, f, e, w, a, x, y
  <2>10. Good(ScheduleNextCheck(f), n) /\ ScheduleNextCheck(f).latest = f.latest
    BY <2>6, <2>7, <2>8, CheckScheduled DEF Sound
  <2> QED BY <2>6, <2>9, <2>10
<1> QED BY <1>3, <1>4

\* maybe_flush_pending_when_unblocked promotes what was deferred.
LEMMA FlushedGood ==
  ASSUME NEW c, NEW n \in Nat, Good(c, n)
  PROVE  Good(FlushPending(c), n) /\ FlushPending(c).latest = c.latest
<1>1. CASE FlushPending(c) = c
  BY <1>1
<1>2. CASE c.pending # NoSequence /\ FlushPending(c) = PromoteOrDefer(c, c.pending)
  <2>1. c \in Cores /\ Held(c) /\ Ahead(c, n)
    BY DEF Good, Sound
  <2>2. c.pending \in Sequences /\ Known(c, c.pending)
    BY <1>2, <2>1, CoreFields DEF Held, Known, NumberOrNone
  <2>3. n <= c.pending /\ c.completed <= c.pending /\ c.pending <= c.latest /\ c.pending <= c.pending
    BY <1>2, <2>1, <2>2 DEF Ahead
  <2>4. ComesNext(c, n, c.pending)
    BY <2>2, <2>3 DEF ComesNext
  <2> QED BY <1>2, <2>4, PromotedGood
<1> QED BY <1>1, <1>2 DEF FlushPending

\* A record that is stored disturbs nothing that is held.
LEMMA StoredGood ==
  ASSUME NEW c, NEW n, Good(c, n), NEW s \in Sequences, NEW r \in Records
  PROVE  /\ Good(WithRecord(c, s, r), n) /\ Known(WithRecord(c, s, r), s)
         /\ WithRecord(c, s, r).latest = c.latest /\ WithRecord(c, s, r).pending = c.pending
         /\ WithRecord(c, s, r).completed = c.completed
<1> DEFINE D == DOMAIN c.records \union {s}
           book == [q \in D |-> IF q = s THEN r ELSE c.records[q]]
           d == [c EXCEPT !.records = book]
<1>1. c \in Cores /\ Held(c) /\ Ahead(c, n) /\ Ticking(c) /\ c.records \in Books
  BY CoreFields DEF Good, Sound
<1>2. D \in SUBSET Sequences /\ book \in [D -> Records]
  BY <1>1, BookShape
<1>3. book \in Books /\ DOMAIN book = D
  BY <1>2, BookMade
<1> HIDE DEF book
<1>4. /\ d \in Cores /\ d.records = book /\ d.completed = c.completed
      /\ d.latest = c.latest /\ d.pending = c.pending /\ d.timers = c.timers
      /\ d.source_left = c.source_left /\ d.translation_left = c.translation_left
  BY <1>1, <1>3 DEF Cores
<1> HIDE DEF d
<1>5. Held(d)
  BY <1>1, <1>3, <1>4 DEF Held
<1>6. Ahead(d, n) /\ Ticking(d) /\ Known(d, s)
  BY <1>1, <1>3, <1>4 DEF Ahead, Ticking, FuturePoints, Known
<1>7. WithRecord(c, s, r) = d
  BY DEF WithRecord, d, book
<1> QED BY <1>4, <1>5, <1>6, <1>7 DEF Good, Sound

\* prune_old_records takes nothing that is held.
LEMMA PrunedGood ==
  ASSUME NEW c, NEW n, Good(c, n)
  PROVE  /\ Good(Prune(c), n) /\ Prune(c).latest = c.latest /\ Prune(c).pending = c.pending
         /\ Prune(c).completed = c.completed
         /\ \A s \in {c.completed, c.pending, c.latest} : Known(c, s) => Known(Prune(c), s)
<1> DEFINE removable == DOMAIN c.records \ Protected(c)
           removed == {s \in removable :
                         Cardinality({r \in removable : r < s}) < Cardinality(DOMAIN c.records) - RecordsMax}
           D == DOMAIN c.records \ removed
           book == [s \in D |-> c.records[s]]
           d == [c EXCEPT !.records = book]
<1>1. c \in Cores /\ Held(c) /\ Ahead(c, n) /\ Ticking(c) /\ c.records \in Books
  BY CoreFields DEF Good, Sound
<1>2. removed \subseteq removable
  OBVIOUS
<1> HIDE DEF removed
<1>3. \A s \in {c.completed, c.pending, c.latest} : s \in DOMAIN c.records => s \in D
  BY <1>2 DEF Protected
<1>4. D \in SUBSET Sequences /\ book \in [D -> Records]
  BY <1>1, BookShape
<1>5. book \in Books /\ DOMAIN book = D
  BY <1>4, BookMade
<1> HIDE DEF book, D
<1>6. /\ d \in Cores /\ d.records = book /\ d.completed = c.completed
      /\ d.latest = c.latest /\ d.pending = c.pending /\ d.timers = c.timers
      /\ d.source_left = c.source_left /\ d.translation_left = c.translation_left
  BY <1>1, <1>5 DEF Cores
<1> HIDE DEF d
<1>7. Held(d)
  BY <1>1, <1>3, <1>5, <1>6 DEF Held
<1>8. Ahead(d, n) /\ Ticking(d)
  BY <1>1, <1>6 DEF Ahead, Ticking, FuturePoints
<1>9. Prune(c) = d
  BY DEF Prune, d, book, D, removed
<1> QED BY <1>3, <1>5, <1>6, <1>7, <1>8, <1>9 DEF Good, Sound, Known

-----------------------------------------------------------------------------
(* The commands *)

\* A core of which only the partial changed.
LEMMA PartialGood ==
  ASSUME NEW c, NEW n, Good(c, n), NEW a \in NumberOrNone \union {Live}
  PROVE  LET d == [c EXCEPT !.active_partial = a] IN Good(d, n) /\ d.latest = c.latest
<1> DEFINE d == [c EXCEPT !.active_partial = a]
<1>1. c \in Cores /\ Held(c) /\ Ahead(c, n) /\ Ticking(c)
  BY DEF Good, Sound
<1>2. /\ d \in Cores /\ d.records = c.records /\ d.completed = c.completed
      /\ d.latest = c.latest /\ d.pending = c.pending /\ d.timers = c.timers
      /\ d.source_left = c.source_left /\ d.translation_left = c.translation_left
  BY <1>1 DEF Cores
<1> HIDE DEF d
<1>3. Held(d) /\ Ahead(d, n) /\ Ticking(d)
  BY <1>1, <1>2 DEF Held, Ahead, Ticking, FuturePoints
<1> QED BY <1>2, <1>3 DEF Good, Sound, d

\* A final that is newer than all before.
LEMMA FinalGood ==
  ASSUME NEW c, NEW n \in Nat, Good(c, n), NEW s \in Sequences, c.latest < s
  PROVE  Good(AfterFinal(c, s), n) /\ AfterFinal(c, s).latest = s
<1> DEFINE fresh == [received |-> ~TranslationRequired, age |-> 0, translations |-> NoTranslations]
           b == WithRecord(c, s, fresh)
           m == Max({b.latest, s})
           d == [b EXCEPT !.active_partial = s, !.pending = s, !.latest = m]
<1>1. fresh \in Records
  <2>1. NoTranslations \in [Slots -> Outcomes] /\ 0 \in Unfinalized..OldAge
    BY TtlRange DEF NoTranslations, Outcomes
  <2>2. (~TranslationRequired) \in BOOLEAN
    OBVIOUS
  <2> QED BY <2>1, <2>2 DEF Records
<1> HIDE DEF fresh
<1>2. /\ Good(b, n) /\ Known(b, s) /\ b.latest = c.latest /\ b.pending = c.pending
      /\ b.completed = c.completed
  BY <1>1, StoredGood
<1> HIDE DEF b
<1>3. b \in Cores /\ Held(b) /\ Ahead(b, n) /\ Ticking(b)
  BY <1>2 DEF Good, Sound
<1>4. b.latest \in Nat /\ b.completed \in Nat /\ s \in NumberOrNone /\ s # NoSequence
  BY <1>3, CoreFields DEF NumberOrNone
<1>5. m = s
  <2>1. b.latest \in Int /\ s \in Int /\ b.latest < s
    BY <1>2, <1>4
  <2>2. m \in {b.latest, s} /\ m >= s
    BY <2>1, MaxOfTwo
  <2> QED BY <2>1, <2>2
<1> HIDE DEF m
<1>6. /\ d \in Cores /\ d.records = b.records /\ d.completed = b.completed
      /\ d.latest = s /\ d.pending = s /\ d.timers = b.timers
      /\ d.source_left = b.source_left /\ d.translation_left = b.translation_left
  BY <1>3, <1>4, <1>5 DEF Cores
<1> HIDE DEF d
<1>7. Held(d) /\ Ticking(d)
  BY <1>2, <1>3, <1>6 DEF Held, Ticking, FuturePoints, Known
<1>8. n <= s /\ b.completed <= s /\ s <= s
  BY <1>2, <1>3, <1>4 DEF Ahead
<1>9. Ahead(d, n)
  BY <1>6, <1>8, <1>3, <1>4 DEF Ahead
<1>10. Good(d, n) /\ Known(d, s)
  BY <1>2, <1>6, <1>7, <1>9 DEF Good, Sound, Known
<1>11. /\ Good(Prune(d), n) /\ Prune(d).latest = s /\ Prune(d).pending = s
       /\ Prune(d).completed = b.completed /\ Known(Prune(d), s)
  BY <1>6, <1>10, PrunedGood
<1>12. ComesNext(Prune(d), n, s)
  BY <1>8, <1>11 DEF ComesNext
<1>13. AfterFinal(c, s) = PromoteOrDefer(Prune(d), s)
  BY DEF AfterFinal, d, m, b, fresh
<1> QED BY <1>11, <1>12, <1>13, PromotedGood

\* What a translation event makes of the record of its sequence.
LEMMA MergedRecord ==
  ASSUME NEW c \in Cores, NEW s, NEW e \in Events
  PROVE  Merged(c, s, e.items, e.complete) \in Records
<1> DEFINE old == IF Known(c, s) THEN c.records[s]
                  ELSE [received |-> TRUE, age |-> Unfinalized, translations |-> NoTranslations]
           all == [t \in Slots |-> IF t \in DOMAIN e.items THEN e.items[t] ELSE old.translations[t]]
           done == e.complete \/ \A t \in Slots : all[t] # "absent"
<1>1. NoTranslations \in [Slots -> Outcomes] /\ Unfinalized \in Unfinalized..OldAge
  BY TtlRange DEF NoTranslations, Outcomes
<1>2. old \in Records
  <2>1. CASE Known(c, s)
    BY <2>1, CoreFields, BookShape DEF Known
  <2>2. CASE ~Known(c, s)
    BY <1>1, <2>2 DEF Records
  <2> QED BY <2>1, <2>2
<1> HIDE DEF old
<1>3. old.translations \in [Slots -> Outcomes]
  BY <1>2 DEF Records
<1>4. \A t \in DOMAIN e.items : e.items[t] \in {"text", "failed"}
  BY DEF Events
<1>5. all \in [Slots -> Outcomes]
  BY <1>3, <1>4 DEF Outcomes
<1>6. e.complete \in BOOLEAN
  BY DEF Events
<1> HIDE DEF all
<1>7. done \in BOOLEAN
  BY <1>6
<1> HIDE DEF done
<1>8. [old EXCEPT !.translations = all, !.received = done] \in Records
  BY <1>2, <1>5, <1>7 DEF Records
<1> QED BY <1>8 DEF Merged, old, all, done

\* A translation event, also one that comes late.
LEMMA TranslationGood ==
  ASSUME NEW c, NEW n \in Nat, Good(c, n), NEW e \in Events
  PROVE  LET d == AfterTranslation(c, e.sequence, e.items, e.complete)
         IN Good(d, n) /\ d.latest = c.latest
<1> DEFINE s == e.sequence
           m == WithRecord(c, s, Merged(c, s, e.items, e.complete))
           p == IF ShouldPromote(m, s) THEN PromoteOrDefer(m, s) ELSE m
<1>1. s \in Sequences
  BY DEF Events
<1>2. c \in Cores
  BY DEF Good, Sound
<1>3. Good(m, n) /\ Known(m, s) /\ m.latest = c.latest
  BY <1>1, <1>2, MergedRecord, StoredGood
<1>4. AfterTranslation(c, s, e.items, e.complete) = FlushPending(p)
  BY DEF AfterTranslation
<1> HIDE DEF m
<1>5. Good(p, n) /\ p.latest = c.latest
  <2>1. CASE ~ShouldPromote(m, s)
    BY <1>3, <2>1
  <2>2. CASE ShouldPromote(m, s)
    <3>1. m \in Cores /\ Held(m) /\ Ahead(m, n)
      BY <1>3 DEF Good, Sound
    <3>2. m.completed \in Nat /\ m.pending \in Nat /\ m.latest \in Nat /\ s \in Nat /\ s # NoSequence
      BY <1>1, <3>1, CoreFields
    <3>3. n <= s /\ m.completed <= s /\ s <= m.latest
      BY <2>2, <3>1, <3>2 DEF ShouldPromote, Ahead
    <3>4. m.pending = NoSequence \/ s <= m.pending
      BY <2>2, <3>1, <3>2 DEF ShouldPromote, Ahead
    <3>5. ComesNext(m, n, s)
      BY <1>1, <1>3, <3>3, <3>4 DEF ComesNext
    <3> QED BY <1>3, <2>2, <3>5, PromotedGood
  <2> QED BY <2>1, <2>2
<1> HIDE DEF p, s
<1>6. Good(FlushPending(p), n) /\ FlushPending(p).latest = p.latest
  BY <1>5, FlushedGood
<1> QED BY <1>4, <1>5, <1>6 DEF s

\* A tick, of whatever block: its own place among the ticks is free.
LEMMA TickGood ==
  ASSUME NEW c, NEW n \in Nat, Good(c, n), NEW t \in c.timers
  PROVE  LET d == AfterExpiryTick([c EXCEPT !.timers = @ \ {t}], t[1])
         IN Good(d, n) /\ d.latest = c.latest
<1> DEFINE b == [c EXCEPT !.timers = @ \ {t}]
           d == AfterExpiryTick(b, t[1])
           e == [b EXCEPT !.completed = NoSequence, !.source_left = Unset, !.translation_left = Unset]
<1>1. c \in Cores /\ Held(c) /\ Ahead(c, n) /\ Ticking(c)
  BY DEF Good, Sound
<1>2. c.timers \ {t} \in SUBSET (Sequences \X Nat)
  BY <1>1, CoreFields
<1>3. /\ b \in Cores /\ b.records = c.records /\ b.completed = c.completed
      /\ b.latest = c.latest /\ b.pending = c.pending /\ b.timers = c.timers \ {t}
      /\ b.source_left = c.source_left /\ b.translation_left = c.translation_left
  BY <1>1, <1>2 DEF Cores
<1> HIDE DEF b
<1>4. Sound(b, n)
  BY <1>1, <1>3 DEF Sound, Held, Ahead
<1>5. CASE b.completed # t[1]
  <2>1. FuturePoints(b) = FuturePoints(c)
    BY <1>3 DEF FuturePoints
  <2>2. Ticking(b)
    BY <1>1, <1>3, <1>5, <2>1 DEF Ticking
  <2>3. d = b
    BY <1>5 DEF AfterExpiryTick
  <2> QED BY <1>3, <1>4, <2>2, <2>3 DEF Good, b
<1>6. CASE b.completed = t[1]
  <2>1. CASE d = FlushPending(ScheduleNextCheck(b))
    <3>1. Good(ScheduleNextCheck(b), n) /\ ScheduleNextCheck(b).latest = b.latest
      BY <1>4, CheckScheduled
    <3>2. Good(d, n) /\ d.latest = ScheduleNextCheck(b).latest
      BY <2>1, <3>1, FlushedGood
    <3> QED BY <1>3, <3>1, <3>2 DEF b
  <2>2. CASE d = IF e.pending = NoSequence THEN e ELSE PromoteOrDefer(e, e.pending)
    <3>1. Unset \in Deadlines /\ NoSequence \in NumberOrNone
      BY TtlRange DEF Deadlines, NumberOrNone
    <3>2. /\ e \in Cores /\ e.records = b.records /\ e.completed = NoSequence
          /\ e.latest = b.latest /\ e.pending = b.pending
          /\ e.source_left = Unset /\ e.translation_left = Unset
      BY <1>3, <3>1 DEF Cores
    <3> HIDE DEF e, d
    <3>3. b.latest \in Nat /\ b.pending \in Nat /\ b.pending \in NumberOrNone
      BY <1>3, CoreFields
    <3>4. Held(e)
      BY <1>4, <3>2 DEF Sound, Held
    <3>5. Ahead(e, n)
      BY <1>4, <3>2, <3>3 DEF Sound, Ahead
    <3>6. Ticking(e)
      BY <3>2 DEF Ticking, FuturePoints
    <3>7. Good(e, n)
      BY <3>2, <3>4, <3>5, <3>6 DEF Good, Sound
    <3>8. CASE e.pending = NoSequence
      BY <1>3, <2>2, <3>2, <3>7, <3>8 DEF d, b
    <3>9. CASE e.pending # NoSequence
      <4>1. e.pending \in Sequences /\ Known(e, e.pending)
        BY <3>2, <3>3, <3>4, <3>9 DEF NumberOrNone, Held, Known
      <4>2. n <= e.pending /\ e.completed <= e.pending /\ e.pending <= e.latest /\ e.pending <= e.pending
        BY <3>5, <3>9, <4>1 DEF Ahead
      <4>3. ComesNext(e, n, e.pending)
        BY <4>1, <4>2 DEF ComesNext
      <4>4. Good(d, n) /\ d.latest = e.latest
        BY <2>2, <3>7, <3>9, <4>3, PromotedGood
      <4> QED BY <1>3, <3>2, <4>4 DEF d, b
    <3> QED BY <3>8, <3>9
  <2>3. e.pending = b.pending
    BY <1>3 DEF Cores
  <2> HIDE DEF e
  <2>4. \/ d = FlushPending(ScheduleNextCheck(b))
        \/ d = IF b.pending = NoSequence THEN e ELSE PromoteOrDefer(e, b.pending)
    BY <1>6 DEF AfterExpiryTick, e
  <2> QED BY <2>1, <2>2, <2>3, <2>4
<1> QED BY <1>5, <1>6

\* Nothing is left of a session but its ticks, which no block has.
LEMMA EmptyGood ==
  ASSUME NEW T \in SUBSET (Sequences \X Nat)
  PROVE  /\ Good([EmptyCore EXCEPT !.timers = T], 0)
         /\ [EmptyCore EXCEPT !.timers = T].latest = 0
         /\ [EmptyCore EXCEPT !.timers = T].completed = 0
<1> DEFINE d == [EmptyCore EXCEPT !.timers = T]
<1>1. d = [records |-> <<>>, active_partial |-> NoSequence, completed |-> NoSequence,
           latest |-> NoSequence, pending |-> NoSequence, source_left |-> Unset,
           translation_left |-> Unset, timers |-> T]
  BY DEF EmptyCore
<1>2. <<>> \in Books
  <2>1. <<>> \in [{} -> Records]
    OBVIOUS
  <2> QED BY <2>1 DEF Books
<1>3. Unset \in Deadlines /\ NoSequence \in NumberOrNone
  BY TtlRange DEF Deadlines, NumberOrNone
<1> HIDE DEF d
<1>4. d \in Cores
  BY <1>1, <1>2, <1>3 DEF Cores
<1>5. Held(d) /\ Ahead(d, 0) /\ Ticking(d)
  BY <1>1 DEF Held, Ahead, Ticking, FuturePoints
<1> QED BY <1>1, <1>4, <1>5 DEF Good, Sound, d

-----------------------------------------------------------------------------
(* Time *)

Less(left) == IF left > 0 THEN left - 1 ELSE left
Older(age) == IF age \in {Unfinalized, OldAge} THEN age ELSE age + 1
Aged(r) == [r EXCEPT !.age = Older(r.age)]

\* A record that ages keeps its texts, and what no final made has no age.
LEMMA AgedRecord ==
  ASSUME NEW r \in Records
  PROVE  /\ Aged(r) \in Records /\ Aged(r).translations = r.translations
         /\ Aged(r).age = Unfinalized <=> r.age = Unfinalized
<1>1. r.age \in Unfinalized..OldAge /\ OldAge \in Nat
  BY TtlRange DEF Records
<1>2. Older(r.age) \in Unfinalized..OldAge /\ (Older(r.age) = Unfinalized <=> r.age = Unfinalized)
  BY <1>1 DEF Older
<1> DEFINE a == Older(r.age)
<1> HIDE DEF a
<1>3. /\ [r EXCEPT !.age = a] \in Records /\ [r EXCEPT !.age = a].translations = r.translations
      /\ [r EXCEPT !.age = a].age = a
  BY <1>2 DEF Records, a
<1> QED BY <1>2, <1>3 DEF Aged, a

\* What a tick of the clock does to each field.
LEMMA ElapsedFields ==
  ASSUME NEW c \in Cores
  PROVE  LET d == Elapse(c) IN
         /\ d \in Cores
         /\ d.active_partial = c.active_partial /\ d.completed = c.completed
         /\ d.latest = c.latest /\ d.pending = c.pending
         /\ d.source_left = Less(c.source_left) /\ d.translation_left = Less(c.translation_left)
         /\ d.timers = {<<t[1], Less(t[2])>> : t \in c.timers}
         /\ DOMAIN d.records = DOMAIN c.records
         /\ \A s \in DOMAIN c.records : d.records[s] = Aged(c.records[s])
<1> DEFINE book == [s \in DOMAIN c.records |-> Aged(c.records[s])]
           T == {<<t[1], Less(t[2])>> : t \in c.timers}
           d == [c EXCEPT !.records = book, !.source_left = Less(c.source_left),
                          !.translation_left = Less(c.translation_left), !.timers = T]
<1>1. /\ c.records \in Books /\ c.source_left \in Deadlines /\ c.translation_left \in Deadlines
      /\ c.timers \in SUBSET (Sequences \X Nat)
  BY CoreFields
<1>2. book \in [DOMAIN c.records -> Records] /\ DOMAIN c.records \in SUBSET Sequences
  BY <1>1, BookShape, AgedRecord
<1>3. book \in Books /\ DOMAIN book = DOMAIN c.records
  BY <1>2, BookMade
<1>4. Less(c.source_left) \in Deadlines /\ Less(c.translation_left) \in Deadlines
  BY <1>1, TtlRange DEF Deadlines, Less
<1>5. T \in SUBSET (Sequences \X Nat)
  BY <1>1 DEF Less
<1>6. Elapse(c) = d
  BY Zenon DEF Elapse, Less, Aged, Older
<1>7. \A s \in DOMAIN c.records : book[s] = Aged(c.records[s])
  OBVIOUS
<1> HIDE DEF book, T
<1>8. /\ d \in Cores
      /\ d.active_partial = c.active_partial /\ d.completed = c.completed
      /\ d.latest = c.latest /\ d.pending = c.pending
      /\ d.source_left = Less(c.source_left) /\ d.translation_left = Less(c.translation_left)
      /\ d.timers = T /\ d.records = book
  BY <1>3, <1>4, <1>5 DEF Cores
<1> HIDE DEF d
<1> QED BY <1>3, <1>6, <1>7, <1>8 DEF T

\* Time keeps a core good.
LEMMA ElapsedGood ==
  ASSUME NEW c, NEW n, Good(c, n)
  PROVE  Good(Elapse(c), n)
<1> DEFINE d == Elapse(c)
<1>1. c \in Cores /\ Held(c) /\ Ahead(c, n) /\ Ticking(c)
  BY DEF Good, Sound
<1>2. /\ d \in Cores
      /\ d.completed = c.completed /\ d.latest = c.latest /\ d.pending = c.pending
      /\ d.source_left = Less(c.source_left) /\ d.translation_left = Less(c.translation_left)
      /\ d.timers = {<<t[1], Less(t[2])>> : t \in c.timers}
      /\ DOMAIN d.records = DOMAIN c.records
  BY <1>1, ElapsedFields
<1> HIDE DEF d
<1>3. c.source_left \in Int /\ c.translation_left \in Int /\ c.timers \in SUBSET (Sequences \X Nat)
  BY <1>1, CoreFields
<1>4. /\ Less(c.source_left) = Unset <=> c.source_left = Unset
      /\ Less(c.translation_left) = Unset <=> c.translation_left = Unset
  BY <1>3 DEF Less
<1>5. Held(d) /\ Ahead(d, n)
  BY <1>1, <1>2, <1>4 DEF Held, Ahead
<1>6. ASSUME NEW p \in FuturePoints(d)
      PROVE  \E t \in d.timers : t[1] = d.completed /\ t[2] <= p
  <2>1. PICK q \in FuturePoints(c) : q \in Int /\ p = q - 1 /\ p > 0
    BY <1>2, <1>3 DEF FuturePoints, Less
  <2>2. PICK t \in c.timers : t[1] = c.completed /\ t[2] <= q
    BY <1>1 DEF Ticking
  <2>3. t[2] \in Nat
    BY <1>3
  <2>4. Less(t[2]) <= p
    BY <2>1, <2>2, <2>3 DEF Less
  <2>5. <<t[1], Less(t[2])>> \in d.timers
    BY <1>2
  <2> QED BY <1>2, <2>2, <2>4, <2>5
<1> QED BY <1>2, <1>5, <1>6 DEF Good, Sound, Ticking, d

\* The view changes with time only when a tick of the completed block is due.
LEMMA ElapsedView ==
  ASSUME NEW c, NEW n, Good(c, n)
  PROVE  /\ <<c.completed, 0>> \in c.timers => <<c.completed, 0>> \in Elapse(c).timers
         /\ View(Elapse(c)) # View(c) => <<c.completed, 0>> \in Elapse(c).timers
<1> DEFINE d == Elapse(c)
           k == c.completed
<1>1. c \in Cores /\ Held(c) /\ Ticking(c)
  BY DEF Good, Sound
<1>2. /\ d.active_partial = c.active_partial /\ d.completed = c.completed
      /\ d.source_left = Less(c.source_left) /\ d.translation_left = Less(c.translation_left)
      /\ d.timers = {<<t[1], Less(t[2])>> : t \in c.timers}
      /\ DOMAIN d.records = DOMAIN c.records
      /\ \A s \in DOMAIN c.records : d.records[s] = Aged(c.records[s])
  BY <1>1, ElapsedFields
<1> HIDE DEF d
<1>3. /\ c.source_left \in Int /\ c.translation_left \in Int
      /\ c.timers \in SUBSET (Sequences \X Nat) /\ c.records \in Books
  BY <1>1, CoreFields
<1>4. ASSUME NEW t \in c.timers, t[1] = k, t[2] <= 1 PROVE <<k, 0>> \in d.timers
  <2>1. t[2] \in Nat
    BY <1>3
  <2>2. Less(t[2]) = 0
    BY <1>4, <2>1 DEF Less
  <2>3. <<t[1], Less(t[2])>> \in d.timers
    BY <1>2
  <2> QED BY <1>4, <2>2, <2>3
<1>5. <<k, 0>> \in c.timers => <<k, 0>> \in d.timers
  <2>1. <<k, 0>>[1] = k /\ <<k, 0>>[2] <= 1
    OBVIOUS
  <2> QED BY <1>4, <2>1
<1>6. ASSUME <<k, 0>> \notin d.timers PROVE View(d) = View(c)
  <2>1. 1 \notin FuturePoints(c)
    BY <1>1, <1>4, <1>6 DEF Ticking
  <2>2. c.source_left # 1 /\ c.translation_left # 1
    BY <2>1 DEF FuturePoints
  <2>3. /\ d.source_left > 0 <=> c.source_left > 0
        /\ d.translation_left > 0 <=> c.translation_left > 0
    BY <1>2, <1>3, <2>2 DEF Less
  <2>4. CASE ~Known(c, k)
    <3>1. \A hide : CurrentCompleted(d, hide) = {} /\ CurrentCompleted(c, hide) = {}
      BY <1>2, <2>4 DEF CurrentCompleted, Known
    <3> QED BY <1>2, <3>1 DEF View
  <2>5. CASE Known(c, k)
    <3>1. k \in DOMAIN c.records /\ c.records[k] \in Records /\ k \in Sequences
      BY <1>3, <2>5, BookShape DEF Known
    <3>2. /\ d.records[k].age = Unfinalized <=> c.records[k].age = Unfinalized
          /\ d.records[k].translations = c.records[k].translations
      BY <1>2, <3>1, AgedRecord
    <3>3. BuildPayload(d.records[k]) = BuildPayload(c.records[k])
      BY <3>2 DEF BuildPayload
    <3>4. c.source_left # Unset /\ d.source_left # Unset
      <4>1. c.source_left # Unset
        BY <1>1, <3>1 DEF Held
      <4> QED BY <1>2, <1>3, <4>1 DEF Less
    <3>5. Known(d, k)
      BY <1>2, <2>5 DEF Known
    <3>6. Unexpired(d) = Unexpired(c)
      <4>1. CASE c.records[k].age = Unfinalized
        BY <1>2, <2>5, <3>2, <3>5, <4>1 DEF Unexpired
      <4>2. CASE c.records[k].age # Unfinalized
        <5>1. Unexpired(c) = (IF c.source_left > 0 THEN {"source"} ELSE {})
                               \union (IF c.translation_left > 0 THEN {"translation"} ELSE {})
          BY <2>5, <3>4, <4>2 DEF Unexpired
        <5>2. Unexpired(d) = (IF d.source_left > 0 THEN {"source"} ELSE {})
                               \union (IF d.translation_left > 0 THEN {"translation"} ELSE {})
          BY <1>2, <3>2, <3>4, <3>5, <4>2 DEF Unexpired
        <5> QED BY <2>3, <5>1, <5>2
      <4> QED BY <4>1, <4>2
    <3>7. \A hide : CurrentCompleted(d, hide) = CurrentCompleted(c, hide)
      BY <1>2, <2>5, <3>3, <3>5, <3>6 DEF CurrentCompleted
    <3> QED BY <1>2, <3>7 DEF View
  <2> QED BY <2>4, <2>5
<1> QED BY <1>5, <1>6 DEF d

-----------------------------------------------------------------------------
(* The actor *)

\* The inductive invariant.
RouterInv ==
  /\ Good(core, shown) /\ shown \in Nat
  /\ core.completed # NoSequence => core.completed = shown
  /\ last_final \in 0..MaxSequence /\ core.latest <= last_final
  /\ translation_queue \in Seq(Events)
  /\ job \in [Sequences -> SUBSET Parts]
  /\ overlay \in Views
  /\ OverlayCurrent

\* What is published is a view.
LEMMA ViewType ==
  ASSUME NEW c \in Cores
  PROVE  View(c) \in Views
<1>1. c.completed \in Sequences \union {NoSequence}
  BY CoreFields DEF NumberOrNone
<1> DEFINE live == IF ShowSource THEN {"partial"} ELSE {}
           block == CurrentCompleted(c, c.active_partial # NoSequence)
           kept == IF KeepTranslation THEN block ELSE {}
<1>2. \A r : BuildPayload(r) \subseteq {"source", "translation"}
  BY DEF BuildPayload
<1>3. block \subseteq {"source", "translation"}
  BY <1>2 DEF CurrentCompleted
<1> HIDE DEF block
<1>4. /\ live \union kept \in SUBSET {"partial", "source", "translation"}
      /\ live \in SUBSET {"partial", "source", "translation"}
      /\ block \in SUBSET {"partial", "source", "translation"}
      /\ {} \in SUBSET {"partial", "source", "translation"}
  BY <1>3
<1>5. View(c) \in {[state |-> "completed_with_partial", block |-> c.completed, items |-> live \union kept],
                   [state |-> "partial_only", block |-> NoSequence, items |-> live],
                   [state |-> "completed_only", block |-> c.completed, items |-> block],
                   [state |-> "idle", block |-> NoSequence, items |-> {}]}
  BY DEF View, block
<1> HIDE DEF live, kept
<1> QED BY <1>1, <1>4, <1>5 DEF Views

\* A command that keeps the core good keeps the invariant.
LEMMA ApplyKeeps ==
  ASSUME RouterInv, NEW c, Good(c, shown), Apply(c), c.latest <= last_final',
         last_final' \in 0..MaxSequence, translation_queue' \in Seq(Events),
         job' \in [Sequences -> SUBSET Parts]
  PROVE  RouterInv'
<1>1. c \in Cores /\ Held(c) /\ Ahead(c, shown) /\ Ticking(c) /\ shown \in Nat
  BY DEF Good, Sound, RouterInv
<1>2. c.latest \in Nat /\ c.completed \in Nat /\ c.pending \in Nat
  BY <1>1, CoreFields
<1>3. core' = c /\ overlay' = View(c)
  BY DEF Apply
<1>4. /\ shown' \in Nat /\ shown' >= shown /\ shown' \in {shown, c.completed}
      /\ c.completed <= shown'
  <2>1. CASE c.latest = NoSequence
    <3>1. shown' = 0
      BY <1>3, <2>1 DEF Apply
    <3> QED BY <1>1, <1>2, <2>1, <3>1 DEF Ahead
  <2>2. CASE c.latest # NoSequence
    <3>1. shown' = Max({shown, c.completed})
      BY <1>3, <2>2 DEF Apply
    <3>2. shown' \in {shown, c.completed} /\ shown' >= shown /\ shown' >= c.completed
      <4>1. shown \in Int /\ c.completed \in Int
        BY <1>1, <1>2
      <4> HIDE DEF Max
      <4> QED BY <3>1, <4>1, MaxOfTwo
    <3> QED BY <1>1, <1>2, <3>2
  <2> QED BY <2>1, <2>2
<1>5. c.completed # NoSequence => c.completed = shown'
  BY <1>1, <1>2, <1>4 DEF Ahead
<1>6. Ahead(c, shown')
  BY <1>1, <1>2, <1>4, <1>5 DEF Ahead
<1>7. Good(core, shown)'
  BY <1>1, <1>3, <1>6 DEF Good, Sound, Held, Ahead, Ticking
<1>8. overlay' \in Views /\ OverlayCurrent'
  BY <1>1, <1>3, ViewType DEF OverlayCurrent
<1> QED BY <1>3, <1>4, <1>5, <1>7, <1>8 DEF RouterInv

\* What the dispatcher sends is an event.
LEMMA SentEvent ==
  ASSUME RouterInv, NEW s \in Sequences, NEW part \in Parts, NEW outcome \in {"text", "failed"},
         Known(core, s)
  PROVE  [sequence |-> s, items |-> Items(s, part, outcome), complete |-> part = Completion] \in Events
<1> DEFINE all == UNION {[D -> {"text", "failed"}] : D \in SUBSET Slots}
<1>1. Items(s, part, outcome) \in all
  <2>1. CASE part = Completion
    <3>1. core.records[s] \in Records
      BY CoreFields, BookShape DEF RouterInv, Good, Sound, Known
    <3>2. core.records[s].translations \in [Slots -> Outcomes]
      BY <3>1 DEF Records
    <3> DEFINE D == ReceivedSlots(core, s)
    <3>3. D \in SUBSET Slots /\ \A t \in D : core.records[s].translations[t] \in {"text", "failed"}
      BY <3>2 DEF ReceivedSlots, Outcomes
    <3> HIDE DEF D
    <3>4. [t \in D |-> core.records[s].translations[t]] \in [D -> {"text", "failed"}]
      BY <3>3
    <3> QED BY <2>1, <3>3, <3>4 DEF Items, D
  <2>2. CASE part # Completion
    <3>1. {part} \in SUBSET Slots
      BY <2>2 DEF Parts
    <3>2. [t \in {part} |-> outcome] \in [{part} -> {"text", "failed"}]
      OBVIOUS
    <3> QED BY <2>2, <3>1, <3>2 DEF Items
  <2> QED BY <2>1, <2>2
<1>2. (part = Completion) \in BOOLEAN
  OBVIOUS
<1> QED BY <1>1, <1>2 DEF Events

\* At the start nothing is shown.
LEMMA RouterInit == Init => RouterInv
<1> SUFFICES ASSUME Init PROVE RouterInv
  OBVIOUS
<1>1. /\ core = EmptyCore /\ shown = 0 /\ last_final = 0 /\ translation_queue = <<>>
      /\ overlay = View(EmptyCore) /\ job = [s \in Sequences |-> {}]
  BY DEF Init
<1>2. EmptyCore = [EmptyCore EXCEPT !.timers = {}]
  BY DEF EmptyCore
<1>3. Good(EmptyCore, 0) /\ EmptyCore.latest = 0 /\ EmptyCore.completed = 0
  BY <1>2, EmptyGood, {} \in SUBSET (Sequences \X Nat)
<1>4. EmptyCore \in Cores
  BY <1>3 DEF Good, Sound
<1>5. overlay \in Views /\ OverlayCurrent
  BY <1>1, <1>4, ViewType DEF OverlayCurrent
<1>6. <<>> \in Seq(Events) /\ [s \in Sequences |-> {}] \in [Sequences -> SUBSET Parts]
  OBVIOUS
<1> QED BY <1>1, <1>3, <1>5, <1>6 DEF RouterInv

\* Every step of the actor, its senders and the clock keeps the invariant.
LEMMA RouterStep == RouterInv /\ [Next]_vars => RouterInv'
<1> SUFFICES ASSUME RouterInv, [Next]_vars PROVE RouterInv'
  OBVIOUS
<1>1. /\ Good(core, shown) /\ shown \in Nat /\ core.latest <= last_final
      /\ last_final \in 0..MaxSequence /\ translation_queue \in Seq(Events)
      /\ job \in [Sequences -> SUBSET Parts] /\ core \in Cores
  BY DEF RouterInv, Good, Sound
<1>2. core.latest \in Nat /\ core.timers \in SUBSET (Sequences \X Nat)
  BY <1>1, CoreFields
<1>3. ASSUME NEW c, Good(c, shown), c.latest = core.latest, Apply(c),
             UNCHANGED <<translation_queue, last_final, job>>
      PROVE  RouterInv'
  BY <1>1, <1>3, ApplyKeeps
<1>4. Partial => RouterInv'
  <2>1. Live \in NumberOrNone \union {Live}
    OBVIOUS
  <2>2. Good(AfterPartial(core), shown) /\ AfterPartial(core).latest = core.latest
    BY <1>1, <2>1, PartialGood DEF AfterPartial
  <2> QED BY <1>3, <2>2 DEF Partial
<1>5. ClearPartial => RouterInv'
  <2>1. NoSequence \in NumberOrNone \union {Live}
    BY DEF NumberOrNone
  <2>2. Good(AfterClearPartial(core), shown) /\ AfterClearPartial(core).latest = core.latest
    BY <1>1, <2>1, PartialGood DEF AfterClearPartial
  <2> QED BY <1>3, <2>2 DEF ClearPartial
<1>6. Final => RouterInv'
  <2> SUFFICES ASSUME Final PROVE RouterInv'
    OBVIOUS
  <2>1. /\ last_final < MaxSequence /\ last_final' = last_final + 1
        /\ Apply(AfterFinal(core, last_final')) /\ translation_queue' = translation_queue
    BY DEF Final
  <2> DEFINE s == last_final + 1
  <2>2. s \in Sequences /\ s \in 0..MaxSequence /\ core.latest < s
    BY <1>1, <1>2, <2>1
  <2>3. job' \in [Sequences -> SUBSET Parts]
    BY <1>1 DEF Final
  <2> HIDE DEF s
  <2>4. last_final' = s /\ Apply(AfterFinal(core, s))
    BY <2>1 DEF s
  <2>5. Good(AfterFinal(core, s), shown) /\ AfterFinal(core, s).latest = s
    BY <1>1, <2>2, FinalGood
  <2>6. s <= s
    BY <2>2
  <2> QED BY <1>1, <2>1, <2>2, <2>3, <2>4, <2>5, <2>6, ApplyKeeps
<1>7. ExpiryTick => RouterInv'
  <2> SUFFICES ASSUME ExpiryTick PROVE RouterInv'
    OBVIOUS
  <2>1. PICK t \in core.timers :
          /\ Apply(AfterExpiryTick([core EXCEPT !.timers = @ \ {t}], t[1]))
          /\ UNCHANGED <<translation_queue, last_final, job>>
    BY DEF ExpiryTick
  <2> DEFINE d == AfterExpiryTick([core EXCEPT !.timers = @ \ {t}], t[1])
  <2>2. Good(d, shown) /\ d.latest = core.latest
    BY <1>1, TickGood
  <2> HIDE DEF d
  <2>3. Apply(d)
    BY <2>1 DEF d
  <2> QED BY <1>3, <2>1, <2>2, <2>3
<1>8. Reset => RouterInv'
  <2> SUFFICES ASSUME Reset PROVE RouterInv'
    OBVIOUS
  <2> DEFINE d == [EmptyCore EXCEPT !.timers = core.timers]
  <2>1. Apply(d) /\ last_final' = 0 /\ UNCHANGED <<translation_queue, job>>
    BY DEF Reset, AfterReset
  <2>2. Good(d, 0) /\ d.latest = 0 /\ d.completed = 0
    BY <1>2, EmptyGood
  <2> HIDE DEF d
  <2>3. core' = d /\ overlay' = View(d) /\ shown' = 0
    BY <2>1, <2>2 DEF Apply
  <2>4. d \in Cores
    BY <2>2 DEF Good, Sound
  <2>5. Good(core, shown)'
    BY <2>2, <2>3 DEF Good, Sound, Held, Ahead, Ticking
  <2>6. overlay' \in Views /\ OverlayCurrent'
    BY <2>3, <2>4, ViewType DEF OverlayCurrent
  <2> QED BY <1>1, <2>1, <2>2, <2>3, <2>5, <2>6 DEF RouterInv
<1>9. Republish => RouterInv'
  BY <1>1, <1>3 DEF Republish
<1>10. ApplyTranslation => RouterInv'
  <2> SUFFICES ASSUME ApplyTranslation PROVE RouterInv'
    OBVIOUS
  <2> DEFINE e == Head(translation_queue)
             d == AfterTranslation(core, e.sequence, e.items, e.complete)
  <2>1. /\ translation_queue # <<>> /\ Apply(d) /\ translation_queue' = Tail(translation_queue)
        /\ UNCHANGED <<last_final, job>>
    BY DEF ApplyTranslation
  <2>2. e \in Events /\ translation_queue' \in Seq(Events)
    BY <1>1, <2>1
  <2> HIDE DEF e
  <2>3. Good(d, shown) /\ d.latest = core.latest
    BY <1>1, <2>2, TranslationGood
  <2> HIDE DEF d
  <2> QED BY <1>1, <2>1, <2>2, <2>3, ApplyKeeps
<1>11. ASSUME NEW s \in Sequences, NEW part \in Parts, NEW outcome \in {"text", "failed"},
              SendTranslation(s, part, outcome)
       PROVE  RouterInv'
  <2> DEFINE e == [sequence |-> s, items |-> Items(s, part, outcome), complete |-> part = Completion]
  <2>1. Known(core, s)
    BY <1>11 DEF SendTranslation, RelevantForTranslation, RelevantForPresentation
  <2>2. e \in Events
    BY <2>1, SentEvent
  <2>3. translation_queue' = Append(translation_queue, e)
    BY <1>11 DEF SendTranslation
  <2> HIDE DEF e
  <2>4. translation_queue' \in Seq(Events)
    BY <1>1, <2>2, <2>3
  <2>5. /\ core' = core /\ overlay' = overlay /\ last_final' = last_final /\ shown' = shown
        /\ job' \in [Sequences -> SUBSET Parts]
    BY <1>1, <1>11 DEF SendTranslation
  <2> QED BY <2>4, <2>5 DEF RouterInv, OverlayCurrent
<1>12. ASSUME NEW s \in Sequences, NEW part \in Parts, DropTranslation(s, part) PROVE RouterInv'
  <2>1. /\ core' = core /\ overlay' = overlay /\ last_final' = last_final /\ shown' = shown
        /\ translation_queue' = translation_queue /\ job' \in [Sequences -> SUBSET Parts]
    BY <1>1, <1>12 DEF DropTranslation
  <2> QED BY <2>1 DEF RouterInv, OverlayCurrent
<1>13. Clock => RouterInv'
  <2> SUFFICES ASSUME Clock PROVE RouterInv'
    OBVIOUS
  <2> DEFINE d == Elapse(core)
  <2>1. core' = d /\ UNCHANGED <<translation_queue, overlay, last_final, job, shown>>
    BY DEF Clock
  <2>2. Good(d, shown) /\ d.completed = core.completed /\ d.latest = core.latest
    BY <1>1, ElapsedGood, ElapsedFields
  <2>3. /\ <<core.completed, 0>> \in core.timers => <<core.completed, 0>> \in d.timers
        /\ View(d) # View(core) => <<core.completed, 0>> \in d.timers
    BY <1>1, ElapsedView
  <2> HIDE DEF d
  <2>4. OverlayCurrent'
    BY <2>1, <2>2, <2>3 DEF RouterInv, OverlayCurrent
  <2>5. Good(core, shown)'
    BY <2>1, <2>2 DEF Good, Sound, Held, Ahead, Ticking
  <2> QED BY <2>1, <2>2, <2>4, <2>5 DEF RouterInv
<1>14. UNCHANGED vars => RouterInv'
  BY DEF vars, RouterInv, OverlayCurrent
<1> QED
  BY <1>4, <1>5, <1>6, <1>7, <1>8, <1>9, <1>10, <1>11, <1>12, <1>13, <1>14 DEF Next

\* So it holds always.
LEMMA RouterAlways == Spec => []RouterInv
BY RouterInit, RouterStep, PTL DEF Spec

\* Every variable keeps its type, for any settings and bounds.
THEOREM RouterTypeCorrect == Spec => []TypeOK
<1>1. RouterInv => TypeOK
  <2> SUFFICES ASSUME RouterInv PROVE TypeOK
    OBVIOUS
  <2>1. core \in Cores /\ Ahead(core, shown)
    BY DEF RouterInv, Good, Sound
  <2>2. core.latest \in Nat /\ core.latest \in NumberOrNone
    BY <2>1, CoreFields
  <2>3. shown \in 0..MaxSequence
    BY <2>1, <2>2 DEF Ahead, RouterInv, NumberOrNone
  <2>4. DOMAIN core.records \subseteq Sequences /\ \A s \in DOMAIN core.records : core.records[s] \in Records
    BY <2>1, CoreFields, BookShape
  <2> QED BY <2>1, <2>3, <2>4, CoreFields DEF TypeOK, RouterInv, NumberOrNone
<1> QED BY <1>1, RouterAlways, PTL

\* A deadline of the completed block that lies ahead has a tick no later than itself, however
\* events, ticks, pruning and resets fall: no block stays up for want of a tick.
THEOREM DeadlinesHaveTicks == Spec => []DeadlineHasTick
<1>1. RouterInv => DeadlineHasTick
  BY DEF RouterInv, Good, Ticking, DeadlineHasTick
<1> QED BY <1>1, RouterAlways, PTL

\* The overlay shows what the core would publish, but from a deadline to the tick that is due.
THEOREM OverlayStaysCurrent == Spec => []OverlayCurrent
<1>1. RouterInv => OverlayCurrent
  BY DEF RouterInv
<1> QED BY <1>1, RouterAlways, PTL

\* Blocks replace each other forward only, and what the completed block, the deferred final and
\* the newest final need is never pruned, whatever the settings.
THEOREM BlocksStayInOrder == Spec => []BlocksInOrder
<1>1. RouterInv => BlocksInOrder
  BY DEF RouterInv, Good, Sound, Held, Ahead, BlocksInOrder, ReferencesHeld, DeferredIsNewer,
         NeverOlderBlock
<1> QED BY <1>1, RouterAlways, PTL
-----------------------------------------------------------------------------
(* OBS captions *)

HIDE DEF Sequences, NoSequence, Unset, Unfinalized, Live

Words == Texts \union {Blank}
Numbers == Nat \ {0}
Announced == [kind : {"partial", "final", "payload"}, n : Numbers, text : Words, bumps : BOOLEAN]
Delays == [kind : {"send", "clear"}, n : Numbers, text : Words, sinks : SUBSET Sinks, fresh : BOOLEAN]
Queued == Announced \union Delays
Busy == {"send", "wait", "lock"} \union Sinks
Sends ==
  [pc : Busy, n : Numbers, text : Words, sinks : SUBSET Sinks, asked : SUBSET Sinks, force : BOOLEAN,
   clears : BOOLEAN, final : BOOLEAN, conf : Settings]
Sleeps == [pc : {"sleep"}, item : Delays]
Senders == {Absent, Idle} \union Sleeps \union Sends
Captions == [n : Nat, text : Words, final : BOOLEAN]
Notes ==
  [partial : Words, payload : {<<>>} \union (Numbers \X Words), stream : Words \union {None},
   mirror : Words \union {None}]

CaptionTypeOK ==
  /\ settings \in Settings
  /\ said \in Seq(Words)
  /\ announcing \in [Publishers -> {<<>>} \union {<<item>> : item \in Announced}]
  /\ outbox \in Seq(Queued)
  /\ sender \in Senders
  /\ memory \in Notes
  /\ screen \in [Sinks -> Captions]

\* At most one partial waits, as WithoutPartials takes for granted.
Before(q, x, y) == \E i, j \in DOMAIN q : i < j /\ q[i] = x /\ q[j] = y
OnePartialIn(q) == \A x, y \in ToSet(q) : Before(q, x, y) => ~(x.kind = "partial" /\ y.kind = "partial")
OnePartial == OnePartialIn(outbox)

Waiting == ToSet(outbox)
Newest == Len(said)
Sending == sender.pc \in Busy

\* The items that finals are shown from, if any are.
IsFinal(item) ==
  \/ item.kind = "payload" /\ settings.mode = "payload"
  \/ item.kind = "final" /\ settings.mode = "source"
IsPartial(item) == item.kind = "partial" /\ settings.mode = "source"

-----------------------------------------------------------------------------
(* What holds as long as nothing is excused *)

Calm == request \in {None, "apply"}
MemoryIsOld == memory.payload # <<>> => memory.payload[1] <= Newest

\* What is announced is of the newest final, or of the next one.
IsNew(p, item) ==
  /\ item.kind \in IF p = "source" THEN {"partial", "final"} ELSE {"payload"}
  /\ IsFinal(item) => item.n = Newest
  /\ IsPartial(item) => item.n = Newest + 1
  /\ item.kind \in {"partial", "final"} => item.text # Blank
  /\ item.kind = "final" => settings.mode # "payload"
AnnouncedIsNew == \A p \in Publishers : announcing[p] # <<>> => IsNew(p, announcing[p][1])

\* A delayed item can be carried out with the settings that there are.
DelayFits(item) ==
  /\ item.text # Blank
  /\ item.kind = "send" => settings.delay /\ item.sinks = FinalSinks /\ item.n <= Newest
  /\ item.kind = "clear" => settings.clear
  /\ item.sinks # {}
Fits(item) ==
  /\ IsFinal(item) => item.n <= Newest
  /\ IsPartial(item) => item.n <= Newest + 1
  /\ item.kind \in {"partial", "final"} => item.text # Blank
  /\ item.kind \in {"send", "clear"} => DelayFits(item)
WaitingFits ==
  /\ \A x \in Waiting : Fits(x)
  /\ sender.pc = "sleep" => DelayFits(sender.item)

\* Finals and partials wait in the order in which they were spoken, and so do finals whose delay
\* has not passed, which are older than those that wait to be delayed.
InTurn(x, y) ==
  /\ IsFinal(x) /\ IsFinal(y) => x.n <= y.n
  /\ x.kind = "final" /\ IsFinal(x) /\ (IsFinal(y) \/ IsPartial(y)) => x.n < y.n
  /\ x.kind = "send" /\ y.kind = "send" => x.n <= y.n
QueueInOrder ==
  /\ \A x, y \in Waiting : Before(outbox, x, y) => InTurn(x, y)
  /\ \A x, y \in Waiting : x.kind = "send" /\ IsFinal(y) => x.n <= y.n
  /\ \A p \in Publishers, x \in Waiting :
       announcing[p] # <<>> /\ announcing[p][1].kind = "final" /\ settings.mode = "source" =>
         (IsFinal(x) => x.n < Newest) /\ (IsPartial(x) => x.n <= Newest)

\* What the worker sends: a final, a partial or a clear.
SendOK ==
  Sending =>
    /\ sender.conf = settings
    /\ sender.sinks # {} /\ sender.sinks \subseteq sender.asked
    /\ sender.pc \in Sinks => sender.pc \in sender.sinks
    /\ sender.clears \/ sender.text = Blank \/ sender.pc \notin Sinks => sender.sinks = sender.asked
    /\ sender.clears =>
         sender.final /\ sender.text # Blank /\ sender.asked = FinalSinks /\ sender.n <= Newest
    /\ ~sender.clears /\ sender.text = Blank => sender.force
    /\ ~sender.clears /\ sender.text # Blank => ~sender.final
    /\ sender.pc = "stream" /\ "mirror" \in sender.sinks /\ sender.clears =>
         screen["mirror"].n = sender.n

\* A clear that waits or is sent is not of an older final than the one that is on the screen.
Hits(s, n) == screen[s].final /\ screen[s].text # Blank => screen[s].n <= n
ClearsHit ==
  /\ \A x \in Waiting : x.kind = "clear" /\ x.fresh =>
       \A s \in x.sinks :
         Hits(s, x.n) \/ (sender.pc = "stream" /\ sender.clears /\ s = "mirror" /\ s \in sender.asked)
  /\ sender.pc = "sleep" /\ sender.item.kind = "clear" /\ sender.item.fresh =>
       \A s \in sender.item.sinks : Hits(s, sender.item.n)
  /\ Sending /\ sender.text = Blank => \A s \in sender.sinks : Hits(s, sender.n)

\* The newest final waits, is on its way, or was shown and will be cleared.
Awaiting(item) ==
  /\ IsFinal(item) /\ item.n = Newest /\ item.text # Blank
  /\ ~(item.kind = "payload" /\ settings.dedupe /\ memory.payload = <<item.n, item.text>>)
Awaited ==
  \/ \E p \in Publishers : announcing[p] # <<>> /\ Awaiting(announcing[p][1])
  \/ \E x \in Waiting : Awaiting(x)
FreshSend(item) == item.kind = "send" /\ item.fresh /\ item.n = Newest
SendWaits == \E x \in Waiting : FreshSend(x)
OnItsWay ==
  \/ SendWaits
  \/ sender.pc = "sleep" /\ FreshSend(sender.item)
  \/ Sending /\ sender.clears /\ sender.n = Newest
FreshClear(item, s) == item.kind = "clear" /\ item.fresh /\ item.n = Newest /\ s \in item.sinks
WillClear(s) ==
  \/ \E x \in Waiting : FreshClear(x, s)
  \/ sender.pc = "sleep" /\ FreshClear(sender.item, s)
  \/ Sending /\ sender.text = Blank /\ s \in sender.sinks /\ (sender.pc = "stream" => s = "stream")
WasShown ==
  \A s \in FinalSinks :
    /\ screen[s].n >= Newest
    /\ screen[s].n = Newest /\ settings.clear /\ screen[s].text # Blank => WillClear(s)
NewestFinal == FinalSinks # {} => Awaited \/ OnItsWay \/ WasShown

\* Whatever is older than the newest final is overtaken by it in the end.
Overtaken == Awaited \/ SendWaits
OlderFirst ==
  FinalSinks # {} =>
    /\ \A x \in Waiting :
         /\ IsPartial(x) /\ x.n <= Newest => Awaited
         /\ IsFinal(x) /\ x.n < Newest => Awaited
         /\ x.kind = "send" /\ x.fresh /\ x.n < Newest => Overtaken
    /\ sender.pc = "sleep" /\ sender.item.kind = "send" /\ sender.item.fresh /\ sender.item.n < Newest =>
         Overtaken
    /\ Sending /\ sender.text # Blank /\ ~sender.clears /\ sender.n <= Newest => Awaited
    /\ Sending /\ sender.clears /\ sender.n < Newest => Overtaken

Orderly ==
  /\ Calm /\ MemoryIsOld /\ AnnouncedIsNew /\ WaitingFits /\ QueueInOrder /\ SendOK
  /\ ClearsHit /\ NewestFinal /\ OlderFirst
CaptionInv == CaptionTypeOK /\ OnePartial /\ (excused = {} => Orderly)

-----------------------------------------------------------------------------
(* Queues *)

\* What the fields of a queued item are.
LEMMA ItemFields ==
  ASSUME NEW x \in Queued
  PROVE  /\ x.n \in Nat /\ x.n > 0 /\ x.text \in Words
         /\ x.kind \in {"partial", "final", "payload", "send", "clear"}
         /\ x.kind \in {"send", "clear"} => x \in Delays
         /\ x.kind \in {"partial", "final", "payload"} => x \in Announced
BY DEF Queued, Announced, Delays, Numbers

\* The items of a queue, and the order of two of them.
LEMMA QueueItems ==
  ASSUME NEW q \in Seq(Queued)
  PROVE  /\ ToSet(q) \subseteq Queued
         /\ \A i \in 1..Len(q) : q[i] \in ToSet(q)
         /\ \A x \in ToSet(q) : \E i \in 1..Len(q) : x = q[i]
         /\ DOMAIN q = 1..Len(q) /\ Len(q) \in Nat
BY LenProperties, ElementOfSeq DEF ToSet

\* The head of a queue lies before all the others, which stay in their order.
LEMMA QueueTail ==
  ASSUME NEW q \in Seq(Queued), q # <<>>
  PROVE  /\ Head(q) \in Queued /\ Head(q) \in ToSet(q) /\ Tail(q) \in Seq(Queued)
         /\ ToSet(Tail(q)) \subseteq ToSet(q) /\ ToSet(q) \subseteq {Head(q)} \union ToSet(Tail(q))
         /\ \A x, y : Before(Tail(q), x, y) => Before(q, x, y)
         /\ \A y \in ToSet(Tail(q)) : Before(q, Head(q), y)
<1> DEFINE t == Tail(q)
<1>1. /\ t \in Seq(Queued) /\ Len(t) = Len(q) - 1 /\ \A i \in 1..Len(t) : t[i] = q[i + 1]
      /\ Head(q) \in Queued
  BY HeadTailProperties
<1>2. Head(q) = q[1] OBVIOUS
<1>3. Len(q) \in Nat /\ Len(q) > 0 /\ DOMAIN q = 1..Len(q) BY EmptySeq, LenProperties
<1>4. DOMAIN t = 1..(Len(q) - 1) BY <1>1, LenProperties
<1> HIDE DEF t
<1>5. Head(q) \in ToSet(q) BY <1>2, <1>3 DEF ToSet
<1>6. ASSUME NEW i \in DOMAIN t PROVE i + 1 \in DOMAIN q /\ t[i] = q[i + 1] /\ 1 < i + 1 /\ i \in Int
  BY <1>1, <1>3, <1>4
<1>7. ToSet(t) \subseteq ToSet(q) BY <1>6 DEF ToSet
<1>8. ASSUME NEW x \in ToSet(q), x # Head(q) PROVE x \in ToSet(t)
  <2>1. PICK i \in 1..Len(q) : x = q[i] BY <1>3 DEF ToSet
  <2>2. i - 1 \in DOMAIN t /\ (i - 1) + 1 = i BY <1>2, <1>3, <1>4, <1>8, <2>1
  <2>3. t[i - 1] = x BY <1>6, <2>1, <2>2
  <2> QED BY <2>2, <2>3 DEF ToSet
<1>9. ASSUME NEW x, NEW y, Before(t, x, y) PROVE Before(q, x, y)
  <2>1. PICK i, j \in DOMAIN t : i < j /\ t[i] = x /\ t[j] = y BY <1>9 DEF Before
  <2>2. i + 1 \in DOMAIN q /\ q[i + 1] = x /\ j + 1 \in DOMAIN q /\ q[j + 1] = y BY <1>6, <2>1
  <2>3. i + 1 < j + 1 BY <1>6, <2>1
  <2> QED BY <2>2, <2>3 DEF Before
<1>10. ASSUME NEW y \in ToSet(t) PROVE Before(q, Head(q), y)
  <2>1. PICK j \in DOMAIN t : y = t[j] BY DEF ToSet
  <2>2. j + 1 \in DOMAIN q /\ q[j + 1] = y /\ 1 < j + 1 BY <1>6, <2>1
  <2>3. 1 \in DOMAIN q BY <1>3
  <2> QED BY <1>2, <2>2, <2>3 DEF Before
<1> QED BY <1>1, <1>5, <1>7, <1>8, <1>9, <1>10 DEF t

\* A new item goes behind all the others.
LEMMA QueueAppend ==
  ASSUME NEW q \in Seq(Queued), NEW item \in Queued
  PROVE  /\ Append(q, item) \in Seq(Queued)
         /\ ToSet(Append(q, item)) = ToSet(q) \union {item}
         /\ \A x, y : Before(Append(q, item), x, y) =>
              Before(q, x, y) \/ (x \in ToSet(q) /\ y = item)
<1> DEFINE t == Append(q, item)
<1>1. /\ t \in Seq(Queued) /\ Len(t) = Len(q) + 1 /\ t[Len(q) + 1] = item
      /\ \A i \in 1..Len(q) : t[i] = q[i]
  BY AppendProperties
<1>2. Len(q) \in Nat /\ DOMAIN q = 1..Len(q) BY LenProperties
<1>3. DOMAIN t = 1..(Len(q) + 1) BY <1>1, LenProperties
<1> HIDE DEF t
<1>4. ToSet(t) = ToSet(q) \union {item}
  <2>1. ASSUME NEW x \in ToSet(t) PROVE x \in ToSet(q) \union {item}
    <3>1. PICK i \in DOMAIN t : x = t[i] BY DEF ToSet
    <3>2. i \in DOMAIN q \/ i = Len(q) + 1 BY <1>2, <1>3
    <3> QED BY <1>1, <1>2, <3>1, <3>2 DEF ToSet
  <2>2. ASSUME NEW x \in ToSet(q) PROVE x \in ToSet(t)
    <3>1. PICK i \in DOMAIN q : x = q[i] BY DEF ToSet
    <3>2. i \in DOMAIN t /\ t[i] = x BY <1>1, <1>2, <1>3, <3>1
    <3> QED BY <3>2 DEF ToSet
  <2>3. item \in ToSet(t)
    <3>1. Len(q) + 1 \in DOMAIN t BY <1>2, <1>3
    <3> QED BY <1>1, <3>1 DEF ToSet
  <2> QED BY <2>1, <2>2, <2>3
<1>5. ASSUME NEW x, NEW y, Before(t, x, y) PROVE Before(q, x, y) \/ (x \in ToSet(q) /\ y = item)
  <2>1. PICK i, j \in DOMAIN t : i < j /\ t[i] = x /\ t[j] = y BY <1>5 DEF Before
  <2>2. i \in DOMAIN q /\ q[i] = x BY <1>1, <1>2, <1>3, <2>1
  <2>3. CASE j \in DOMAIN q
    <3>1. q[j] = y BY <1>1, <1>2, <2>1, <2>3
    <3> QED BY <2>1, <2>2, <2>3, <3>1 DEF Before
  <2>4. CASE j \notin DOMAIN q
    <3>1. j = Len(q) + 1 BY <1>2, <1>3, <2>4
    <3> QED BY <1>1, <2>1, <2>2, <3>1 DEF ToSet
  <2> QED BY <2>3, <2>4
<1> QED BY <1>1, <1>4, <1>5 DEF t

\* A stale item differs in nothing but that it is not fresh.
LEMMA StaleItem ==
  ASSUME NEW x \in Queued, NEW kinds \in SUBSET {"send", "clear"}
  PROVE  /\ Stale(x, kinds) \in Queued
         /\ Stale(x, kinds).kind = x.kind /\ Stale(x, kinds).n = x.n
         /\ Stale(x, kinds).text = x.text
         /\ x.kind \notin kinds => Stale(x, kinds) = x
         /\ x.kind \in {"send", "clear"} => Stale(x, kinds) \in Delays /\ Stale(x, kinds).sinks = x.sinks
         /\ x.kind \in kinds => ~Stale(x, kinds).fresh
<1>1. CASE x.kind \in kinds
  <2>1. x \in Delays BY <1>1, ItemFields
  <2> QED BY <1>1, <2>1 DEF Stale, Delays, Queued
<1>2. CASE x.kind \notin kinds
  BY <1>2, ItemFields DEF Stale
<1> QED BY <1>1, <1>2

\* Bumping a generation leaves every item at its place.
LEMMA QueueStale ==
  ASSUME NEW q \in Seq(Queued), NEW kinds \in SUBSET {"send", "clear"}
  PROVE  LET t == [i \in DOMAIN q |-> Stale(q[i], kinds)]
         IN /\ t \in Seq(Queued)
            /\ ToSet(t) = {Stale(x, kinds) : x \in ToSet(q)}
            /\ \A x, y : Before(t, x, y) =>
                 \E u, v \in ToSet(q) : Before(q, u, v) /\ x = Stale(u, kinds) /\ y = Stale(v, kinds)
<1> DEFINE t == [i \in DOMAIN q |-> Stale(q[i], kinds)]
<1>1. Len(q) \in Nat /\ DOMAIN q = 1..Len(q) /\ \A i \in DOMAIN q : q[i] \in Queued
  BY LenProperties, ElementOfSeq
<1>2. \A i \in DOMAIN q : Stale(q[i], kinds) \in Queued BY <1>1, StaleItem
<1>3. t \in Seq(Queued)
  <2>1. t \in [1..Len(q) -> Queued] BY <1>1, <1>2
  <2> QED BY <1>1, <2>1
<1>4. DOMAIN t = DOMAIN q /\ \A i \in DOMAIN q : t[i] = Stale(q[i], kinds) OBVIOUS
<1> HIDE DEF t
<1>5. ToSet(t) = {Stale(x, kinds) : x \in ToSet(q)} BY <1>4 DEF ToSet
<1>6. ASSUME NEW x, NEW y, Before(t, x, y)
      PROVE  \E u, v \in ToSet(q) : Before(q, u, v) /\ x = Stale(u, kinds) /\ y = Stale(v, kinds)
  <2>1. PICK i, j \in DOMAIN t : i < j /\ t[i] = x /\ t[j] = y BY <1>6 DEF Before
  <2>2. q[i] \in ToSet(q) /\ q[j] \in ToSet(q) /\ Before(q, q[i], q[j])
    BY <1>4, <2>1 DEF Before, ToSet
  <2>3. x = Stale(q[i], kinds) /\ y = Stale(q[j], kinds) BY <1>4, <2>1
  <2> QED BY <2>2, <2>3
<1> QED BY <1>3, <1>5, <1>6 DEF t

\* One place less: what lay behind it moves up.
LEMMA ItemRemoved ==
  ASSUME NEW q \in Seq(Queued), NEW i \in 1..Len(q)
  PROVE  /\ RemoveAt(q, i) \in Seq(Queued) /\ Len(RemoveAt(q, i)) = Len(q) - 1
         /\ \A j \in 1..(Len(q) - 1) : RemoveAt(q, i)[j] = IF j < i THEN q[j] ELSE q[j + 1]
<1>1. Len(q) \in Nat /\ \A j \in 1..Len(q) : q[j] \in Queued BY LenProperties, ElementOfSeq
<1> DEFINE l == SubSeq(q, 1, i - 1)
           r == SubSeq(q, i + 1, Len(q))
<1>2. l \in Seq(Queued) /\ Len(l) = i - 1 /\ \A j \in 1..(i - 1) : l[j] = q[j]
  <2>1. 1 \in Int /\ i - 1 \in Int /\ \A j \in 1..(i - 1) : q[j] \in Queued BY <1>1
  <2>2. /\ l \in Seq(Queued) /\ Len(l) = IF 1 <= i - 1 THEN i - 1 - 1 + 1 ELSE 0
        /\ \A j \in 1..(i - 1 - 1 + 1) : l[j] = q[1 + j - 1]
    BY <2>1, SubSeqProperties
  <2>3. i - 1 - 1 + 1 = i - 1 /\ (1 <= i - 1 \/ i - 1 = 0) BY <1>1
  <2>4. \A j \in 1..(i - 1) : 1 + j - 1 = j BY <1>1
  <2> QED BY <2>2, <2>3, <2>4
<1>3. r \in Seq(Queued) /\ Len(r) = Len(q) - i /\ \A j \in 1..(Len(q) - i) : r[j] = q[i + j]
  <2>1. i + 1 \in Int /\ Len(q) \in Int /\ \A j \in (i + 1)..Len(q) : q[j] \in Queued BY <1>1
  <2>2. /\ r \in Seq(Queued) /\ Len(r) = IF i + 1 <= Len(q) THEN Len(q) - (i + 1) + 1 ELSE 0
        /\ \A j \in 1..(Len(q) - (i + 1) + 1) : r[j] = q[i + 1 + j - 1]
    BY <2>1, SubSeqProperties
  <2>3. Len(q) - (i + 1) + 1 = Len(q) - i /\ (i + 1 <= Len(q) \/ Len(q) - i = 0) BY <1>1
  <2>4. \A j \in 1..(Len(q) - i) : i + 1 + j - 1 = i + j BY <1>1
  <2> QED BY <2>2, <2>3, <2>4
<1>4. RemoveAt(q, i) = l \o r BY DEF RemoveAt
<1> HIDE DEF l, r
<1> DEFINE t == l \o r
<1>5. /\ t \in Seq(Queued) /\ Len(t) = Len(l) + Len(r)
      /\ \A j \in 1..Len(t) : t[j] = IF j <= Len(l) THEN l[j] ELSE r[j - Len(l)]
  <2>1. l \in Seq(Queued) /\ r \in Seq(Queued) BY <1>2, <1>3
  <2> QED BY <2>1, ConcatProperties
<1> HIDE DEF t
<1>6. Len(t) = Len(q) - 1 BY <1>1, <1>2, <1>3, <1>5
<1>7. ASSUME NEW j \in 1..(Len(q) - 1) PROVE t[j] = IF j < i THEN q[j] ELSE q[j + 1]
  <2>1. CASE j < i
    <3>1. j \in 1..(i - 1) /\ j <= Len(l) /\ j \in 1..Len(t) BY <1>1, <1>2, <1>6, <2>1
    <3> QED BY <1>2, <1>5, <2>1, <3>1
  <2>2. CASE ~(j < i)
    <3>1. j + 1 - i \in 1..(Len(q) - i) /\ ~(j <= Len(l)) /\ j \in 1..Len(t)
      BY <1>1, <1>2, <1>6, <2>2
    <3>2. t[j] = r[j - Len(l)] BY <1>5, <3>1
    <3>3. j - Len(l) = j + 1 - i /\ i + (j + 1 - i) = j + 1 BY <1>1, <1>2
    <3>4. r[j + 1 - i] = q[j + 1] BY <1>3, <3>1, <3>3
    <3> QED BY <2>2, <3>2, <3>3, <3>4
  <2> QED BY <2>1, <2>2
<1> QED BY <1>4, <1>5, <1>6, <1>7 DEF t

\* drop_queued_partials leaves no partial and everything else in its order.
LEMMA QueueWithoutPartials ==
  ASSUME NEW q \in Seq(Queued), OnePartialIn(q)
  PROVE  /\ WithoutPartials(q) \in Seq(Queued)
         /\ ToSet(WithoutPartials(q)) = {x \in ToSet(q) : x.kind # "partial"}
         /\ \A x, y : Before(WithoutPartials(q), x, y) => Before(q, x, y)
<1>1. Len(q) \in Nat /\ DOMAIN q = 1..Len(q) BY LenProperties
<1> DEFINE partials == {i \in DOMAIN q : q[i].kind = "partial"}
<1>2. CASE partials = {}
  <2>1. WithoutPartials(q) = q BY <1>2 DEF WithoutPartials
  <2> QED BY <1>2, <2>1 DEF ToSet
<1>3. CASE partials # {}
  <2> DEFINE k == CHOOSE i \in partials : TRUE
             t == RemoveAt(q, k)
  <2>1. k \in partials BY <1>3
  <2>2. WithoutPartials(q) = t BY <1>3 DEF WithoutPartials
  <2>3. k \in 1..Len(q) /\ q[k].kind = "partial" BY <1>1, <2>1
  <2> HIDE DEF k
  <2>4. /\ t \in Seq(Queued) /\ Len(t) = Len(q) - 1
        /\ \A j \in 1..(Len(q) - 1) : t[j] = IF j < k THEN q[j] ELSE q[j + 1]
    BY <2>3, ItemRemoved
  <2>5. DOMAIN t = 1..(Len(q) - 1) BY <2>4, LenProperties
  <2> HIDE DEF t
  <2> DEFINE old(j) == IF j < k THEN j ELSE j + 1
  <2>6. ASSUME NEW j \in DOMAIN t PROVE old(j) \in DOMAIN q /\ t[j] = q[old(j)] /\ old(j) # k
    BY <1>1, <2>3, <2>4, <2>5
  <2>7. ASSUME NEW i \in DOMAIN t, NEW j \in DOMAIN t, i < j PROVE old(i) < old(j)
    BY <1>1, <2>3, <2>5, <2>7
  <2>8. ASSUME NEW j \in DOMAIN q, j # k PROVE q[j].kind # "partial"
    <3>1. Before(q, q[j], q[k]) \/ Before(q, q[k], q[j])
      BY <1>1, <2>3, <2>8 DEF Before
    <3>2. q[j] \in ToSet(q) /\ q[k] \in ToSet(q) BY <1>1, <2>3 DEF ToSet
    <3> QED BY <2>3, <3>1, <3>2 DEF OnePartialIn
  <2>9. ASSUME NEW x \in ToSet(t) PROVE x \in ToSet(q) /\ x.kind # "partial"
    <3>1. PICK j \in DOMAIN t : x = t[j] BY DEF ToSet
    <3>2. old(j) \in DOMAIN q /\ x = q[old(j)] /\ old(j) # k BY <2>6, <3>1
    <3> HIDE DEF old
    <3> QED BY <2>8, <3>2 DEF ToSet
  <2>10. ASSUME NEW x \in ToSet(q), x.kind # "partial" PROVE x \in ToSet(t)
    <3>1. PICK j \in DOMAIN q : x = q[j] BY DEF ToSet
    <3>2. j # k BY <2>3, <2>10, <3>1
    <3>3. CASE j < k
      <4>1. j \in DOMAIN t /\ t[j] = q[j] BY <1>1, <2>3, <2>4, <2>5, <3>3
      <4> QED BY <3>1, <4>1 DEF ToSet
    <3>4. CASE ~(j < k)
      <4>1. j - 1 \in DOMAIN t /\ ~(j - 1 < k) /\ (j - 1) + 1 = j
        BY <1>1, <2>3, <2>5, <3>2, <3>4
      <4>2. t[j - 1] = q[j] BY <2>4, <2>5, <4>1
      <4> QED BY <3>1, <4>1, <4>2 DEF ToSet
    <3> QED BY <3>3, <3>4
  <2>11. ASSUME NEW x, NEW y, Before(t, x, y) PROVE Before(q, x, y)
    <3>1. PICK i, j \in DOMAIN t : i < j /\ t[i] = x /\ t[j] = y BY <2>11 DEF Before
    <3>2. old(i) \in DOMAIN q /\ old(j) \in DOMAIN q /\ q[old(i)] = x /\ q[old(j)] = y
      BY <2>6, <3>1
    <3>3. old(i) < old(j) BY <2>7, <3>1
    <3> HIDE DEF old
    <3> QED BY <3>2, <3>3 DEF Before
  <2> QED BY <2>2, <2>4, <2>9, <2>10, <2>11
<1> QED BY <1>2, <1>3

\* A push loses at most the oldest item.
LEMMA QueuePushed ==
  ASSUME NEW q \in Seq(Queued), NEW item \in Queued, OnePartialIn(q),
         item.kind = "partial" => \A x \in ToSet(q) : x.kind # "partial"
  PROVE  /\ Pushed(q, item) \in Seq(Queued) /\ OnePartialIn(Pushed(q, item))
         /\ ~Overflows(q) => Pushed(q, item) = Append(q, item)
<1>1. ASSUME NEW t \in Seq(Queued), OnePartialIn(t), ToSet(t) \subseteq ToSet(q)
      PROVE  Append(t, item) \in Seq(Queued) /\ OnePartialIn(Append(t, item))
  <2>1. Append(t, item) \in Seq(Queued) /\ ToSet(Append(t, item)) = ToSet(t) \union {item}
    BY <1>1, QueueAppend
  <2>2. ASSUME NEW x \in ToSet(Append(t, item)), NEW y \in ToSet(Append(t, item)),
               Before(Append(t, item), x, y)
        PROVE  ~(x.kind = "partial" /\ y.kind = "partial")
    <3>1. Before(t, x, y) \/ (x \in ToSet(t) /\ y = item) BY <1>1, <2>2, QueueAppend
    <3>2. CASE x \in ToSet(t) /\ y = item BY <1>1, <3>2
    <3>3. CASE Before(t, x, y)
      <4>1. x \in ToSet(t) /\ y \in ToSet(t) BY <3>3 DEF Before, ToSet
      <4> QED BY <1>1, <3>3, <4>1 DEF OnePartialIn
    <3> QED BY <3>1, <3>2, <3>3
  <2> QED BY <2>1, <2>2 DEF OnePartialIn
<1>2. CASE Overflows(q) /\ q # <<>>
  <2>1. Tail(q) \in Seq(Queued) /\ OnePartialIn(Tail(q)) /\ ToSet(Tail(q)) \subseteq ToSet(q)
    BY <1>2, QueueTail DEF OnePartialIn
  <2> QED BY <1>1, <1>2, <2>1 DEF Pushed, Overflows
<1>3. CASE Overflows(q) /\ q = <<>>
  <2>1. Tail(q) = q BY <1>3
  <2> QED BY <1>1, <1>3, <2>1 DEF Pushed, Overflows
<1>4. CASE ~Overflows(q)
  BY <1>1, <1>4 DEF Pushed, Overflows
<1> QED BY <1>2, <1>3, <1>4

-----------------------------------------------------------------------------
(* Types *)

\* A publisher's slot holds one item or nothing.
LEMMA AnnouncedItem ==
  ASSUME CaptionTypeOK, NEW p \in Publishers, announcing[p] # <<>>
  PROVE  announcing[p] = <<announcing[p][1]>> /\ announcing[p][1] \in Announced
<1>1. announcing[p] \in {<<item>> : item \in Announced} BY DEF CaptionTypeOK
<1>2. PICK item \in Announced : announcing[p] = <<item>> BY <1>1
<1> QED BY <1>2

\* A slot that is filled keeps the type.
LEMMA SlotFilled ==
  ASSUME CaptionTypeOK, NEW p \in Publishers, NEW item \in Announced,
         announcing' = [announcing EXCEPT ![p] = <<item>>]
  PROVE  announcing' \in [Publishers -> {<<>>} \union {<<x>> : x \in Announced}]
BY DEF CaptionTypeOK

\* A slot that is emptied keeps the type.
LEMMA SlotEmptied ==
  ASSUME CaptionTypeOK, NEW p \in Publishers, announcing' = [announcing EXCEPT ![p] = <<>>]
  PROVE  announcing' \in [Publishers -> {<<>>} \union {<<x>> : x \in Announced}]
BY DEF CaptionTypeOK

\* By its pc the worker is absent, idle, asleep with a delayed item or sending.
LEMMA SenderKinds ==
  ASSUME CaptionTypeOK
  PROVE  /\ sender.pc \in {None, "idle", "sleep"} \union Busy
         /\ sender.pc = None => sender = Absent
         /\ sender.pc = "idle" => sender = Idle
         /\ sender.pc = "sleep" => sender \in Sleeps /\ sender.item \in Delays
         /\ sender.pc \in Busy => sender \in Sends
<1>1. CASE sender = Absent
  BY <1>1 DEF Absent, None, Busy, Sinks
<1>2. CASE sender = Idle
  BY <1>2 DEF Idle, None, Busy, Sinks
<1>3. CASE sender \in Sleeps
  BY <1>3 DEF Sleeps, None, Busy, Sinks
<1>4. CASE sender \in Sends
  BY <1>4 DEF Sends, None, Busy, Sinks
<1> QED BY <1>1, <1>2, <1>3, <1>4 DEF CaptionTypeOK, Senders

\* A bump keeps the types of the queue and of the worker.
LEMMA BumpTypes ==
  ASSUME CaptionTypeOK, OnePartial, NEW kinds \in SUBSET {"send", "clear"}, Bump(kinds)
  PROVE  outbox' \in Seq(Queued) /\ OnePartial' /\ sender' \in Senders
<1>1. outbox \in Seq(Queued) BY DEF CaptionTypeOK
<1>2. /\ outbox' \in Seq(Queued)
      /\ \A x, y : Before(outbox', x, y) =>
           \E u, v \in ToSet(outbox) : Before(outbox, u, v) /\ x = Stale(u, kinds) /\ y = Stale(v, kinds)
  <2> DEFINE t == [i \in DOMAIN outbox |-> Stale(outbox[i], kinds)]
  <2>1. /\ t \in Seq(Queued)
        /\ \A x, y : Before(t, x, y) =>
             \E u, v \in ToSet(outbox) : Before(outbox, u, v) /\ x = Stale(u, kinds) /\ y = Stale(v, kinds)
    BY <1>1, QueueStale
  <2>2. outbox' = t BY DEF Bump
  <2> HIDE DEF t
  <2> QED BY <2>1, <2>2
<1>3. OnePartialIn(outbox')
  <2> SUFFICES ASSUME NEW x \in ToSet(outbox'), NEW y \in ToSet(outbox'), Before(outbox', x, y)
               PROVE  ~(x.kind = "partial" /\ y.kind = "partial")
    BY DEF OnePartialIn
  <2>1. PICK u, v \in ToSet(outbox) : Before(outbox, u, v) /\ x = Stale(u, kinds) /\ y = Stale(v, kinds)
    BY <1>2
  <2>2. u \in Queued /\ v \in Queued BY <1>1, QueueItems
  <2>3. x.kind = u.kind /\ y.kind = v.kind BY <2>1, <2>2, StaleItem
  <2> QED BY <2>1, <2>3 DEF OnePartial, OnePartialIn
<1>4. sender' \in Senders
  <2>1. CASE sender.pc = "sleep"
    <3>1. sender \in Sleeps /\ sender.item \in Delays BY <2>1, SenderKinds
    <3>2. Stale(sender.item, kinds) \in Delays
      BY <3>1, StaleItem, ItemFields DEF Delays, Queued
    <3>3. sender' = [sender EXCEPT !.item = Stale(sender.item, kinds)] BY <2>1 DEF Bump
    <3> QED BY <3>1, <3>2, <3>3 DEF Sleeps, Senders
  <2>2. CASE sender.pc # "sleep" BY <2>2 DEF Bump, CaptionTypeOK
  <2> QED BY <2>1, <2>2
<1> QED BY <1>2, <1>3, <1>4 DEF OnePartial

\* The worker begins to send.
LEMMA SendTypes ==
  ASSUME CaptionTypeOK, NEW item, item.n \in Numbers, item.text \in Words, NEW sinks \in SUBSET Sinks,
         NEW force \in BOOLEAN, NEW clears \in BOOLEAN, Send(item, sinks, force, clears)
  PROVE  /\ sender' \in Sends
         /\ sender'.pc = "send" /\ sender'.n = item.n /\ sender'.text = item.text
         /\ sender'.sinks = sinks /\ sender'.asked = sinks /\ sender'.force = force
         /\ sender'.clears = clears /\ sender'.conf = settings
         /\ sender'.final = (item.kind # "partial")
<1>1. (item.kind # "partial") \in BOOLEAN BY Zenon
<1>2. "send" \in Busy /\ settings \in Settings BY DEF Busy, CaptionTypeOK
<1> QED BY <1>1, <1>2 DEF Send, Sends

\* A delayed item is queued, or left out while the lock is held.
LEMMA PostponeTypes ==
  ASSUME NEW q \in Seq(Queued), OnePartialIn(q), NEW item \in Delays, Postpone(q, item)
  PROVE  outbox' \in Seq(Queued) /\ OnePartialIn(outbox')
<1>1. item \in Queued /\ item.kind # "partial" BY DEF Delays, Queued
<1> QED BY <1>1, QueuePushed DEF Postpone

\* What is delayed is a delayed item.
LEMMA DelayedType ==
  ASSUME NEW kind \in {"send", "clear"}, NEW n \in Numbers, NEW text \in Words,
         NEW sinks \in SUBSET Sinks
  PROVE  Delayed(kind, n, text, sinks) \in Delays
BY DEF Delayed, Delays

\* The outputs are outputs.
LEMMA SinksOf ==
  /\ SourceSinks(settings) \in SUBSET Sinks /\ PayloadSinks(settings) \in SUBSET Sinks
  /\ PartialSinks(settings) \in SUBSET Sinks /\ FinalSinks \in SUBSET Sinks
BY DEF SourceSinks, PayloadSinks, PartialSinks, FinalSinks

\* A final is delayed or sent at once.
LEMMA ScheduleTypes ==
  ASSUME CaptionTypeOK, NEW q \in Seq(Queued), OnePartialIn(q), NEW item \in Queued,
         NEW sinks \in SUBSET Sinks, Schedule(q, item, sinks)
  PROVE  outbox' \in Seq(Queued) /\ OnePartialIn(outbox') /\ sender' \in Senders
<1>1. item.n \in Numbers /\ item.text \in Words BY ItemFields DEF Numbers
<1>2. CASE settings.delay
  <2>1. Delayed("send", item.n, item.text, sinks) \in Delays BY <1>1, DelayedType
  <2> QED BY <1>2, <2>1, PostponeTypes DEF Schedule, Senders
<1>3. CASE ~settings.delay
  BY <1>1, <1>3, SendTypes DEF Schedule, Senders
<1> QED BY <1>2, <1>3

\* The steps of the publishers keep the types.
LEMMA PublishTypes ==
  ASSUME CaptionTypeOK, OnePartial,
         PublishPartial \/ PublishFinal \/ PublishPayload \/ BumpForPayload
  PROVE  CaptionTypeOK' /\ OnePartial'
<1>1. Len(said) \in Nat BY LenProperties DEF CaptionTypeOK
<1>2. ASSUME NEW kind \in {"partial", "final", "payload"}, NEW n \in Numbers, NEW text \in Words,
             NEW bumps \in BOOLEAN
      PROVE  Item(kind, n, text, bumps) \in Announced
  BY DEF Item, Announced
<1>3. Texts \subseteq Words /\ "source" \in Publishers /\ "payload" \in Publishers
  BY DEF Words, Publishers
<1>4. CASE PublishPartial
  <2>1. PICK text \in Texts : Announce("source", Item("partial", Len(said) + 1, text, FALSE))
    BY <1>4 DEF PublishPartial
  <2>2. Item("partial", Len(said) + 1, text, FALSE) \in Announced
    <3>1. Len(said) + 1 \in Numbers BY <1>1 DEF Numbers
    <3>2. text \in Words /\ FALSE \in BOOLEAN BY <1>3
    <3> QED BY <1>2, <3>1, <3>2
  <2>3. announcing' \in [Publishers -> {<<>>} \union {<<x>> : x \in Announced}]
    BY <1>3, <2>1, <2>2, SlotFilled DEF Announce
  <2> QED BY <1>4, <2>3 DEF PublishPartial, userVars, CaptionTypeOK, OnePartial
<1>5. CASE PublishFinal
  <2>1. PICK text \in Texts : /\ Announce("source", Item("final", Len(said) + 1, text, FALSE))
                              /\ said' = IF settings.mode = "source" THEN Append(said, text) ELSE said
    BY <1>5 DEF PublishFinal
  <2>2. Item("final", Len(said) + 1, text, FALSE) \in Announced
    <3>1. Len(said) + 1 \in Numbers BY <1>1 DEF Numbers
    <3>2. text \in Words /\ FALSE \in BOOLEAN BY <1>3
    <3> QED BY <1>2, <3>1, <3>2
  <2>3. announcing' \in [Publishers -> {<<>>} \union {<<x>> : x \in Announced}]
    BY <1>3, <2>1, <2>2, SlotFilled DEF Announce
  <2>4. said' \in Seq(Words) BY <1>3, <2>1, AppendProperties DEF CaptionTypeOK
  <2>5. outbox' \in Seq(Queued) /\ OnePartial' /\ sender' \in Senders
    BY <1>5, BumpTypes DEF PublishFinal
  <2> QED BY <1>5, <2>3, <2>4, <2>5 DEF PublishFinal, userVars, CaptionTypeOK
<1>6. CASE PublishPayload
  <2>1. PICK text \in Texts \union {Blank}, n \in 1..MaxFinals :
          /\ \/ settings.mode = "payload" /\ n = Len(said) + 1 /\ text # Blank /\ said' = Append(said, text)
             \/ n = Len(said) /\ text \in {said[n], Blank} /\ UNCHANGED said
          /\ Announce("payload", Item("payload", n, text, Supersedes(n, text)))
    BY <1>6 DEF PublishPayload
  <2>2. text \in Words /\ n \in Numbers BY CaptionsAssumption DEF Words, Numbers
  <2>3. Supersedes(n, text) \in BOOLEAN BY DEF Supersedes
  <2>4. Item("payload", n, text, Supersedes(n, text)) \in Announced BY <1>2, <2>2, <2>3
  <2>5. announcing' \in [Publishers -> {<<>>} \union {<<x>> : x \in Announced}]
    BY <1>3, <2>1, <2>4, SlotFilled DEF Announce
  <2>6. said' \in Seq(Words) BY <2>1, <2>2, AppendProperties DEF CaptionTypeOK
  <2> QED BY <1>6, <2>5, <2>6 DEF PublishPayload, userVars, CaptionTypeOK, OnePartial
<1>7. CASE BumpForPayload
  <2>1. announcing["payload"] # <<>> BY <1>7 DEF BumpForPayload
  <2>2. announcing["payload"][1] \in Announced BY <1>3, <2>1, AnnouncedItem
  <2>3. [announcing["payload"][1] EXCEPT !.bumps = FALSE] \in Announced BY <2>2 DEF Announced
  <2>4. announcing' \in [Publishers -> {<<>>} \union {<<x>> : x \in Announced}]
    BY <1>3, <1>7, <2>3, SlotFilled DEF BumpForPayload
  <2>5. outbox' \in Seq(Queued) /\ OnePartial' /\ sender' \in Senders
    BY <1>7, BumpTypes DEF BumpForPayload
  <2> QED BY <1>7, <2>4, <2>5 DEF BumpForPayload, spokenVars, userVars, CaptionTypeOK
<1> QED BY <1>4, <1>5, <1>6, <1>7

\* What is queued is what was announced, and it is the only partial.
LEMMA EnqueueTypes ==
  ASSUME CaptionTypeOK, OnePartial, NEW p \in Publishers, Enqueue(p)
  PROVE  CaptionTypeOK' /\ OnePartial'
<1>1. announcing[p] # <<>> BY DEF Enqueue
<1>2. announcing[p][1] \in Announced BY <1>1, AnnouncedItem
<1> DEFINE item == announcing[p][1]
           q == IF item.kind = "partial" THEN WithoutPartials(outbox) ELSE outbox
<1>3. announcing' \in [Publishers -> {<<>>} \union {<<x>> : x \in Announced}]
  BY SlotEmptied DEF Enqueue
<1>4. item \in Queued BY <1>2 DEF Queued
<1>5. /\ q \in Seq(Queued) /\ OnePartialIn(q)
      /\ item.kind = "partial" => \A x \in ToSet(q) : x.kind # "partial"
  <2>1. outbox \in Seq(Queued) /\ OnePartialIn(outbox) BY DEF CaptionTypeOK, OnePartial
  <2>2. CASE item.kind = "partial"
    <3>1. q = WithoutPartials(outbox) BY <2>2
    <3> HIDE DEF q
    <3> QED BY <2>1, <3>1, QueueWithoutPartials DEF OnePartialIn
  <2>3. CASE item.kind # "partial" BY <2>1, <2>3
  <2> QED BY <2>2, <2>3
<1>6. outbox' = outbox \/ outbox' = Pushed(q, item) BY DEF Enqueue
<1> HIDE DEF q, item
<1>7. outbox' \in Seq(Queued) /\ OnePartialIn(outbox')
  <2>1. CASE outbox' = outbox BY <2>1 DEF CaptionTypeOK, OnePartial
  <2>2. CASE outbox' = Pushed(q, item) BY <1>4, <1>5, <2>2, QueuePushed
  <2> QED BY <1>6, <2>1, <2>2
<1> QED BY <1>3, <1>7 DEF Enqueue, spokenVars, userVars, CaptionTypeOK, OnePartial

\* Taking an item keeps the types.
LEMMA TakeItemTypes ==
  ASSUME CaptionTypeOK, OnePartial, TakeItem
  PROVE  CaptionTypeOK' /\ OnePartial'
<1> DEFINE item == Head(outbox)
           q == Tail(outbox)
<1>1. item \in Queued /\ q \in Seq(Queued) /\ OnePartialIn(q)
  <2>1. outbox \in Seq(Queued) /\ outbox # <<>> BY DEF CaptionTypeOK, TakeItem
  <2> QED BY <2>1, QueueTail DEF OnePartial, OnePartialIn
<1>2. \/ item.kind = "partial" /\ HandlePartial(q, item)
      \/ item.kind = "final" /\ HandleFinal(q, item)
      \/ item.kind = "payload" /\ HandlePayload(q, item)
      \/ /\ item.kind \in {"send", "clear"} /\ sender' = [pc |-> "sleep", item |-> item]
         /\ outbox' = q /\ UNCHANGED <<memory, excused>>
  BY DEF TakeItem
<1>3. UNCHANGED <<settings, said, announcing, screen>> BY DEF TakeItem, spokenVars, userVars
<1>4. item.n \in Numbers /\ item.text \in Words BY <1>1, ItemFields DEF Numbers
<1> HIDE DEF item, q
<1>5. memory' \in Notes /\ outbox' \in Seq(Queued) /\ OnePartialIn(outbox') /\ sender' \in Senders
  <2>1. CASE Skip(q) BY <1>1, <2>1 DEF Skip, Senders, CaptionTypeOK
  <2>2. CASE item.kind = "partial" /\ HandlePartial(q, item) /\ ~Skip(q)
    <3>1. /\ memory' = [memory EXCEPT !.partial = item.text]
          /\ Send(item, PartialSinks(settings), ~settings.dedupe, FALSE) /\ outbox' = q
      BY <2>2 DEF HandlePartial
    <3>2. (~settings.dedupe) \in BOOLEAN /\ FALSE \in BOOLEAN BY Zenon
    <3>3. sender' \in Sends BY <1>4, <3>1, <3>2, SinksOf, SendTypes
    <3>4. memory' \in Notes BY <1>4, <3>1 DEF Notes, CaptionTypeOK
    <3> QED BY <1>1, <3>1, <3>3, <3>4 DEF Senders
  <2>3. CASE item.kind = "final" /\ HandleFinal(q, item) /\ ~Skip(q)
    <3>1. /\ memory' = [memory EXCEPT !.partial = Blank, !.payload = <<>>]
          /\ Schedule(q, item, SourceSinks(settings))
      BY <2>3 DEF HandleFinal
    <3>2. memory' \in Notes BY <3>1 DEF Notes, CaptionTypeOK, Words
    <3> QED BY <1>1, <3>1, <3>2, SinksOf, ScheduleTypes
  <2>4. CASE item.kind = "payload" /\ HandlePayload(q, item) /\ ~Skip(q)
    <3>1. /\ memory' = [memory EXCEPT !.payload = <<item.n, item.text>>]
          /\ Schedule(q, item, PayloadSinks(settings))
      BY <2>4 DEF HandlePayload
    <3>2. memory' \in Notes BY <1>4, <3>1 DEF Notes, CaptionTypeOK
    <3> QED BY <1>1, <3>1, <3>2, SinksOf, ScheduleTypes
  <2>5. CASE item.kind \in {"send", "clear"} /\ sender' = [pc |-> "sleep", item |-> item] /\ outbox' = q
             /\ UNCHANGED memory
    <3>1. item \in Delays BY <1>1, <2>5, ItemFields
    <3>2. sender' \in Sleeps BY <2>5, <3>1 DEF Sleeps
    <3> QED BY <1>1, <2>5, <3>2 DEF Senders, CaptionTypeOK
  <2> QED BY <1>2, <2>1, <2>2, <2>3, <2>4, <2>5
<1> QED BY <1>3, <1>5 DEF CaptionTypeOK, OnePartial

\* The caption on the screen keeps its type.
LEMMA ShowsTypes ==
  ASSUME CaptionTypeOK, Sending, NEW s \in Sinks, NEW text \in Words, Shows(s, text)
  PROVE  /\ screen' \in [Sinks -> Captions]
         /\ \A x \in Sinks : x # s => screen'[x] = screen[x]
         /\ sender.text = Blank => screen'[s].text = Blank /\ screen'[s].n = screen[s].n
         /\ sender.text # Blank =>
              screen'[s].n = sender.n /\ screen'[s].final = sender.final /\ screen'[s].text = text
<1>1. sender \in Sends BY SenderKinds DEF Sending
<1>2. sender.n \in Nat /\ sender.text \in Words /\ sender.final \in BOOLEAN
  BY <1>1 DEF Sends, Numbers
<1>3. screen \in [Sinks -> Captions] /\ screen[s] \in Captions BY DEF CaptionTypeOK
<1>4. CASE sender.text = Blank
  <2>1. screen' = [screen EXCEPT ![s] = [screen[s] EXCEPT !.text = Blank]] BY <1>4 DEF Shows
  <2> DEFINE c == [screen[s] EXCEPT !.text = Blank]
  <2>2. c \in Captions /\ c.text = Blank /\ c.n = screen[s].n BY <1>3 DEF Captions, Words
  <2> HIDE DEF c
  <2>3. screen' = [screen EXCEPT ![s] = c] BY <2>1 DEF c
  <2> QED BY <1>3, <1>4, <2>2, <2>3
<1>5. CASE sender.text # Blank
  <2> DEFINE c == [n |-> sender.n, text |-> text, final |-> sender.final]
  <2>1. screen' = [screen EXCEPT ![s] = c] BY <1>5 DEF Shows
  <2>2. c \in Captions /\ c.text = text /\ c.n = sender.n /\ c.final = sender.final
    BY <1>2 DEF Captions
  <2> HIDE DEF c
  <2> QED BY <1>3, <1>5, <2>1, <2>2
<1> QED BY <1>4, <1>5

\* Scheduling the clear keeps the type of the queue.
LEMMA ClearLaterTypes ==
  ASSUME CaptionTypeOK, OnePartial, Sending, NEW sinks \in SUBSET Sinks, ClearLater(sinks)
  PROVE  outbox' \in Seq(Queued) /\ OnePartial'
<1>1. outbox \in Seq(Queued) /\ OnePartialIn(outbox) BY DEF CaptionTypeOK, OnePartial
<1>2. CASE UNCHANGED outbox BY <1>1, <1>2 DEF OnePartial
<1> DEFINE t == [i \in DOMAIN outbox |-> Stale(outbox[i], {"clear"})]
<1>3. CASE Postpone(t, Delayed("clear", sender.n, sender.text, sinks))
  <2>1. sender.n \in Numbers /\ sender.text \in Words BY SenderKinds DEF Sending, Sends
  <2>2. Delayed("clear", sender.n, sender.text, sinks) \in Delays BY <2>1, DelayedType
  <2>3. /\ t \in Seq(Queued)
        /\ \A x, y : Before(t, x, y) =>
             \E u, v \in ToSet(outbox) : Before(outbox, u, v) /\ x = Stale(u, {"clear"}) /\ y = Stale(v, {"clear"})
    BY <1>1, QueueStale
  <2> HIDE DEF t
  <2>4. OnePartialIn(t)
    <3> SUFFICES ASSUME NEW x \in ToSet(t), NEW y \in ToSet(t), Before(t, x, y)
                 PROVE  ~(x.kind = "partial" /\ y.kind = "partial")
      BY DEF OnePartialIn
    <3>1. PICK u, v \in ToSet(outbox) :
             Before(outbox, u, v) /\ x = Stale(u, {"clear"}) /\ y = Stale(v, {"clear"})
      BY <2>3
    <3>2. u \in Queued /\ v \in Queued BY <1>1, QueueItems
    <3>3. x.kind = u.kind /\ y.kind = v.kind BY <3>1, <3>2, StaleItem
    <3> QED BY <1>1, <3>1, <3>3 DEF OnePartialIn
  <2> QED BY <1>3, <2>2, <2>3, <2>4, PostponeTypes DEF OnePartial
<1> QED BY <1>2, <1>3 DEF ClearLater

\* The worker moves on with what it sends.
LEMMA SenderMoves ==
  ASSUME CaptionTypeOK, Sending, NEW pc \in Busy, NEW sinks \in SUBSET Sinks,
         sender' = [sender EXCEPT !.pc = pc, !.sinks = sinks]
  PROVE  /\ sender' \in Sends /\ sender'.pc = pc /\ sender'.sinks = sinks
         /\ sender'.n = sender.n /\ sender'.text = sender.text /\ sender'.asked = sender.asked
         /\ sender'.force = sender.force /\ sender'.clears = sender.clears
         /\ sender'.final = sender.final /\ sender'.conf = sender.conf
<1>1. sender \in Sends BY SenderKinds DEF Sending
<1> QED BY <1>1 DEF Sends

\* The worker moves on with all outputs.
LEMMA SenderAdvances ==
  ASSUME CaptionTypeOK, Sending, NEW pc \in Busy, sender' = [sender EXCEPT !.pc = pc]
  PROVE  /\ sender' \in Sends /\ sender'.pc = pc /\ sender'.sinks = sender.sinks
         /\ sender'.n = sender.n /\ sender'.text = sender.text /\ sender'.asked = sender.asked
         /\ sender'.force = sender.force /\ sender'.clears = sender.clears
         /\ sender'.final = sender.final /\ sender'.conf = sender.conf
<1>1. sender \in Sends BY SenderKinds DEF Sending
<1> QED BY <1>1 DEF Sends

\* The worker's steps keep the types.
LEMMA WorkerTypes ==
  ASSUME CaptionTypeOK, OnePartial,
         \/ Wake \/ SeekClient \/ AwaitClient \/ Lock
         \/ MirrorSent \/ CaptionSent \/ CaptionRejected \/ SendFails
  PROVE  CaptionTypeOK' /\ OnePartial'
<1>1. CASE Wake
  <2> DEFINE item == sender.item
  <2>1. item \in Delays BY <1>1, SenderKinds DEF Wake
  <2>2. item.n \in Numbers /\ item.text \in Words /\ item.sinks \in SUBSET Sinks BY <2>1 DEF Delays
  <2>3. item.kind \in {"send", "clear"} BY <2>1 DEF Delays
  <2>4. \/ sender' = Idle
        \/ Send(item, item.sinks, FALSE, TRUE)
        \/ Send([item EXCEPT !.text = Blank], item.sinks, TRUE, FALSE)
    BY <1>1 DEF Wake
  <2>5. /\ [item EXCEPT !.text = Blank].n \in Numbers
        /\ [item EXCEPT !.text = Blank].text \in Words
    BY <2>1 DEF Delays, Words
  <2> HIDE DEF item
  <2>6. sender' \in Senders
    <3>1. CASE sender' = Idle BY <3>1 DEF Senders
    <3>2. CASE Send(item, item.sinks, FALSE, TRUE) BY <2>2, <3>2, SendTypes DEF Senders
    <3>3. CASE Send([item EXCEPT !.text = Blank], item.sinks, TRUE, FALSE)
      BY <2>2, <2>5, <3>3, SendTypes DEF Senders
    <3> QED BY <2>4, <3>1, <3>2, <3>3
  <2> QED BY <1>1, <2>6 DEF Wake, spokenVars, userVars, CaptionTypeOK, OnePartial
<1>2. CASE SeekClient
  <2>1. Sending BY <1>2 DEF SeekClient, Sending, Busy
  <2>2. "lock" \in Busy /\ "wait" \in Busy BY DEF Busy
  <2>3. sender' = Idle \/ \E pc \in Busy : sender' = [sender EXCEPT !.pc = pc]
    BY <1>2, <2>2 DEF SeekClient
  <2>4. sender' \in Senders BY <2>1, <2>3, SenderAdvances DEF Senders
  <2> QED BY <1>2, <2>4 DEF SeekClient, spokenVars, userVars, CaptionTypeOK, OnePartial
<1>3. CASE AwaitClient
  <2>1. Sending /\ "lock" \in Busy BY <1>3 DEF AwaitClient, Sending, Busy
  <2>2. sender' \in Senders BY <1>3, <2>1, SenderAdvances DEF AwaitClient, Senders
  <2> QED BY <1>3, <2>2 DEF AwaitClient, spokenVars, userVars, CaptionTypeOK, OnePartial
<1>4. CASE Lock
  <2> DEFINE sinks == {s \in sender.sinks : NeedsSending(s)}
             pc == IF "mirror" \in sinks THEN "mirror" ELSE "stream"
  <2>1. Sending BY <1>4 DEF Lock, Sending, Busy
  <2>2. sender.sinks \in SUBSET Sinks BY <2>1, SenderKinds DEF Sending, Sends
  <2>3. sinks \in SUBSET Sinks /\ pc \in Busy BY <2>2 DEF Busy, Sinks
  <2>4. sender' = Idle \/ sender' = [sender EXCEPT !.pc = pc, !.sinks = sinks]
    BY <1>4 DEF Lock
  <2> HIDE DEF sinks, pc
  <2>5. sender' \in Senders BY <2>1, <2>3, <2>4, SenderMoves DEF Senders
  <2> QED BY <1>4, <2>5 DEF Lock, spokenVars, userVars, CaptionTypeOK, OnePartial
<1>5. ASSUME Sending PROVE sender.text \in Words /\ sender.sinks \in SUBSET Sinks
  BY <1>5, SenderKinds DEF Sending, Sends
<1>6. CASE MirrorSent
  <2>1. Sending /\ "mirror" \in Sinks /\ "stream" \in Busy BY <1>6 DEF MirrorSent, Sending, Busy, Sinks
  <2>2. screen' \in [Sinks -> Captions] BY <1>5, <1>6, <2>1, ShowsTypes DEF MirrorSent, Display
  <2>3. memory' \in Notes BY <1>5, <1>6, <2>1 DEF MirrorSent, Notes, CaptionTypeOK
  <2>4. outbox' \in Seq(Queued) /\ OnePartial' /\ sender' \in Senders
    <3>1. CASE "stream" \in sender.sinks
      <4>1. sender' \in Senders BY <1>6, <2>1, <3>1, SenderAdvances DEF MirrorSent, Senders
      <4> QED BY <1>6, <3>1, <4>1 DEF MirrorSent, CaptionTypeOK, OnePartial
    <3>2. CASE "stream" \notin sender.sinks
      BY <1>5, <1>6, <2>1, <3>2, ClearLaterTypes DEF MirrorSent, Senders
    <3> QED BY <3>1, <3>2
  <2> QED BY <1>6, <2>2, <2>3, <2>4 DEF MirrorSent, spokenVars, CaptionTypeOK
<1>7. CASE CaptionSent
  <2>1. Sending /\ "stream" \in Sinks BY <1>7 DEF CaptionSent, Sending, Busy, Sinks
  <2>2. screen' \in [Sinks -> Captions] BY <1>5, <1>7, <2>1, ShowsTypes DEF CaptionSent, Display
  <2>3. memory' \in Notes BY <1>5, <1>7, <2>1 DEF CaptionSent, Notes, CaptionTypeOK
  <2>4. outbox' \in Seq(Queued) /\ OnePartial' /\ sender' \in Senders
    BY <1>5, <1>7, <2>1, ClearLaterTypes DEF CaptionSent, Senders
  <2> QED BY <1>7, <2>2, <2>3, <2>4 DEF CaptionSent, spokenVars, CaptionTypeOK
<1>8. CASE CaptionRejected
  <2>1. Sending /\ "stream" \in Sinks BY <1>8 DEF CaptionRejected, Sending, Busy, Sinks
  <2>2. screen' \in [Sinks -> Captions] BY <1>8, <2>1, ShowsTypes DEF CaptionRejected, Words
  <2>3. sender.asked \intersect {"mirror"} \in SUBSET Sinks BY DEF Sinks
  <2>4. outbox' \in Seq(Queued) /\ OnePartial' /\ sender' \in Senders
    BY <1>8, <2>1, <2>3, ClearLaterTypes DEF CaptionRejected, Senders
  <2> QED BY <1>8, <2>2, <2>4 DEF CaptionRejected, spokenVars, CaptionTypeOK
<1>9. CASE SendFails
  <2>1. Sending /\ sender.pc \in Sinks BY <1>9 DEF SendFails, Requesting, Sending, Busy
  <2>2. screen' \in [Sinks -> Captions]
    <3>1. CASE UNCHANGED screen BY <3>1 DEF CaptionTypeOK
    <3>2. CASE Display(sender.pc) BY <1>5, <2>1, <3>2, ShowsTypes DEF Display
    <3> QED BY <1>9, <3>1, <3>2 DEF SendFails
  <2> QED BY <1>9, <2>2 DEF SendFails, spokenVars, CaptionTypeOK, OnePartial, Senders
<1> QED BY <1>1, <1>2, <1>3, <1>4, <1>6, <1>7, <1>8, <1>9

\* The empty queue is a queue.
LEMMA EmptyQueue == <<>> \in Seq(Queued) /\ OnePartialIn(<<>>)
<1>1. <<>> \in Seq(Queued) BY EmptySeq
<1>2. ToSet(<<>>) = {} BY DEF ToSet
<1> QED BY <1>1, <1>2 DEF OnePartialIn

\* The sleeping item is stale.
LEMMA SleeperTypes ==
  ASSUME CaptionTypeOK,
         sender' = IF sender.pc = "sleep"
                   THEN [sender EXCEPT !.item = Stale(@, {"send", "clear"})] ELSE sender
  PROVE  sender' \in Senders
<1>1. CASE sender.pc = "sleep"
  <2>1. sender \in Sleeps /\ sender.item \in Delays BY <1>1, SenderKinds
  <2>2. Stale(sender.item, {"send", "clear"}) \in Delays
    BY <2>1, StaleItem, ItemFields DEF Delays, Queued
  <2>3. sender' = [sender EXCEPT !.item = Stale(sender.item, {"send", "clear"})] BY <1>1
  <2> QED BY <2>1, <2>2, <2>3 DEF Sleeps, Senders
<1>2. CASE sender.pc # "sleep" BY <1>2 DEF CaptionTypeOK
<1> QED BY <1>1, <1>2

\* The requests of the user and the connection task keep the types.
LEMMA ServiceTypes ==
  ASSUME CaptionTypeOK, OnePartial,
         \/ DiallerStep \/ DiallerRefused \/ Start \/ ChangeSettings \/ Stop
         \/ ApplyLive \/ WipeOutputs \/ HangUp \/ AbortSender
  PROVE  CaptionTypeOK' /\ OnePartial'
<1>1. CASE DiallerStep \/ DiallerRefused \/ HangUp
  <2>1. UNCHANGED <<settings, said, announcing, outbox, sender, memory, screen>>
    BY <1>1 DEF DiallerStep, DiallerChecks, DiallerConnects, DiallerPings, DiallerRefused, HangUp,
                spokenVars, userVars
  <2> QED BY <2>1 DEF CaptionTypeOK, OnePartial
<1>2. CASE Start
  BY <1>2 DEF Start, spokenVars, CaptionTypeOK, OnePartial, Senders
<1>3. CASE ChangeSettings
  BY <1>3, SenderKinds DEF ChangeSettings, CaptionTypeOK, OnePartial
<1>4. CASE Stop
  BY <1>4, SleeperTypes, EmptyQueue DEF Stop, spokenVars, CaptionTypeOK, OnePartial
<1>5. CASE ApplyLive
  <2>1. outbox' \in Seq(Queued) /\ OnePartial' /\ sender' \in Senders
    <3>1. CASE ShouldConnect(settings) BY <1>5, <3>1, BumpTypes DEF ApplyLive
    <3>2. CASE ~ShouldConnect(settings)
      BY <1>5, <3>2, SleeperTypes, EmptyQueue DEF ApplyLive, OnePartial
    <3> QED BY <3>1, <3>2
  <2> QED BY <1>5, <2>1 DEF ApplyLive, spokenVars, CaptionTypeOK
<1>6. CASE WipeOutputs
  <2> DEFINE wiped == {s \in Sinks : client # None /\ memory[s] # None}
  <2>1. PICK done \in SUBSET wiped :
          /\ screen' = [s \in Sinks |-> IF s \in done THEN Nothing ELSE screen[s]]
          /\ memory' = [k \in DOMAIN memory |->
                          IF k \in done \/ k \in wiped \intersect {"mirror"} THEN Blank ELSE memory[k]]
    BY <1>6 DEF WipeOutputs
  <2>2. screen' \in [Sinks -> Captions] BY <2>1 DEF Nothing, Captions, CaptionTypeOK, Words
  <2>3. memory' \in Notes
    <3>1. wiped \subseteq {"stream", "mirror"} BY DEF Sinks
    <3>2. memory \in Notes BY DEF CaptionTypeOK
    <3> HIDE DEF wiped
    <3>3. DOMAIN memory = {"partial", "payload", "stream", "mirror"} BY <3>2 DEF Notes
    <3>4. memory' = [partial |-> memory.partial, payload |-> memory.payload,
                     stream |-> memory'.stream, mirror |-> memory'.mirror]
      BY <2>1, <3>1, <3>3
    <3>5. memory'.stream \in Words \union {None} /\ memory'.mirror \in Words \union {None}
      BY <2>1, <3>1, <3>2, <3>3 DEF Notes, Words
    <3> QED BY <3>2, <3>4, <3>5 DEF Notes
  <2> QED BY <1>6, <2>2, <2>3 DEF WipeOutputs, spokenVars, CaptionTypeOK, OnePartial
<1>7. CASE AbortSender
  <2>1. memory' \in Notes BY <1>7 DEF AbortSender, Notes, CaptionTypeOK, Words
  <2> QED BY <1>7, <2>1, EmptyQueue DEF AbortSender, spokenVars, CaptionTypeOK, OnePartial, Senders
<1> QED BY <1>1, <1>2, <1>3, <1>4, <1>5, <1>6, <1>7

\* Every step keeps the types.
LEMMA StepTypes ==
  ASSUME CaptionTypeOK, OnePartial, [ObsNext]_obsVars
  PROVE  CaptionTypeOK' /\ OnePartial'
<1>1. CASE UNCHANGED obsVars BY <1>1 DEF obsVars, CaptionTypeOK, OnePartial
<1>2. CASE \E p \in Publishers : Enqueue(p) BY <1>2, EnqueueTypes
<1> QED BY <1>1, <1>2, PublishTypes, TakeItemTypes, WorkerTypes, ServiceTypes
        DEF ObsNext, SenderStep, RequestStep

\* The beginning has the types.
LEMMA InitTypes ==
  ASSUME ObsInit
  PROVE  CaptionTypeOK /\ OnePartial
<1>1. memory \in Notes BY DEF ObsInit, Notes, Words, None
<1>2. said \in Seq(Words) BY EmptySeq DEF ObsInit
<1> QED BY <1>1, <1>2, EmptyQueue
        DEF ObsInit, CaptionTypeOK, OnePartial, Senders, Captions, Nothing, Words

-----------------------------------------------------------------------------
(* Steps that excuse nothing *)

\* What does not excuse anything did not happen.
LEMMA NotExcused ==
  ASSUME NEW lost \in BOOLEAN, Excuse(lost), excused' = {}
  PROVE  ~lost /\ excused = {}
BY DEF Excuse

\* What is derived from the configuration, the finals and the memory of payloads.
LEMMA SameView ==
  ASSUME settings' = settings, said' = said, memory'.payload = memory.payload
  PROVE  /\ FinalSinks' = FinalSinks /\ Newest' = Newest
         /\ \A x : /\ IsFinal(x)' <=> IsFinal(x)
                   /\ IsPartial(x)' <=> IsPartial(x)
                   /\ Awaiting(x)' <=> Awaiting(x)
                   /\ FreshSend(x)' <=> FreshSend(x)
                   /\ Fits(x)' <=> Fits(x)
                   /\ DelayFits(x)' <=> DelayFits(x)
                   /\ \A p \in Publishers : IsNew(p, x)' <=> IsNew(p, x)
<1>1. FinalSinks' = FinalSinks BY DEF FinalSinks, PayloadSinks, SourceSinks
<1>2. Newest' = Newest BY DEF Newest
<1>3. \A x : (IsFinal(x)' <=> IsFinal(x)) /\ (IsPartial(x)' <=> IsPartial(x))
  BY DEF IsFinal, IsPartial
<1>4. \A x : (Awaiting(x)' <=> Awaiting(x)) /\ (FreshSend(x)' <=> FreshSend(x))
  BY <1>2, <1>3 DEF Awaiting, FreshSend
<1>5. \A x : DelayFits(x)' <=> DelayFits(x) BY <1>1, <1>2 DEF DelayFits
<1>6. \A x : Fits(x)' <=> Fits(x) BY <1>2, <1>3, <1>5 DEF Fits
<1>7. \A x : \A p \in Publishers : IsNew(p, x)' <=> IsNew(p, x) BY <1>2, <1>3 DEF IsNew
<1> QED BY <1>1, <1>2, <1>3, <1>4, <1>5, <1>6, <1>7

\* A final that waits overtakes everything.
LEMMA AwaitedSuffices ==
  ASSUME Awaited' \/ FinalSinks' = {}
  PROVE  NewestFinal' /\ OlderFirst'
BY DEF NewestFinal, OlderFirst, Overtaken

\* A step that touches neither captions nor what they are made from.
LEMMA NothingMoves ==
  ASSUME Orderly, UNCHANGED <<settings, said, announcing, outbox, sender, memory, screen>>, Calm'
  PROVE  Orderly'
<1>1. /\ FinalSinks' = FinalSinks /\ Newest' = Newest /\ Waiting' = Waiting
      /\ (Sending' <=> Sending)
  BY SameView DEF Waiting, Sending
<1>2. MemoryIsOld' /\ AnnouncedIsNew' BY <1>1, SameView DEF Orderly, MemoryIsOld, AnnouncedIsNew
<1>3. WaitingFits' BY <1>1, SameView DEF Orderly, WaitingFits
<1>4. QueueInOrder'
  <2>1. \A x, y : InTurn(x, y)' <=> InTurn(x, y) BY SameView DEF InTurn
  <2> QED BY <1>1, <2>1, SameView DEF Orderly, QueueInOrder
<1>5. SendOK' BY <1>1 DEF Orderly, SendOK
<1>6. ClearsHit' BY <1>1 DEF Orderly, ClearsHit, Hits
<1>7. Awaited' <=> Awaited BY <1>1, SameView DEF Awaited
<1>8. SendWaits' <=> SendWaits BY <1>1, SameView DEF SendWaits
<1>9. (OnItsWay' <=> OnItsWay)
  BY <1>1, <1>8, SameView DEF OnItsWay
<1>10. \A s : WillClear(s)' <=> WillClear(s)
  BY <1>1 DEF WillClear, FreshClear
<1>11. NewestFinal'
  BY <1>1, <1>7, <1>9, <1>10 DEF Orderly, NewestFinal, WasShown
<1>12. OlderFirst'
  BY <1>1, <1>7, <1>8, SameView DEF Orderly, OlderFirst, Overtaken
<1> QED BY <1>2, <1>3, <1>4, <1>5, <1>6, <1>11, <1>12 DEF Orderly

-----------------------------------------------------------------------------
(* Publications *)

\* An item that at most lost its freshness.
Staled(u, x) ==
  /\ x.kind = u.kind /\ x.n = u.n /\ x.text = u.text
  /\ x.kind \in {"send", "clear"} => x.sinks = u.sinks /\ (x.fresh => u.fresh)

\* A queue and a worker whose items at most lost their freshness.
AllAged ==
  /\ \A x \in Waiting' : \E u \in Waiting : Staled(u, x)
  /\ \A x, y \in Waiting' : Before(outbox', x, y) =>
       \E u, v \in Waiting : Before(outbox, u, v) /\ Staled(u, x) /\ Staled(v, y)
  /\ \/ sender' = sender
     \/ sender.pc = "sleep" /\ sender'.pc = "sleep" /\ Staled(sender.item, sender'.item)

\* Bumping a generation ages.
LEMMA BumpAges ==
  ASSUME CaptionTypeOK, NEW kinds \in SUBSET {"send", "clear"}, Bump(kinds)
  PROVE  AllAged
<1>1. outbox \in Seq(Queued) BY DEF CaptionTypeOK
<1>2. ASSUME NEW u \in Queued PROVE Staled(u, Stale(u, kinds))
  BY <1>2, StaleItem, ItemFields DEF Staled
<1> DEFINE t == [i \in DOMAIN outbox |-> Stale(outbox[i], kinds)]
<1>3. /\ ToSet(t) = {Stale(x, kinds) : x \in ToSet(outbox)}
      /\ \A x, y : Before(t, x, y) =>
           \E u, v \in ToSet(outbox) : Before(outbox, u, v) /\ x = Stale(u, kinds) /\ y = Stale(v, kinds)
  BY <1>1, QueueStale
<1>4. outbox' = t BY DEF Bump
<1> HIDE DEF t
<1>5. \A u \in ToSet(outbox) : Staled(u, Stale(u, kinds)) BY <1>1, <1>2, QueueItems
<1>6. \A x \in Waiting' : \E u \in Waiting : Staled(u, x) BY <1>3, <1>4, <1>5 DEF Waiting
<1>7. \A x, y \in Waiting' : Before(outbox', x, y) =>
        \E u, v \in Waiting : Before(outbox, u, v) /\ Staled(u, x) /\ Staled(v, y)
  BY <1>3, <1>4, <1>5 DEF Waiting
<1>8. \/ sender' = sender
      \/ sender.pc = "sleep" /\ sender'.pc = "sleep" /\ Staled(sender.item, sender'.item)
  <2>1. CASE sender.pc = "sleep"
    <3>1. sender \in Sleeps /\ sender.item \in Delays BY <2>1, SenderKinds
    <3>2. sender' = [sender EXCEPT !.item = Stale(sender.item, kinds)] BY <2>1 DEF Bump
    <3>3. sender'.item = Stale(sender.item, kinds) /\ sender'.pc = "sleep"
      BY <3>1, <3>2 DEF Sleeps
    <3>4. Staled(sender.item, Stale(sender.item, kinds)) BY <1>2, <3>1 DEF Queued
    <3> QED BY <2>1, <3>3, <3>4
  <2>2. CASE sender.pc # "sleep" BY <2>2 DEF Bump
  <2> QED BY <2>1, <2>2
<1> QED BY <1>6, <1>7, <1>8 DEF AllAged

\* Nothing ages when nothing changes.
LEMMA UnchangedAges ==
  ASSUME UNCHANGED <<outbox, sender>>
  PROVE  AllAged
BY DEF AllAged, Staled, Waiting

\* A publication, with a new final or none, leaves in order what was in order.
LEMMA PublicationKeeps ==
  ASSUME CaptionTypeOK, Orderly, AllAged, settings' = settings, UNCHANGED <<memory, request, screen>>,
         said' \in Seq(Words), Newest' >= Newest
  PROVE  /\ Calm' /\ MemoryIsOld' /\ WaitingFits' /\ SendOK' /\ ClearsHit'
         /\ \A x, y \in Waiting' : Before(outbox', x, y) => InTurn(x, y)'
         /\ \A x, y \in Waiting' : x.kind = "send" /\ IsFinal(y)' => x.n <= y.n
<1>1. Newest \in Nat /\ Newest' \in Nat BY LenProperties DEF Newest, CaptionTypeOK
<1>2. FinalSinks' = FinalSinks BY DEF FinalSinks, PayloadSinks, SourceSinks
<1>3. \A x : (IsFinal(x)' <=> IsFinal(x)) /\ (IsPartial(x)' <=> IsPartial(x))
  BY DEF IsFinal, IsPartial
<1>4. \A x \in Waiting : x.n \in Nat BY QueueItems, ItemFields DEF Waiting, CaptionTypeOK
<1>5. Calm' BY DEF Orderly, Calm
<1>6. MemoryIsOld'
  <2>1. memory.payload # <<>> => memory.payload[1] \in Nat
    BY DEF CaptionTypeOK, Notes, Numbers
  <2> QED BY <1>1, <2>1 DEF Orderly, MemoryIsOld
<1>7. ASSUME NEW u, NEW x, Staled(u, x), u.n \in Nat
      PROVE  /\ DelayFits(u) /\ x.kind \in {"send", "clear"} => DelayFits(x)'
             /\ IsFinal(u) <=> IsFinal(x)
             /\ IsPartial(u) <=> IsPartial(x)
  BY <1>1, <1>2, <1>7 DEF DelayFits, Staled, IsFinal, IsPartial
<1>8. WaitingFits'
  <2>1. ASSUME NEW x \in Waiting' PROVE Fits(x)'
    <3>1. PICK u \in Waiting : Staled(u, x) BY <2>1 DEF AllAged
    <3>2. Fits(u) /\ u.n \in Nat BY <1>4, <3>1 DEF Orderly, WaitingFits
    <3>3. x.n = u.n /\ x.kind = u.kind /\ x.text = u.text BY <3>1 DEF Staled
    <3>4. x.kind \in {"send", "clear"} => DelayFits(x)' BY <1>7, <3>1, <3>2, <3>3 DEF Fits
    <3>5. (IsFinal(x)' => x.n <= Newest') /\ (IsPartial(x)' => x.n <= Newest' + 1)
      BY <1>1, <1>3, <1>7, <3>1, <3>2, <3>3 DEF Fits
    <3>6. x.kind \in {"partial", "final"} => x.text # Blank BY <3>2, <3>3 DEF Fits
    <3> QED BY <3>4, <3>5, <3>6 DEF Fits
  <2>2. ASSUME sender'.pc = "sleep" PROVE DelayFits(sender.item)'
    <3>1. sender.pc = "sleep" BY <2>2 DEF AllAged
    <3>2. DelayFits(sender.item) /\ sender.item \in Delays BY <3>1, SenderKinds DEF Orderly, WaitingFits
    <3>3. sender.item.n \in Nat /\ sender.item.kind \in {"send", "clear"} BY <3>2 DEF Delays, Numbers
    <3>4. Staled(sender.item, sender'.item) BY DEF AllAged, Staled
    <3>5. sender'.item.kind \in {"send", "clear"} BY <3>3, <3>4 DEF Staled
    <3> HIDE DEF DelayFits
    <3> QED BY <1>1, <1>2, <3>2, <3>3, <3>4, <3>5 DEF DelayFits, Staled
  <2> QED BY <2>1, <2>2 DEF WaitingFits
<1>9. SendOK'
  <2>1. ASSUME Sending' PROVE sender' = sender /\ Sending
    BY <2>1 DEF AllAged, Sending, Busy, Sinks
  <2>2. Sending => sender.n \in Nat BY SenderKinds DEF Sending, Sends, Numbers
  <2> QED BY <1>1, <1>2, <2>1, <2>2 DEF Orderly, SendOK
<1>10. \A s, n : Hits(s, n)' <=> Hits(s, n) BY DEF Hits
<1>11. ClearsHit'
  <2>1. ASSUME NEW x \in Waiting', x.kind = "clear", x.fresh, NEW s \in x.sinks
        PROVE  Hits(s, x.n)' \/ (sender'.pc = "stream" /\ sender'.clears /\ s = "mirror" /\ s \in sender'.asked)
    <3>1. PICK u \in Waiting : Staled(u, x) BY <2>1 DEF AllAged
    <3>2. u.kind = "clear" /\ u.fresh /\ s \in u.sinks /\ x.n = u.n BY <2>1, <3>1 DEF Staled
    <3>3. Hits(s, u.n) \/ (sender.pc = "stream" /\ sender.clears /\ s = "mirror" /\ s \in sender.asked)
      BY <3>2 DEF Orderly, ClearsHit
    <3>4. sender.pc = "stream" => sender' = sender BY DEF AllAged
    <3> QED BY <1>10, <3>2, <3>3, <3>4
  <2>2. ASSUME sender'.pc = "sleep", sender'.item.kind = "clear", sender'.item.fresh,
               NEW s \in sender'.item.sinks
        PROVE  Hits(s, sender.item.n)'
    <3>1. sender.pc = "sleep" /\ Staled(sender.item, sender'.item) BY <2>2 DEF AllAged, Staled
    <3>2. sender.item.kind = "clear" /\ sender.item.fresh /\ s \in sender.item.sinks
          /\ sender'.item.n = sender.item.n
      BY <2>2, <3>1 DEF Staled
    <3>3. Hits(s, sender.item.n) BY <3>1, <3>2 DEF Orderly, ClearsHit
    <3> QED BY <3>2, <3>3 DEF Hits
  <2>3. ASSUME Sending', sender'.text = Blank, NEW s \in sender'.sinks PROVE Hits(s, sender.n)'
    <3>1. sender' = sender /\ Sending BY <2>3 DEF AllAged, Sending, Busy, Sinks
    <3>2. Hits(s, sender.n) BY <2>3, <3>1 DEF Orderly, ClearsHit
    <3> QED BY <3>1, <3>2 DEF Hits
  <2> QED BY <2>1, <2>2, <2>3 DEF ClearsHit
<1>12. ASSUME NEW x \in Waiting', NEW y \in Waiting', Before(outbox', x, y) PROVE InTurn(x, y)'
  <2>1. PICK u, v \in Waiting : Before(outbox, u, v) /\ Staled(u, x) /\ Staled(v, y)
    BY <1>12 DEF AllAged
  <2>2. InTurn(u, v) BY <2>1 DEF Orderly, QueueInOrder
  <2> QED BY <1>3, <2>1, <2>2 DEF InTurn, Staled, IsFinal, IsPartial
<1>13. ASSUME NEW x \in Waiting', NEW y \in Waiting', x.kind = "send", IsFinal(y)' PROVE x.n <= y.n
  <2>1. PICK u, v \in Waiting : Staled(u, x) /\ Staled(v, y) BY DEF AllAged
  <2>2. u.kind = "send" /\ IsFinal(v) BY <1>3, <1>13, <2>1 DEF Staled, IsFinal
  <2>3. u.n <= v.n BY <2>2 DEF Orderly, QueueInOrder
  <2> QED BY <2>1, <2>3 DEF Staled
<1> QED BY <1>5, <1>6, <1>8, <1>9, <1>11, <1>12, <1>13

\* A new final that is announced is awaited.
LEMMA NewFinalKeeps ==
  ASSUME CaptionTypeOK, Orderly, AllAged, settings' = settings, UNCHANGED <<memory, request, screen>>,
         said' \in Seq(Words), Newest' = Newest + 1,
         NEW p \in Publishers, NEW item \in Announced, IsNew(p, item)', IsFinal(item), item.text # Blank,
         announcing[p] = <<>>, announcing' = [announcing EXCEPT ![p] = <<item>>],
         item.kind = IF p = "source" THEN "final" ELSE "payload"
  PROVE  Orderly'
<1>1. Newest \in Nat BY LenProperties DEF Newest, CaptionTypeOK
<1>2. \A x : (IsFinal(x)' <=> IsFinal(x)) /\ (IsPartial(x)' <=> IsPartial(x))
  BY DEF IsFinal, IsPartial
<1>3. announcing'[p] = <<item>> /\ \A r \in Publishers : r # p => announcing'[r] = announcing[r]
  BY DEF CaptionTypeOK
<1>4. announcing'[p] # <<>> /\ announcing'[p][1] = item
  <2>1. <<item>> # <<>> /\ <<item>>[1] = item OBVIOUS
  <2> QED BY <1>3, <2>1
<1>5. AnnouncedIsNew'
  <2>1. ASSUME NEW r \in Publishers, announcing'[r] # <<>> PROVE IsNew(r, announcing[r][1])'
    <3>1. CASE r = p BY <1>4, <3>1
    <3>2. CASE r # p
      <4>1. PICK x : x = announcing[r][1] /\ x = announcing'[r][1] /\ IsNew(r, x)
        BY <1>3, <2>1, <3>2 DEF Orderly, AnnouncedIsNew
      <4>2. ~IsFinal(x) /\ ~IsPartial(x)
        BY <3>2, <4>1 DEF IsNew, IsFinal, IsPartial, Publishers
      <4>3. IsNew(r, x)' BY <1>2, <4>1, <4>2 DEF IsNew
      <4> QED BY <4>1, <4>3 DEF IsNew, IsFinal, IsPartial
    <3> QED BY <3>1, <3>2
  <2> QED BY <2>1 DEF AnnouncedIsNew
<1>6. Awaiting(item)'
  <2>1. item.n = Newest' /\ IsFinal(item)' BY <1>2 DEF IsNew
  <2>2. memory'.payload # <<item.n, item.text>>
    <3>1. CASE memory.payload = <<>> BY <3>1
    <3>2. CASE memory.payload # <<>>
      <4>1. memory.payload[1] <= Newest /\ memory.payload[1] \in Nat
        BY <3>2 DEF Orderly, MemoryIsOld, CaptionTypeOK, Notes, Numbers
      <4>2. memory.payload[1] # item.n BY <1>1, <2>1, <4>1
      <4> QED BY <4>2
    <3> QED BY <3>1, <3>2
  <2> QED BY <2>1, <2>2 DEF Awaiting
<1>7. Awaited'
  <2>1. Awaiting(announcing[p][1])' BY <1>4, <1>6 DEF Awaiting, IsFinal
  <2> QED BY <1>4, <2>1 DEF Awaited
<1>8. \A q \in Publishers, x \in Waiting' :
        announcing'[q] # <<>> /\ announcing'[q][1].kind = "final" /\ settings'.mode = "source" =>
          (IsFinal(x)' => x.n < Newest') /\ (IsPartial(x)' => x.n <= Newest')
  <2> SUFFICES ASSUME NEW x \in Waiting'
               PROVE  (IsFinal(x)' => x.n < Newest') /\ (IsPartial(x)' => x.n <= Newest')
    OBVIOUS
  <2>1. PICK u \in Waiting : Staled(u, x) BY DEF AllAged
  <2>2. u.n \in Nat /\ Fits(u)
    BY QueueItems, ItemFields DEF Waiting, CaptionTypeOK, Orderly, WaitingFits
  <2>3. x.n = u.n /\ (IsFinal(x)' => IsFinal(u)) /\ (IsPartial(x)' => IsPartial(u))
    BY <1>2, <2>1 DEF Staled, IsFinal, IsPartial
  <2> QED BY <1>1, <2>2, <2>3 DEF Fits
<1>9. Newest' >= Newest BY <1>1
<1> QED BY <1>5, <1>7, <1>8, <1>9, PublicationKeeps, AwaitedSuffices DEF Orderly, QueueInOrder

\* What is announced, and is no final, changes nothing but that it is announced.
LEMMA SlotAddedKeeps ==
  ASSUME CaptionTypeOK, Orderly, UNCHANGED <<settings, said, outbox, sender, memory, request, screen>>,
         NEW p \in Publishers, NEW item \in Announced, IsNew(p, item), item.kind # "final",
         announcing[p] = <<>>, announcing' = [announcing EXCEPT ![p] = <<item>>]
  PROVE  Orderly'
<1>1. Newest \in Nat /\ Newest' = Newest BY LenProperties DEF Newest, CaptionTypeOK
<1>2. announcing'[p] = <<item>> /\ \A r \in Publishers : r # p => announcing'[r] = announcing[r]
  BY DEF CaptionTypeOK
<1>3. <<item>> # <<>> /\ <<item>>[1] = item OBVIOUS
<1>4. announcing'[p] # <<>> /\ announcing'[p][1] = item BY <1>2, <1>3
<1>5. AnnouncedIsNew'
  <2>1. ASSUME NEW r \in Publishers, announcing'[r] # <<>> PROVE IsNew(r, announcing[r][1])'
    <3>1. PICK x : x = announcing'[r][1] /\ IsNew(r, x)
      BY <1>2, <1>4, <2>1 DEF Orderly, AnnouncedIsNew
    <3>2. IsNew(r, x)' BY <3>1, SameView
    <3> QED BY <3>1, <3>2 DEF IsNew, IsFinal, IsPartial
  <2> QED BY <2>1 DEF AnnouncedIsNew
<1>6. \A q \in Publishers, x \in Waiting' :
        announcing'[q] # <<>> /\ announcing'[q][1].kind = "final" /\ settings'.mode = "source" =>
          (IsFinal(x)' => x.n < Newest') /\ (IsPartial(x)' => x.n <= Newest')
  <2> SUFFICES ASSUME NEW q \in Publishers, NEW x \in Waiting',
                      announcing'[q] # <<>>, announcing'[q][1].kind = "final", settings'.mode = "source"
               PROVE  (IsFinal(x)' => x.n < Newest') /\ (IsPartial(x)' => x.n <= Newest')
    OBVIOUS
  <2>1. q # p BY <1>4
  <2>2. announcing'[q] = announcing[q] /\ x \in Waiting BY <1>2, <2>1 DEF Waiting
  <2> QED BY <1>1, <2>2, SameView DEF Orderly, QueueInOrder
<1>7. AllAged BY UnchangedAges
<1>8. Newest' >= Newest /\ said' \in Seq(Words) BY <1>1 DEF CaptionTypeOK
<1>9. Waiting' = Waiting /\ FinalSinks' = FinalSinks BY SameView DEF Waiting
<1>10. Awaited => Awaited'
  <2>1. ASSUME NEW q \in Publishers, announcing[q] # <<>>, Awaiting(announcing[q][1]) PROVE Awaited'
    <3>1. announcing'[q] = announcing[q] BY <1>2, <2>1
    <3>2. PICK x : x = announcing[q][1] /\ Awaiting(x) BY <2>1
    <3>3. Awaiting(x)' BY <3>2, SameView
    <3>4. Awaiting(announcing[q][1])' BY <3>1, <3>2, <3>3 DEF Awaiting, IsFinal
    <3> QED BY <2>1, <3>1, <3>4 DEF Awaited
  <2>2. ASSUME NEW x \in Waiting, Awaiting(x) PROVE Awaited'
    BY <1>9, <2>2, SameView DEF Awaited
  <2> QED BY <2>1, <2>2 DEF Awaited
<1>11. (SendWaits' <=> SendWaits) /\ (OnItsWay' <=> OnItsWay) /\ (Sending' <=> Sending)
  <2>1. SendWaits' <=> SendWaits BY <1>9, SameView DEF SendWaits
  <2>2. Sending' <=> Sending BY DEF Sending
  <2> QED BY <1>1, <2>1, <2>2, SameView DEF OnItsWay
<1>12. \A s : WillClear(s)' <=> WillClear(s) BY <1>1, <1>9, <1>11 DEF WillClear, FreshClear
<1>13. NewestFinal' BY <1>1, <1>9, <1>10, <1>11, <1>12 DEF Orderly, NewestFinal, WasShown
<1>14. OlderFirst'
  BY <1>1, <1>9, <1>10, <1>11, SameView DEF Orderly, OlderFirst, Overtaken
<1> QED BY <1>5, <1>6, <1>7, <1>8, <1>13, <1>14, PublicationKeeps DEF Orderly, QueueInOrder

\* publish_source
LEMMA PublishSourceKeeps ==
  ASSUME CaptionTypeOK, Orderly, excused' = {}, PublishPartial \/ PublishFinal
  PROVE  Orderly'
<1>1. "source" \in Publishers /\ Len(said) \in Nat /\ Newest = Len(said)
  BY LenProperties DEF Publishers, Newest, CaptionTypeOK
<1>2. \A text \in Texts : text # Blank /\ text \in Words BY CaptionsAssumption DEF Words
<1>3. CASE PublishPartial
  <2>1. PICK text \in Texts : Announce("source", Item("partial", Len(said) + 1, text, FALSE))
    BY <1>3 DEF PublishPartial
  <2>2. PICK item : item = Item("partial", Len(said) + 1, text, FALSE) OBVIOUS
  <2>3. /\ item \in Announced /\ item.kind = "partial" /\ item.n = Newest + 1 /\ item.text = text
    <3>1. Len(said) + 1 \in Numbers /\ FALSE \in BOOLEAN BY <1>1 DEF Numbers
    <3> QED BY <1>1, <1>2, <2>2, <3>1 DEF Item, Announced
  <2>4. IsNew("source", item) BY <1>2, <2>3 DEF IsNew, IsFinal, IsPartial
  <2>5. announcing["source"] = <<>> /\ announcing' = [announcing EXCEPT !["source"] = <<item>>]
    BY <2>1, <2>2 DEF Announce
  <2>6. UNCHANGED <<settings, said, outbox, sender, memory, request, screen>>
    BY <1>3 DEF PublishPartial, userVars
  <2> QED BY <1>1, <2>3, <2>4, <2>5, <2>6, SlotAddedKeeps
<1>4. CASE PublishFinal
  <2>1. PICK text \in Texts : /\ Announce("source", Item("final", Len(said) + 1, text, FALSE))
                              /\ said' = IF settings.mode = "source" THEN Append(said, text) ELSE said
    BY <1>4 DEF PublishFinal
  <2>2. PICK item : item = Item("final", Len(said) + 1, text, FALSE) OBVIOUS
  <2>3. /\ item \in Announced /\ item.kind = "final" /\ item.n = Newest + 1 /\ item.text = text
    <3>1. Len(said) + 1 \in Numbers /\ FALSE \in BOOLEAN BY <1>1 DEF Numbers
    <3> QED BY <1>1, <1>2, <2>2, <3>1 DEF Item, Announced
  <2>4. announcing["source"] = <<>> /\ announcing' = [announcing EXCEPT !["source"] = <<item>>]
    BY <2>1, <2>2 DEF Announce
  <2>5. settings' = settings /\ UNCHANGED <<memory, request, screen>> /\ Bump({"send", "clear"})
    BY <1>4 DEF PublishFinal, userVars
  <2>6. AllAged BY <2>5, BumpAges
  <2>7. settings.mode # "payload" BY <1>4 DEF PublishFinal, Excuse
  <2>8. CASE settings.mode = "source"
    <3>1. said' = Append(said, text) BY <2>1, <2>8
    <3>2. said' \in Seq(Words) /\ Newest' = Newest + 1
      BY <1>1, <1>2, <3>1, AppendProperties DEF Newest, CaptionTypeOK
    <3>3. IsFinal(item) /\ item.text # Blank BY <1>2, <2>3, <2>8 DEF IsFinal
    <3>4. IsNew("source", item)' BY <1>2, <2>3, <2>5, <2>8, <3>2 DEF IsNew, IsFinal, IsPartial
    <3> QED BY <1>1, <2>3, <2>4, <2>5, <2>6, <3>2, <3>3, <3>4, NewFinalKeeps
  <2>9. CASE settings.mode # "source"
    <3>1. said' = said /\ Newest' = Newest BY <2>1, <2>9 DEF Newest
    <3>2. FinalSinks' = {} BY <2>5, <2>7, <2>9 DEF FinalSinks, SourceSinks
    <3>3. IsNew("source", item)'
      BY <1>2, <2>3, <2>5, <2>7, <2>9 DEF IsNew, IsFinal, IsPartial
    <3>4. announcing'["source"] = <<item>> /\ \A r \in Publishers : r # "source" => announcing'[r] = announcing[r]
      BY <1>1, <2>4 DEF CaptionTypeOK
    <3>5. <<item>>[1] = item OBVIOUS
    <3>6. AnnouncedIsNew'
      <4>1. ASSUME NEW r \in Publishers, announcing'[r] # <<>> PROVE IsNew(r, announcing[r][1])'
        <5>1. CASE r = "source"
          <6>1. announcing'[r][1] = item BY <3>4, <3>5, <5>1
          <6> QED BY <3>3, <5>1, <6>1 DEF IsNew, IsFinal, IsPartial
        <5>2. CASE r # "source"
          <6>1. PICK x : x = announcing'[r][1] /\ IsNew(r, x)
            BY <3>4, <4>1, <5>2 DEF Orderly, AnnouncedIsNew
          <6>2. IsNew(r, x)' BY <2>5, <3>1, <6>1 DEF IsNew, IsFinal, IsPartial
          <6> QED BY <6>1, <6>2 DEF IsNew, IsFinal, IsPartial
        <5> QED BY <5>1, <5>2
      <4> QED BY <4>1 DEF AnnouncedIsNew
    <3>7. Newest' >= Newest /\ said' \in Seq(Words) BY <1>1, <3>1 DEF CaptionTypeOK
    <3>8. settings'.mode # "source" BY <2>5, <2>9
    <3> QED BY <2>5, <2>6, <3>2, <3>6, <3>7, <3>8, PublicationKeeps, AwaitedSuffices
            DEF Orderly, QueueInOrder
  <2> QED BY <2>8, <2>9
<1> QED BY <1>3, <1>4

\* publish_payload
LEMMA PublishPayloadKeeps ==
  ASSUME CaptionTypeOK, Orderly, PublishPayload
  PROVE  Orderly'
<1>1. "payload" \in Publishers /\ Len(said) \in Nat /\ Newest = Len(said)
  BY LenProperties DEF Publishers, Newest, CaptionTypeOK
<1>2. PICK text \in Texts \union {Blank}, n \in 1..MaxFinals :
        /\ \/ settings.mode = "payload" /\ n = Len(said) + 1 /\ text # Blank /\ said' = Append(said, text)
           \/ n = Len(said) /\ text \in {said[n], Blank} /\ UNCHANGED said
        /\ Announce("payload", Item("payload", n, text, Supersedes(n, text)))
  BY DEF PublishPayload
<1>3. PICK item : item = Item("payload", n, text, Supersedes(n, text)) OBVIOUS
<1>4. text \in Words /\ n \in Numbers BY CaptionsAssumption DEF Words, Numbers
<1>5. item \in Announced /\ item.kind = "payload" /\ item.n = n /\ item.text = text
  <2>1. Supersedes(n, text) \in BOOLEAN BY DEF Supersedes
  <2> QED BY <1>3, <1>4, <2>1 DEF Item, Announced
<1>6. announcing["payload"] = <<>> /\ announcing' = [announcing EXCEPT !["payload"] = <<item>>]
  BY <1>2, <1>3 DEF Announce
<1>7. UNCHANGED <<settings, outbox, sender, memory, request, screen>> BY DEF PublishPayload, userVars
<1>8. CASE settings.mode = "payload" /\ n = Len(said) + 1 /\ text # Blank /\ said' = Append(said, text)
  <2>1. said' \in Seq(Words) /\ Newest' = Newest + 1
    BY <1>1, <1>4, <1>8, AppendProperties DEF Newest, CaptionTypeOK
  <2>2. IsFinal(item) /\ item.text # Blank BY <1>5, <1>8 DEF IsFinal
  <2>3. IsNew("payload", item)' BY <1>1, <1>5, <1>7, <1>8, <2>1 DEF IsNew, IsFinal, IsPartial
  <2>4. AllAged BY <1>7, UnchangedAges
  <2> QED BY <1>1, <1>5, <1>6, <1>7, <2>1, <2>2, <2>3, <2>4, NewFinalKeeps
<1>9. CASE n = Len(said) /\ UNCHANGED said
  <2>1. IsNew("payload", item) BY <1>1, <1>5, <1>9 DEF IsNew, IsFinal, IsPartial
  <2> QED BY <1>1, <1>5, <1>6, <1>7, <1>9, <2>1, SlotAddedKeeps
<1> QED BY <1>2, <1>8, <1>9

\* The bump before a payload, which is the newest final.
LEMMA BumpForPayloadKeeps ==
  ASSUME CaptionTypeOK, Orderly, excused' = {}, BumpForPayload
  PROVE  Orderly'
<1>1. "payload" \in Publishers /\ Len(said) \in Nat /\ Newest = Len(said)
  BY LenProperties DEF Publishers, Newest, CaptionTypeOK
<1>2. announcing["payload"] # <<>> BY DEF BumpForPayload
<1>3. PICK old : old = announcing["payload"][1] OBVIOUS
<1>4. old \in Announced /\ IsNew("payload", old)
  BY <1>1, <1>2, <1>3, AnnouncedItem DEF Orderly, AnnouncedIsNew
<1>5. PICK item : item = [old EXCEPT !.bumps = FALSE] OBVIOUS
<1>6. item \in Announced /\ item.kind = old.kind /\ item.n = old.n /\ item.text = old.text
  BY <1>4, <1>5 DEF Announced
<1>7. announcing' = [announcing EXCEPT !["payload"] = <<item>>]
  BY <1>3, <1>5 DEF BumpForPayload
<1>8. Supersedes(old.n, old.text)
  <2>1. Excuse(~Supersedes(old.n, old.text)) BY <1>3 DEF BumpForPayload
  <2> QED BY <2>1 DEF Excuse
<1>9. UNCHANGED <<settings, said, memory, request, screen>> /\ Bump({"send", "clear"})
  BY DEF BumpForPayload, spokenVars, userVars
<1>10. AllAged BY <1>9, BumpAges
<1>11. item.kind = "payload" /\ settings.mode = "payload" /\ IsNew("payload", item)
  BY <1>4, <1>6, <1>8 DEF IsNew, IsFinal, IsPartial, Supersedes
<1>12. Awaiting(item)
  BY <1>6, <1>8, <1>11 DEF Awaiting, IsNew, IsFinal, Supersedes
<1>13. announcing'["payload"] = <<item>> /\ \A r \in Publishers : r # "payload" => announcing'[r] = announcing[r]
  BY <1>1, <1>7 DEF CaptionTypeOK
<1>14. <<item>>[1] = item /\ <<item>> # <<>> OBVIOUS
<1>15. AnnouncedIsNew'
  <2>1. ASSUME NEW r \in Publishers, announcing'[r] # <<>> PROVE IsNew(r, announcing[r][1])'
    <3>1. PICK x : x = announcing'[r][1] /\ IsNew(r, x)
      BY <1>11, <1>13, <1>14, <2>1 DEF Orderly, AnnouncedIsNew
    <3>2. IsNew(r, x)' BY <1>9, <3>1, SameView
    <3> QED BY <3>1, <3>2 DEF IsNew, IsFinal, IsPartial
  <2> QED BY <2>1 DEF AnnouncedIsNew
<1>16. Awaited'
  <2>1. Awaiting(item)' BY <1>9, <1>12, SameView
  <2>2. announcing'["payload"][1] = item /\ announcing'["payload"] # <<>> BY <1>13, <1>14
  <2>3. Awaiting(announcing["payload"][1])' BY <2>1, <2>2 DEF Awaiting, IsFinal
  <2> QED BY <1>1, <2>2, <2>3 DEF Awaited
<1>17. Newest' >= Newest /\ said' \in Seq(Words) /\ settings'.mode # "source"
  BY <1>1, <1>9, <1>11 DEF CaptionTypeOK, Newest
<1> QED BY <1>9, <1>10, <1>15, <1>16, <1>17, PublicationKeeps, AwaitedSuffices DEF Orderly, QueueInOrder

\* An announced item is queued behind all the others, at the cost of a partial.
LEMMA EnqueueKeeps ==
  ASSUME CaptionTypeOK, OnePartial, Orderly, excused' = {}, NEW p \in Publishers, Enqueue(p)
  PROVE  Orderly'
<1>1. announcing[p] # <<>> BY DEF Enqueue
<1>2. PICK item : item = announcing[p][1] OBVIOUS
<1>3. item \in Announced /\ IsNew(p, item)
  BY <1>1, <1>2, AnnouncedItem DEF Orderly, AnnouncedIsNew
<1>4. PICK q : q = IF item.kind = "partial" THEN WithoutPartials(outbox) ELSE outbox OBVIOUS
<1>5. /\ q \in Seq(Queued)
      /\ ToSet(q) \subseteq Waiting /\ \A x \in Waiting : x.kind # "partial" => x \in ToSet(q)
      /\ \A x, y : Before(q, x, y) => Before(outbox, x, y)
  <2>1. outbox \in Seq(Queued) /\ OnePartialIn(outbox) BY DEF CaptionTypeOK, OnePartial
  <2>2. CASE item.kind = "partial"
    <3>1. q = WithoutPartials(outbox) BY <1>4, <2>2
    <3> QED BY <2>1, <3>1, QueueWithoutPartials DEF Waiting
  <2>3. CASE item.kind # "partial" BY <1>4, <2>1, <2>3 DEF Waiting
  <2> QED BY <2>2, <2>3
<1>6. outbox' = Append(q, item)
  <2>1. outbox' = Pushed(q, item) /\ ~Overflows(q) BY <1>2, <1>4 DEF Enqueue, Excuse
  <2> QED BY <2>1 DEF Pushed, Overflows
<1>7. item \in Queued /\ item.kind \in {"partial", "final", "payload"} BY <1>3 DEF Queued, Announced
<1>8. /\ Waiting' = ToSet(q) \union {item}
      /\ \A x, y : Before(outbox', x, y) => Before(q, x, y) \/ (x \in ToSet(q) /\ y = item)
  BY <1>5, <1>6, <1>7, QueueAppend DEF Waiting
<1>9. UNCHANGED <<settings, said, sender, memory, request, screen>> BY DEF Enqueue, spokenVars, userVars
<1>10. /\ announcing'[p] = <<>> /\ \A r \in Publishers : r # p => announcing'[r] = announcing[r]
  BY DEF Enqueue, CaptionTypeOK
<1>11. Newest \in Nat /\ Newest' = Newest /\ FinalSinks' = FinalSinks
  BY <1>9, LenProperties, SameView DEF Newest, CaptionTypeOK
<1>12. \A x \in Waiting : x.n \in Nat BY QueueItems, ItemFields DEF Waiting, CaptionTypeOK
<1>13. item.n \in Nat BY <1>7, ItemFields
<1>14. Calm' /\ MemoryIsOld' BY <1>9, <1>11 DEF Orderly, Calm, MemoryIsOld
<1>15. AnnouncedIsNew'
  <2>1. ASSUME NEW r \in Publishers, announcing'[r] # <<>> PROVE IsNew(r, announcing[r][1])'
    <3>1. PICK x : x = announcing'[r][1] /\ IsNew(r, x)
      BY <1>10, <2>1 DEF Orderly, AnnouncedIsNew
    <3>2. IsNew(r, x)' BY <1>9, <3>1, SameView
    <3> QED BY <3>1, <3>2 DEF IsNew, IsFinal, IsPartial
  <2> QED BY <2>1 DEF AnnouncedIsNew
<1>16. Fits(item)
  BY <1>3, <1>7, <1>11, <1>13 DEF IsNew, Fits
<1>17. WaitingFits'
  <2>1. \A x \in Waiting' : Fits(x)'
    BY <1>5, <1>8, <1>9, <1>16, SameView DEF Orderly, WaitingFits
  <2>2. (sender.pc = "sleep" => DelayFits(sender.item))'
    BY <1>9, <1>11, SameView DEF Orderly, WaitingFits, DelayFits
  <2> QED BY <2>1, <2>2 DEF WaitingFits
<1>18. QueueInOrder'
  <2>1. ASSUME NEW x \in Waiting', NEW y \in Waiting', Before(outbox', x, y) PROVE InTurn(x, y)'
    <3>1. CASE Before(q, x, y)
      <4>1. x \in ToSet(q) /\ y \in ToSet(q) BY <3>1 DEF Before, ToSet
      <4>2. InTurn(x, y) BY <1>5, <3>1, <4>1 DEF Orderly, QueueInOrder
      <4> QED BY <1>9, <4>2, SameView DEF InTurn
    <3>2. CASE x \in ToSet(q) /\ y = item
      <4>1. x \in Waiting /\ x.n \in Nat /\ Fits(x) BY <1>5, <1>12, <3>2 DEF Orderly, WaitingFits
      <4>2. IsFinal(x) /\ IsFinal(item) => x.n <= item.n
        BY <1>3, <1>11, <4>1 DEF Fits, IsNew
      <4>3. x.kind = "final" /\ IsFinal(x) /\ IsPartial(item) => x.n < item.n
        BY <1>3, <1>11, <4>1 DEF Fits, IsNew
      <4>4. x.kind = "final" /\ IsFinal(x) /\ IsFinal(item) => x.n < item.n
        <5> SUFFICES ASSUME x.kind = "final", IsFinal(x), IsFinal(item) PROVE x.n < item.n OBVIOUS
        <5>1. settings.mode = "source" /\ item.kind = "final" BY DEF IsFinal
        <5>2. x.n < Newest BY <1>1, <1>2, <4>1, <5>1 DEF Orderly, QueueInOrder
        <5> QED BY <1>3, <5>2 DEF IsNew
      <4>5. InTurn(x, item) BY <1>7, <4>2, <4>3, <4>4 DEF InTurn
      <4> QED BY <1>9, <3>2, <4>5, SameView DEF InTurn
    <3> QED BY <1>8, <2>1, <3>1, <3>2
  <2>2. ASSUME NEW x \in Waiting', NEW y \in Waiting', x.kind = "send", IsFinal(y)' PROVE x.n <= y.n
    <3>1. x \in Waiting /\ IsFinal(y) /\ Fits(x) /\ x.n \in Nat
      BY <1>5, <1>7, <1>8, <1>9, <1>12, <2>2, SameView DEF Orderly, WaitingFits
    <3>2. CASE y \in Waiting BY <2>2, <3>1, <3>2 DEF Orderly, QueueInOrder
    <3>3. CASE y = item
      <4>1. x.n <= Newest BY <2>2, <3>1 DEF Fits, DelayFits
      <4> QED BY <1>3, <3>1, <3>3, <4>1 DEF IsNew
    <3> QED BY <1>5, <1>8, <3>2, <3>3
  <2>3. ASSUME NEW r \in Publishers, NEW x \in Waiting',
               announcing'[r] # <<>>, announcing'[r][1].kind = "final", settings'.mode = "source"
        PROVE  (IsFinal(x)' => x.n < Newest') /\ (IsPartial(x)' => x.n <= Newest')
    <3>1. r # p /\ announcing[r] = announcing'[r] BY <1>10, <2>3
    <3>2. CASE x \in Waiting
      BY <1>9, <1>11, <2>3, <3>1, <3>2, SameView DEF Orderly, QueueInOrder
    <3>3. CASE x = item
      <4>1. IsNew(r, announcing[r][1]) BY <2>3, <3>1 DEF Orderly, AnnouncedIsNew
      <4>2. r = "source" BY <2>3, <3>1, <4>1 DEF IsNew, Publishers
      <4>3. p = "payload" BY <3>1, <4>2 DEF Publishers
      <4>4. ~IsFinal(item) /\ ~IsPartial(item) BY <1>3, <1>9, <2>3, <4>3 DEF IsNew, IsFinal, IsPartial
      <4> QED BY <1>9, <3>3, <4>4, SameView
    <3> QED BY <1>5, <1>8, <3>2, <3>3
  <2> QED BY <2>1, <2>2, <2>3 DEF QueueInOrder
<1>19. SendOK' BY <1>9, <1>11 DEF Orderly, SendOK, Sending
<1>20. ClearsHit'
  <2>1. \A s, n : Hits(s, n)' <=> Hits(s, n) BY <1>9 DEF Hits
  <2>2. \A x \in Waiting' : x.kind = "clear" => x \in Waiting BY <1>5, <1>7, <1>8
  <2> QED BY <1>9, <2>1, <2>2 DEF Orderly, ClearsHit, Sending, Hits
<1>21. Awaited => Awaited'
  <2>1. Awaiting(item) => Awaited' BY <1>8, <1>9, SameView DEF Awaited
  <2>2. ASSUME NEW r \in Publishers, announcing[r] # <<>>, Awaiting(announcing[r][1]) PROVE Awaited'
    <3>1. CASE r = p BY <1>2, <2>1, <2>2, <3>1
    <3>2. CASE r # p
      <4>1. PICK x : x = announcing[r][1] /\ x = announcing'[r][1] /\ Awaiting(x) BY <1>10, <2>2, <3>2
      <4>2. Awaiting(x)' BY <1>9, <4>1, SameView
      <4>3. Awaiting(announcing[r][1])' BY <4>1, <4>2 DEF Awaiting, IsFinal
      <4> QED BY <1>10, <2>2, <3>2, <4>3 DEF Awaited
    <3> QED BY <3>1, <3>2
  <2>3. ASSUME NEW x \in Waiting, Awaiting(x) PROVE Awaited'
    <3>1. x \in Waiting' BY <1>5, <1>8, <2>3 DEF Awaiting, IsFinal
    <3> QED BY <1>9, <2>3, <3>1, SameView DEF Awaited
  <2> QED BY <2>2, <2>3 DEF Awaited
<1>22. SendWaits => SendWaits'
  BY <1>5, <1>8, <1>9, SameView DEF SendWaits, FreshSend
<1>23. OnItsWay => OnItsWay'
  BY <1>9, <1>11, <1>22, SameView DEF OnItsWay, Sending, FreshSend
<1>24. \A s : WillClear(s) => WillClear(s)'
  BY <1>5, <1>8, <1>9, <1>11 DEF WillClear, FreshClear, Sending
<1>25. NewestFinal'
  BY <1>9, <1>11, <1>21, <1>23, <1>24 DEF Orderly, NewestFinal, WasShown
<1>26. OlderFirst'
  <2>1. ASSUME NEW x \in Waiting', FinalSinks # {}
        PROVE  /\ IsPartial(x) /\ x.n <= Newest => Awaited'
               /\ IsFinal(x) /\ x.n < Newest => Awaited'
               /\ x.kind = "send" /\ x.fresh /\ x.n < Newest => Awaited' \/ SendWaits'
    <3>1. CASE x \in Waiting BY <1>21, <1>22, <2>1, <3>1 DEF Orderly, OlderFirst, Overtaken
    <3>2. CASE x = item BY <1>3, <1>7, <1>11, <1>13, <3>2 DEF IsNew
    <3> QED BY <1>5, <1>8, <3>1, <3>2
  <2> QED BY <1>9, <1>11, <1>21, <1>22, <2>1, SameView DEF Orderly, OlderFirst, Overtaken, Sending
<1> QED BY <1>14, <1>15, <1>17, <1>18, <1>19, <1>20, <1>25, <1>26 DEF Orderly

-----------------------------------------------------------------------------
(* The worker takes an item *)

\* The item that is taken, and the items behind it.
LEMMA Taken ==
  ASSUME CaptionTypeOK, Orderly, outbox # <<>>, NEW h, NEW q, h = Head(outbox), q = Tail(outbox)
  PROVE  /\ h \in Queued /\ h \in Waiting /\ Fits(h) /\ q \in Seq(Queued)
         /\ ToSet(q) \subseteq Waiting /\ Waiting \subseteq {h} \union ToSet(q)
         /\ \A x, y : Before(q, x, y) => Before(outbox, x, y)
         /\ \A x \in ToSet(q) : InTurn(h, x)
         /\ \A x \in Waiting : x.n \in Nat
         /\ Newest \in Nat
<1>1. outbox \in Seq(Queued) BY DEF CaptionTypeOK
<1>2. /\ h \in Queued /\ h \in Waiting /\ q \in Seq(Queued)
      /\ ToSet(q) \subseteq Waiting /\ Waiting \subseteq {h} \union ToSet(q)
      /\ \A x, y : Before(q, x, y) => Before(outbox, x, y)
      /\ \A x \in ToSet(q) : Before(outbox, h, x)
  BY <1>1, QueueTail DEF Waiting
<1>3. Fits(h) BY <1>2 DEF Orderly, WaitingFits
<1>4. \A x \in ToSet(q) : InTurn(h, x) BY <1>2 DEF Orderly, QueueInOrder
<1>5. \A x \in Waiting : x.n \in Nat BY <1>1, QueueItems, ItemFields DEF Waiting
<1>6. Newest \in Nat BY LenProperties DEF Newest, CaptionTypeOK
<1> QED BY <1>2, <1>3, <1>4, <1>5, <1>6

\* An item less leaves the others fitting and in order.
LEMMA RestInOrder ==
  ASSUME Orderly, NEW q, outbox' = q, UNCHANGED <<settings, said, announcing>>, memory'.payload = memory.payload,
         ToSet(q) \subseteq Waiting, \A x, y : Before(q, x, y) => Before(outbox, x, y)
  PROVE  QueueInOrder' /\ AnnouncedIsNew' /\ \A x \in Waiting' : Fits(x)'
<1>1. Waiting' \subseteq Waiting /\ Newest' = Newest BY SameView DEF Waiting
<1>2. \A x, y : InTurn(x, y)' <=> InTurn(x, y) BY SameView DEF InTurn
<1>3. AnnouncedIsNew' BY <1>1, SameView DEF Orderly, AnnouncedIsNew
<1>4. \A x \in Waiting' : Fits(x)' BY <1>1, SameView DEF Orderly, WaitingFits
<1>5. QueueInOrder' BY <1>1, <1>2, SameView DEF Orderly, QueueInOrder
<1> QED BY <1>3, <1>4, <1>5

\* What is left out was not awaited.
LEMMA SkipKeeps ==
  ASSUME CaptionTypeOK, Orderly, sender.pc = "idle", outbox # <<>>, sender' = Idle, outbox' = Tail(outbox),
         UNCHANGED <<settings, said, announcing, memory, request, screen>>,
         Head(outbox).kind \notin {"send", "clear"}, FinalSinks # {} => ~Awaiting(Head(outbox))
  PROVE  Orderly'
<1>1. PICK h, q : h = Head(outbox) /\ q = Tail(outbox) OBVIOUS
<1>2. /\ h \in Waiting /\ ToSet(q) \subseteq Waiting /\ Waiting \subseteq {h} \union ToSet(q)
      /\ \A x, y : Before(q, x, y) => Before(outbox, x, y)
  BY <1>1, Taken
<1>3. QueueInOrder' /\ AnnouncedIsNew' /\ \A x \in Waiting' : Fits(x)'
  BY <1>1, <1>2, RestInOrder
<1>4. sender'.pc = "idle" /\ ~Sending' /\ ~Sending BY DEF Idle, Sending, Busy, Sinks
<1>5. Waiting' = ToSet(q) /\ Newest' = Newest /\ FinalSinks' = FinalSinks
  BY <1>1, SameView DEF Waiting
<1>6. Calm' /\ MemoryIsOld' /\ WaitingFits' /\ SendOK'
  BY <1>3, <1>4, <1>5 DEF Orderly, Calm, MemoryIsOld, WaitingFits, SendOK
<1>7. ClearsHit'
  BY <1>2, <1>4, <1>5 DEF Orderly, ClearsHit, Hits
<1>8. FinalSinks # {} /\ Awaited => Awaited'
  BY <1>1, <1>2, <1>5, SameView DEF Awaited
<1>9. SendWaits => SendWaits'
  BY <1>1, <1>2, <1>5, SameView DEF SendWaits, FreshSend
<1>10. OnItsWay => OnItsWay' BY <1>4, <1>9 DEF OnItsWay
<1>11. \A s : WillClear(s) => WillClear(s)'
  BY <1>1, <1>2, <1>4, <1>5 DEF WillClear, FreshClear
<1>12. NewestFinal'
  BY <1>5, <1>8, <1>10, <1>11 DEF Orderly, NewestFinal, WasShown
<1>13. OlderFirst'
  BY <1>2, <1>4, <1>5, <1>8, <1>9, SameView DEF Orderly, OlderFirst, Overtaken
<1> QED BY <1>3, <1>6, <1>7, <1>12, <1>13 DEF Orderly

\* A partial is sent.
LEMMA TakePartialKeeps ==
  ASSUME CaptionTypeOK, Orderly, sender.pc = "idle", outbox # <<>>, excused' = {},
         UNCHANGED <<settings, said, announcing, request, screen>>,
         Head(outbox).kind = "partial", HandlePartial(Tail(outbox), Head(outbox))
  PROVE  Orderly'
<1>1. PICK h, q : h = Head(outbox) /\ q = Tail(outbox) OBVIOUS
<1>2. CASE Skip(q)
  <2>1. ~Awaiting(h) BY <1>1 DEF Awaiting, IsFinal
  <2> QED BY <1>1, <1>2, <2>1, SkipKeeps DEF Skip
<1>3. CASE ~Skip(q)
  <2>1. /\ PartialSinks(settings) # {}
        /\ memory' = [memory EXCEPT !.partial = h.text]
        /\ Send(h, PartialSinks(settings), ~settings.dedupe, FALSE) /\ outbox' = q
    BY <1>1, <1>3 DEF HandlePartial
  <2>2. /\ h \in Queued /\ h \in Waiting /\ Fits(h)
        /\ ToSet(q) \subseteq Waiting /\ Waiting \subseteq {h} \union ToSet(q)
        /\ \A x, y : Before(q, x, y) => Before(outbox, x, y)
    BY <1>1, Taken
  <2>3. h.n \in Numbers /\ h.text \in Words /\ h.text # Blank
    BY <1>1, <2>2, ItemFields DEF Numbers, Fits
  <2>4. (~settings.dedupe) \in BOOLEAN /\ FALSE \in BOOLEAN BY Zenon
  <2>5. /\ sender'.pc = "send" /\ sender'.n = h.n /\ sender'.text = h.text
        /\ sender'.sinks = PartialSinks(settings) /\ sender'.asked = PartialSinks(settings)
        /\ sender'.clears = FALSE /\ sender'.conf = settings /\ sender'.final = FALSE
    BY <1>1, <2>1, <2>3, <2>4, SinksOf, SendTypes
  <2>6. memory'.payload = memory.payload BY <2>1 DEF CaptionTypeOK, Notes
  <2>7. QueueInOrder' /\ AnnouncedIsNew' /\ \A x \in Waiting' : Fits(x)'
    BY <2>1, <2>2, <2>6, RestInOrder
  <2>8. Waiting' = ToSet(q) /\ Newest' = Newest /\ FinalSinks' = FinalSinks
    BY <2>1, <2>6, SameView DEF Waiting
  <2>9. Sending' /\ ~Sending BY <2>5 DEF Sending, Busy, Sinks
  <2>10. Calm' /\ MemoryIsOld' BY <2>6, <2>8 DEF Orderly, Calm, MemoryIsOld
  <2>11. WaitingFits' BY <2>5, <2>7 DEF WaitingFits
  <2>12. SendOK'
    BY <2>1, <2>3, <2>5 DEF SendOK, Sinks
  <2>13. ClearsHit'
    BY <2>2, <2>3, <2>5, <2>8 DEF Orderly, ClearsHit, Hits
  <2>14. Awaited => Awaited'
    <3>1. ~Awaiting(h) BY <1>1 DEF Awaiting, IsFinal
    <3> QED BY <2>2, <2>6, <2>8, <3>1, SameView DEF Awaited
  <2>15. SendWaits => SendWaits'
    BY <1>1, <2>2, <2>6, <2>8, SameView DEF SendWaits, FreshSend
  <2>16. OnItsWay => OnItsWay' BY <2>9, <2>15 DEF OnItsWay
  <2>17. \A s : WillClear(s) => WillClear(s)'
    BY <1>1, <2>2, <2>8, <2>9 DEF WillClear, FreshClear
  <2>18. NewestFinal'
    BY <2>8, <2>14, <2>16, <2>17 DEF Orderly, NewestFinal, WasShown
  <2>19. IsPartial(h)
    BY <1>1, <2>1 DEF IsPartial, PartialSinks, SourceSinks
  <2>20. OlderFirst'
    <3>1. ASSUME NEW x \in Waiting', FinalSinks # {}
          PROVE  /\ IsPartial(x) /\ x.n <= Newest => Awaited'
                 /\ IsFinal(x) /\ x.n < Newest => Awaited'
                 /\ x.kind = "send" /\ x.fresh /\ x.n < Newest => Awaited' \/ SendWaits'
      BY <2>2, <2>8, <2>14, <2>15, <3>1 DEF Orderly, OlderFirst, Overtaken
    <3>2. FinalSinks # {} /\ h.n <= Newest => Awaited'
      BY <2>2, <2>14, <2>19 DEF Orderly, OlderFirst
    <3> QED BY <2>5, <2>6, <2>8, <3>1, <3>2, SameView DEF OlderFirst, Overtaken
  <2> QED BY <2>7, <2>10, <2>11, <2>12, <2>13, <2>18, <2>20 DEF Orderly
<1> QED BY <1>2, <1>3

\* A final is delayed or sent at once.
LEMMA ScheduleKeeps ==
  ASSUME CaptionTypeOK, Orderly, sender.pc = "idle", outbox # <<>>, excused' = {},
         UNCHANGED <<settings, said, announcing, request, screen>>,
         NEW h, NEW q, h = Head(outbox), q = Tail(outbox),
         IsFinal(h), h.text # Blank, FinalSinks # {}, Schedule(q, h, FinalSinks),
         memory'.payload = IF h.kind = "payload" THEN <<h.n, h.text>> ELSE <<>>
  PROVE  Orderly'
<1>1. /\ h \in Queued /\ h \in Waiting /\ Fits(h) /\ q \in Seq(Queued)
      /\ ToSet(q) \subseteq Waiting /\ Waiting \subseteq {h} \union ToSet(q)
      /\ \A x, y : Before(q, x, y) => Before(outbox, x, y)
      /\ \A x \in ToSet(q) : InTurn(h, x)
      /\ \A x \in Waiting : x.n \in Nat
      /\ Newest \in Nat
  BY Taken
<1>2. h.n \in Numbers /\ h.n \in Nat /\ h.text \in Words BY <1>1, ItemFields DEF Numbers
<1>3. h.n <= Newest BY <1>1 DEF Fits
<1>4. PICK d : d = Delayed("send", h.n, h.text, FinalSinks) OBVIOUS
<1>5. /\ d \in Delays /\ d \in Queued /\ d.kind = "send" /\ d.n = h.n /\ d.text = h.text
      /\ d.sinks = FinalSinks /\ d.fresh
  <2>1. d \in Delays BY <1>2, <1>4, DelayedType, SinksOf
  <2> QED BY <1>4, <2>1 DEF Delayed, Queued
<1>6. \/ settings.delay /\ outbox' = Append(q, d) /\ sender' = Idle
      \/ ~settings.delay /\ outbox' = q /\ Send(h, FinalSinks, FALSE, TRUE)
  BY <1>4 DEF Schedule, Postpone, Pushed, Overflows, Excuse
<1>7. \/ settings.delay /\ Waiting' = ToSet(q) \union {d}
      \/ ~settings.delay /\ Waiting' = ToSet(q)
  BY <1>1, <1>5, <1>6, QueueAppend DEF Waiting
<1>8. \A x, y : Before(outbox', x, y) =>
        Before(q, x, y) \/ (settings.delay /\ x \in ToSet(q) /\ y = d)
  <2>1. \A x, y : Before(Append(q, d), x, y) => Before(q, x, y) \/ (x \in ToSet(q) /\ y = d)
    BY <1>1, <1>5, QueueAppend
  <2>2. CASE settings.delay /\ outbox' = Append(q, d) BY <2>1, <2>2
  <2>3. CASE outbox' = q BY <2>3
  <2> QED BY <1>6, <2>2, <2>3
<1>9. /\ FinalSinks' = FinalSinks /\ Newest' = Newest
      /\ \A x : (IsFinal(x)' <=> IsFinal(x)) /\ (IsPartial(x)' <=> IsPartial(x))
  BY DEF FinalSinks, PayloadSinks, SourceSinks, Newest, IsFinal, IsPartial
<1>10. \/ sender' = Idle
       \/ /\ ~settings.delay
          /\ sender'.pc = "send" /\ sender'.n = h.n /\ sender'.text = h.text
          /\ sender'.sinks = FinalSinks /\ sender'.asked = FinalSinks /\ sender'.clears = TRUE
          /\ sender'.conf = settings /\ sender'.final = TRUE
  <2>1. CASE Send(h, FinalSinks, FALSE, TRUE) /\ ~settings.delay
    <3>1. h.kind # "partial" BY DEF IsFinal
    <3> QED BY <1>2, <2>1, <3>1, SinksOf, SendTypes
  <2> QED BY <1>6, <2>1
<1>11. Calm' BY DEF Orderly, Calm
<1>12. MemoryIsOld' BY <1>3, <1>9 DEF MemoryIsOld
<1>13. AnnouncedIsNew' BY <1>9 DEF Orderly, AnnouncedIsNew, IsNew
<1>14. sender'.pc \in {"idle", "send"} BY <1>10 DEF Idle
<1>15. \A x : DelayFits(x)' <=> DelayFits(x) BY <1>9 DEF DelayFits
<1>16. WaitingFits'
  <2>1. ASSUME NEW x \in ToSet(q) PROVE Fits(x)'
    <3>1. Fits(x) BY <1>1, <2>1 DEF Orderly, WaitingFits
    <3> QED BY <1>9, <1>15, <3>1 DEF Fits
  <2>2. settings.delay => Fits(d)'
    <3>1. settings.delay => DelayFits(d) BY <1>3, <1>5 DEF DelayFits
    <3> QED BY <1>5, <1>15, <3>1 DEF Fits, IsFinal, IsPartial
  <2> QED BY <1>7, <1>14, <2>1, <2>2 DEF WaitingFits
<1>17. QueueInOrder'
  <2>1. ~IsFinal(d) /\ ~IsPartial(d) BY <1>5 DEF IsFinal, IsPartial
  <2>2. ASSUME NEW x \in Waiting', NEW y \in Waiting', Before(outbox', x, y) PROVE InTurn(x, y)'
    <3>1. CASE Before(q, x, y)
      <4>1. x \in ToSet(q) /\ y \in ToSet(q) BY <3>1 DEF Before, ToSet
      <4>2. InTurn(x, y) BY <1>1, <3>1, <4>1 DEF Orderly, QueueInOrder
      <4> QED BY <1>9, <4>2 DEF InTurn
    <3>2. CASE x \in ToSet(q) /\ y = d
      <4>1. x.kind = "send" => x.n <= h.n BY <1>1, <3>2 DEF Orderly, QueueInOrder
      <4> QED BY <1>5, <1>9, <2>1, <3>2, <4>1 DEF InTurn
    <3> QED BY <1>8, <2>2, <3>1, <3>2
  <2>3. ASSUME NEW x \in Waiting', NEW y \in Waiting', x.kind = "send", IsFinal(y)' PROVE x.n <= y.n
    <3>1. y \in ToSet(q) /\ IsFinal(y) BY <1>7, <1>9, <2>1, <2>3
    <3>2. CASE x \in ToSet(q) BY <1>1, <2>3, <3>1, <3>2 DEF Orderly, QueueInOrder
    <3>3. CASE x = d
      <4>1. InTurn(h, y) BY <1>1, <3>1
      <4> QED BY <1>5, <3>1, <3>3, <4>1 DEF InTurn
    <3> QED BY <1>7, <3>2, <3>3
  <2>4. ASSUME NEW r \in Publishers, NEW x \in Waiting',
               announcing'[r] # <<>>, announcing'[r][1].kind = "final", settings'.mode = "source"
        PROVE  (IsFinal(x)' => x.n < Newest') /\ (IsPartial(x)' => x.n <= Newest')
    <3>1. CASE x \in ToSet(q) BY <1>1, <1>9, <2>4, <3>1 DEF Orderly, QueueInOrder
    <3>2. CASE x = d BY <1>9, <2>1, <3>2
    <3> QED BY <1>7, <3>1, <3>2
  <2> QED BY <2>2, <2>3, <2>4 DEF QueueInOrder
<1>18. SendOK'
  <2>1. CASE sender' = Idle BY <2>1 DEF SendOK, Sending, Idle, Busy, Sinks
  <2>2. CASE sender' # Idle BY <1>3, <1>9, <1>10, <2>2 DEF SendOK, Sinks
  <2> QED BY <2>1, <2>2
<1>19. ClearsHit'
  <2>1. ASSUME NEW x \in Waiting', x.kind = "clear", x.fresh, NEW s \in x.sinks PROVE Hits(s, x.n)'
    <3>1. x \in Waiting BY <1>1, <1>5, <1>7, <2>1
    <3> QED BY <2>1, <3>1 DEF Orderly, ClearsHit, Hits
  <2>2. ~(Sending' /\ sender'.text = Blank) BY <1>10 DEF Sending, Idle, Busy, Sinks
  <2> QED BY <1>14, <2>1, <2>2 DEF ClearsHit, Hits
<1>20. CASE h.n < Newest
  <2>1. Awaited BY <1>1, <1>20 DEF Orderly, OlderFirst
  <2>2. ASSUME NEW x, Awaiting(x) PROVE Awaiting(x)' /\ x # h
    <3>1. x.n = Newest /\ x # h BY <1>2, <1>20, <2>2 DEF Awaiting
    <3>2. memory'.payload # <<x.n, x.text>>
      <4>1. CASE h.kind = "payload"
        <5>1. h.n # x.n BY <1>1, <1>2, <1>20, <3>1
        <5>2. <<h.n, h.text>> # <<x.n, x.text>> BY <5>1
        <5> QED BY <4>1, <5>2
      <4>2. CASE h.kind # "payload" BY <4>2
      <4> QED BY <4>1, <4>2
    <3> QED BY <1>9, <2>2, <3>1, <3>2 DEF Awaiting
  <2>3. Awaited'
    <3>1. ASSUME NEW r \in Publishers, announcing[r] # <<>>, Awaiting(announcing[r][1]) PROVE Awaited'
      <4>1. PICK x : x = announcing[r][1] /\ Awaiting(x) BY <3>1
      <4>2. Awaiting(x)' BY <2>2, <4>1
      <4>3. Awaiting(announcing[r][1])' BY <4>1, <4>2 DEF Awaiting, IsFinal
      <4> QED BY <3>1, <4>3 DEF Awaited
    <3>2. ASSUME NEW x \in Waiting, Awaiting(x) PROVE Awaited'
      <4>1. Awaiting(x)' /\ x \in Waiting' BY <1>1, <1>7, <2>2, <3>2
      <4> QED BY <4>1 DEF Awaited
    <3> QED BY <2>1, <3>1, <3>2 DEF Awaited
  <2> QED BY <1>11, <1>12, <1>13, <1>16, <1>17, <1>18, <1>19, <2>3, AwaitedSuffices DEF Orderly
<1>21. CASE h.n = Newest
  <2>1. OnItsWay' /\ (settings.delay => SendWaits')
    <3>1. settings.delay => SendWaits' BY <1>5, <1>7, <1>9, <1>21 DEF SendWaits, FreshSend
    <3>2. ~settings.delay => Sending' /\ sender'.clears /\ sender'.n = Newest'
      <4>1. ~settings.delay => sender' # Idle BY <1>6 DEF Send, Idle
      <4> QED BY <1>9, <1>10, <1>21, <4>1 DEF Sending, Busy
    <3> QED BY <3>1, <3>2 DEF OnItsWay
  <2>2. NewestFinal' BY <2>1 DEF NewestFinal
  <2>3. ASSUME NEW x \in Waiting'
        PROVE  /\ ~(IsPartial(x) /\ x.n <= Newest)
               /\ ~(IsFinal(x) /\ x.n < Newest)
               /\ x.kind = "send" => settings.delay
    <3>1. CASE x = d /\ settings.delay BY <1>5, <3>1 DEF IsFinal, IsPartial
    <3>2. CASE x \in ToSet(q)
      <4>1. InTurn(h, x) /\ x.n \in Nat /\ Fits(x) BY <1>1, <3>2 DEF Orderly, WaitingFits
      <4>2. ~(IsPartial(x) /\ x.n <= Newest) BY <1>1, <1>21, <4>1 DEF InTurn, IsPartial, IsFinal
      <4>3. ~(IsFinal(x) /\ x.n < Newest) BY <1>1, <1>21, <4>1 DEF InTurn
      <4>4. x.kind = "send" => settings.delay BY <4>1 DEF Fits, DelayFits
      <4> QED BY <4>2, <4>3, <4>4
    <3> QED BY <1>7, <3>1, <3>2
  <2>4. OlderFirst'
    <3>1. sender'.pc # "sleep" BY <1>14
    <3>2. Sending' => sender'.clears /\ sender'.n = Newest
      BY <1>10, <1>21 DEF Sending, Idle, Busy, Sinks
    <3> QED BY <1>1, <1>9, <2>1, <2>3, <3>1, <3>2 DEF OlderFirst, Overtaken
  <2> QED BY <1>11, <1>12, <1>13, <1>16, <1>17, <1>18, <1>19, <2>2, <2>4 DEF Orderly
<1> QED BY <1>1, <1>2, <1>3, <1>20, <1>21

\* A delayed item waits for its delay with the worker.
LEMMA TakeDelayedKeeps ==
  ASSUME CaptionTypeOK, Orderly, sender.pc = "idle", outbox # <<>>,
         UNCHANGED <<settings, said, announcing, memory, request, screen>>,
         Head(outbox).kind \in {"send", "clear"}, outbox' = Tail(outbox),
         sender' = [pc |-> "sleep", item |-> Head(outbox)]
  PROVE  Orderly'
<1>1. PICK h, q : h = Head(outbox) /\ q = Tail(outbox) OBVIOUS
<1>2. /\ h \in Queued /\ h \in Waiting /\ Fits(h)
      /\ ToSet(q) \subseteq Waiting /\ Waiting \subseteq {h} \union ToSet(q)
      /\ \A x, y : Before(q, x, y) => Before(outbox, x, y)
      /\ \A x \in ToSet(q) : InTurn(h, x)
      /\ \A x \in Waiting : x.n \in Nat
      /\ Newest \in Nat
  BY <1>1, Taken
<1>3. QueueInOrder' /\ AnnouncedIsNew' /\ \A x \in Waiting' : Fits(x)'
  BY <1>1, <1>2, RestInOrder
<1>4. /\ sender'.pc = "sleep" /\ sender'.item = h /\ ~Sending' /\ ~Sending
  BY <1>1 DEF Sending, Busy, Sinks
<1>5. Waiting' = ToSet(q) /\ Newest' = Newest /\ FinalSinks' = FinalSinks
  BY <1>1, SameView DEF Waiting
<1>6. Calm' /\ MemoryIsOld' /\ SendOK' BY <1>4, <1>5 DEF Orderly, Calm, MemoryIsOld, SendOK
<1>7. WaitingFits'
  <2>1. DelayFits(h) BY <1>1, <1>2 DEF Fits
  <2> QED BY <1>3, <1>4, <1>5, <2>1 DEF WaitingFits, DelayFits
<1>8. ClearsHit'
  <2>1. \A x \in Waiting : x.kind = "clear" /\ x.fresh => \A s \in x.sinks : Hits(s, x.n)
    BY DEF Orderly, ClearsHit
  <2> QED BY <1>2, <1>4, <1>5, <2>1 DEF ClearsHit, Hits
<1>9. Awaited => Awaited'
  <2>1. ~Awaiting(h) BY <1>1 DEF Awaiting, IsFinal
  <2> QED BY <1>2, <1>5, <2>1, SameView DEF Awaited
<1>10. SendWaits => SendWaits' \/ FreshSend(h)
  BY <1>2, <1>5, SameView DEF SendWaits
<1>11. OnItsWay => OnItsWay'
  BY <1>4, <1>5, <1>10 DEF OnItsWay, FreshSend
<1>12. \A s : WillClear(s) => WillClear(s)'
  BY <1>2, <1>4, <1>5 DEF WillClear, FreshClear
<1>13. NewestFinal'
  BY <1>5, <1>9, <1>11, <1>12 DEF Orderly, NewestFinal, WasShown
<1>14. OlderFirst'
  <2>1. ASSUME NEW x \in Waiting', FinalSinks # {}
        PROVE  /\ IsPartial(x) /\ x.n <= Newest => Awaited'
               /\ IsFinal(x) /\ x.n < Newest => Awaited'
               /\ x.kind = "send" /\ x.fresh /\ x.n < Newest => Awaited' \/ SendWaits'
    <3>1. x \in Waiting /\ InTurn(h, x) /\ x.n \in Nat BY <1>2, <1>5
    <3>2. x.kind = "send" /\ x.n < Newest => ~FreshSend(h) BY <1>2, <3>1 DEF InTurn, FreshSend
    <3> QED BY <1>9, <1>10, <2>1, <3>1, <3>2 DEF Orderly, OlderFirst, Overtaken
  <2>2. FinalSinks # {} /\ h.kind = "send" /\ h.fresh /\ h.n < Newest => Awaited' \/ SendWaits'
    <3>1. h.n < Newest => ~FreshSend(h) BY <1>2 DEF FreshSend
    <3> QED BY <1>2, <1>9, <1>10, <3>1 DEF Orderly, OlderFirst, Overtaken
  <2> QED BY <1>4, <1>5, <2>1, <2>2, SameView DEF OlderFirst, Overtaken
<1> QED BY <1>3, <1>6, <1>7, <1>8, <1>13, <1>14 DEF Orderly

\* Taking an item
LEMMA TakeItemKeeps ==
  ASSUME CaptionTypeOK, Orderly, excused' = {}, TakeItem
  PROVE  Orderly'
<1>1. PICK h, q : h = Head(outbox) /\ q = Tail(outbox) OBVIOUS
<1>2. sender.pc = "idle" /\ outbox # <<>> /\ UNCHANGED <<settings, said, announcing, request, screen>>
  BY DEF TakeItem, spokenVars, userVars
<1>3. CASE h.kind = "partial" /\ HandlePartial(q, h) BY <1>1, <1>2, <1>3, TakePartialKeeps
<1>4. memory \in Notes BY DEF CaptionTypeOK
<1>5. Fits(h) BY <1>1, <1>2, Taken
<1>6. CASE h.kind = "final" /\ HandleFinal(q, h)
  <2>1. CASE SourceSinks(settings) = {}
    <3>1. FinalSinks # {} => ~Awaiting(h) BY <1>6, <2>1 DEF FinalSinks, Awaiting, IsFinal
    <3> QED BY <1>1, <1>2, <1>6, <2>1, <3>1, SkipKeeps DEF HandleFinal, Skip
  <2>2. CASE SourceSinks(settings) # {}
    <3>1. settings.mode = "source" BY <2>2 DEF SourceSinks
    <3>2. FinalSinks = SourceSinks(settings) BY <3>1 DEF FinalSinks
    <3>3. IsFinal(h) /\ h.text # Blank BY <1>5, <1>6, <3>1 DEF IsFinal, Fits
    <3>4. memory'.payload = <<>> BY <1>4, <1>6, <2>2 DEF HandleFinal, Notes
    <3>5. Schedule(q, h, FinalSinks) BY <1>6, <2>2, <3>2 DEF HandleFinal
    <3> QED BY <1>1, <1>2, <1>6, <2>2, <3>2, <3>3, <3>4, <3>5, ScheduleKeeps
  <2> QED BY <2>1, <2>2
<1>7. CASE h.kind = "payload" /\ HandlePayload(q, h)
  <2>1. CASE Skip(q) /\ (\/ PayloadSinks(settings) = {} \/ settings.mode # "payload" \/ h.text = Blank
                         \/ settings.dedupe /\ memory.payload = <<h.n, h.text>>)
    <3>1. FinalSinks # {} => ~Awaiting(h) BY <1>7, <2>1 DEF FinalSinks, Awaiting, IsFinal
    <3> QED BY <1>1, <1>2, <1>7, <2>1, <3>1, SkipKeeps DEF Skip
  <2>2. CASE ~(\/ PayloadSinks(settings) = {} \/ settings.mode # "payload" \/ h.text = Blank
               \/ settings.dedupe /\ memory.payload = <<h.n, h.text>>)
    <3>1. settings.mode = "payload" /\ h.text # Blank BY <2>2
    <3>2. FinalSinks = PayloadSinks(settings) /\ FinalSinks # {} BY <2>2 DEF FinalSinks
    <3>3. IsFinal(h) BY <1>7, <3>1 DEF IsFinal
    <3>4. memory'.payload = <<h.n, h.text>> BY <1>4, <1>7, <2>2 DEF HandlePayload, Notes
    <3>5. Schedule(q, h, FinalSinks) BY <1>7, <2>2, <3>2 DEF HandlePayload
    <3> QED BY <1>1, <1>2, <1>7, <3>1, <3>2, <3>3, <3>4, <3>5, ScheduleKeeps
  <2> QED BY <1>7, <2>1, <2>2 DEF HandlePayload
<1>8. CASE /\ h.kind \in {"send", "clear"} /\ sender' = [pc |-> "sleep", item |-> h]
           /\ outbox' = q /\ UNCHANGED memory
  BY <1>1, <1>2, <1>8, TakeDelayedKeeps
<1> QED BY <1>1, <1>3, <1>6, <1>7, <1>8 DEF TakeItem

-----------------------------------------------------------------------------
(* The worker sends *)

\* Nothing is queued or announced while the worker moves on.
LEMMA QueueRests ==
  ASSUME Orderly, UNCHANGED <<settings, said, announcing, outbox, request>>, memory'.payload = memory.payload
  PROVE  /\ Calm' /\ MemoryIsOld' /\ AnnouncedIsNew' /\ QueueInOrder'
         /\ \A x \in Waiting' : Fits(x)'
         /\ Waiting' = Waiting /\ Newest' = Newest /\ FinalSinks' = FinalSinks
         /\ (Awaited' <=> Awaited) /\ (SendWaits' <=> SendWaits)
<1>1. FinalSinks' = FinalSinks /\ Newest' = Newest /\ Waiting' = Waiting BY SameView DEF Waiting
<1>2. Calm' /\ MemoryIsOld' BY <1>1 DEF Orderly, Calm, MemoryIsOld
<1>3. AnnouncedIsNew' BY <1>1, SameView DEF Orderly, AnnouncedIsNew
<1>4. QueueInOrder'
  <2>1. \A x, y : InTurn(x, y)' <=> InTurn(x, y) BY SameView DEF InTurn
  <2> QED BY <1>1, <2>1, SameView DEF Orderly, QueueInOrder
<1>5. \A x \in Waiting' : Fits(x)' BY <1>1, SameView DEF Orderly, WaitingFits
<1>6. Awaited' <=> Awaited BY <1>1, SameView DEF Awaited
<1>7. SendWaits' <=> SendWaits BY <1>1, SameView DEF SendWaits
<1> QED BY <1>1, <1>2, <1>3, <1>4, <1>5, <1>6, <1>7

\* The worker begins, with what its item says.
LEMMA WakeKeeps ==
  ASSUME CaptionTypeOK, Orderly, Wake
  PROVE  Orderly'
<1>1. UNCHANGED <<settings, said, announcing, outbox, memory, request, screen>>
  BY DEF Wake, spokenVars, userVars
<1>2. /\ Calm' /\ MemoryIsOld' /\ AnnouncedIsNew' /\ QueueInOrder' /\ \A x \in Waiting' : Fits(x)'
      /\ Waiting' = Waiting /\ Newest' = Newest /\ FinalSinks' = FinalSinks
      /\ (Awaited' <=> Awaited) /\ (SendWaits' <=> SendWaits)
  BY <1>1, QueueRests
<1>3. sender.pc = "sleep" /\ ~Sending BY DEF Wake, Sending, Busy, Sinks
<1>4. PICK item : item = sender.item OBVIOUS
<1>5. item \in Delays /\ DelayFits(item) BY <1>3, <1>4, SenderKinds DEF Orderly, WaitingFits
<1>6. item.n \in Numbers /\ item.n \in Nat /\ item.text \in Words /\ item.sinks \in SUBSET Sinks
      /\ item.kind \in {"send", "clear"}
  BY <1>5 DEF Delays, Numbers
<1>7. item.text # Blank /\ item.sinks # {} BY <1>5 DEF DelayFits
<1>8. \A s, n : Hits(s, n)' <=> Hits(s, n) BY <1>1 DEF Hits
<1>9. \A x \in Waiting' : x.kind = "clear" /\ x.fresh => \A s \in x.sinks : Hits(s, x.n)'
  BY <1>2, <1>3, <1>8 DEF Orderly, ClearsHit
<1>10. \A x \in Waiting' :
         /\ FinalSinks # {} /\ IsPartial(x)' /\ x.n <= Newest => Awaited
         /\ FinalSinks # {} /\ IsFinal(x)' /\ x.n < Newest => Awaited
         /\ FinalSinks # {} /\ x.kind = "send" /\ x.fresh /\ x.n < Newest => Awaited \/ SendWaits
  BY <1>1, <1>2, SameView DEF Orderly, OlderFirst, Overtaken
<1>11. CASE ~item.fresh /\ sender' = Idle
  <2>1. sender'.pc = "idle" /\ ~Sending' BY <1>11 DEF Idle, Sending, Busy, Sinks
  <2>2. WaitingFits' /\ SendOK' /\ ClearsHit'
    BY <1>2, <1>9, <2>1 DEF WaitingFits, SendOK, ClearsHit, Hits
  <2>3. OnItsWay => OnItsWay' BY <1>2, <1>3, <1>4, <1>11 DEF OnItsWay, FreshSend
  <2>4. \A s : WillClear(s) => WillClear(s)'
    BY <1>2, <1>3, <1>4, <1>11 DEF WillClear, FreshClear
  <2>5. NewestFinal' BY <1>1, <1>2, <2>3, <2>4 DEF Orderly, NewestFinal, WasShown
  <2>6. OlderFirst' BY <1>2, <1>10, <2>1 DEF OlderFirst, Overtaken
  <2> QED BY <1>2, <2>2, <2>5, <2>6 DEF Orderly
<1>12. CASE item.fresh /\ item.kind = "send" /\ Send(item, item.sinks, FALSE, TRUE)
  <2>1. /\ sender'.pc = "send" /\ sender'.n = item.n /\ sender'.text = item.text
        /\ sender'.sinks = item.sinks /\ sender'.asked = item.sinks
        /\ sender'.clears = TRUE /\ sender'.conf = settings
        /\ sender'.final = (item.kind # "partial")
    BY <1>6, <1>12, SendTypes
  <2>2. sender'.final = TRUE BY <1>12, <2>1
  <2>3. Sending' BY <2>1 DEF Sending, Busy
  <2>4. item.sinks = FinalSinks /\ item.n <= Newest BY <1>5, <1>12 DEF DelayFits
  <2>5. WaitingFits' /\ SendOK'
    BY <1>1, <1>2, <1>7, <2>1, <2>2, <2>4 DEF WaitingFits, SendOK, Sinks
  <2>6. ClearsHit' BY <1>7, <1>9, <2>1 DEF ClearsHit, Hits
  <2>7. OnItsWay => OnItsWay' BY <1>2, <1>3, <1>4, <2>1, <2>3 DEF OnItsWay, FreshSend
  <2>8. \A s : WillClear(s) => WillClear(s)'
    BY <1>2, <1>3, <1>4, <1>12 DEF WillClear, FreshClear
  <2>9. NewestFinal' BY <1>1, <1>2, <2>7, <2>8 DEF Orderly, NewestFinal, WasShown
  <2>10. FinalSinks # {} /\ item.n < Newest => Awaited \/ SendWaits
    BY <1>3, <1>4, <1>12 DEF Orderly, OlderFirst, Overtaken
  <2>11. OlderFirst' BY <1>2, <1>10, <2>1, <2>10 DEF OlderFirst, Overtaken
  <2> QED BY <1>2, <2>5, <2>6, <2>9, <2>11 DEF Orderly
<1>13. CASE item.fresh /\ item.kind = "clear" /\ Send([item EXCEPT !.text = Blank], item.sinks, TRUE, FALSE)
  <2>1. PICK blank : blank = [item EXCEPT !.text = Blank] OBVIOUS
  <2>2. blank.n = item.n /\ blank.text = Blank /\ blank.kind = item.kind /\ Blank \in Words
    BY <1>5, <2>1 DEF Delays, Words
  <2>3. /\ sender'.pc = "send" /\ sender'.n = item.n /\ sender'.text = Blank
        /\ sender'.sinks = item.sinks /\ sender'.asked = item.sinks
        /\ sender'.clears = FALSE /\ sender'.conf = settings /\ sender'.force = TRUE
    BY <1>6, <1>13, <2>1, <2>2, SendTypes
  <2>4. Sending' BY <2>3 DEF Sending, Busy
  <2>5. WaitingFits' /\ SendOK'
    BY <1>1, <1>2, <1>7, <2>3 DEF WaitingFits, SendOK, Sinks
  <2>6. ClearsHit'
    <3>1. \A s \in item.sinks : Hits(s, item.n) BY <1>3, <1>4, <1>13 DEF Orderly, ClearsHit
    <3> QED BY <1>1, <1>9, <2>3, <3>1 DEF ClearsHit, Hits
  <2>7. OnItsWay => OnItsWay' BY <1>2, <1>3, <1>4, <1>13 DEF OnItsWay, FreshSend
  <2>8. \A s : WillClear(s) => WillClear(s)'
    BY <1>2, <1>3, <1>4, <2>3, <2>4 DEF WillClear, FreshClear
  <2>9. NewestFinal' BY <1>1, <1>2, <2>7, <2>8 DEF Orderly, NewestFinal, WasShown
  <2>10. OlderFirst' BY <1>2, <1>10, <2>3 DEF OlderFirst, Overtaken
  <2> QED BY <1>2, <2>5, <2>6, <2>9, <2>10 DEF Orderly
<1> QED BY <1>4, <1>6, <1>11, <1>12, <1>13 DEF Wake

\* The worker moves on with what it sends, or leaves out a partial.
LEMMA SendingKeeps ==
  ASSUME CaptionTypeOK, Orderly, Sending, sender.pc \notin Sinks,
         UNCHANGED <<settings, said, announcing, outbox, memory, request, screen>>,
         NEW pc \in Busy, NEW sinks \in SUBSET Sinks,
         \/ /\ sender' = [sender EXCEPT !.pc = pc, !.sinks = sinks]
            /\ sinks # {} /\ sinks \subseteq sender.sinks
            /\ pc \in Sinks => pc \in sinks /\ (pc = "stream" => "mirror" \notin sinks)
            /\ sender.clears \/ sender.text = Blank \/ pc \notin Sinks => sinks = sender.sinks
         \/ sender' = Idle /\ ~sender.clears /\ sender.text # Blank
  PROVE  Orderly'
<1>1. /\ Calm' /\ MemoryIsOld' /\ AnnouncedIsNew' /\ QueueInOrder' /\ \A x \in Waiting' : Fits(x)'
      /\ Waiting' = Waiting /\ Newest' = Newest /\ FinalSinks' = FinalSinks
      /\ (Awaited' <=> Awaited) /\ (SendWaits' <=> SendWaits)
  BY QueueRests
<1>2. \A s, n : Hits(s, n)' <=> Hits(s, n) BY DEF Hits
<1>3. sender.pc # "stream" BY DEF Sinks
<1>4. \A x \in Waiting' : x.kind = "clear" /\ x.fresh => \A s \in x.sinks : Hits(s, x.n)'
  BY <1>1, <1>2, <1>3 DEF Orderly, ClearsHit
<1>5. \A x \in Waiting' :
        /\ FinalSinks # {} /\ IsPartial(x)' /\ x.n <= Newest => Awaited
        /\ FinalSinks # {} /\ IsFinal(x)' /\ x.n < Newest => Awaited
        /\ FinalSinks # {} /\ x.kind = "send" /\ x.fresh /\ x.n < Newest => Awaited \/ SendWaits
  BY <1>1, SameView DEF Orderly, OlderFirst, Overtaken
<1>6. sender.pc # "sleep" BY DEF Sending, Busy, Sinks
<1>7. CASE sender' = Idle /\ ~sender.clears /\ sender.text # Blank
  <2>1. sender'.pc = "idle" /\ ~Sending' BY <1>7 DEF Idle, Sending, Busy, Sinks
  <2>2. WaitingFits' /\ SendOK' /\ ClearsHit'
    BY <1>1, <1>4, <2>1 DEF WaitingFits, SendOK, ClearsHit, Hits
  <2>3. OnItsWay => OnItsWay' BY <1>1, <1>6, <1>7 DEF OnItsWay
  <2>4. \A s : WillClear(s) => WillClear(s)' BY <1>1, <1>6, <1>7 DEF WillClear, FreshClear
  <2>5. NewestFinal' BY <1>1, <2>3, <2>4 DEF Orderly, NewestFinal, WasShown
  <2>6. OlderFirst' BY <1>1, <1>5, <2>1 DEF OlderFirst, Overtaken
  <2> QED BY <1>1, <2>2, <2>5, <2>6 DEF Orderly
<1>8. CASE /\ sender' = [sender EXCEPT !.pc = pc, !.sinks = sinks]
           /\ sinks # {} /\ sinks \subseteq sender.sinks
           /\ pc \in Sinks => pc \in sinks /\ (pc = "stream" => "mirror" \notin sinks)
           /\ sender.clears \/ sender.text = Blank \/ pc \notin Sinks => sinks = sender.sinks
  <2>1. /\ sender'.pc = pc /\ sender'.sinks = sinks
        /\ sender'.n = sender.n /\ sender'.text = sender.text /\ sender'.asked = sender.asked
        /\ sender'.force = sender.force /\ sender'.clears = sender.clears
        /\ sender'.final = sender.final /\ sender'.conf = sender.conf
    BY <1>8, SenderMoves
  <2>2. Sending' /\ sender'.pc # "sleep" BY <2>1 DEF Sending, Busy, Sinks
  <2>3. WaitingFits' BY <1>1, <2>2 DEF WaitingFits
  <2>4. SendOK'
    <3>1. sender.sinks = sender.asked BY DEF Orderly, SendOK
    <3>2. /\ sender.conf = settings
          /\ sender.clears =>
               sender.final /\ sender.text # Blank /\ sender.asked = FinalSinks /\ sender.n <= Newest
          /\ ~sender.clears /\ sender.text = Blank => sender.force
          /\ ~sender.clears /\ sender.text # Blank => ~sender.final
      BY DEF Orderly, SendOK
    <3>3. sinks # {} /\ sinks \subseteq sender.asked /\ (pc \in Sinks => pc \in sinks)
      BY <1>8, <3>1
    <3>4. sender.clears \/ sender.text = Blank \/ pc \notin Sinks => sinks = sender.asked
      BY <1>8, <3>1
    <3>5. ~(pc = "stream" /\ "mirror" \in sinks) BY <1>8 DEF Sinks
    <3> QED BY <1>1, <2>1, <3>2, <3>3, <3>4, <3>5 DEF SendOK
  <2>5. ClearsHit' BY <1>4, <1>8, <2>1, <2>2 DEF Orderly, ClearsHit, Hits
  <2>6. OnItsWay => OnItsWay' BY <1>1, <1>6, <2>1, <2>2 DEF OnItsWay
  <2>7. \A s : WillClear(s) => WillClear(s)'
    <3> SUFFICES ASSUME NEW s, WillClear(s) PROVE WillClear(s)' OBVIOUS
    <3>1. CASE \E x \in Waiting : FreshClear(x, s) BY <1>1, <3>1 DEF WillClear, FreshClear
    <3>2. CASE sender.text = Blank /\ s \in sender.sinks
      <4>1. s \in sinks BY <1>8, <3>2
      <4>2. pc = "stream" => s = "stream"
        <5> SUFFICES ASSUME pc = "stream" PROVE s = "stream" OBVIOUS
        <5>1. s # "mirror" BY <1>8, <4>1 DEF Sinks
        <5> QED BY <4>1, <5>1 DEF Sinks
      <4> QED BY <2>1, <2>2, <3>2, <4>1, <4>2 DEF WillClear
    <3> QED BY <1>6, <3>1, <3>2 DEF WillClear
  <2>8. NewestFinal' BY <1>1, <2>6, <2>7 DEF Orderly, NewestFinal, WasShown
  <2>9. OlderFirst'
    <3>1. FinalSinks # {} /\ sender.text # Blank /\ ~sender.clears /\ sender.n <= Newest => Awaited
      BY DEF Orderly, OlderFirst
    <3>2. FinalSinks # {} /\ sender.clears /\ sender.n < Newest => Awaited \/ SendWaits
      BY DEF Orderly, OlderFirst, Overtaken
    <3> QED BY <1>1, <1>5, <2>1, <2>2, <3>1, <3>2 DEF OlderFirst, Overtaken
  <2> QED BY <1>1, <2>3, <2>4, <2>5, <2>8, <2>9 DEF Orderly
<1> QED BY <1>7, <1>8

\* SeekClient, AwaitClient and Lock
LEMMA ClientKeeps ==
  ASSUME CaptionTypeOK, Orderly, excused' = {}, SeekClient \/ AwaitClient \/ Lock
  PROVE  Orderly'
<1>1. Sending /\ sender.pc \notin Sinks BY DEF SeekClient, AwaitClient, Lock, Sending, Busy, Sinks
<1>2. UNCHANGED <<settings, said, announcing, outbox, memory, request, screen>>
  BY DEF SeekClient, AwaitClient, Lock, spokenVars, userVars
<1>3. sender \in Sends /\ sender.sinks \in SUBSET Sinks BY <1>1, SenderKinds DEF Sending, Sends
<1>4. sender.sinks # {} BY <1>1 DEF Orderly, SendOK
<1>5. CASE SeekClient \/ AwaitClient
  <2>1. sender' = [sender EXCEPT !.pc = "lock"] \/ sender' = [sender EXCEPT !.pc = "wait"]
    BY <1>5 DEF SeekClient, AwaitClient, Excuse
  <2>2. PICK pc \in {"lock", "wait"} : sender' = [sender EXCEPT !.pc = pc] BY <2>1
  <2>3. sender' = [sender EXCEPT !.pc = pc, !.sinks = sender.sinks] BY <1>3, <2>2 DEF Sends
  <2>4. pc \in Busy /\ pc \notin Sinks BY DEF Busy, Sinks
  <2> QED BY <1>1, <1>2, <1>3, <1>4, <2>3, <2>4, SendingKeeps
<1>6. CASE Lock
  <2>1. PICK sinks : sinks = {s \in sender.sinks : NeedsSending(s)} OBVIOUS
  <2>2. PICK pc : pc = IF "mirror" \in sinks THEN "mirror" ELSE "stream" OBVIOUS
  <2>3. client # None /\ ~(sender.clears /\ sinks # sender.sinks)
    <3>1. excused' = excused \union {why \in {"lost", "same"} :
                                      IF why = "lost" THEN client = None
                                      ELSE sender.clears /\ sinks # sender.sinks}
      BY <1>6, <2>1 DEF Lock
    <3> QED BY <3>1
  <2>4. sender' = IF sinks = {} THEN Idle ELSE [sender EXCEPT !.pc = pc, !.sinks = sinks]
    BY <1>6, <2>1, <2>2, <2>3 DEF Lock
  <2>5. sender.clears => sinks = sender.sinks BY <2>3
  <2>6. ~sender.clears /\ sender.text = Blank => sinks = sender.sinks
    <3>1. ~sender.clears /\ sender.text = Blank => sender.force BY <1>1 DEF Orderly, SendOK
    <3> QED BY <2>1, <3>1 DEF NeedsSending
  <2>7. sinks \subseteq sender.sinks /\ sinks \in SUBSET Sinks BY <1>3, <2>1
  <2>8. CASE sinks = {}
    <3>1. sender' = Idle /\ ~sender.clears /\ sender.text # Blank
      BY <1>4, <2>4, <2>5, <2>6, <2>8
    <3>2. "lock" \in Busy BY DEF Busy
    <3> QED BY <1>1, <1>2, <2>7, <3>1, <3>2, SendingKeeps
  <2>9. CASE sinks # {}
    <3>1. sender' = [sender EXCEPT !.pc = pc, !.sinks = sinks] BY <2>4, <2>9
    <3>2. pc \in Busy /\ pc \in sinks /\ (pc = "stream" => "mirror" \notin sinks)
      BY <2>2, <2>7, <2>9 DEF Busy, Sinks
    <3>3. sender.clears \/ sender.text = Blank \/ pc \notin Sinks => sinks = sender.sinks
      BY <2>2, <2>5, <2>6 DEF Sinks
    <3> QED BY <1>1, <1>2, <2>7, <2>9, <3>1, <3>2, <3>3, SendingKeeps
  <2> QED BY <2>8, <2>9
<1> QED BY <1>5, <1>6

-----------------------------------------------------------------------------
(* OBS answers *)

\* The queue after a clear was scheduled, which is the only fresh one.
LEMMA ClearScheduled ==
  ASSUME CaptionTypeOK, excused' = {}, Sending, NEW sinks \in SUBSET Sinks,
         NEW c, c = Delayed("clear", sender.n, sender.text, sinks),
         Postpone([i \in DOMAIN outbox |-> Stale(outbox[i], {"clear"})], c)
  PROVE  /\ c \in Delays /\ c.kind = "clear" /\ c.n = sender.n /\ c.text = sender.text /\ c.sinks = sinks
         /\ c.fresh /\ c \in Waiting'
         /\ \A x \in Waiting' : x = c \/ \E u \in Waiting : Staled(u, x) /\ (x.kind # "clear" => x = u)
         /\ \A x \in Waiting' : x.kind = "clear" /\ x.fresh => x = c
         /\ \A u \in Waiting : u.kind # "clear" => u \in Waiting'
         /\ \A x, y \in Waiting' : Before(outbox', x, y) =>
              y = c \/ \E u, v \in Waiting : Before(outbox, u, v) /\ Staled(u, x) /\ Staled(v, y)
<1>1. outbox \in Seq(Queued) BY DEF CaptionTypeOK
<1>2. PICK t : t = [i \in DOMAIN outbox |-> Stale(outbox[i], {"clear"})] OBVIOUS
<1>3. /\ t \in Seq(Queued) /\ ToSet(t) = {Stale(x, {"clear"}) : x \in Waiting}
      /\ \A x, y : Before(t, x, y) =>
           \E u, v \in Waiting : Before(outbox, u, v) /\ x = Stale(u, {"clear"}) /\ y = Stale(v, {"clear"})
  <2> DEFINE w == [i \in DOMAIN outbox |-> Stale(outbox[i], {"clear"})]
  <2>1. /\ w \in Seq(Queued) /\ ToSet(w) = {Stale(x, {"clear"}) : x \in ToSet(outbox)}
        /\ \A x, y : Before(w, x, y) =>
             \E u, v \in ToSet(outbox) :
               Before(outbox, u, v) /\ x = Stale(u, {"clear"}) /\ y = Stale(v, {"clear"})
    BY <1>1, QueueStale
  <2>2. t = w BY <1>2
  <2> HIDE DEF w
  <2> QED BY <2>1, <2>2 DEF Waiting
<1>4. c \in Delays /\ c \in Queued /\ c.kind = "clear" /\ c.n = sender.n /\ c.text = sender.text
      /\ c.sinks = sinks /\ c.fresh
  <2>1. sender.n \in Numbers /\ sender.text \in Words BY SenderKinds DEF Sending, Sends
  <2>2. c \in Delays BY <2>1, DelayedType
  <2> QED BY <2>2 DEF Delayed, Queued
<1>5. outbox' = Append(t, c) BY <1>2 DEF Postpone, Pushed, Overflows, Excuse
<1>6. /\ Waiting' = ToSet(t) \union {c}
      /\ \A x, y : Before(outbox', x, y) => Before(t, x, y) \/ (x \in ToSet(t) /\ y = c)
  BY <1>3, <1>4, <1>5, QueueAppend DEF Waiting
<1>7. ASSUME NEW u \in Waiting
      PROVE  LET x == Stale(u, {"clear"})
             IN Staled(u, x) /\ (u.kind # "clear" => x = u) /\ x.kind = u.kind /\ (x.kind = "clear" => ~x.fresh)
  <2>1. u \in Queued BY <1>1, QueueItems DEF Waiting
  <2> QED BY <2>1, StaleItem, ItemFields DEF Staled
<1>8. \A x \in ToSet(t) :
        /\ \E u \in Waiting : Staled(u, x) /\ (x.kind # "clear" => x = u)
        /\ ~(x.kind = "clear" /\ x.fresh)
  BY <1>3, <1>7
<1>9. \A u \in Waiting : u.kind # "clear" => u \in ToSet(t) BY <1>3, <1>7
<1>10. \A x, y : Before(t, x, y) => \E u, v \in Waiting : Before(outbox, u, v) /\ Staled(u, x) /\ Staled(v, y)
  BY <1>3, <1>7
<1> QED BY <1>4, <1>6, <1>8, <1>9, <1>10

\* Finals and partials wait in order behind the aged clears.
LEMMA ClearKeepsOrder ==
  ASSUME CaptionTypeOK, Orderly, UNCHANGED <<settings, said, announcing>>, memory'.payload = memory.payload,
         NEW c \in Delays, c.kind = "clear", DelayFits(c),
         \A x \in Waiting' : x = c \/ \E u \in Waiting : Staled(u, x) /\ (x.kind # "clear" => x = u),
         \A u \in Waiting : u.kind # "clear" => u \in Waiting',
         \A x, y \in Waiting' : Before(outbox', x, y) =>
           y = c \/ \E u, v \in Waiting : Before(outbox, u, v) /\ Staled(u, x) /\ Staled(v, y)
  PROVE  /\ QueueInOrder' /\ \A x \in Waiting' : Fits(x)'
         /\ (Awaited' <=> Awaited) /\ (SendWaits' <=> SendWaits)
<1>1. FinalSinks' = FinalSinks /\ Newest' = Newest BY SameView
<1>2. ~IsFinal(c) /\ ~IsPartial(c) BY DEF IsFinal, IsPartial
<1>3. \A x \in Waiting' : x.kind # "clear" => x \in Waiting OBVIOUS
<1>4. ASSUME NEW x \in Waiting' PROVE Fits(x)'
  <2>1. CASE x = c BY <1>2, <2>1, SameView DEF Fits
  <2>2. CASE x # c
    <3>1. PICK u \in Waiting : Staled(u, x) BY <2>2
    <3>2. Fits(u) BY DEF Orderly, WaitingFits
    <3>3. Fits(x) BY <3>1, <3>2 DEF Fits, DelayFits, Staled, IsFinal, IsPartial
    <3> QED BY <3>3, SameView
  <2> QED BY <2>1, <2>2
<1>5. QueueInOrder'
  <2>1. ASSUME NEW x \in Waiting', NEW y \in Waiting', Before(outbox', x, y) PROVE InTurn(x, y)'
    <3>1. CASE y = c BY <1>2, <3>1, SameView DEF InTurn
    <3>2. CASE y # c
      <4>1. PICK u, v \in Waiting : Before(outbox, u, v) /\ Staled(u, x) /\ Staled(v, y) BY <2>1, <3>2
      <4>2. InTurn(u, v) BY <4>1 DEF Orderly, QueueInOrder
      <4>3. InTurn(x, y) BY <4>1, <4>2 DEF InTurn, Staled, IsFinal, IsPartial
      <4> QED BY <4>3, SameView DEF InTurn
    <3> QED BY <3>1, <3>2
  <2>2. \A x, y \in Waiting' : x.kind = "send" /\ IsFinal(y)' => x.n <= y.n
    <3> SUFFICES ASSUME NEW x \in Waiting', NEW y \in Waiting', x.kind = "send", IsFinal(y)'
                 PROVE  x.n <= y.n
      OBVIOUS
    <3>1. IsFinal(y) BY SameView
    <3>2. x \in Waiting /\ y \in Waiting BY <1>3, <3>1 DEF IsFinal
    <3> QED BY <3>1, <3>2 DEF Orderly, QueueInOrder
  <2>3. ASSUME NEW r \in Publishers, NEW x \in Waiting',
               announcing'[r] # <<>>, announcing'[r][1].kind = "final", settings'.mode = "source"
        PROVE  (IsFinal(x)' => x.n < Newest') /\ (IsPartial(x)' => x.n <= Newest')
    <3>1. CASE x.kind = "clear" BY <3>1 DEF IsFinal, IsPartial
    <3>2. CASE x.kind # "clear" BY <1>1, <1>3, <2>3, <3>2, SameView DEF Orderly, QueueInOrder
    <3> QED BY <3>1, <3>2
  <2> QED BY <2>1, <2>2, <2>3 DEF QueueInOrder
<1>6. Awaited' <=> Awaited
  <2>1. \A x : Awaiting(x) => x.kind # "clear" BY DEF Awaiting, IsFinal
  <2>2. (\E x \in Waiting' : Awaiting(x)) <=> (\E x \in Waiting : Awaiting(x)) BY <1>3, <2>1
  <2> QED BY <2>2, SameView DEF Awaited
<1>7. SendWaits' <=> SendWaits
  <2>1. \A x : FreshSend(x) => x.kind # "clear" BY DEF FreshSend
  <2>2. (\E x \in Waiting' : FreshSend(x)) <=> (\E x \in Waiting : FreshSend(x)) BY <1>3, <2>1
  <2> QED BY <2>2, SameView DEF SendWaits
<1> QED BY <1>4, <1>5, <1>6, <1>7

\* The last answer that the worker waits for
LEMMA AnswerKeeps ==
  ASSUME CaptionTypeOK, Orderly, excused' = {}, Sending, sender' = Idle,
         UNCHANGED <<settings, said, announcing, request>>, memory'.payload = memory.payload,
         NEW out \in Sinks, sender.pc = out, out = "mirror" => "stream" \notin sender.sinks,
         NEW cleared \in SUBSET Sinks, ClearLater(cleared),
         \A s \in Sinks : s # out => screen'[s] = screen[s],
         sender.text = Blank => screen'[out].text = Blank /\ screen'[out].n = screen[out].n,
         sender.text # Blank => screen'[out].n = sender.n /\ screen'[out].final = sender.final,
         sender.clears =>
           /\ cleared \subseteq sender.asked
           /\ \A s \in sender.asked : screen'[s].n = sender.n /\ (screen'[s].text # Blank => s \in cleared)
  PROVE  Orderly'
<1>1. FinalSinks' = FinalSinks /\ Newest' = Newest BY SameView
<1>2. sender'.pc = "idle" /\ ~Sending' BY DEF Idle, Sending, Busy, Sinks
<1>3. sender.pc # "sleep" BY DEF Sinks
<1>4. /\ sender.conf = settings /\ out \in sender.sinks /\ sender.sinks \subseteq sender.asked
      /\ sender.clears =>
           sender.final /\ sender.text # Blank /\ sender.asked = FinalSinks /\ sender.n <= Newest
      /\ ~sender.clears /\ sender.text # Blank => ~sender.final
  BY DEF Orderly, SendOK
<1>5. Newest \in Nat /\ sender.n \in Nat /\ \A s \in Sinks : screen[s].n \in Nat
  <2>1. Newest \in Nat BY LenProperties DEF Newest, CaptionTypeOK
  <2>2. sender.n \in Nat BY SenderKinds DEF Sending, Sends, Numbers
  <2> QED BY <2>1, <2>2 DEF CaptionTypeOK, Captions
<1>6. Calm' /\ MemoryIsOld' BY <1>1 DEF Orderly, Calm, MemoryIsOld
<1>7. AnnouncedIsNew' BY SameView DEF Orderly, AnnouncedIsNew
<1>8. SendOK' BY <1>2 DEF SendOK
<1>9. FinalSinks \in SUBSET Sinks BY SinksOf
<1>10. ASSUME \A x \in Waiting' : Fits(x)', QueueInOrder', ClearsHit', Awaited' <=> Awaited,
              SendWaits' <=> SendWaits, NewestFinal',
              \A x \in Waiting' : x.kind # "clear" => x \in Waiting
       PROVE  Orderly'
  <2>1. WaitingFits' BY <1>2, <1>10 DEF WaitingFits
  <2>2. OlderFirst'
    <3>1. ASSUME NEW x \in Waiting', FinalSinks # {}
          PROVE  /\ IsPartial(x) /\ x.n <= Newest => Awaited
                 /\ IsFinal(x) /\ x.n < Newest => Awaited
                 /\ x.kind = "send" /\ x.fresh /\ x.n < Newest => Awaited \/ SendWaits
      <4>1. CASE x.kind = "clear" BY <4>1 DEF IsFinal, IsPartial
      <4>2. CASE x.kind # "clear" BY <1>10, <3>1, <4>2 DEF Orderly, OlderFirst, Overtaken
      <4> QED BY <4>1, <4>2
    <3> QED BY <1>1, <1>2, <1>10, <3>1, SameView DEF OlderFirst, Overtaken
  <2> QED BY <1>6, <1>7, <1>8, <1>10, <2>1, <2>2 DEF Orderly
<1>11. CASE sender.clears /\ settings.clear /\ cleared # {}
  <2>1. PICK c : c = Delayed("clear", sender.n, sender.text, cleared) OBVIOUS
  <2>2. Postpone([i \in DOMAIN outbox |-> Stale(outbox[i], {"clear"})], c)
    BY <1>4, <1>11, <2>1 DEF ClearLater
  <2>3. /\ c \in Delays /\ c.kind = "clear" /\ c.n = sender.n /\ c.text = sender.text /\ c.sinks = cleared
        /\ c.fresh /\ c \in Waiting'
        /\ \A x \in Waiting' : x = c \/ \E u \in Waiting : Staled(u, x) /\ (x.kind # "clear" => x = u)
        /\ \A x \in Waiting' : x.kind = "clear" /\ x.fresh => x = c
        /\ \A u \in Waiting : u.kind # "clear" => u \in Waiting'
        /\ \A x, y \in Waiting' : Before(outbox', x, y) =>
             y = c \/ \E u, v \in Waiting : Before(outbox, u, v) /\ Staled(u, x) /\ Staled(v, y)
    BY <2>1, <2>2, ClearScheduled
  <2>4. DelayFits(c) BY <1>4, <1>11, <2>3 DEF DelayFits
  <2>5. /\ QueueInOrder' /\ \A x \in Waiting' : Fits(x)'
        /\ (Awaited' <=> Awaited) /\ (SendWaits' <=> SendWaits)
    BY <2>3, <2>4, ClearKeepsOrder
  <2>6. ClearsHit'
    <3>1. \A s \in cleared : screen'[s].n = sender.n BY <1>11
    <3> QED BY <1>2, <1>5, <2>3, <3>1 DEF ClearsHit, Hits
  <2>7. NewestFinal'
    <3>1. CASE sender.n < Newest
      <4>1. FinalSinks # {} => Awaited \/ SendWaits
        BY <1>11, <3>1 DEF Orderly, OlderFirst, Overtaken
      <4> QED BY <1>1, <2>5, <4>1 DEF NewestFinal, OnItsWay
    <3>2. CASE sender.n = Newest
      <4>1. ASSUME NEW s \in FinalSinks
            PROVE  screen'[s].n = Newest /\ (screen'[s].text # Blank => FreshClear(c, s)')
        BY <1>1, <1>4, <1>11, <2>3, <3>2 DEF FreshClear
      <4>2. \A s \in FinalSinks : screen'[s].text # Blank => WillClear(s)'
        BY <2>3, <4>1 DEF WillClear
      <4>3. WasShown' BY <1>1, <1>5, <4>1, <4>2 DEF WasShown
      <4> QED BY <4>3 DEF NewestFinal
    <3> QED BY <1>4, <1>5, <1>11, <3>1, <3>2
  <2>8. \A x \in Waiting' : x.kind # "clear" => x \in Waiting BY <2>3
  <2> QED BY <1>10, <2>5, <2>6, <2>7, <2>8
<1>12. CASE ~(sender.clears /\ settings.clear /\ cleared # {})
  <2>1. outbox' = outbox /\ Waiting' = Waiting BY <1>4, <1>12 DEF ClearLater, Waiting
  <2>2. /\ QueueInOrder' /\ \A x \in Waiting' : Fits(x)'
        /\ (Awaited' <=> Awaited) /\ (SendWaits' <=> SendWaits)
    BY <2>1, QueueRests
  <2>3. ClearsHit'
    <3>1. ASSUME NEW x \in Waiting, x.kind = "clear", x.fresh, NEW s \in x.sinks PROVE Hits(s, x.n)'
      <4>1. Hits(s, x.n) \/ (sender.clears /\ s = "mirror" /\ s \in sender.asked)
        BY <3>1 DEF Orderly, ClearsHit
      <4>2. s \in Sinks /\ settings.clear
        <5>1. x \in Delays BY <3>1, QueueItems, ItemFields DEF Waiting, CaptionTypeOK
        <5>2. Fits(x) BY DEF Orderly, WaitingFits
        <5> QED BY <3>1, <5>1, <5>2 DEF Delays, Fits, DelayFits
      <4>3. CASE sender.clears
        <5>1. cleared = {} BY <1>12, <4>2, <4>3
        <5>2. s \in sender.asked => screen'[s].text = Blank BY <4>3, <5>1
        <5>3. s \notin sender.asked => screen'[s] = screen[s] BY <1>4, <4>2
        <5> QED BY <4>1, <5>2, <5>3 DEF Hits
      <4>4. CASE ~sender.clears
        <5>1. CASE s = out
          <6>1. screen'[s].text = Blank \/ ~screen'[s].final BY <1>4, <4>4, <5>1
          <6> QED BY <6>1 DEF Hits
        <5>2. CASE s # out
          <6>1. screen'[s] = screen[s] BY <4>2, <5>2
          <6> QED BY <4>1, <4>4, <6>1 DEF Hits
        <5> QED BY <5>1, <5>2
      <4> QED BY <4>3, <4>4
    <3> QED BY <1>2, <2>1, <3>1 DEF ClearsHit, Hits
  <2>4. NewestFinal'
    <3>1. CASE sender.clears
      <4>1. CASE sender.n < Newest
        <5>1. FinalSinks # {} => Awaited \/ SendWaits
          BY <3>1, <4>1 DEF Orderly, OlderFirst, Overtaken
        <5> QED BY <1>1, <2>2, <5>1 DEF NewestFinal, OnItsWay
      <4>2. CASE sender.n = Newest
        <5>1. ASSUME NEW s \in FinalSinks
              PROVE  screen'[s].n = Newest /\ (settings.clear => screen'[s].text = Blank)
          BY <1>4, <1>12, <3>1, <4>2
        <5>2. WasShown' BY <1>1, <1>5, <5>1 DEF WasShown
        <5> QED BY <5>2 DEF NewestFinal
      <4> QED BY <1>4, <1>5, <3>1, <4>1, <4>2
    <3>2. CASE ~sender.clears /\ sender.text # Blank /\ sender.n <= Newest
      <4>1. FinalSinks # {} => Awaited BY <3>2 DEF Orderly, OlderFirst
      <4> QED BY <1>1, <2>2, <4>1 DEF NewestFinal
    <3>3. CASE ~sender.clears /\ (sender.text = Blank \/ sender.n > Newest)
      <4>1. OnItsWay => OnItsWay' BY <1>3, <2>2, <3>3 DEF OnItsWay
      <4>2. ASSUME NEW s \in FinalSinks, s # out, WillClear(s) PROVE WillClear(s)'
        <5>1. ~(sender.text = Blank /\ s \in sender.sinks /\ (sender.pc = "stream" => s = "stream"))
          <6>1. s \in Sinks BY <1>9, <4>2
          <6> QED BY <4>2, <6>1 DEF Sinks
        <5>2. PICK x \in Waiting : FreshClear(x, s) BY <1>3, <4>2, <5>1 DEF WillClear
        <5>3. FreshClear(x, s)' BY <1>1, <5>2 DEF FreshClear
        <5> QED BY <2>1, <5>3 DEF WillClear
      <4>3. WasShown => WasShown'
        <5> SUFFICES ASSUME WasShown, NEW s \in FinalSinks
                     PROVE  /\ screen'[s].n >= Newest
                            /\ screen'[s].n = Newest /\ settings.clear /\ screen'[s].text # Blank => WillClear(s)'
          BY <1>1 DEF WasShown
        <5>1. CASE s = out
          <6>1. CASE sender.text = Blank BY <5>1, <6>1 DEF WasShown
          <6>2. CASE sender.text # Blank BY <1>5, <3>3, <5>1, <6>2
          <6> QED BY <6>1, <6>2
        <5>2. CASE s # out
          <6>1. screen'[s] = screen[s] BY <1>9, <5>2
          <6> QED BY <4>2, <5>2, <6>1 DEF WasShown
        <5> QED BY <5>1, <5>2
      <4> QED BY <1>1, <2>2, <4>1, <4>3 DEF Orderly, NewestFinal
    <3> QED BY <1>5, <3>1, <3>2, <3>3
  <2> QED BY <1>10, <2>1, <2>2, <2>3, <2>4
<1> QED BY <1>11, <1>12

\* The mirror is written, and the stream is next.
LEMMA MirrorThenStreamKeeps ==
  ASSUME CaptionTypeOK, Orderly, Sending, sender.pc = "mirror", "stream" \in sender.sinks,
         UNCHANGED <<settings, said, announcing, outbox, request>>, memory'.payload = memory.payload,
         sender' = [sender EXCEPT !.pc = "stream"], Display("mirror")
  PROVE  Orderly'
<1>1. /\ Calm' /\ MemoryIsOld' /\ AnnouncedIsNew' /\ QueueInOrder' /\ \A x \in Waiting' : Fits(x)'
      /\ Waiting' = Waiting /\ Newest' = Newest /\ FinalSinks' = FinalSinks
      /\ (Awaited' <=> Awaited) /\ (SendWaits' <=> SendWaits)
  BY QueueRests
<1>2. "stream" \in Busy /\ "mirror" \in Sinks /\ "stream" \in Sinks BY DEF Busy, Sinks
<1>3. /\ sender'.pc = "stream" /\ sender'.sinks = sender.sinks
      /\ sender'.n = sender.n /\ sender'.text = sender.text /\ sender'.asked = sender.asked
      /\ sender'.force = sender.force /\ sender'.clears = sender.clears
      /\ sender'.final = sender.final /\ sender'.conf = sender.conf
  BY <1>2, SenderAdvances
<1>4. Sending' BY <1>2, <1>3 DEF Sending
<1>5. sender.text \in Words /\ sender.n \in Nat BY SenderKinds DEF Sending, Sends, Numbers
<1>6. /\ \A x \in Sinks : x # "mirror" => screen'[x] = screen[x]
      /\ sender.text = Blank => screen'["mirror"].text = Blank /\ screen'["mirror"].n = screen["mirror"].n
      /\ sender.text # Blank => screen'["mirror"].n = sender.n /\ screen'["mirror"].final = sender.final
  BY <1>2, <1>5, ShowsTypes DEF Display
<1>7. /\ sender.conf = settings /\ "mirror" \in sender.sinks /\ sender.sinks \subseteq sender.asked
      /\ sender.clears \/ sender.text = Blank => sender.sinks = sender.asked
      /\ sender.clears =>
           sender.final /\ sender.text # Blank /\ sender.asked = FinalSinks /\ sender.n <= Newest
      /\ ~sender.clears /\ sender.text = Blank => sender.force
      /\ ~sender.clears /\ sender.text # Blank => ~sender.final
  BY <1>2 DEF Orderly, SendOK
<1>8. WaitingFits' BY <1>1, <1>3 DEF WaitingFits
<1>9. SendOK'
  <2>1. sender'.clears => screen'["mirror"].n = sender'.n BY <1>3, <1>6, <1>7
  <2>2. sender'.conf = settings' /\ sender'.sinks # {} /\ sender'.sinks \subseteq sender'.asked
        /\ sender'.pc \in sender'.sinks
    BY <1>3, <1>7
  <2>3. sender'.clears \/ sender'.text = Blank \/ sender'.pc \notin Sinks => sender'.sinks = sender'.asked
    BY <1>2, <1>3, <1>7
  <2>4. sender'.clears =>
          /\ sender'.final /\ sender'.text # Blank
          /\ sender'.asked = FinalSinks' /\ sender'.n <= Newest'
    BY <1>1, <1>3, <1>7
  <2>5. ~sender'.clears /\ sender'.text = Blank => sender'.force BY <1>3, <1>7
  <2>6. ~sender'.clears /\ sender'.text # Blank => ~sender'.final BY <1>3, <1>7
  <2> QED BY <2>1, <2>2, <2>3, <2>4, <2>5, <2>6 DEF SendOK
<1>10. ClearsHit'
  <2>1. ASSUME NEW x \in Waiting, x.kind = "clear", x.fresh, NEW s \in x.sinks
        PROVE  Hits(s, x.n)' \/ (sender'.clears /\ s = "mirror" /\ s \in sender'.asked)
    <3>1. Hits(s, x.n) BY <2>1 DEF Orderly, ClearsHit
    <3>2. s \in Sinks
      <4>1. x \in Delays BY <2>1, QueueItems, ItemFields DEF Waiting, CaptionTypeOK
      <4> QED BY <2>1, <4>1 DEF Delays
    <3>3. CASE s # "mirror" BY <1>6, <3>1, <3>2, <3>3 DEF Hits
    <3>4. CASE s = "mirror" /\ sender.clears BY <1>3, <1>7, <3>4
    <3>5. CASE s = "mirror" /\ ~sender.clears
      <4>1. screen'[s].text = Blank \/ ~screen'[s].final BY <1>6, <1>7, <3>5
      <4> QED BY <4>1 DEF Hits
    <3> QED BY <3>3, <3>4, <3>5
  <2>2. ASSUME sender.text = Blank, NEW s \in sender.sinks PROVE Hits(s, sender.n)'
    <3>1. Hits(s, sender.n) BY <2>2 DEF Orderly, ClearsHit
    <3>2. s \in Sinks BY SenderKinds DEF Sending, Sends
    <3>3. CASE s = "mirror" BY <1>6, <2>2, <3>3 DEF Hits
    <3>4. CASE s # "mirror" BY <1>3, <1>6, <3>1, <3>2, <3>4 DEF Hits
    <3> QED BY <3>3, <3>4
  <2> QED BY <1>1, <1>3, <2>1, <2>2 DEF ClearsHit, Hits
<1>11. FinalSinks \in SUBSET Sinks BY SinksOf
<1>12. Newest \in Nat BY LenProperties DEF Newest, CaptionTypeOK
<1>13. NewestFinal'
  <2>1. OnItsWay => OnItsWay' BY <1>1, <1>3, <1>4 DEF OnItsWay
  <2>2. CASE sender.clears
    <3>1. CASE sender.n < Newest
      <4>1. FinalSinks # {} => Awaited \/ SendWaits BY <2>2, <3>1 DEF Orderly, OlderFirst, Overtaken
      <4> QED BY <1>1, <4>1 DEF NewestFinal, OnItsWay
    <3>2. CASE sender.n = Newest
      <4>1. OnItsWay' BY <1>1, <1>3, <1>4, <2>2, <3>2 DEF OnItsWay
      <4> QED BY <4>1 DEF NewestFinal
    <3> QED BY <1>5, <1>7, <1>12, <2>2, <3>1, <3>2
  <2>3. CASE ~sender.clears /\ sender.text # Blank /\ sender.n <= Newest
    <3>1. FinalSinks # {} => Awaited BY <2>3 DEF Orderly, OlderFirst
    <3> QED BY <1>1, <3>1 DEF NewestFinal
  <2>4. CASE ~sender.clears /\ (sender.text = Blank \/ sender.n > Newest)
    <3>1. ASSUME NEW s \in FinalSinks, s # "mirror", WillClear(s) PROVE WillClear(s)'
      <4>1. s = "stream" BY <1>11, <3>1 DEF Sinks
      <4>2. CASE sender.text = Blank /\ s \in sender.sinks
        BY <1>3, <1>4, <4>1, <4>2 DEF WillClear
      <4>3. CASE \E x \in Waiting : FreshClear(x, s) BY <1>1, <4>3 DEF WillClear, FreshClear
      <4> QED BY <3>1, <4>2, <4>3 DEF WillClear
    <3>2. WasShown => WasShown'
      <4> SUFFICES ASSUME WasShown, NEW s \in FinalSinks
                   PROVE  /\ screen'[s].n >= Newest
                          /\ screen'[s].n = Newest /\ settings.clear /\ screen'[s].text # Blank => WillClear(s)'
        BY <1>1 DEF WasShown
      <4>1. CASE s = "mirror"
        <5>1. CASE sender.text = Blank BY <1>6, <4>1, <5>1 DEF WasShown
        <5>2. CASE sender.text # Blank BY <1>5, <1>6, <1>12, <2>4, <4>1, <5>2
        <5> QED BY <5>1, <5>2
      <4>2. CASE s # "mirror"
        <5>1. screen'[s] = screen[s] BY <1>6, <1>11, <4>2
        <5> QED BY <3>1, <4>2, <5>1 DEF WasShown
      <4> QED BY <4>1, <4>2
    <3> QED BY <1>1, <2>1, <3>2 DEF Orderly, NewestFinal
  <2> QED BY <1>5, <1>12, <2>2, <2>3, <2>4
<1>14. OlderFirst'
  <2>1. FinalSinks # {} /\ sender.text # Blank /\ ~sender.clears /\ sender.n <= Newest => Awaited
    BY DEF Orderly, OlderFirst
  <2>2. FinalSinks # {} /\ sender.clears /\ sender.n < Newest => Awaited \/ SendWaits
    BY DEF Orderly, OlderFirst, Overtaken
  <2>3. \A x \in Waiting' :
          /\ FinalSinks # {} /\ IsPartial(x)' /\ x.n <= Newest => Awaited
          /\ FinalSinks # {} /\ IsFinal(x)' /\ x.n < Newest => Awaited
          /\ FinalSinks # {} /\ x.kind = "send" /\ x.fresh /\ x.n < Newest => Awaited \/ SendWaits
    BY <1>1, SameView DEF Orderly, OlderFirst, Overtaken
  <2> QED BY <1>1, <1>3, <2>1, <2>2, <2>3 DEF OlderFirst, Overtaken
<1> QED BY <1>1, <1>8, <1>9, <1>10, <1>13, <1>14 DEF Orderly

\* MirrorSent, CaptionSent and CaptionRejected
LEMMA AnswersKeep ==
  ASSUME CaptionTypeOK, Orderly, excused' = {}, MirrorSent \/ CaptionSent \/ CaptionRejected
  PROVE  Orderly'
<1>1. Sending /\ sender.pc \in Sinks BY DEF MirrorSent, CaptionSent, CaptionRejected, Sending, Busy, Sinks
<1>2. UNCHANGED <<settings, said, announcing, request>>
  BY DEF MirrorSent, CaptionSent, CaptionRejected, spokenVars
<1>3. memory'.payload = memory.payload
  BY DEF MirrorSent, CaptionSent, CaptionRejected, CaptionTypeOK, Notes
<1>4. sender.text \in Words /\ sender.sinks \in SUBSET Sinks /\ sender.asked \in SUBSET Sinks /\ Blank \in Words
  BY <1>1, SenderKinds DEF Sending, Sends, Words
<1>5. /\ sender.pc \in sender.sinks
      /\ sender.clears => sender.sinks = sender.asked /\ sender.text # Blank
      /\ sender.pc = "stream" /\ "mirror" \in sender.sinks /\ sender.clears =>
           screen["mirror"].n = sender.n
  BY <1>1 DEF Orderly, SendOK
<1>6. CASE MirrorSent
  <2>1. sender.pc = "mirror" /\ Display("mirror") /\ "mirror" \in Sinks BY <1>6 DEF MirrorSent, Sinks
  <2>2. CASE "stream" \in sender.sinks
    <3>1. outbox' = outbox /\ sender' = [sender EXCEPT !.pc = "stream"] BY <1>6, <2>2 DEF MirrorSent
    <3> QED BY <1>1, <1>2, <1>3, <2>1, <2>2, <3>1, MirrorThenStreamKeeps
  <2>3. CASE "stream" \notin sender.sinks
    <3>1. sender' = Idle /\ ClearLater(sender.sinks) BY <1>6, <2>3 DEF MirrorSent
    <3>2. /\ \A x \in Sinks : x # "mirror" => screen'[x] = screen[x]
          /\ sender.text = Blank => screen'["mirror"].text = Blank /\ screen'["mirror"].n = screen["mirror"].n
          /\ sender.text # Blank => screen'["mirror"].n = sender.n /\ screen'["mirror"].final = sender.final
      BY <1>1, <1>4, <2>1, ShowsTypes DEF Display
    <3>3. sender.clears => \A s \in sender.asked : s = "mirror" BY <1>4, <1>5, <2>3 DEF Sinks
    <3>4. sender.clears =>
            /\ sender.sinks \subseteq sender.asked
            /\ \A s \in sender.asked :
                 screen'[s].n = sender.n /\ (screen'[s].text # Blank => s \in sender.sinks)
      BY <1>5, <3>2, <3>3
    <3> QED BY <1>1, <1>2, <1>3, <1>4, <2>1, <2>3, <3>1, <3>2, <3>4, AnswerKeeps
  <2> QED BY <2>2, <2>3
<1>7. CASE CaptionSent
  <2>1. sender.pc = "stream" /\ Display("stream") /\ sender' = Idle /\ ClearLater(sender.sinks)
        /\ "stream" \in Sinks
    BY <1>7 DEF CaptionSent, Sinks
  <2>2. /\ \A x \in Sinks : x # "stream" => screen'[x] = screen[x]
        /\ sender.text = Blank => screen'["stream"].text = Blank /\ screen'["stream"].n = screen["stream"].n
        /\ sender.text # Blank => screen'["stream"].n = sender.n /\ screen'["stream"].final = sender.final
    BY <1>1, <1>4, <2>1, ShowsTypes DEF Display
  <2>3. ASSUME sender.clears, NEW s \in sender.asked
        PROVE  screen'[s].n = sender.n /\ (screen'[s].text # Blank => s \in sender.sinks)
    <3>1. s \in sender.sinks /\ s \in Sinks BY <1>4, <1>5, <2>3
    <3>2. CASE s = "stream" BY <1>5, <2>2, <2>3, <3>1, <3>2
    <3>3. CASE s = "mirror" BY <1>5, <2>1, <2>2, <2>3, <3>1, <3>3
    <3> QED BY <3>1, <3>2, <3>3 DEF Sinks
  <2>4. sender.clears =>
          /\ sender.sinks \subseteq sender.asked
          /\ \A s \in sender.asked :
               screen'[s].n = sender.n /\ (screen'[s].text # Blank => s \in sender.sinks)
    BY <1>5, <2>3
  <2>5. "stream" = "mirror" => "stream" \notin sender.sinks OBVIOUS
  <2> QED BY <1>1, <1>2, <1>3, <1>4, <2>1, <2>2, <2>4, <2>5, AnswerKeeps
<1>8. CASE CaptionRejected
  <2>1. PICK cleared : cleared = sender.asked \intersect {"mirror"} OBVIOUS
  <2>2. sender.pc = "stream" /\ Shows("stream", Blank) /\ sender' = Idle /\ ClearLater(cleared)
        /\ "stream" \in Sinks /\ cleared \in SUBSET Sinks
    BY <1>8, <2>1 DEF CaptionRejected, Sinks
  <2>3. /\ \A x \in Sinks : x # "stream" => screen'[x] = screen[x]
        /\ sender.text = Blank => screen'["stream"].text = Blank /\ screen'["stream"].n = screen["stream"].n
        /\ sender.text # Blank => screen'["stream"].n = sender.n /\ screen'["stream"].final = sender.final
        /\ screen'["stream"].text = Blank
    BY <1>1, <1>4, <2>2, ShowsTypes
  <2>4. ASSUME sender.clears, NEW s \in sender.asked
        PROVE  screen'[s].n = sender.n /\ (screen'[s].text # Blank => s \in cleared)
    <3>1. s \in sender.sinks /\ s \in Sinks BY <1>4, <1>5, <2>4
    <3>2. CASE s = "stream" BY <1>5, <2>3, <2>4, <3>2
    <3>3. CASE s = "mirror" BY <1>5, <2>1, <2>2, <2>3, <2>4, <3>1, <3>3
    <3> QED BY <3>1, <3>2, <3>3 DEF Sinks
  <2>5. sender.clears =>
          /\ cleared \subseteq sender.asked
          /\ \A s \in sender.asked : screen'[s].n = sender.n /\ (screen'[s].text # Blank => s \in cleared)
    BY <2>1, <2>4
  <2>6. "stream" = "mirror" => "stream" \notin sender.sinks OBVIOUS
  <2> QED BY <1>1, <1>2, <1>3, <2>2, <2>3, <2>5, <2>6, AnswerKeeps
<1> QED BY <1>6, <1>7, <1>8

-----------------------------------------------------------------------------
(* Requests, the connection task, and the whole *)

\* The worker is created, with nothing to do yet.
LEMMA StartKeeps ==
  ASSUME Orderly, Start
  PROVE  Orderly'
<1>1. /\ UNCHANGED <<settings, said, announcing, outbox, memory, screen>> /\ Calm'
      /\ ~Sending /\ sender.pc \notin {"sleep", "stream"}
      /\ ~Sending' /\ sender'.pc \notin {"sleep", "stream"}
  BY DEF Start, spokenVars, Calm, Idle, Sending, Busy, Sinks, None
<1>2. FinalSinks' = FinalSinks /\ Newest' = Newest /\ Waiting' = Waiting
  BY <1>1, SameView DEF Waiting
<1>3. MemoryIsOld' /\ AnnouncedIsNew'
  BY <1>1, <1>2, SameView DEF Orderly, MemoryIsOld, AnnouncedIsNew
<1>4. WaitingFits' BY <1>1, <1>2, SameView DEF Orderly, WaitingFits
<1>5. QueueInOrder'
  <2>1. \A x, y : InTurn(x, y)' <=> InTurn(x, y) BY <1>1, SameView DEF InTurn
  <2> QED BY <1>1, <1>2, <2>1, SameView DEF Orderly, QueueInOrder
<1>6. SendOK' BY <1>1 DEF SendOK
<1>7. ClearsHit' BY <1>1, <1>2 DEF Orderly, ClearsHit, Hits
<1>8. Awaited' <=> Awaited BY <1>1, <1>2, SameView DEF Awaited
<1>9. SendWaits' <=> SendWaits BY <1>1, <1>2, SameView DEF SendWaits
<1>10. OnItsWay => OnItsWay' BY <1>1, <1>9 DEF OnItsWay
<1>11. \A s : WillClear(s) => WillClear(s)' BY <1>1, <1>2 DEF WillClear, FreshClear
<1>12. NewestFinal' BY <1>1, <1>2, <1>8, <1>10, <1>11 DEF Orderly, NewestFinal, WasShown
<1>13. OlderFirst' BY <1>1, <1>2, <1>8, <1>9, SameView DEF Orderly, OlderFirst, Overtaken
<1> QED BY <1>1, <1>3, <1>4, <1>5, <1>6, <1>7, <1>12, <1>13 DEF Orderly

\* New settings are applied to an empty queue and a worker that does not sleep.
LEMMA ApplyLiveKeeps ==
  ASSUME CaptionTypeOK, Orderly, excused' = {}, ApplyLive
  PROVE  Orderly'
<1>1. ShouldConnect(settings)
  <2>1. TRUE \in BOOLEAN /\ (~ShouldConnect(settings) => Excuse(TRUE)) BY DEF ApplyLive
  <2> QED BY <2>1, NotExcused
<1>2. sender.pc # "sleep" /\ outbox = <<>>
  <2>1. PICK lost \in BOOLEAN : lost <=> sender.pc = "sleep" \/ outbox # <<>> OBVIOUS
  <2>2. Excuse(lost) BY <1>1, <2>1 DEF ApplyLive, Excuse
  <2> QED BY <2>1, <2>2, NotExcused
<1>3. sender' = sender BY <1>1, <1>2 DEF ApplyLive, Bump
<1>4. outbox' = outbox
  <2>1. outbox' = [i \in DOMAIN outbox |-> Stale(outbox[i], {"send", "clear"})]
    BY <1>1 DEF ApplyLive, Bump
  <2>2. DOMAIN outbox = {} BY <1>2
  <2> QED BY <1>2, <2>1, <2>2
<1>5. UNCHANGED <<settings, said, announcing, memory, screen>> /\ Calm'
  BY <1>1 DEF ApplyLive, spokenVars, Calm
<1> QED BY <1>3, <1>4, <1>5, NothingMoves

\* The connection task leaves the captions alone, and what the user changes is excused.
LEMMA ServiceKeeps ==
  ASSUME CaptionTypeOK, Orderly, excused' = {},
         \/ DiallerStep \/ DiallerRefused \/ Start \/ ChangeSettings \/ Stop
         \/ RequestStep \/ SendFails
  PROVE  Orderly'
<1>1. CASE DiallerStep \/ DiallerRefused
  <2>1. UNCHANGED <<settings, said, announcing, outbox, sender, memory, screen, request>>
    BY <1>1 DEF DiallerStep, DiallerChecks, DiallerConnects, DiallerPings, DiallerRefused,
                spokenVars, userVars
  <2>2. Calm' BY <2>1 DEF Orderly, Calm
  <2> QED BY <2>1, <2>2, NothingMoves
<1>2. CASE Start BY <1>2, StartKeeps
<1>3. CASE ChangeSettings \/ Stop \/ SendFails
  <2>1. Excuse(TRUE) /\ TRUE \in BOOLEAN BY <1>3 DEF ChangeSettings, Stop, SendFails
  <2> QED BY <2>1, NotExcused
<1>4. CASE ApplyLive BY <1>4, ApplyLiveKeeps
<1>5. CASE WipeOutputs \/ HangUp \/ AbortSender
  BY <1>5 DEF WipeOutputs, HangUp, AbortSender, Orderly, Calm, None
<1> QED BY <1>1, <1>2, <1>3, <1>4, <1>5 DEF RequestStep

\* What is excused once stays excused.
LEMMA ExcusedGrows ==
  ASSUME [ObsNext]_obsVars, excused' = {}
  PROVE  excused = {}
<1>1. \A lost : Excuse(lost) => excused = {} BY DEF Excuse
<1>2. CASE UNCHANGED obsVars BY <1>2 DEF obsVars
<1>3. CASE PublishPartial \/ PublishFinal \/ PublishPayload \/ BumpForPayload
  BY <1>1, <1>3 DEF PublishPartial, PublishFinal, PublishPayload, BumpForPayload
<1>4. CASE \E p \in Publishers : Enqueue(p) BY <1>1, <1>4 DEF Enqueue
<1>5. \A q, item : Postpone(q, item) => excused = {} BY <1>1 DEF Postpone
<1>6. CASE TakeItem
  <2>1. \A q, item, sinks : Schedule(q, item, sinks) => excused = {} BY <1>5 DEF Schedule
  <2>2. \A q, item : HandlePartial(q, item) => excused = {} BY DEF HandlePartial, Skip
  <2>3. \A q, item : HandleFinal(q, item) => excused = {} BY <2>1 DEF HandleFinal, Skip
  <2>4. \A q, item : HandlePayload(q, item) => excused = {} BY <2>1 DEF HandlePayload, Skip
  <2> QED BY <1>6, <2>2, <2>3, <2>4 DEF TakeItem
<1>7. CASE Wake \/ SeekClient \/ AwaitClient BY <1>1, <1>7 DEF Wake, SeekClient, AwaitClient
<1>8. CASE Lock BY <1>8 DEF Lock
<1>9. CASE MirrorSent \/ CaptionSent \/ CaptionRejected
  <2>1. \A sinks : ClearLater(sinks) => excused = {} BY <1>5 DEF ClearLater
  <2> QED BY <1>9, <2>1 DEF MirrorSent, CaptionSent, CaptionRejected
<1>10. CASE SendFails \/ DiallerStep \/ DiallerRefused
  BY <1>1, <1>10 DEF SendFails, DiallerStep, DiallerChecks, DiallerConnects, DiallerPings,
                     DiallerRefused, userVars
<1>11. CASE Start \/ ChangeSettings \/ Stop \/ RequestStep
  BY <1>1, <1>11 DEF Start, ChangeSettings, Stop, RequestStep, ApplyLive, WipeOutputs, HangUp, AbortSender
<1> QED BY <1>2, <1>3, <1>4, <1>6, <1>7, <1>8, <1>9, <1>10, <1>11 DEF ObsNext, SenderStep

\* Every step keeps the order, as long as nothing is excused.
LEMMA StepOrderly ==
  ASSUME CaptionInv, [ObsNext]_obsVars, excused' = {}
  PROVE  Orderly'
<1>1. CaptionTypeOK /\ OnePartial /\ Orderly BY ExcusedGrows DEF CaptionInv
<1>2. CASE UNCHANGED obsVars
  <2>1. UNCHANGED <<settings, said, announcing, outbox, sender, memory, screen, request>>
    BY <1>2 DEF obsVars
  <2>2. Calm' BY <1>1, <2>1 DEF Orderly, Calm
  <2> QED BY <1>1, <2>1, <2>2, NothingMoves
<1>3. CASE PublishPartial \/ PublishFinal BY <1>1, <1>3, PublishSourceKeeps
<1>4. CASE PublishPayload BY <1>1, <1>4, PublishPayloadKeeps
<1>5. CASE BumpForPayload BY <1>1, <1>5, BumpForPayloadKeeps
<1>6. CASE \E p \in Publishers : Enqueue(p) BY <1>1, <1>6, EnqueueKeeps
<1>7. CASE TakeItem BY <1>1, <1>7, TakeItemKeeps
<1>8. CASE Wake BY <1>1, <1>8, WakeKeeps
<1>9. CASE SeekClient \/ AwaitClient \/ Lock BY <1>1, <1>9, ClientKeeps
<1>10. CASE MirrorSent \/ CaptionSent \/ CaptionRejected BY <1>1, <1>10, AnswersKeep
<1>11. CASE \/ DiallerStep \/ DiallerRefused \/ Start \/ ChangeSettings \/ Stop
            \/ RequestStep \/ SendFails
  BY <1>1, <1>11, ServiceKeeps
<1> QED
  BY <1>2, <1>3, <1>4, <1>5, <1>6, <1>7, <1>8, <1>9, <1>10, <1>11 DEF ObsNext, SenderStep

\* In the beginning nothing was said and nothing is shown.
LEMMA InitOrderly ==
  ASSUME ObsInit
  PROVE  CaptionInv
<1>1. CaptionTypeOK /\ OnePartial BY InitTypes
<1>2. /\ Waiting = {} /\ Newest = 0 /\ ~Sending /\ sender.pc \notin {"sleep", "stream"}
      /\ \A p \in Publishers : announcing[p] = <<>>
      /\ \A s \in Sinks : screen[s].n = 0 /\ screen[s].text = Blank
  <2>1. ToSet(<<>>) = {} BY DEF ToSet
  <2>2. Waiting = {} BY <2>1 DEF ObsInit, Waiting
  <2>3. Newest = 0 BY EmptySeq DEF ObsInit, Newest
  <2> QED BY <2>2, <2>3 DEF ObsInit, Sending, Busy, Sinks, Absent, None, Nothing
<1>3. Calm /\ MemoryIsOld BY DEF ObsInit, Calm, MemoryIsOld
<1>4. AnnouncedIsNew /\ WaitingFits /\ QueueInOrder
  BY <1>2 DEF AnnouncedIsNew, WaitingFits, QueueInOrder
<1>5. SendOK /\ ClearsHit BY <1>2 DEF SendOK, ClearsHit
<1>6. NewestFinal BY <1>2, SinksOf DEF NewestFinal, WasShown
<1>7. OlderFirst BY <1>2 DEF OlderFirst
<1> QED BY <1>1, <1>3, <1>4, <1>5, <1>6, <1>7 DEF CaptionInv, Orderly

\* The inductive invariant of the service.
LEMMA CaptionsInvariant == ObsSpec => []CaptionInv
<1>1. ObsInit => CaptionInv BY InitOrderly
<1>2. CaptionInv /\ [ObsNext]_obsVars => CaptionInv'
  <2> SUFFICES ASSUME CaptionInv, [ObsNext]_obsVars PROVE CaptionInv' OBVIOUS
  <2>1. CaptionTypeOK' /\ OnePartial' BY StepTypes DEF CaptionInv
  <2>2. excused' = {} => Orderly' BY StepOrderly
  <2> QED BY <2>1, <2>2 DEF CaptionInv
<1> QED BY <1>1, <1>2, PTL DEF ObsSpec

\* Whatever is queued, sent, remembered or shown is what the code puts there, and at most one
\* partial waits, so that drop_queued_partials drops them all when it drops one.
THEOREM CaptionTypeCorrect == ObsSpec => [](CaptionTypeOK /\ OnePartial)
<1>1. CaptionInv => CaptionTypeOK /\ OnePartial BY DEF CaptionInv
<1> QED BY <1>1, CaptionsInvariant, PTL

\* However late a clear is sent, it takes away no final that is newer than its own: the generations
\* that publish_source, publish_payload and enqueue_clear bump suffice.
THEOREM CaptionsCleared == ObsSpec => []ClearHitsItsCaption
<1>1. CaptionInv => ClearHitsItsCaption
  <2> SUFFICES ASSUME CaptionInv, Requesting, sender.text = Blank, excused = {}, NEW s \in sender.sinks
               PROVE  screen[s].final /\ screen[s].text # Blank => screen[s].n <= sender.n
    BY DEF ClearHitsItsCaption
  <2>1. Sending BY DEF Requesting, Sending, Busy
  <2> QED BY <2>1 DEF CaptionInv, Orderly, ClearsHit, Hits
<1> QED BY <1>1, CaptionsInvariant, PTL

\* When everything was sent and every delay has passed, the newest final was the last to be shown
\* and is not left on the screen.
THEOREM CaptionsAlwaysSettle == ObsSpec => []CaptionsSettle
<1>1. CaptionInv => CaptionsSettle
  <2> SUFFICES ASSUME CaptionInv, AllQuiet, excused = {}, NEW s \in FinalSinks PROVE Spent(s)
    BY DEF CaptionsSettle
  <2>1. Orderly BY DEF CaptionInv
  <2>2. Waiting = {} /\ ~Sending /\ sender.pc # "sleep" /\ \A p \in Publishers : announcing[p] = <<>>
    <3>1. ToSet(<<>>) = {} BY DEF ToSet
    <3> QED BY <3>1 DEF AllQuiet, Waiting, Sending, Busy, Sinks
  <2>3. ~Awaited /\ ~OnItsWay BY <2>2 DEF Awaited, OnItsWay, SendWaits
  <2>4. WasShown BY <2>1, <2>3 DEF Orderly, NewestFinal
  <2>5. ~WillClear(s) BY <2>2 DEF WillClear
  <2> QED BY <2>4, <2>5 DEF WasShown, Spent, Newest
<1> QED BY <1>1, CaptionsInvariant, PTL
=================================================================================
