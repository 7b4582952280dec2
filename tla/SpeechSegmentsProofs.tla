-------------------------- MODULE SpeechSegmentsProofs --------------------------
(* Theorems about SpeechSegments, for any texts, any number of segments, updates *)
(* and upsets.                                                                   *)
EXTENDS SpeechSegments, TLAPS

Made == [kind : {"forced", "final"}, text : Texts]
MaybeText == Texts \union {NoText}
Pages ==
  [current : Nat, ordinal : Nat, lastPartial : MaybeText, lastFinal : MaybeText,
   lastForced : MaybeText, forced : BOOLEAN, partial : MaybeText, stable : BOOLEAN, sent : Nat]

\* What the page remembers of its open segment is what it has made of it: nothing yet, or
\* one forced final.  After a forced final there is no interim text that could be forced again.
Remembers(p, f) ==
  /\ p \in Pages
  /\ p.current <= p.ordinal
  /\ p.forced => /\ p.current # NoSegment /\ p.partial = NoText
                 /\ p.lastFinal \in Texts /\ p.lastForced = p.lastFinal
                 /\ f[p.current] = <<[kind |-> "forced", text |-> p.lastFinal]>>
  /\ p.current # NoSegment /\ ~p.forced => p.lastFinal = NoText /\ f[p.current] = <<>>
  /\ \A s \in Segments : s > p.ordinal => f[s] = <<>>

Ended(made) ==
  \/ made = <<>>
  \/ \E m \in Made : made = <<m>>
  \/ \E t, u \in Texts : t # u /\ made = <<[kind |-> "forced", text |-> t],
                                           [kind |-> "final", text |-> u]>>

\* The inductive invariant of the page.
PageInv ==
  /\ finals \in [Segments -> Seq(Made)]
  /\ \A s \in Segments : Ended(finals[s])
  /\ Remembers(page, finals)

\* Drafts that Send turns into a step that keeps it: one without a final, and one with a final.
Quiet(d) == d.final = NoFinal /\ Remembers(d.page, finals)
Piece(d) == [kind |-> d.final.kind, text |-> d.final.text]
Makes(d) ==
  /\ d.final.segment \in Segments
  /\ Piece(d) \in Made
  /\ Ended(Append(finals[d.final.segment], Piece(d)))
  /\ Remembers(d.page, [finals EXCEPT ![d.final.segment] = Append(@, Piece(d))])

USE SegmentsAssumption DEF Segments, NoSegment

-----------------------------------------------------------------------------
(* The handlers *)

\* What Append does to a sequence.
LEMMA AppendedSeq ==
  ASSUME NEW S, NEW s \in Seq(S), NEW b \in S
  PROVE  /\ Append(s, b) \in Seq(S) /\ Len(Append(s, b)) = Len(s) + 1
         /\ \A i \in 1..Len(s) : Append(s, b)[i] = s[i]
         /\ Append(s, b)[Len(s) + 1] = b
OBVIOUS

\* A final after another one.
LEMMA SecondAppended ==
  ASSUME NEW S, NEW a \in S, NEW b \in S
  PROVE  Append(<<a>>, b) = <<a, b>>
<1> DEFINE s == <<a>>
           x == Append(s, b)
           y == <<a, b>>
<1>1. s \in Seq(S) /\ Len(s) = 1 /\ s[1] = a
  OBVIOUS
<1>2. y \in Seq(S) /\ Len(y) = 2 /\ y[1] = a /\ y[2] = b
  OBVIOUS
<1> HIDE DEF s, y
<1>3. /\ x \in Seq(S) /\ Len(x) = Len(s) + 1
      /\ \A i \in 1..Len(s) : x[i] = s[i]
      /\ x[Len(s) + 1] = b
  <2>1. s \in Seq(S)
    BY <1>1
  <2> QED BY <2>1, AppendedSeq, Zenon
<1> HIDE DEF x
<1>4. Len(x) = 2 /\ x[1] = a /\ x[2] = b
  <2>1. 1 \in 1..Len(s) /\ Len(s) + 1 = 2
    BY <1>1
  <2> QED BY <1>1, <1>3, <2>1
<1>5. \A i \in 1..2 : i = 1 \/ i = 2
  OBVIOUS
<1>6. x = y
  BY <1>2, <1>3, <1>4, <1>5
<1> QED BY <1>6 DEF x, y, s

\* The fields of a page may hold a text or none.
LEMMA NothingMadeIsNone == NoText \in MaybeText /\ Texts \subseteq MaybeText
BY DEF MaybeText

\* ensureActiveSegment keeps a page a page, whatever was open.
LEMMA EnsuredType ==
  ASSUME NEW p \in Pages
  PROVE  Ensured(p) \in Pages
<1> DEFINE n == p.ordinal + 1
<1>1. n \in Nat
  BY DEF Pages
<1> HIDE DEF n
<1>2. [p EXCEPT !.ordinal = n, !.current = n, !.lastPartial = NoText, !.lastFinal = NoText,
                !.forced = FALSE] \in Pages
  BY <1>1, NothingMadeIsNone DEF Pages
<1> QED BY <1>2 DEF Ensured, n

\* After it the segment is open, not finalised by force, and nothing was made of it.
LEMMA EnsuredKeeps ==
  ASSUME NEW p, NEW f, Remembers(p, f), Ensured(p).ordinal <= MaxSegments
  PROVE  /\ Remembers(Ensured(p), f)
         /\ Ensured(p).current # NoSegment /\ ~Ensured(p).forced
         /\ Ensured(p).current <= MaxSegments
         /\ Ensured(p).partial = p.partial
<1>1. CASE p.current # NoSegment /\ ~p.forced
  <2>1. Ensured(p) = p
    BY <1>1 DEF Ensured
  <2>2. p.current \in Nat /\ p.ordinal \in Nat /\ p.current <= p.ordinal
    BY DEF Remembers, Pages
  <2> QED BY <1>1, <2>1, <2>2
<1>2. CASE ~(p.current # NoSegment /\ ~p.forced)
  <2> DEFINE q == [p EXCEPT !.ordinal = @ + 1, !.current = p.ordinal + 1, !.lastPartial = NoText,
                            !.lastFinal = NoText, !.forced = FALSE]
  <2>1. Ensured(p) = q
    BY <1>2 DEF Ensured
  <2>2. p \in Pages /\ q \in Pages
    BY <2>1, EnsuredType DEF Remembers
  <2>3. /\ q.current = p.ordinal + 1 /\ q.ordinal = p.ordinal + 1 /\ ~q.forced
        /\ q.lastFinal = NoText /\ q.partial = p.partial
    BY <2>2 DEF Pages
  <2>4. p.ordinal \in Nat
    BY <2>2 DEF Pages
  <2>5. p.ordinal + 1 \in Segments
    BY <2>1, <2>3, <2>4
  <2>6. f[q.current] = <<>> /\ \A s \in Segments : s > q.ordinal => f[s] = <<>>
    BY <2>3, <2>4, <2>5 DEF Remembers
  <2> HIDE DEF q
  <2>7. q.current <= q.ordinal /\ q.current # NoSegment /\ q.current <= MaxSegments
    BY <2>3, <2>4, <2>5
  <2>8. Remembers(q, f)
    BY <2>2, <2>3, <2>6, <2>7 DEF Remembers
  <2> QED BY <2>1, <2>3, <2>7, <2>8
<1> QED BY <1>1, <1>2

\* consumeCompletedSegment and resetSegmentTrackingFields leave no open segment.
LEMMA ConsumedKeeps ==
  ASSUME NEW p, NEW f, Remembers(p, f)
  PROVE  Remembers(Consumed(p), f) /\ Remembers(Reset(p), f)
<1>1. p \in Pages
  BY DEF Remembers
<1>2. Consumed(p) \in Pages
  BY <1>1, NothingMadeIsNone DEF Consumed, Pages
<1>3. Consumed(p).current = NoSegment /\ ~Consumed(p).forced /\ Consumed(p).ordinal = p.ordinal
  BY <1>1 DEF Consumed, Pages
<1>4. Reset(p) \in Pages
  BY <1>2, NothingMadeIsNone DEF Reset, Pages
<1>5. Reset(p).current = NoSegment /\ ~Reset(p).forced /\ Reset(p).ordinal = p.ordinal
  BY <1>2, <1>3 DEF Reset, Pages
<1>6. p.ordinal \in Nat
  BY <1>1 DEF Pages
<1> QED BY <1>2, <1>3, <1>4, <1>5, <1>6 DEF Remembers

\* A page whose segment is open as before, and not finalised by force.
LEMMA SameSegmentKeeps ==
  ASSUME NEW p, NEW f, Remembers(p, f), ~p.forced, NEW q \in Pages, ~q.forced,
         q.current = p.current, q.ordinal = p.ordinal, q.lastFinal = p.lastFinal
  PROVE  Remembers(q, f)
BY DEF Remembers

\* Without an interim text, and with another count of the updates sent, the page still remembers.
LEMMA ClearedKeeps ==
  ASSUME NEW p, NEW f, Remembers(p, f), NEW n \in Nat
  PROVE  /\ Remembers([p EXCEPT !.partial = NoText], f)
         /\ Remembers([p EXCEPT !.stable = FALSE], f)
         /\ Remembers([p EXCEPT !.sent = n], f)
<1> DEFINE a == [p EXCEPT !.partial = NoText]
           b == [p EXCEPT !.stable = FALSE]
           c == [p EXCEPT !.sent = n]
<1>1. p \in Pages
  BY DEF Remembers
<1>2. a \in Pages /\ b \in Pages /\ c \in Pages
  BY <1>1, NothingMadeIsNone DEF Pages
<1>3. /\ a.current = p.current /\ a.ordinal = p.ordinal /\ a.forced = p.forced
      /\ a.lastFinal = p.lastFinal /\ a.lastForced = p.lastForced /\ a.partial = NoText
  BY <1>1 DEF Pages
<1>4. /\ b.current = p.current /\ b.ordinal = p.ordinal /\ b.forced = p.forced
      /\ b.lastFinal = p.lastFinal /\ b.lastForced = p.lastForced /\ b.partial = p.partial
  BY <1>1 DEF Pages
<1>5. /\ c.current = p.current /\ c.ordinal = p.ordinal /\ c.forced = p.forced
      /\ c.lastFinal = p.lastFinal /\ c.lastForced = p.lastForced /\ c.partial = p.partial
  BY <1>1 DEF Pages
<1> HIDE DEF a, b, c
<1>6. Remembers(a, f)
  BY <1>2, <1>3 DEF Remembers
<1>7. Remembers(b, f)
  BY <1>2, <1>4 DEF Remembers
<1>8. Remembers(c, f)
  BY <1>2, <1>5 DEF Remembers
<1> QED BY <1>6, <1>7, <1>8 DEF a, b, c

\* An interim text opens a segment and makes no final.
LEMMA InterimDraft ==
  ASSUME PageInv, NEW t \in Texts, WithInterim(t).page.ordinal <= MaxSegments
  PROVE  /\ Quiet(WithInterim(t))
         /\ WithInterim(t).page.current # NoSegment /\ ~WithInterim(t).page.forced
<1> DEFINE p == Ensured(page)
           q == [p EXCEPT !.partial = t, !.stable = @ \/ t # p.lastPartial]
           r == [q EXCEPT !.lastPartial = t, !.forced = FALSE]
<1>1. page \in Pages /\ Remembers(page, finals) /\ t \in MaybeText
  BY NothingMadeIsNone DEF PageInv, Remembers
<1>2. p \in Pages
  BY <1>1, EnsuredType
<1> HIDE DEF p
<1>3. CASE t = p.lastPartial
  <2>1. WithInterim(t) = Draft(q, NoSegment, NoFinal)
    BY <1>3 DEF WithInterim, p
  <2>2. (p.stable \/ t # p.lastPartial) = p.stable
    BY <1>2, <1>3 DEF Pages
  <2>3. q = [p EXCEPT !.partial = t, !.stable = p.stable]
    BY <2>2
  <2>4. /\ q \in Pages
        /\ q.current = p.current /\ q.ordinal = p.ordinal /\ q.lastFinal = p.lastFinal
        /\ q.forced = p.forced
    BY <1>1, <1>2, <2>3 DEF Pages
  <2>5. WithInterim(t).page = q /\ WithInterim(t).final = NoFinal
    BY <2>1 DEF Draft
  <2> HIDE DEF q
  <2>6. Remembers(p, finals) /\ p.current # NoSegment /\ ~p.forced
    BY <1>1, <2>4, <2>5, EnsuredKeeps DEF p
  <2>7. Remembers(q, finals)
    BY <2>4, <2>6, SameSegmentKeeps
  <2> QED BY <2>4, <2>5, <2>6, <2>7 DEF Quiet
<1>4. CASE t # p.lastPartial
  <2>1. WithInterim(t) = Draft(r, p.current, NoFinal)
    BY <1>4 DEF WithInterim, p
  <2>2. WithInterim(t).page = r /\ WithInterim(t).final = NoFinal
    BY <2>1 DEF Draft
  <2>3. r.ordinal = p.ordinal
    BY <1>2 DEF Pages
  <2>4. Remembers(p, finals) /\ p.current # NoSegment /\ ~p.forced
    BY <1>1, <2>2, <2>3, EnsuredKeeps DEF p
  <2>5. (p.stable \/ t # p.lastPartial) = TRUE
    BY <1>4
  <2>6. q = [p EXCEPT !.partial = t, !.stable = TRUE]
    BY <2>5
  <2>7. q \in Pages /\ q.current = p.current /\ q.ordinal = p.ordinal /\ q.lastFinal = p.lastFinal
    BY <1>1, <1>2, <2>6 DEF Pages
  <2> HIDE DEF q
  <2>8. /\ r \in Pages /\ ~r.forced
        /\ r.current = q.current /\ r.ordinal = q.ordinal /\ r.lastFinal = q.lastFinal
    BY <1>1, <2>7 DEF Pages
  <2> HIDE DEF r
  <2>9. Remembers(r, finals)
    BY <2>4, <2>7, <2>8, SameSegmentKeeps
  <2> QED BY <2>2, <2>4, <2>7, <2>8, <2>9 DEF Quiet
<1> QED BY <1>3, <1>4

\* A forced final of a segment of which nothing was made.
LEMMA ForcedDraft ==
  ASSUME PageInv, NEW p, Remembers(p, finals), p.current \in Segments, ~p.forced, p.partial \in Texts
  PROVE  Makes(Forced(p)) /\ Makes([Forced(p) EXCEPT !.page.stable = FALSE])
<1> DEFINE q == [p EXCEPT !.lastFinal = p.partial, !.lastForced = p.partial, !.forced = TRUE,
                          !.partial = NoText]
           t == p.partial
           m == [kind |-> "forced", text |-> t]
           f == [finals EXCEPT ![p.current] = Append(@, m)]
<1>1. /\ Forced(p).page = q /\ Forced(p).final = FinalOf(p.current, "forced", t)
      /\ Forced(p) = [page |-> q, partial |-> NoSegment, final |-> FinalOf(p.current, "forced", t)]
  BY DEF Forced, Draft
<1>2. p \in Pages /\ finals \in [Segments -> Seq(Made)] /\ t \in MaybeText /\ p.current # NoSegment
  BY NothingMadeIsNone DEF Remembers, PageInv
<1>3. finals[p.current] = <<>>
  BY <1>2 DEF Remembers
<1>4. m \in Made /\ Append(finals[p.current], m) = <<m>>
  BY <1>3 DEF Made
<1>5. f[p.current] = <<m>> /\ \A s \in Segments \ {p.current} : f[s] = finals[s]
  BY <1>2, <1>4
<1> HIDE DEF f
<1>6. q \in Pages
  BY <1>2, NothingMadeIsNone DEF Pages
<1>7. /\ q.current = p.current /\ q.ordinal = p.ordinal /\ q.forced /\ q.partial = NoText
      /\ q.lastFinal = t /\ q.lastForced = t
  BY <1>2 DEF Pages
<1> HIDE DEF q
<1>8. p.ordinal \in Nat /\ p.current \in Nat /\ p.current <= p.ordinal
  BY <1>2 DEF Pages, Remembers
<1>9. \A s \in Segments : s > q.ordinal => f[s] = <<>>
  BY <1>5, <1>7, <1>8 DEF Remembers
<1>10. Remembers(q, f)
  BY <1>2, <1>5, <1>6, <1>7, <1>8, <1>9 DEF Remembers
<1>11. Ended(<<m>>)
  BY <1>4 DEF Ended
<1>12. Piece(Forced(p)) = m /\ Forced(p).final.segment = p.current
  BY <1>1 DEF Piece, FinalOf
<1>13. Makes(Forced(p))
  BY <1>1, <1>4, <1>10, <1>11, <1>12 DEF Makes, f
<1> DEFINE d == [Forced(p) EXCEPT !.page.stable = FALSE]
           r == [q EXCEPT !.stable = FALSE]
<1>14. d.page = r /\ d.final = Forced(p).final
  BY <1>1
<1>15. Remembers(r, f)
  BY <1>10, ClearedKeeps, 0 \in Nat
<1>16. Piece(d) = m /\ d.final.segment = p.current
  BY <1>12, <1>14 DEF Piece
<1> HIDE DEF d, r
<1>17. Makes(d)
  BY <1>4, <1>11, <1>14, <1>15, <1>16 DEF Makes, f
<1> QED BY <1>13, <1>17 DEF d

\* A final of the recogniser: dropped, or the only one of its segment, or the one after a
\* forced final with another text.
LEMMA FinalDraft ==
  ASSUME PageInv, NEW d, Remembers(d.page, finals), NEW t \in Texts,
         WithFinal(d, t).page.ordinal <= MaxSegments
  PROVE  Quiet(WithFinal(d, t)) \/ Makes(WithFinal(d, t))
<1> DEFINE p == IF d.page.current # NoSegment THEN d.page ELSE Ensured(d.page)
           q == [p EXCEPT !.partial = NoText]
           c == Consumed(q)
           r == [c EXCEPT !.stable = FALSE]
           w == WithFinal(d, t)
<1>1. w = CASE LateForced(p, t) -> Draft(c, d.partial, NoFinal)
            [] ~LateForced(p, t) /\ Suppressed(p, t) -> Draft(q, d.partial, NoFinal)
            [] OTHER -> Draft(r, d.partial, FinalOf(p.current, "final", t))
  BY DEF WithFinal
<1>2. d.page \in Pages /\ p \in Pages
  BY EnsuredType DEF Remembers
<1> HIDE DEF p, w
<1>3. q \in Pages /\ q.ordinal = p.ordinal /\ q.current = p.current
  BY <1>2, NothingMadeIsNone DEF Pages
<1> HIDE DEF q
<1>4. /\ c \in Pages /\ c.ordinal = p.ordinal
      /\ c.current = NoSegment /\ c.forced = FALSE
  BY <1>3, NothingMadeIsNone DEF Consumed, Pages
<1> HIDE DEF c
<1>5. r \in Pages /\ r.ordinal = p.ordinal /\ r.current = NoSegment /\ r.forced = FALSE
  BY <1>4 DEF Pages
<1> HIDE DEF r
<1>6. w.page \in {c, q, r} /\ p.ordinal <= MaxSegments
  BY <1>1, <1>3, <1>4, <1>5 DEF Draft, w
<1>7. p.ordinal \in Nat /\ p.current \in Nat /\ d.page.current \in Nat /\ d.page.ordinal \in Nat
  BY <1>2 DEF Pages
<1>8. Remembers(p, finals) /\ p.current # NoSegment
  <2>1. CASE d.page.current # NoSegment
    BY <2>1 DEF p
  <2>2. CASE d.page.current = NoSegment
    BY <2>2, <1>6, EnsuredKeeps DEF p
  <2> QED BY <2>1, <2>2
<1>9. p.current \in Segments
  BY <1>6, <1>7, <1>8 DEF Remembers
<1>10. Remembers(q, finals) /\ Remembers(c, finals)
  BY <1>8, ClearedKeeps, ConsumedKeeps, 0 \in Nat DEF q, c
<1>11. CASE LateForced(p, t)
  <2>1. w = Draft(c, d.partial, NoFinal)
    BY <1>1, <1>11
  <2>2. w.page = c /\ w.final = NoFinal
    BY <2>1 DEF Draft
  <2> QED BY <1>10, <2>2 DEF Quiet, w
<1>12. CASE ~LateForced(p, t) /\ Suppressed(p, t)
  <2>1. w = Draft(q, d.partial, NoFinal)
    BY <1>1, <1>12
  <2>2. w.page = q /\ w.final = NoFinal
    BY <2>1 DEF Draft
  <2> QED BY <1>10, <2>2 DEF Quiet, w
<1>13. CASE ~LateForced(p, t) /\ ~Suppressed(p, t)
  <2> DEFINE m == [kind |-> "final", text |-> t]
             f == [finals EXCEPT ![p.current] = Append(@, m)]
  <2>1. w = Draft(r, d.partial, FinalOf(p.current, "final", t))
    BY <1>1, <1>13
  <2>2. w.page = r /\ w.final.segment = p.current /\ Piece(w) = m
    BY <2>1 DEF Draft, FinalOf, Piece
  <2>3. m \in Made
    BY DEF Made
  <2>4. Ended(Append(finals[p.current], m))
    <3>1. CASE p.forced
      <4> DEFINE u == p.lastFinal
      <4>1. u # t
        BY <1>13 DEF Suppressed
      <4>2. finals[p.current] = <<[kind |-> "forced", text |-> u]>> /\ u \in Texts
        BY <1>8, <3>1 DEF Remembers
      <4> HIDE DEF u
      <4>3. Append(finals[p.current], m) = <<[kind |-> "forced", text |-> u], m>>
        BY <2>3, <4>2, SecondAppended, [kind |-> "forced", text |-> u] \in Made DEF Made
      <4> QED BY <4>1, <4>2, <4>3 DEF Ended
    <3>2. CASE ~p.forced
      <4>1. finals[p.current] = <<>>
        BY <1>8, <3>2 DEF Remembers
      <4>2. Append(finals[p.current], m) = <<m>>
        BY <4>1
      <4> QED BY <2>3, <4>2 DEF Ended
    <3> QED BY <3>1, <3>2
  <2>5. finals \in [Segments -> Seq(Made)]
    BY DEF PageInv
  <2>6. \A s \in Segments \ {p.current} : f[s] = finals[s]
    BY <2>5
  <2> HIDE DEF f
  <2>7. \A s \in Segments : s > r.ordinal => f[s] = <<>>
    BY <1>5, <1>7, <1>8, <2>6 DEF Remembers
  <2>8. Remembers(r, f)
    BY <1>5, <1>7, <2>7 DEF Remembers
  <2>9. Makes(w)
    BY <1>9, <2>2, <2>3, <2>4, <2>8 DEF Makes, f
  <2> QED BY <2>9 DEF w
<1> QED BY <1>11, <1>12, <1>13 DEF w

\* The interim part of a result opens the segment of the final part.
LEMMA InterimOpens ==
  ASSUME page \in Pages, NEW i \in Texts, NEW t \in Texts
  PROVE  WithFinal(WithInterim(i), t).page.ordinal = WithInterim(i).page.ordinal
<1> DEFINE p == Ensured(page)
           q == [p EXCEPT !.partial = i, !.stable = @ \/ i # p.lastPartial]
           r == [q EXCEPT !.lastPartial = i, !.forced = FALSE]
           e == WithInterim(i).page
           z == [e EXCEPT !.partial = NoText]
           c == Consumed(z)
           x == [c EXCEPT !.stable = FALSE]
<1>1. p \in Pages
  BY EnsuredType
<1>2. p.current # NoSegment
  BY DEF Ensured, Pages
<1> HIDE DEF p
<1>3. q \in Pages /\ q.current = p.current
  <2>1. CASE p.stable \/ i # p.lastPartial
    <3>1. q = [p EXCEPT !.partial = i, !.stable = TRUE]
      BY <2>1
    <3> QED BY <1>1, <3>1, NothingMadeIsNone DEF Pages
  <2>2. CASE ~(p.stable \/ i # p.lastPartial)
    <3>1. q = [p EXCEPT !.partial = i, !.stable = FALSE]
      BY <2>2
    <3> QED BY <1>1, <3>1, NothingMadeIsNone DEF Pages
  <2> QED BY <2>1, <2>2
<1> HIDE DEF q
<1>4. r \in Pages /\ r.current = p.current
  BY <1>3, NothingMadeIsNone DEF Pages
<1> HIDE DEF r
<1>5. e = q \/ e = r
  BY DEF WithInterim, Draft, p, q, r
<1>6. e \in Pages /\ e.current # NoSegment
  BY <1>2, <1>3, <1>4, <1>5
<1> HIDE DEF e
<1>7. z \in Pages /\ z.ordinal = e.ordinal
  BY <1>6, NothingMadeIsNone DEF Pages
<1> HIDE DEF z
<1>8. c \in Pages /\ c.ordinal = e.ordinal
  BY <1>7, NothingMadeIsNone DEF Consumed, Pages
<1> HIDE DEF c
<1>9. x.ordinal = e.ordinal
  BY <1>8 DEF Pages
<1> HIDE DEF x
<1>10. WithFinal(WithInterim(i), t).page \in {z, c, x}
  <2> DEFINE d == WithInterim(i)
             w == WithFinal(d, t)
  <2>1. w = CASE LateForced(e, t) -> Draft(c, d.partial, NoFinal)
              [] ~LateForced(e, t) /\ Suppressed(e, t) -> Draft(z, d.partial, NoFinal)
              [] OTHER -> Draft(x, d.partial, FinalOf(e.current, "final", t))
    BY <1>6 DEF WithFinal, e, z, c, x
  <2> HIDE DEF d, w
  <2>2. CASE LateForced(e, t)
    <3>1. w = Draft(c, d.partial, NoFinal)
      BY <2>1, <2>2
    <3> QED BY <3>1 DEF Draft, w, d
  <2>3. CASE ~LateForced(e, t) /\ Suppressed(e, t)
    <3>1. w = Draft(z, d.partial, NoFinal)
      BY <2>1, <2>3
    <3> QED BY <3>1 DEF Draft, w, d
  <2>4. CASE ~LateForced(e, t) /\ ~Suppressed(e, t)
    <3>1. w = Draft(x, d.partial, FinalOf(e.current, "final", t))
      BY <2>1, <2>4
    <3> QED BY <3>1 DEF Draft, w, d
  <2> QED BY <2>2, <2>3, <2>4
<1> QED BY <1>7, <1>8, <1>9, <1>10 DEF e

-----------------------------------------------------------------------------
(* The steps *)

\* sendUpdate of such a draft keeps the invariant, whether the socket is open or not.
LEMMA SendKeeps ==
  ASSUME PageInv, NEW d, Send(d), Quiet(d) \/ Makes(d)
  PROVE  PageInv'
<1>1. d.page \in Pages
  BY DEF Quiet, Makes, Remembers
<1>2. PICK n \in Nat : page' = [d.page EXCEPT !.sent = n]
  <2> DEFINE k == (IF d.partial = NoSegment THEN 0 ELSE 1) + (IF d.final = NoFinal THEN 0 ELSE 1)
             n == IF link.open THEN d.page.sent + k ELSE d.page.sent
  <2>1. n \in Nat
    BY <1>1 DEF Pages
  <2>2. page' = [d.page EXCEPT !.sent = n]
    BY DEF Send
  <2> QED BY <2>1, <2>2
<1>3. finals \in [Segments -> Seq(Made)] /\ \A s \in Segments : Ended(finals[s])
  BY DEF PageInv
<1>4. CASE Quiet(d)
  <2>1. finals' = finals
    BY <1>4 DEF Send, Quiet
  <2>2. Remembers(page', finals)
    BY <1>2, <1>4, ClearedKeeps DEF Quiet
  <2> QED BY <1>3, <2>1, <2>2 DEF PageInv
<1>5. CASE Makes(d)
  <2> DEFINE s == d.final.segment
  <2>1. d.final # NoFinal
    BY <1>5 DEF Makes, Piece, Made, NoFinal, FinalOf
  <2>2. finals' = [finals EXCEPT ![s] = Append(@, Piece(d))]
    BY <2>1 DEF Send, Piece
  <2>3. s \in Segments /\ Piece(d) \in Made
    BY <1>5 DEF Makes
  <2>4. finals' \in [Segments -> Seq(Made)]
    BY <1>3, <2>2, <2>3
  <2>5. \A z \in Segments : Ended(finals'[z])
    BY <1>3, <1>5, <2>2, <2>3 DEF Makes
  <2>6. Remembers(page', finals')
    BY <1>2, <1>5, <2>2, ClearedKeeps DEF Makes
  <2> QED BY <2>4, <2>5, <2>6 DEF PageInv
<1> QED BY <1>4, <1>5

\* A page that was just loaded remembers nothing, and nothing was made.
LEMMA InitPage == SegmentsInit => PageInv
<1> SUFFICES ASSUME SegmentsInit PROVE PageInv
  OBVIOUS
<1>1. page \in Pages /\ page = Blank
  BY NothingMadeIsNone DEF SegmentsInit, Blank, Pages
<1>2. page.current = 0 /\ page.ordinal = 0 /\ page.forced = FALSE
  BY <1>1 DEF Blank
<1>3. finals \in [Segments -> Seq(Made)] /\ \A s \in Segments : finals[s] = <<>>
  BY DEF SegmentsInit
<1> QED BY <1>1, <1>2, <1>3 DEF PageInv, Remembers, Ended

\* Every step keeps what the page remembers in step with what it has sent.
LEMMA StepKeepsPage == PageInv /\ [SegmentsNext]_segment_vars => PageInv'
<1> SUFFICES ASSUME PageInv, [SegmentsNext]_segment_vars PROVE PageInv'
  OBVIOUS
<1>1. Remembers(page, finals) /\ page \in Pages
  BY DEF PageInv, Remembers
<1>2. ASSUME UNCHANGED <<page, finals>> PROVE PageInv'
  BY <1>2 DEF PageInv
<1>3. ASSUME NEW p, Remembers(p, finals), page' = Reset(p), finals' = finals PROVE PageInv'
  <2>1. Remembers(page', finals')
    BY <1>3, ConsumedKeeps
  <2> QED BY <1>3, <2>1 DEF PageInv
<1>4. Remembers([page EXCEPT !.partial = NoText], finals)
  BY <1>1, ClearedKeeps, 0 \in Nat
<1>5. \A t \in Texts : Interim(t) => PageInv'
  <2> SUFFICES ASSUME NEW t \in Texts, Interim(t) PROVE PageInv'
    OBVIOUS
  <2>1. Send(WithInterim(t)) /\ WithInterim(t).page.ordinal <= MaxSegments
    BY DEF Interim, Send
  <2>2. Quiet(WithInterim(t))
    BY <2>1, InterimDraft
  <2> QED BY <2>1, <2>2, SendKeeps
<1>6. \A t \in Texts : Final(t) => PageInv'
  <2> SUFFICES ASSUME NEW t \in Texts, Final(t) PROVE PageInv'
    OBVIOUS
  <2> DEFINE d == Draft(page, NoSegment, NoFinal)
  <2>1. Send(WithFinal(d, t)) /\ WithFinal(d, t).page.ordinal <= MaxSegments
    BY DEF Final, Send
  <2>2. Remembers(d.page, finals)
    BY <1>1 DEF Draft
  <2> HIDE DEF d
  <2>3. Quiet(WithFinal(d, t)) \/ Makes(WithFinal(d, t))
    BY <2>1, <2>2, FinalDraft
  <2> QED BY <2>1, <2>3, SendKeeps
<1>7. \A i, t \in Texts : InterimAndFinal(i, t) => PageInv'
  <2> SUFFICES ASSUME NEW i \in Texts, NEW t \in Texts, InterimAndFinal(i, t) PROVE PageInv'
    OBVIOUS
  <2> DEFINE d == WithInterim(i)
  <2>1. Send(WithFinal(d, t)) /\ WithFinal(d, t).page.ordinal <= MaxSegments
    BY DEF InterimAndFinal, Send
  <2>2. d.page.ordinal <= MaxSegments
    BY <1>1, <2>1, InterimOpens
  <2>3. Remembers(d.page, finals)
    BY <2>2, InterimDraft DEF Quiet
  <2> HIDE DEF d
  <2>4. Quiet(WithFinal(d, t)) \/ Makes(WithFinal(d, t))
    BY <2>1, <2>3, FinalDraft
  <2> QED BY <2>1, <2>4, SendKeeps
<1>8. Ends => PageInv'
  BY <1>1, <1>2, <1>3 DEF Ends
<1>9. PressStop => PageInv'
  BY <1>3, <1>4 DEF PressStop
<1>10. ForceFinalize => PageInv'
  <2> SUFFICES ASSUME ForceFinalize PROVE PageInv'
    OBVIOUS
  <2> DEFINE p == Ensured(page)
             q == [p EXCEPT !.partial = NoText]
             d == Draft(q, NoSegment, NoFinal)
  <2>1. CASE page.partial = NoText \/ ~recogniser.desired
    BY <1>2, <2>1 DEF ForceFinalize
  <2>2. CASE ~(page.partial = NoText \/ ~recogniser.desired)
    <3>1. Send(IF Suppressed(p, page.partial) THEN d ELSE Forced(p))
      BY <2>2 DEF ForceFinalize
    <3>2. p \in Pages
      BY <1>1, EnsuredType
    <3>3. page.partial \in Texts
      BY <1>1, <2>2 DEF Pages, MaybeText
    <3> HIDE DEF p
    <3>4. q.ordinal = p.ordinal
      BY <3>2 DEF Pages
    <3> HIDE DEF q
    <3>5. d.page = q /\ d.final = NoFinal
      BY DEF Draft
    <3> HIDE DEF d
    <3>6. Forced(p).page.ordinal = p.ordinal
      BY <3>2 DEF Forced, Draft, Pages
    <3>7. p.ordinal <= MaxSegments
      BY <3>1, <3>4, <3>5, <3>6 DEF Send
    <3>8. /\ Remembers(p, finals) /\ p.current # NoSegment /\ ~p.forced
          /\ p.current <= MaxSegments /\ p.partial = page.partial
      BY <1>1, <3>7, EnsuredKeeps DEF p
    <3>9. CASE Suppressed(p, page.partial)
      <4>1. Send(d)
        BY <3>1, <3>9
      <4>2. Remembers(q, finals)
        BY <3>8, ClearedKeeps, 0 \in Nat DEF q
      <4> QED BY <3>5, <4>1, <4>2, SendKeeps DEF Quiet
    <3>10. CASE ~Suppressed(p, page.partial)
      <4>1. Send(Forced(p))
        BY <3>1, <3>10
      <4>2. p.current \in Segments /\ p.partial \in Texts
        BY <3>2, <3>3, <3>8 DEF Pages
      <4> QED BY <3>8, <4>1, <4>2, ForcedDraft, SendKeeps
    <3> QED BY <3>9, <3>10
  <2> QED BY <2>1, <2>2
<1>11. Interrupt => PageInv'
  <2> SUFFICES ASSUME Interrupt PROVE PageInv'
    OBVIOUS
  <2> DEFINE p == IF page.current # NoSegment THEN page ELSE Ensured(page)
             d == [Forced(p) EXCEPT !.page.stable = FALSE]
  <2>1. Send(d) /\ page.partial \in Texts
    BY <1>1 DEF Interrupt, Pages, MaybeText
  <2>2. ~page.forced
    BY <2>1, <1>1, SegmentsAssumption DEF Remembers
  <2>3. p \in Pages
    BY <1>1, EnsuredType
  <2>4. page.current # NoSegment => p = page
    OBVIOUS
  <2>5. page.current = NoSegment => p = Ensured(page)
    OBVIOUS
  <2> HIDE DEF p
  <2>6. d.page.ordinal = p.ordinal
    BY <2>3 DEF Forced, Draft, Pages
  <2>7. p.ordinal <= MaxSegments
    BY <2>1, <2>6 DEF Send
  <2> HIDE DEF d
  <2>8. CASE page.current # NoSegment
    <3>1. p.current \in Segments
      BY <1>1, <2>4, <2>7, <2>8 DEF Remembers, Pages
    <3>2. Makes(d)
      BY <1>1, <2>1, <2>2, <2>4, <2>8, <3>1, ForcedDraft DEF d
    <3> QED BY <2>1, <3>2, SendKeeps
  <2>9. CASE page.current = NoSegment
    <3>1. /\ Remembers(p, finals) /\ p.current # NoSegment /\ ~p.forced
          /\ p.current <= MaxSegments /\ p.partial = page.partial
      BY <1>1, <2>5, <2>7, <2>9, EnsuredKeeps
    <3>2. p.current \in Segments
      BY <2>3, <3>1 DEF Pages
    <3>3. Makes(d)
      BY <2>1, <3>1, <3>2, ForcedDraft DEF d
    <3> QED BY <2>1, <3>3, SendKeeps
  <2> QED BY <2>8, <2>9
<1>12. ASSUME PressStart \/ Begins \/ FailsForGood \/ ChangeSetting PROVE PageInv'
  BY <1>2, <1>12 DEF PressStart, Begins, FailsForGood, ChangeSetting
<1>13. ASSUME (\E u \in wire : Build(u)) \/ HandleEvent PROVE PageInv'
  BY <1>2, <1>13 DEF Build, HandleEvent, speechVars
<1>14. ASSUME DropSocket \/ Noticed \/ Reconnect \/ ClearScreen \/ ClearTracking PROVE PageInv'
  BY <1>2, <1>14 DEF DropSocket, Noticed, Reconnect, ClearScreen, ClearTracking, speechVars
<1>15. ASSUME UNCHANGED segment_vars PROVE PageInv'
  BY <1>2, <1>15 DEF segment_vars, speechVars
<1> QED
  BY <1>5, <1>6, <1>7, <1>8, <1>9, <1>10, <1>11, <1>12, <1>13, <1>14, <1>15 DEF SegmentsNext

\* PageInv is an invariant of the specification.
LEMMA PageAlwaysRemembers == SegmentsSpec => []PageInv
BY InitPage, StepKeepsPage, PTL DEF SegmentsSpec

\* It implies the property of the finals.
LEMMA EndedOnce == PageInv => EachTextOnce
<1> SUFFICES ASSUME PageInv, NEW s \in Segments, NEW i \in DOMAIN finals[s], NEW j \in DOMAIN finals[s],
                    i < j
             PROVE  /\ finals[s][i].kind = "forced" /\ finals[s][j].kind = "final"
                    /\ finals[s][i].text # finals[s][j].text
  BY DEF EachTextOnce
<1>1. CASE finals[s] = <<>>
  BY <1>1
<1>2. CASE \E m \in Made : finals[s] = <<m>>
  BY <1>2
<1>3. CASE \E t, u \in Texts : t # u /\ finals[s] = <<[kind |-> "forced", text |-> t],
                                                     [kind |-> "final", text |-> u]>>
  <2>1. PICK t \in Texts, u \in Texts :
          t # u /\ finals[s] = <<[kind |-> "forced", text |-> t], [kind |-> "final", text |-> u]>>
    BY <1>3
  <2>2. i = 1 /\ j = 2
    BY <2>1
  <2> QED BY <2>1, <2>2
<1> QED BY <1>1, <1>2, <1>3 DEF PageInv, Ended

\* However timers, interruptions, late results and restarts of the recogniser fall, a
\* segment is finalised at most twice: once by force and then by the recogniser, with
\* another text.
THEOREM TextsNeverRepeated == SegmentsSpec => []EachTextOnce
BY PageAlwaysRemembers, EndedOnce, PTL

-----------------------------------------------------------------------------
(* The order at the server *)

\* Events carry the number under which they passed the watermark.  What was given to the
\* translation is older than the event in handle_event and than the partial on the screen.
OrderInv ==
  /\ watermark \in Int
  /\ \A u \in wire : u.n \in Int
  /\ \A e, d \in handling : e = d
  /\ \A e \in handling : e.n = watermark
  /\ \A e \in submitted : e.n \in Int /\ e.n <= watermark /\ (handling # {} => e.n < watermark)
  /\ shown # None => \A e \in submitted : e.n < shown.n

\* What the page sends has a number; it changes nothing at the server.
LEMMA SendKeepsOrder ==
  ASSUME PageInv, OrderInv, NEW d, Send(d)
  PROVE  OrderInv'
<1> DEFINE n == (IF d.partial = NoSegment THEN 0 ELSE 1) + (IF d.final = NoFinal THEN 0 ELSE 1)
           a == [segment |-> d.partial, kind |-> "partial", n |-> page.sent + 1]
           b == [segment |-> d.final.segment, kind |-> d.final.kind, n |-> page.sent + n]
<1>1. page.sent \in Int /\ n \in Int
  BY DEF PageInv, Remembers, Pages
<1>2. wire' \subseteq wire \union {a, b}
  BY DEF Send
<1> HIDE DEF n
<1>3. a.n \in Int /\ b.n \in Int
  BY <1>1
<1>4. \A u \in wire' : u.n \in Int
  BY <1>2, <1>3 DEF OrderInv
<1>5. UNCHANGED <<watermark, handling, submitted, shown>>
  BY DEF Send, backendVars
<1> QED BY <1>4, <1>5 DEF OrderInv

\* At first nothing is sent, handled, given to the translation or shown.
LEMMA InitOrder == SegmentsInit => OrderInv
BY DEF SegmentsInit, OrderInv

\* Every step keeps the order.
LEMMA StepKeepsOrder == PageInv /\ OrderInv /\ [SegmentsNext]_segment_vars => OrderInv'
<1> SUFFICES ASSUME PageInv, OrderInv, [SegmentsNext]_segment_vars PROVE OrderInv'
  OBVIOUS
<1>1. ASSUME UNCHANGED <<wire, backendVars>> PROVE OrderInv'
  BY <1>1 DEF OrderInv, backendVars
<1>2. ASSUME NEW t \in Texts, Interim(t) \/ Final(t) PROVE OrderInv'
  BY <1>2, SendKeepsOrder DEF Interim, Final
<1>3. ASSUME NEW i \in Texts, NEW t \in Texts, InterimAndFinal(i, t) PROVE OrderInv'
  BY <1>3, SendKeepsOrder DEF InterimAndFinal
<1>4. ASSUME PressStart \/ Begins \/ Ends \/ FailsForGood \/ PressStop \/ ChangeSetting PROVE OrderInv'
  BY <1>1, <1>4 DEF PressStart, Begins, Ends, FailsForGood, PressStop, ChangeSetting
<1>5. ASSUME ForceFinalize PROVE OrderInv'
  <2>1. CASE page.partial = NoText \/ ~recogniser.desired
    BY <1>1, <1>5, <2>1 DEF ForceFinalize
  <2>2. CASE ~(page.partial = NoText \/ ~recogniser.desired)
    BY <1>5, <2>2, SendKeepsOrder DEF ForceFinalize
  <2> QED BY <2>1, <2>2
<1>6. ASSUME Interrupt PROVE OrderInv'
  BY <1>6, SendKeepsOrder DEF Interrupt
<1>7. ASSUME NEW u \in wire, Build(u) PROVE OrderInv'
  <2>1. /\ u.n \in Int /\ wire' \subseteq wire /\ handling = {}
        /\ UNCHANGED <<submitted, shown>>
    BY <1>7 DEF Build, OrderInv
  <2>2. CASE Overtaken(u)
    BY <1>7, <2>1, <2>2 DEF Build, OrderInv
  <2>3. CASE ~Overtaken(u)
    <3>1. watermark' = u.n /\ watermark < u.n
      BY <1>7, <2>1, <2>3 DEF Build, Overtaken, OrderInv
    <3> DEFINE e == [segment |-> u.segment, kind |-> u.kind, n |-> u.n,
                     revision |-> Assigned(u).revision]
    <3>2. handling' = {e} /\ e.n = u.n
      BY <1>7, <2>3 DEF Build
    <3> HIDE DEF e
    <3>3. \A d \in submitted : d.n \in Int /\ d.n < watermark'
      BY <2>1, <3>1 DEF OrderInv
    <3> QED BY <2>1, <3>1, <3>2, <3>3 DEF OrderInv
  <2> QED BY <2>2, <2>3
<1>8. ASSUME HandleEvent PROVE OrderInv'
  <2>1. PICK e \in handling :
          /\ shown' = IF IsFinal(e) THEN None ELSE e
          /\ submitted' = IF IsFinal(e) THEN submitted \union {e} ELSE submitted
          /\ handling' = {} /\ UNCHANGED <<wire, watermark>>
    BY <1>8 DEF HandleEvent
  <2>2. e.n = watermark /\ watermark \in Int /\ \A d \in submitted : d.n \in Int /\ d.n < watermark
    BY DEF OrderInv
  <2>3. CASE IsFinal(e)
    BY <2>1, <2>2, <2>3 DEF OrderInv
  <2>4. CASE ~IsFinal(e)
    BY <2>1, <2>2, <2>4 DEF OrderInv
  <2> QED BY <2>3, <2>4
<1>9. ASSUME DropSocket PROVE OrderInv'
  BY <1>9 DEF DropSocket, OrderInv, backendVars
<1>10. ASSUME Noticed \/ Reconnect PROVE OrderInv'
  BY <1>1, <1>10 DEF Noticed, Reconnect
<1>11. ASSUME ClearScreen PROVE OrderInv'
  BY <1>11 DEF ClearScreen, OrderInv
<1>12. ASSUME ClearTracking PROVE OrderInv'
  BY <1>12 DEF ClearTracking, OrderInv
<1>13. ASSUME UNCHANGED segment_vars PROVE OrderInv'
  BY <1>1, <1>13 DEF segment_vars
<1> QED
  BY <1>2, <1>3, <1>4, <1>5, <1>6, <1>7, <1>8, <1>9, <1>10, <1>11, <1>12, <1>13 DEF SegmentsNext

\* Whatever is sent, lost, overtaken or cleared, a final that was handled is never followed
\* by an older partial on the screen.
THEOREM ScreenNeverFallsBack == SegmentsSpec => []NewestIsShown
<1>1. SegmentsInit => PageInv /\ OrderInv
  BY InitPage, InitOrder
<1>2. PageInv /\ OrderInv /\ [SegmentsNext]_segment_vars => (PageInv /\ OrderInv)'
  BY StepKeepsPage, StepKeepsOrder
<1>3. OrderInv => NewestIsShown
  BY DEF OrderInv, NewestIsShown
<1> QED BY <1>1, <1>2, <1>3, PTL DEF SegmentsSpec

-----------------------------------------------------------------------------
(* The identity of a final *)

KindsSent == {"partial", "forced", "final"}

\* Events that were built; all that the page has sent and that is still of interest; the segments
\* of which a partial is under way or was tracked last.
Seen == handling \union submitted
Out == wire \union Seen
Announced == {v.segment : v \in {u \in wire : u.kind = "partial"}} \union {tracking.active}

\* Within a segment the final of the recogniser comes last, a forced one before it.
Follows(u, v) == u.kind = "partial" \/ (u.kind = "forced" /\ v.kind = "final")
Before(u, v) == u.segment <= v.segment /\ (u.segment = v.segment => Follows(u, v))

\* A page p knows what is out of its segment: nothing final unless it was forced, and a partial
\* wherever it has an interim text.
InStep(p, out, announced) ==
  /\ p.current # NoSegment => p.current = p.ordinal
  /\ \A u \in out : u.segment <= p.ordinal
  /\ \A u \in out : u.segment = p.current /\ p.forced => u.kind # "final"
  /\ \A u \in out : u.segment = p.current /\ ~p.forced => u.kind = "partial"
  /\ p.current # NoSegment /\ ~p.forced /\ p.lastPartial # NoText => p.current \in announced
  /\ p.partial # NoText => p.current # NoSegment /\ ~p.forced /\ p.lastPartial # NoText

StreamTypes ==
  /\ \A u \in Out : u.segment \in Nat \ {0} /\ u.n \in Int /\ u.kind \in KindsSent
  /\ \A e \in submitted : e.kind # "partial"
  /\ \A e \in Seen : e.revision \in Nat
  /\ tracking.active \in Nat /\ tracking.revision \in Nat

Linked ==
  /\ link.open /\ ~link.unnoticed
  /\ cleanups.screen = 0 /\ cleanups.segments = 0

Ordered ==
  /\ watermark <= page.sent
  /\ \A u \in wire : watermark < u.n /\ u.n <= page.sent
  /\ \A u, v \in wire : u.n = v.n => u = v
  /\ \A u, v \in wire : u.n < v.n => Before(u, v)
  /\ \A e \in Seen, u \in wire : Before(e, u)
  /\ \A e, d \in Seen : e.n = d.n => e = d
  /\ \A e, d \in Seen : e.n < d.n => Before(e, d)

Tracked ==
  /\ tracking.active <= page.ordinal
  /\ tracking.active # NoSegment => tracking.revision >= 1
  /\ \A u \in wire : tracking.active <= u.segment
  /\ \A u \in wire : u.kind = "forced" =>
       \/ tracking.active = u.segment
       \/ \E v \in wire : v.n < u.n /\ v.segment = u.segment /\ v.kind = "partial"

Revised ==
  /\ \A e \in Seen : e.kind = "forced" => e.revision >= 2 /\ tracking.active # e.segment
  /\ \A e, d \in Seen :
       e.kind = "forced" /\ d.kind = "final" /\ e.segment = d.segment => d.revision = 1

Stream == StreamTypes /\ Linked /\ InStep(page, Out, Announced) /\ Ordered /\ Tracked /\ Revised

\* What holds of the updates until one is lost.
StreamInv == ~lost => Stream

\* A draft that continues the updates that are out.
FinalFits(d, out, announced) ==
  /\ d.final.segment = d.page.ordinal /\ d.final.segment # NoSegment
  /\ \/ /\ d.final.kind = "forced" /\ d.partial = NoSegment /\ d.page.forced
        /\ d.final.segment \in announced
        /\ \A u \in out : u.segment = d.final.segment => u.kind = "partial"
     \/ /\ d.final.kind = "final" /\ d.page.current = NoSegment
        /\ \A u \in out : u.segment = d.final.segment => u.kind # "final"

Fits(d, out, announced) ==
  /\ d.page \in Pages /\ d.page.ordinal >= page.ordinal /\ d.page.sent = page.sent
  /\ InStep(d.page, out, announced \union {d.partial})
  /\ d.partial \in {NoSegment, d.page.ordinal}
  /\ d.partial # NoSegment => \A u \in out : u.segment = d.partial => u.kind = "partial"
  /\ d.final = NoFinal \/ FinalFits(d, out, announced)

\* ensureActiveSegment opens a segment of which nothing is out, or keeps one in step.
LEMMA EnsuredInStep ==
  ASSUME NEW p \in Pages, NEW out, NEW announced, \A u \in out : u.segment \in Nat \ {0},
         InStep(p, out, announced)
  PROVE  /\ Ensured(p) \in Pages /\ InStep(Ensured(p), out, announced)
         /\ Ensured(p).current # NoSegment /\ ~Ensured(p).forced
         /\ Ensured(p).ordinal >= p.ordinal /\ Ensured(p).partial = p.partial
         /\ Ensured(p).sent = p.sent
<1>1. CASE p.current # NoSegment /\ ~p.forced
  <2>1. Ensured(p) = p /\ p.ordinal \in Nat
    BY <1>1 DEF Ensured, Pages
  <2> QED BY <1>1, <2>1
<1>2. CASE ~(p.current # NoSegment /\ ~p.forced)
  <2> DEFINE q == [p EXCEPT !.ordinal = @ + 1, !.current = p.ordinal + 1, !.lastPartial = NoText,
                            !.lastFinal = NoText, !.forced = FALSE]
  <2>1. Ensured(p) = q /\ q \in Pages
    BY <1>2, EnsuredType DEF Ensured
  <2>2. /\ q.current = p.ordinal + 1 /\ q.ordinal = p.ordinal + 1 /\ q.forced = FALSE
        /\ q.lastPartial = NoText /\ q.partial = p.partial /\ q.sent = p.sent
    BY <2>1 DEF Pages
  <2>3. p.ordinal \in Nat /\ p.partial = NoText
    BY <1>2 DEF Pages, InStep
  <2> HIDE DEF q
  <2>4. \A u \in out : u.segment <= p.ordinal /\ u.segment \in Nat
    BY DEF InStep
  <2>5. \A u \in out : u.segment # q.current /\ u.segment <= q.ordinal
    BY <2>2, <2>3, <2>4
  <2>6. InStep(q, out, announced)
    BY <2>2, <2>3, <2>5 DEF InStep
  <2>7. q.current # NoSegment /\ q.ordinal >= p.ordinal
    BY <2>2, <2>3
  <2> QED BY <2>1, <2>2, <2>6, <2>7
<1> QED BY <1>1, <1>2

\* An interim text is announced by a partial.
LEMMA InterimFits ==
  ASSUME page \in Pages, NEW out, NEW announced, \A u \in out : u.segment \in Nat \ {0},
         InStep(page, out, announced), NEW t \in Texts
  PROVE  /\ Fits(WithInterim(t), out, announced)
         /\ WithInterim(t).page.current # NoSegment
         /\ WithInterim(t).final = NoFinal
<1> DEFINE p == Ensured(page)
           q == [p EXCEPT !.partial = t, !.stable = @ \/ t # p.lastPartial]
           r == [q EXCEPT !.lastPartial = t, !.forced = FALSE]
           d == WithInterim(t)
<1>1. /\ p \in Pages /\ InStep(p, out, announced) /\ p.current # NoSegment /\ ~p.forced
      /\ p.ordinal >= page.ordinal /\ p.sent = page.sent
  BY EnsuredInStep
<1>2. t \in MaybeText /\ t # NoText
  BY NothingMadeIsNone
<1> HIDE DEF p
<1>3. \E b \in BOOLEAN : q = [p EXCEPT !.partial = t, !.stable = b]
  <2>1. CASE t = p.lastPartial
    <3>1. (p.stable \/ t # p.lastPartial) = p.stable /\ p.stable \in BOOLEAN
      BY <1>1, <2>1 DEF Pages
    <3> QED BY <3>1
  <2>2. CASE t # p.lastPartial
    <3>1. (p.stable \/ t # p.lastPartial) = TRUE
      BY <2>2
    <3> QED BY <3>1
  <2> QED BY <2>1, <2>2
<1>4. /\ q \in Pages /\ q.current = p.current /\ q.ordinal = p.ordinal /\ q.forced = p.forced
      /\ q.lastPartial = p.lastPartial /\ q.partial = t /\ q.sent = p.sent
  <2> PICK b \in BOOLEAN : q = [p EXCEPT !.partial = t, !.stable = b]
    BY <1>3
  <2> HIDE DEF q
  <2> QED BY <1>1, <1>2 DEF Pages
<1> HIDE DEF q
<1>5. /\ r \in Pages /\ r.current = p.current /\ r.ordinal = p.ordinal /\ r.forced = FALSE
      /\ r.lastPartial = t /\ r.partial = t /\ r.sent = p.sent
  BY <1>2, <1>4 DEF Pages
<1> HIDE DEF r
<1>6. p.current = p.ordinal /\ \A u \in out : u.segment = p.current => u.kind = "partial"
  BY <1>1 DEF InStep
<1>7. CASE t = p.lastPartial
  <2>1. d = Draft(q, NoSegment, NoFinal)
    BY <1>7 DEF WithInterim, p, q
  <2>2. d.page = q /\ d.partial = NoSegment /\ d.final = NoFinal
    BY <2>1 DEF Draft
  <2>3. InStep(q, out, announced \union {NoSegment})
    BY <1>1, <1>2, <1>4, <1>7 DEF InStep
  <2> QED BY <1>1, <1>4, <2>2, <2>3 DEF Fits
<1>8. CASE t # p.lastPartial
  <2>1. d = Draft(r, p.current, NoFinal)
    BY <1>8 DEF WithInterim, p, q, r
  <2>2. d.page = r /\ d.partial = p.current /\ d.final = NoFinal
    BY <2>1 DEF Draft
  <2>3. InStep(r, out, announced \union {p.current})
    BY <1>1, <1>2, <1>5 DEF InStep
  <2> QED BY <1>1, <1>5, <1>6, <2>2, <2>3 DEF Fits
<1> QED BY <1>7, <1>8

\* A forced final of a page with an interim text follows its partial.
LEMMA ForcedFits ==
  ASSUME NEW out, NEW announced, page \in Pages, InStep(page, out, announced),
         page.partial # NoText
  PROVE  /\ Fits(Forced(page), out, announced)
         /\ Fits([Forced(page) EXCEPT !.page.stable = FALSE], out, announced)
<1> DEFINE t == page.partial
           q == [page EXCEPT !.lastFinal = t, !.lastForced = t, !.forced = TRUE, !.partial = NoText]
           r == [q EXCEPT !.stable = FALSE]
           d == Forced(page)
           e == [Forced(page) EXCEPT !.page.stable = FALSE]
<1>1. d = [page |-> q, partial |-> NoSegment, final |-> FinalOf(page.current, "forced", t)]
  BY DEF Forced, Draft
<1>2. /\ d.page = q /\ d.partial = NoSegment /\ d.final = FinalOf(page.current, "forced", t)
      /\ e.page = r /\ e.partial = NoSegment /\ e.final = FinalOf(page.current, "forced", t)
  BY <1>1
<1>3. t \in MaybeText /\ NoText \in MaybeText
  BY NothingMadeIsNone DEF Pages
<1>4. /\ q \in Pages /\ q.current = page.current /\ q.ordinal = page.ordinal /\ q.forced = TRUE
      /\ q.partial = NoText /\ q.sent = page.sent
  BY <1>3 DEF Pages
<1> HIDE DEF q
<1>5. /\ r \in Pages /\ r.current = page.current /\ r.ordinal = page.ordinal /\ r.forced = TRUE
      /\ r.partial = NoText /\ r.sent = page.sent
  BY <1>4 DEF Pages
<1> HIDE DEF r, d, e
<1>6. /\ page.current # NoSegment /\ ~page.forced /\ page.current \in announced
      /\ page.current = page.ordinal
      /\ \A u \in out : u.segment = page.current => u.kind = "partial"
  BY DEF InStep
<1>7. \A x \in {q, r} : InStep(x, out, announced \union {NoSegment})
  BY <1>4, <1>5, <1>6 DEF InStep
<1>8. FinalFits(d, out, announced) /\ FinalFits(e, out, announced)
  BY <1>2, <1>4, <1>5, <1>6 DEF FinalFits, FinalOf
<1>9. page.ordinal \in Nat
  BY DEF Pages
<1>10. /\ d.page \in Pages /\ d.page.ordinal >= page.ordinal /\ d.page.sent = page.sent
       /\ e.page \in Pages /\ e.page.ordinal >= page.ordinal /\ e.page.sent = page.sent
  BY <1>2, <1>4, <1>5, <1>9
<1>11. /\ InStep(d.page, out, announced \union {d.partial})
       /\ InStep(e.page, out, announced \union {e.partial})
  BY <1>2, <1>7
<1>12. Fits(d, out, announced)
  BY <1>2, <1>8, <1>10, <1>11 DEF Fits
<1>13. Fits(e, out, announced)
  BY <1>2, <1>8, <1>10, <1>11 DEF Fits
<1> QED BY <1>12, <1>13 DEF d, e

\* A final of the recogniser is the last of its segment.
LEMMA FinalFitsIn ==
  ASSUME page \in Pages, NEW out, NEW announced, \A u \in out : u.segment \in Nat \ {0}, NEW d,
         Fits(d, out, announced), d.final = NoFinal,
         d.partial # NoSegment => d.page.current # NoSegment, NEW t \in Texts
  PROVE  Fits(WithFinal(d, t), out, announced)
<1> DEFINE p == IF d.page.current # NoSegment THEN d.page ELSE Ensured(d.page)
           q == [p EXCEPT !.partial = NoText]
           c == Consumed(q)
           r == [c EXCEPT !.stable = FALSE]
           w == WithFinal(d, t)
           known == announced \union {d.partial}
<1>1. w = CASE LateForced(p, t) -> Draft(c, d.partial, NoFinal)
            [] ~LateForced(p, t) /\ Suppressed(p, t) -> Draft(q, d.partial, NoFinal)
            [] OTHER -> Draft(r, d.partial, FinalOf(p.current, "final", t))
  BY DEF WithFinal
<1>2. /\ d.page \in Pages /\ InStep(d.page, out, known)
      /\ d.page.ordinal >= page.ordinal /\ d.page.sent = page.sent
  BY DEF Fits
<1>3. /\ p \in Pages /\ InStep(p, out, known) /\ p.current # NoSegment
      /\ p.ordinal >= d.page.ordinal /\ p.sent = page.sent
      /\ d.partial # NoSegment => p = d.page
  <2>1. CASE d.page.current # NoSegment
    <3>1. p = d.page /\ d.page.ordinal \in Nat
      BY <1>2, <2>1 DEF Pages
    <3> QED BY <1>2, <2>1, <3>1
  <2>2. CASE d.page.current = NoSegment
    <3>1. p = Ensured(d.page)
      BY <2>2
    <3> HIDE DEF p, known
    <3>2. /\ Ensured(d.page) \in Pages /\ InStep(Ensured(d.page), out, known)
          /\ Ensured(d.page).current # NoSegment
          /\ Ensured(d.page).ordinal >= d.page.ordinal
          /\ Ensured(d.page).sent = d.page.sent
      BY <1>2, EnsuredInStep
    <3> QED BY <1>2, <2>2, <3>1, <3>2
  <2> QED BY <2>1, <2>2
<1> HIDE DEF p, w, known
<1>4. /\ q \in Pages /\ q.current = p.current /\ q.ordinal = p.ordinal /\ q.forced = p.forced
      /\ q.lastPartial = p.lastPartial /\ q.partial = NoText /\ q.sent = p.sent
  BY <1>3, NothingMadeIsNone DEF Pages
<1> HIDE DEF q
<1>5. /\ c \in Pages /\ c.current = NoSegment /\ c.ordinal = p.ordinal /\ c.forced = FALSE
      /\ c.partial = NoText /\ c.sent = p.sent
  BY <1>4, NothingMadeIsNone DEF Consumed, Pages
<1> HIDE DEF c
<1>6. /\ r \in Pages /\ r.current = NoSegment /\ r.ordinal = p.ordinal /\ r.forced = FALSE
      /\ r.partial = NoText /\ r.sent = p.sent
  BY <1>5 DEF Pages
<1> HIDE DEF r
<1>7. InStep(q, out, known)
  BY <1>3, <1>4 DEF InStep
<1>8. \A x \in {c, r} : InStep(x, out, known)
  BY <1>3, <1>5, <1>6 DEF InStep
<1>9. /\ p.current = p.ordinal
      /\ \A u \in out : u.segment = p.current => u.kind # "final"
  <2>1. p.forced \in BOOLEAN
    BY <1>3 DEF Pages
  <2> QED BY <1>3, <2>1 DEF InStep
<1>10. p.ordinal >= page.ordinal
  <2>1. p.ordinal \in Nat /\ d.page.ordinal \in Nat /\ page.ordinal \in Nat
    BY <1>2, <1>3 DEF Pages
  <2> QED BY <1>2, <1>3, <2>1
<1>11. /\ d.partial \in {NoSegment, p.ordinal}
       /\ d.partial # NoSegment => \A u \in out : u.segment = d.partial => u.kind = "partial"
  BY <1>3 DEF Fits
<1>12. CASE LateForced(p, t)
  <2>1. w = Draft(c, d.partial, NoFinal)
    BY <1>1, <1>12
  <2>2. w.page = c /\ w.partial = d.partial /\ w.final = NoFinal
    BY <2>1 DEF Draft
  <2> QED BY <1>3, <1>5, <1>8, <1>10, <1>11, <2>2 DEF Fits, w, known
<1>13. CASE ~LateForced(p, t) /\ Suppressed(p, t)
  <2>1. w = Draft(q, d.partial, NoFinal)
    BY <1>1, <1>13
  <2>2. w.page = q /\ w.partial = d.partial /\ w.final = NoFinal
    BY <2>1 DEF Draft
  <2> QED BY <1>3, <1>4, <1>7, <1>10, <1>11, <2>2 DEF Fits, w, known
<1>14. CASE ~LateForced(p, t) /\ ~Suppressed(p, t)
  <2>1. w = Draft(r, d.partial, FinalOf(p.current, "final", t))
    BY <1>1, <1>14
  <2>2. w.page = r /\ w.partial = d.partial /\ w.final = FinalOf(p.current, "final", t)
    BY <2>1 DEF Draft
  <2>3. FinalFits(w, out, announced)
    BY <1>3, <1>6, <1>9, <2>2 DEF FinalFits, FinalOf
  <2> QED BY <1>3, <1>6, <1>8, <1>10, <1>11, <2>2, <2>3 DEF Fits, w, known
<1> QED BY <1>12, <1>13, <1>14

\* An update that is sent while the socket is open continues the updates that are out.
LEMMA SendStream ==
  ASSUME PageInv, OrderInv, Stream, ~lost', NEW d, Send(d), Fits(d, Out, Announced)
  PROVE  Stream'
<1> DEFINE n == (IF d.partial = NoSegment THEN 0 ELSE 1) + (IF d.final = NoFinal THEN 0 ELSE 1)
           a == [segment |-> d.partial, kind |-> "partial", n |-> page.sent + 1]
           b == [segment |-> d.final.segment, kind |-> d.final.kind, n |-> page.sent + n]
           new == {u \in {a, b} : u.segment # NoSegment}
<1>1. link.open
  BY DEF Stream, Linked
<1>2. page.sent \in Nat /\ page.ordinal \in Nat /\ d.page.ordinal \in Nat
  BY DEF PageInv, Remembers, Fits, Pages
<1>3. /\ d.page \in Pages /\ d.page.ordinal >= page.ordinal /\ d.page.sent = page.sent
      /\ InStep(d.page, Out, Announced \union {d.partial})
      /\ d.partial \in {NoSegment, d.page.ordinal}
      /\ d.partial # NoSegment => \A u \in Out : u.segment = d.partial => u.kind = "partial"
      /\ d.final = NoFinal \/ FinalFits(d, Out, Announced)
  BY DEF Fits
<1>4. /\ wire' = wire \union new
      /\ page' = [d.page EXCEPT !.sent = page.sent + n]
      /\ UNCHANGED <<link, watermark, handling, tracking, submitted, cleanups>>
  BY <1>1, <1>3 DEF Send, backendVars
<1>5. n \in 0..2 /\ (d.partial # NoSegment => n >= 1) /\ (d.final # NoFinal => n >= 1)
  OBVIOUS
<1>6. d.partial # NoSegment /\ d.final # NoFinal => n = 2
  OBVIOUS
<1>7. page.sent + n \in Nat
  BY <1>2, <1>5
<1>8. d.final = NoFinal => d.final.segment = NoSegment
  BY DEF NoFinal, FinalOf
<1>9. d.final # NoFinal => FinalFits(d, Out, Announced) /\ d.final.kind \in {"forced", "final"}
  BY <1>3 DEF FinalFits
<1>10. /\ a.segment = d.partial /\ a.kind = "partial" /\ a.n = page.sent + 1
       /\ b.segment = d.final.segment /\ b.kind = d.final.kind /\ b.n = page.sent + n
  OBVIOUS
<1>11. \A u \in new : /\ u.segment # NoSegment
                      /\ \/ u = a /\ d.partial # NoSegment
                         \/ u = b /\ d.final # NoFinal
  BY <1>8, <1>10
<1>12. d.partial # NoSegment => a \in new
  BY <1>10
<1> HIDE DEF n, a, b, new
<1>13. /\ page'.current = d.page.current /\ page'.ordinal = d.page.ordinal
       /\ page'.forced = d.page.forced /\ page'.lastPartial = d.page.lastPartial
       /\ page'.partial = d.page.partial /\ page'.sent = page.sent + n
  BY <1>3, <1>4, <1>7 DEF Pages
<1>14. Seen' = Seen /\ Out' = Out \union new
  BY <1>4 DEF Seen, Out
<1>15. \A u \in new : /\ u.segment = d.page.ordinal /\ u.n \in Int
                      /\ page.sent < u.n /\ u.n <= page.sent + n
                      /\ u.kind \in KindsSent
  <2>1. d.partial # NoSegment =>
          a.segment = d.page.ordinal /\ a.n \in Int /\ page.sent < a.n /\ a.n <= page.sent + n
    BY <1>2, <1>3, <1>5, <1>10
  <2>2. d.final # NoFinal =>
          b.segment = d.page.ordinal /\ b.n \in Int /\ page.sent < b.n /\ b.n <= page.sent + n
    BY <1>2, <1>5, <1>9, <1>10 DEF FinalFits
  <2> QED BY <1>9, <1>10, <1>11, <2>1, <2>2 DEF KindsSent
<1>16. /\ \A u \in Out : u.segment \in Nat \ {0} /\ u.n \in Int /\ u.kind \in KindsSent
       /\ \A u \in Out : u.segment <= d.page.ordinal
  BY <1>3 DEF Stream, StreamTypes, InStep
<1>17. StreamTypes'
  <2>1. \A u \in new : u.segment \in Nat \ {0}
    BY <1>2, <1>11, <1>15
  <2>2. \A u \in Out' : u.segment \in Nat \ {0} /\ u.n \in Int /\ u.kind \in KindsSent
    BY <1>14, <1>15, <1>16, <2>1
  <2> QED BY <1>4, <1>14, <2>2 DEF Stream, StreamTypes
<1>18. Linked'
  BY <1>4 DEF Stream, Linked
<1>19. \A c \in Announced \union {d.partial} : c # NoSegment => c \in Announced'
  <2>1. Announced \subseteq Announced'
    BY <1>4 DEF Announced
  <2>2. d.partial # NoSegment => d.partial \in Announced'
    BY <1>4, <1>10, <1>12 DEF Announced
  <2> QED BY <2>1, <2>2
<1>20. /\ \A u \in new : u.segment = d.page.current /\ d.page.forced => u.kind # "final"
       /\ \A u \in new : u.segment = d.page.current /\ ~d.page.forced => u.kind = "partial"
  <2>1. d.final # NoFinal /\ d.final.kind = "final" => d.page.current = NoSegment
    BY <1>9 DEF FinalFits
  <2>2. d.final # NoFinal /\ d.final.kind = "forced" => d.page.forced
    BY <1>9 DEF FinalFits
  <2> QED BY <1>9, <1>10, <1>11, <2>1, <2>2
<1>21. InStep(page, Out, Announced)'
  <2>1. \A u \in Out' : u.segment <= page'.ordinal
    BY <1>2, <1>13, <1>14, <1>15, <1>16
  <2>2. /\ \A u \in Out' : u.segment = page'.current /\ page'.forced => u.kind # "final"
        /\ \A u \in Out' : u.segment = page'.current /\ ~page'.forced => u.kind = "partial"
    BY <1>3, <1>13, <1>14, <1>20 DEF InStep
  <2>3. page'.current # NoSegment /\ ~page'.forced /\ page'.lastPartial # NoText
          => page'.current \in Announced'
    BY <1>3, <1>13, <1>19 DEF InStep
  <2>4. /\ page'.current # NoSegment => page'.current = page'.ordinal
        /\ page'.partial # NoText
             => page'.current # NoSegment /\ ~page'.forced /\ page'.lastPartial # NoText
    BY <1>3, <1>13 DEF InStep
  <2> QED BY <2>1, <2>2, <2>3, <2>4 DEF InStep
<1>22. \A u \in Out, v \in new : Before(u, v)
  <2> SUFFICES ASSUME NEW u \in Out, NEW v \in new PROVE Before(u, v)
    OBVIOUS
  <2>1. u.segment <= v.segment /\ v.segment = d.page.ordinal
    BY <1>15, <1>16
  <2>2. CASE v = a /\ d.partial # NoSegment
    BY <1>3, <1>10, <2>1, <2>2 DEF Before, Follows
  <2>3. CASE v = b /\ d.final # NoFinal
    <3>1. /\ v.segment = d.final.segment /\ v.kind = d.final.kind
          /\ FinalFits(d, Out, Announced)
      BY <1>9, <1>10, <2>3
    <3>2. u.segment = v.segment => u.kind = "partial" \/ (u.kind # "final" /\ v.kind = "final")
      BY <3>1 DEF FinalFits
    <3> QED BY <1>16, <2>1, <3>2 DEF Before, Follows, KindsSent
  <2> QED BY <1>11, <2>2, <2>3
<1>23. /\ \A u, v \in new : u.n = v.n => u = v
       /\ \A u, v \in new : u.n < v.n => Before(u, v)
  <2>1. d.partial # NoSegment /\ d.final # NoFinal => a.n < b.n /\ Before(a, b)
    <3>1. d.partial # NoSegment /\ d.final # NoFinal => a.segment = d.page.ordinal /\ b.segment = d.page.ordinal
      BY <1>3, <1>9, <1>10 DEF FinalFits
    <3> QED BY <1>2, <1>6, <1>10, <3>1 DEF Before, Follows
  <2>2. a.n \in Int /\ b.n \in Int
    BY <1>2, <1>5, <1>10
  <2> QED BY <1>11, <2>1, <2>2
<1>24. Ordered'
  <2>1. /\ watermark \in Int /\ watermark <= page.sent
        /\ \A u \in wire : u.n \in Int /\ watermark < u.n /\ u.n <= page.sent
    BY DEF Stream, Ordered, OrderInv
  <2>2. watermark' <= page'.sent /\ \A u \in wire' : watermark' < u.n /\ u.n <= page'.sent
    BY <1>2, <1>4, <1>5, <1>13, <1>15, <2>1
  <2>3. wire \subseteq Out /\ Seen \subseteq Out
    BY DEF Out
  <2>4. \A u \in wire, v \in new : u.n < v.n
    BY <1>2, <1>15, <2>1
  <2>5. \A u, v \in wire' : u.n = v.n => u = v
    BY <1>4, <1>15, <1>23, <2>1, <2>4 DEF Stream, Ordered
  <2>6. \A u, v \in wire' : u.n < v.n => Before(u, v)
    <3> SUFFICES ASSUME NEW u \in wire', NEW v \in wire', u.n < v.n PROVE Before(u, v)
      OBVIOUS
    <3>1. CASE u \in wire /\ v \in wire
      BY <3>1 DEF Stream, Ordered
    <3>2. CASE u \in wire /\ v \in new
      BY <1>22, <2>3, <3>2
    <3>3. CASE u \in new /\ v \in new
      BY <1>23, <3>3
    <3>4. ~(u \in new /\ v \in wire)
      BY <1>15, <2>1, <2>4
    <3> QED BY <1>4, <3>1, <3>2, <3>3, <3>4
  <2>7. \A e \in Seen', u \in wire' : Before(e, u)
    BY <1>4, <1>14, <1>22, <2>3 DEF Stream, Ordered
  <2>8. /\ \A e, f \in Seen' : e.n = f.n => e = f
        /\ \A e, f \in Seen' : e.n < f.n => Before(e, f)
    BY <1>14 DEF Stream, Ordered
  <2> QED BY <2>2, <2>5, <2>6, <2>7, <2>8 DEF Ordered
<1>25. Tracked'
  <2>1. tracking.active \in Nat /\ tracking.active <= page.ordinal
    BY DEF Stream, StreamTypes, Tracked
  <2>2. tracking'.active <= page'.ordinal
    BY <1>2, <1>3, <1>4, <1>13, <2>1
  <2>3. \A u \in new : tracking.active <= u.segment
    BY <1>2, <1>3, <1>15, <2>1
  <2>4. \A u \in wire' : tracking'.active <= u.segment
    BY <1>4, <2>3 DEF Stream, Tracked
  <2>5. ASSUME NEW u \in new, u.kind = "forced"
        PROVE  \/ tracking.active = u.segment
               \/ \E v \in wire : v.n < u.n /\ v.segment = u.segment /\ v.kind = "partial"
    <3>1. u.segment = d.final.segment /\ u.segment \in Announced
      BY <1>9, <1>10, <1>11, <2>5 DEF FinalFits
    <3>2. \A v \in wire : v.n < u.n
      BY <1>2, <1>15, <1>16 DEF Stream, Ordered, Out
    <3> QED BY <3>1, <3>2 DEF Announced
  <2>6. \A u \in wire' : u.kind = "forced" =>
          \/ tracking.active = u.segment
          \/ \E v \in wire' : v.n < u.n /\ v.segment = u.segment /\ v.kind = "partial"
    BY <1>4, <2>5 DEF Stream, Tracked
  <2> QED BY <1>4, <2>2, <2>4, <2>6 DEF Stream, Tracked
<1>26. Revised'
  BY <1>4, <1>14 DEF Stream, Revised
<1> QED BY <1>17, <1>18, <1>21, <1>24, <1>25, <1>26 DEF Stream

\* The stream does not depend on anything else, and an event that leaves it does no harm.
LEMMA StreamStays ==
  ASSUME Stream, Seen' \subseteq Seen, \A e \in submitted' : e.kind # "partial",
         page' = page, wire' = wire, watermark' = watermark, tracking' = tracking,
         link' = link, cleanups' = cleanups
  PROVE  Stream'
<1>1. Out' \subseteq Out /\ Announced' = Announced
  BY DEF Out, Announced
<1>2. StreamTypes'
  BY <1>1 DEF Stream, StreamTypes
<1>3. Linked'
  BY DEF Stream, Linked
<1>4. InStep(page, Out, Announced)'
  BY <1>1 DEF Stream, InStep
<1>5. Ordered'
  BY DEF Stream, Ordered
<1>6. Tracked'
  BY DEF Stream, Tracked
<1>7. Revised'
  BY DEF Stream, Revised
<1> QED BY <1>2, <1>3, <1>4, <1>5, <1>6, <1>7 DEF Stream

\* A page that gives up its segment and has no interim text.
LEMMA ResetStream ==
  ASSUME Stream, page \in Pages, NEW p \in Pages, p.ordinal = page.ordinal, p.sent = page.sent,
         p.partial = NoText, page' = Reset(p),
         UNCHANGED <<wire, backendVars, link, cleanups>>
  PROVE  Stream'
<1>1. Consumed(p) \in Pages
  BY NothingMadeIsNone DEF Consumed, Pages
<1>2. /\ Consumed(p).ordinal = page.ordinal /\ Consumed(p).sent = page.sent
      /\ Consumed(p).current = NoSegment /\ Consumed(p).partial = NoText
  BY DEF Consumed, Pages
<1>3. /\ page'.ordinal = page.ordinal /\ page'.sent = page.sent
      /\ page'.current = NoSegment /\ page'.partial = NoText
  BY <1>1, <1>2 DEF Reset, Pages
<1>4. /\ wire' = wire /\ watermark' = watermark /\ handling' = handling /\ tracking' = tracking
      /\ submitted' = submitted /\ link' = link /\ cleanups' = cleanups
  BY DEF backendVars
<1>5. Seen' = Seen /\ Out' = Out /\ Announced' = Announced
  BY <1>4 DEF Seen, Out, Announced
<1>6. StreamTypes'
  BY <1>4, <1>5 DEF Stream, StreamTypes
<1>7. Linked'
  BY <1>4 DEF Stream, Linked
<1>8. \A u \in Out : u.segment # NoSegment /\ u.segment <= page.ordinal
  BY DEF Stream, StreamTypes, InStep
<1>9. InStep(page, Out, Announced)'
  BY <1>3, <1>5, <1>8 DEF InStep
<1>10. Ordered'
  BY <1>3, <1>4, <1>5 DEF Stream, Ordered
<1>11. Tracked'
  BY <1>3, <1>4 DEF Stream, Tracked
<1>12. Revised'
  BY <1>4, <1>5 DEF Stream, Revised
<1> QED BY <1>6, <1>7, <1>9, <1>10, <1>11, <1>12 DEF Stream

\* The oldest update that is under way becomes the event in handle_event.
LEMMA BuildStream ==
  ASSUME page \in Pages, OrderInv, Stream, ~lost', NEW u \in wire, Build(u)
  PROVE  Stream'
<1> DEFINE x == [segment |-> u.segment, kind |-> u.kind, n |-> u.n, revision |-> Assigned(u).revision]
<1>1. /\ watermark \in Int /\ page.ordinal \in Nat
      /\ \A v \in wire : v.n \in Int /\ v.segment \in Nat \ {0} /\ v.kind \in KindsSent
      /\ \A e \in Seen : e.n \in Int /\ e.segment \in Nat \ {0} /\ e.kind \in KindsSent
      /\ \A e \in submitted : e.n <= watermark
  BY DEF Stream, StreamTypes, OrderInv, Out, Pages
<1>2. ~Overtaken(u) /\ handling = {}
  BY <1>1 DEF Build, Overtaken, Stream, Ordered
<1>3. /\ wire' = wire \ {u} /\ watermark' = u.n /\ handling' = {x}
      /\ tracking' = IF IsFinal(u) THEN [active |-> NoSegment, revision |-> 0] ELSE Assigned(u)
      /\ UNCHANGED <<page, link, submitted, cleanups>>
  BY <1>2 DEF Build, speechVars
<1>4. \A v \in wire' : v \in wire /\ u.n < v.n
  <2> SUFFICES ASSUME NEW v \in wire' PROVE v \in wire /\ u.n < v.n
    OBVIOUS
  <2>1. v \in wire /\ v # u
    BY <1>3
  <2>2. ~(v.n < u.n)
    BY <2>1 DEF Build
  <2>3. v.n # u.n
    BY <2>1 DEF Stream, Ordered
  <2> QED BY <1>1, <2>1, <2>2, <2>3
<1>5. x.segment = u.segment /\ x.kind = u.kind /\ x.n = u.n /\ x.revision = Assigned(u).revision
  OBVIOUS
<1>6. /\ tracking.active \in Nat /\ tracking.revision \in Nat /\ tracking.active <= page.ordinal
      /\ tracking.active # NoSegment => tracking.revision >= 1
      /\ tracking.active <= u.segment
  BY DEF Stream, StreamTypes, Tracked
<1>7. /\ Assigned(u).active = u.segment
      /\ tracking.active = u.segment => Assigned(u).revision = tracking.revision + 1
      /\ tracking.active # u.segment => Assigned(u).revision = 1
  BY <1>6 DEF Assigned
<1>8. Assigned(u).revision \in Nat /\ Assigned(u).revision >= 1
  BY <1>6, <1>7
<1>9. /\ IsFinal(u) => tracking'.active = NoSegment /\ tracking'.revision = 0
      /\ ~IsFinal(u) => tracking'.active = u.segment /\ tracking'.revision = Assigned(u).revision
  BY <1>3, <1>7
<1> HIDE DEF x
<1>10. Seen = submitted /\ Seen' = {x} \union submitted
  BY <1>2, <1>3 DEF Seen
<1>11. \A e \in submitted : e.kind # "partial" /\ Before(e, u)
  BY <1>10 DEF Stream, StreamTypes, Ordered
<1>12. StreamTypes'
  <2>1. \A v \in Out' : v.segment \in Nat \ {0} /\ v.n \in Int /\ v.kind \in KindsSent
    <3>1. \A v \in Out' : v \in wire \/ v \in Seen \/ v = x
      BY <1>4, <1>10 DEF Out
    <3> QED BY <1>1, <1>5, <3>1
  <2>2. \A e \in Seen' : e.revision \in Nat
    BY <1>5, <1>8, <1>10 DEF Stream, StreamTypes
  <2>3. tracking'.active \in Nat /\ tracking'.revision \in Nat
    BY <1>1, <1>8, <1>9
  <2>4. \A e \in submitted' : e.kind # "partial"
    BY <1>3, <1>11
  <2> QED BY <2>1, <2>2, <2>3, <2>4 DEF StreamTypes
<1>13. Linked'
  BY <1>3 DEF Stream, Linked
<1>14. u.segment <= page.ordinal
  BY DEF Stream, InStep, Out
<1>15. InStep(page, Out, Announced)'
  <2>1. \A v \in Out' : \E w \in Out : v.segment = w.segment /\ v.kind = w.kind
    <3>1. \A v \in Out' : v \in Out \/ v = x
      BY <1>4, <1>10 DEF Out
    <3>2. u \in Out
      BY DEF Out
    <3> QED BY <1>5, <3>1, <3>2
  <2>2. ASSUME page.current # NoSegment, ~page.forced, page.lastPartial # NoText
        PROVE  page.current \in Announced'
    <3>1. page.current \in Announced /\ page.current = page.ordinal
      BY <2>2 DEF Stream, InStep
    <3>2. CASE IsFinal(u)
      <4>1. u.segment # page.current
        BY <2>2, <3>2 DEF Stream, InStep, Out, IsFinal
      <4>2. tracking.active # page.current
        BY <1>1, <1>6, <1>14, <3>1, <4>1
      <4>3. PICK v \in wire : v.kind = "partial" /\ v.segment = page.current
        BY <3>1, <4>2 DEF Announced
      <4>4. v \in wire'
        BY <1>3, <3>2, <4>3 DEF IsFinal
      <4> QED BY <4>3, <4>4 DEF Announced
    <3>3. CASE ~IsFinal(u)
      <4>1. tracking'.active = u.segment
        BY <1>9, <3>3
      <4>2. CASE u.segment = page.current
        BY <4>1, <4>2 DEF Announced
      <4>3. CASE u.segment # page.current
        <5>1. tracking.active # page.current
          BY <1>1, <1>6, <1>14, <3>1, <4>3
        <5>2. PICK v \in wire : v.kind = "partial" /\ v.segment = page.current
          BY <3>1, <5>1 DEF Announced
        <5>3. v \in wire'
          BY <1>3, <4>3, <5>2
        <5> QED BY <5>2, <5>3 DEF Announced
      <4> QED BY <4>2, <4>3
    <3> QED BY <3>2, <3>3
  <2>3. page' = page
    BY <1>3
  <2> QED BY <2>1, <2>2, <2>3 DEF Stream, InStep
<1>16. \A e \in submitted : e.n < u.n
  <2>1. watermark < u.n /\ u.n \in Int
    BY <1>1 DEF Stream, Ordered
  <2>2. \A e \in submitted : e.n \in Int /\ e.n <= watermark
    BY <1>1, <1>10
  <2> QED BY <1>1, <2>1, <2>2
<1>17. Ordered'
  <2>1. watermark' <= page'.sent /\ \A v \in wire' : watermark' < v.n /\ v.n <= page'.sent
    BY <1>3, <1>4 DEF Stream, Ordered
  <2>2. /\ \A v, w \in wire' : v.n = w.n => v = w
        /\ \A v, w \in wire' : v.n < w.n => Before(v, w)
    BY <1>4 DEF Stream, Ordered
  <2>3. \A v \in wire' : Before(u, v)
    BY <1>4 DEF Stream, Ordered
  <2>4. \A v \in wire' : Before(x, v)
    BY <1>5, <2>3 DEF Before, Follows
  <2>5. \A e \in Seen', v \in wire' : Before(e, v)
    BY <1>4, <1>10, <2>4 DEF Stream, Ordered
  <2>6. \A e \in submitted : e.n < x.n /\ e.n # x.n /\ ~(x.n < e.n) /\ Before(e, x)
    <3>1. \A e \in submitted : Before(e, x)
      BY <1>5, <1>11 DEF Before, Follows
    <3> QED BY <1>1, <1>5, <1>10, <1>16, <3>1
  <2>7. ~(x.n < x.n)
    BY <1>1, <1>5
  <2>8. /\ \A e, d \in Seen' : e.n = d.n => e = d
        /\ \A e, d \in Seen' : e.n < d.n => Before(e, d)
    BY <1>10, <2>6, <2>7 DEF Stream, Ordered
  <2> QED BY <2>1, <2>2, <2>5, <2>8 DEF Ordered
<1>18. Tracked'
  <2>1. tracking'.active <= page'.ordinal
    <3>1. page' = page /\ u.segment \in Nat
      BY <1>1, <1>3
    <3> QED BY <1>1, <1>9, <1>14, <3>1
  <2>2. tracking'.active # NoSegment => tracking'.revision >= 1
    BY <1>8, <1>9
  <2>3. ASSUME NEW v \in wire' PROVE tracking'.active <= v.segment
    <3>1. Before(u, v) /\ v.segment \in Nat
      BY <1>1, <1>4 DEF Stream, Ordered
    <3> QED BY <1>9, <3>1 DEF Before
  <2>4. ASSUME NEW v \in wire', v.kind = "forced"
        PROVE  \/ tracking'.active = v.segment
               \/ \E w \in wire' : w.n < v.n /\ w.segment = v.segment /\ w.kind = "partial"
    <3>1. Before(u, v) /\ v \in wire
      BY <1>4 DEF Stream, Ordered
    <3>2. CASE tracking.active = v.segment
      <4>1. u.segment = v.segment
        BY <1>1, <1>6, <3>1, <3>2 DEF Before
      <4>2. u.kind = "partial"
        BY <2>4, <3>1, <4>1 DEF Before, Follows
      <4> QED BY <1>9, <4>1, <4>2 DEF IsFinal
    <3>3. CASE \E w \in wire : w.n < v.n /\ w.segment = v.segment /\ w.kind = "partial"
      <4>1. PICK w \in wire : w.n < v.n /\ w.segment = v.segment /\ w.kind = "partial"
        BY <3>3
      <4>2. CASE w = u
        BY <1>9, <4>1, <4>2 DEF IsFinal
      <4>3. CASE w # u
        BY <1>3, <4>1, <4>3
      <4> QED BY <4>2, <4>3
    <3> QED BY <2>4, <3>1, <3>2, <3>3 DEF Stream, Tracked
  <2> QED BY <2>1, <2>2, <2>3, <2>4 DEF Tracked
<1>19. Revised'
  <2>1. u.kind = "forced" => x.revision >= 2
    <3>1. u.kind = "forced" => tracking.active = u.segment
      <4>1. ~ \E v \in wire : v.n < u.n
        BY DEF Build
      <4> QED BY <4>1 DEF Stream, Tracked
    <3>2. u.segment # NoSegment
      BY <1>1
    <3> QED BY <1>5, <1>6, <1>7, <3>1, <3>2
  <2>2. ASSUME NEW e \in Seen', e.kind = "forced"
        PROVE  e.revision >= 2 /\ tracking'.active # e.segment
    <3>1. CASE e = x
      <4>1. IsFinal(u) /\ u.segment # NoSegment
        BY <1>1, <1>5, <2>2, <3>1 DEF IsFinal
      <4> QED BY <1>5, <1>9, <2>1, <2>2, <3>1, <4>1
    <3>2. CASE e \in submitted
      <4>1. e.revision >= 2 /\ Before(e, u) /\ e.segment # NoSegment
        BY <1>1, <1>10, <1>11, <2>2, <3>2 DEF Stream, Revised
      <4>2. e.segment = u.segment => u.kind = "final"
        BY <2>2, <4>1 DEF Before, Follows
      <4> QED BY <1>9, <4>1, <4>2 DEF IsFinal
    <3> QED BY <1>10, <3>1, <3>2
  <2>3. ASSUME NEW e \in Seen', NEW d \in Seen', e.kind = "forced", d.kind = "final",
               e.segment = d.segment
        PROVE  d.revision = 1
    <3>1. CASE e \in submitted /\ d \in submitted
      BY <1>10, <2>3, <3>1 DEF Stream, Revised
    <3>2. CASE e \in submitted /\ d = x
      <4>1. tracking.active # e.segment
        BY <1>10, <2>3, <3>2 DEF Stream, Revised
      <4> QED BY <1>5, <1>7, <2>3, <3>2, <4>1
    <3>3. ~(e = x /\ d \in submitted)
      BY <1>5, <1>11, <2>3 DEF Before, Follows
    <3>4. ~(e = x /\ d = x)
      BY <2>3
    <3> QED BY <1>10, <3>1, <3>2, <3>3, <3>4
  <2> QED BY <2>2, <2>3 DEF Revised
<1> QED BY <1>12, <1>13, <1>15, <1>17, <1>18, <1>19 DEF Stream

\* At first nothing is sent.
LEMMA InitStream == SegmentsInit => StreamInv
<1> SUFFICES ASSUME SegmentsInit PROVE Stream
  BY DEF StreamInv
<1>1. /\ page.current = 0 /\ page.ordinal = 0 /\ page.partial = NoText /\ page.sent = 0
      /\ wire = {} /\ handling = {} /\ submitted = {} /\ watermark = 0
      /\ tracking.active = 0 /\ tracking.revision = 0
      /\ link.open /\ ~link.unnoticed /\ cleanups.screen = 0 /\ cleanups.segments = 0
  BY DEF SegmentsInit, Blank
<1>2. Out = {} /\ Seen = {}
  BY <1>1 DEF Out, Seen
<1> QED BY <1>1, <1>2 DEF Stream, StreamTypes, Linked, InStep, Ordered, Tracked, Revised

\* Every step keeps the updates in order, until one is lost.
LEMMA StepKeepsStream ==
  PageInv /\ OrderInv /\ StreamInv /\ [SegmentsNext]_segment_vars => StreamInv'
<1> SUFFICES ASSUME PageInv, OrderInv, StreamInv, [SegmentsNext]_segment_vars, ~lost' PROVE Stream'
  BY DEF StreamInv
<1>1. page \in Pages /\ (page.partial # NoText => page.partial \in Texts)
  BY DEF PageInv, Remembers, Pages, MaybeText
<1>2. ASSUME ~lost, NEW d, Send(d), Fits(d, Out, Announced) PROVE Stream'
  BY <1>2, SendStream DEF StreamInv
<1>3. ASSUME Stream PROVE /\ InStep(page, Out, Announced)
                          /\ \A u \in Out : u.segment \in Nat \ {0}
  BY <1>3 DEF Stream, StreamTypes
<1>4. ASSUME Stream PROVE Fits(Draft(page, NoSegment, NoFinal), Out, Announced)
  <2>1. /\ Draft(page, NoSegment, NoFinal).page = page
        /\ Draft(page, NoSegment, NoFinal).partial = NoSegment
        /\ Draft(page, NoSegment, NoFinal).final = NoFinal
    BY DEF Draft
  <2>2. page.ordinal >= page.ordinal
    BY <1>1 DEF Pages
  <2>3. InStep(page, Out, Announced \union {NoSegment})
    BY <1>3, <1>4 DEF InStep
  <2> QED BY <1>1, <2>1, <2>2, <2>3 DEF Fits
<1>5. ASSUME ~lost, UNCHANGED <<page, wire, backendVars, link, cleanups>> PROVE Stream'
  <2>1. Stream
    BY <1>5 DEF StreamInv
  <2>2. /\ page' = page /\ wire' = wire /\ watermark' = watermark /\ tracking' = tracking
        /\ link' = link /\ cleanups' = cleanups /\ handling' = handling /\ submitted' = submitted
    BY <1>5 DEF backendVars
  <2>3. Seen' = Seen /\ \A e \in submitted' : e.kind # "partial"
    BY <2>1, <2>2 DEF Seen, Stream, StreamTypes
  <2> QED BY <2>1, <2>2, <2>3, StreamStays
<1>6. \A t \in Texts : Interim(t) => Stream'
  <2> SUFFICES ASSUME NEW t \in Texts, Interim(t) PROVE Stream'
    OBVIOUS
  <2>1. Send(WithInterim(t)) /\ ~lost
    BY DEF Interim, Send
  <2>2. Fits(WithInterim(t), Out, Announced)
    BY <1>1, <1>3, <2>1, InterimFits DEF StreamInv
  <2> QED BY <1>2, <2>1, <2>2
<1>7. \A t \in Texts : Final(t) => Stream'
  <2> SUFFICES ASSUME NEW t \in Texts, Final(t) PROVE Stream'
    OBVIOUS
  <2> DEFINE d == Draft(page, NoSegment, NoFinal)
  <2>1. Send(WithFinal(d, t)) /\ ~lost
    BY DEF Final, Send
  <2>2. Fits(d, Out, Announced) /\ d.final = NoFinal /\ d.partial = NoSegment
    BY <1>4, <2>1 DEF StreamInv, Draft
  <2> HIDE DEF d
  <2>3. Fits(WithFinal(d, t), Out, Announced)
    BY <1>1, <1>3, <2>1, <2>2, FinalFitsIn DEF StreamInv
  <2> QED BY <1>2, <2>1, <2>3
<1>8. \A i, t \in Texts : InterimAndFinal(i, t) => Stream'
  <2> SUFFICES ASSUME NEW i \in Texts, NEW t \in Texts, InterimAndFinal(i, t) PROVE Stream'
    OBVIOUS
  <2> DEFINE d == WithInterim(i)
  <2>1. Send(WithFinal(d, t)) /\ ~lost
    BY DEF InterimAndFinal, Send
  <2>2. Fits(d, Out, Announced) /\ d.final = NoFinal /\ d.page.current # NoSegment
    BY <1>1, <1>3, <2>1, InterimFits DEF StreamInv
  <2> HIDE DEF d
  <2>3. Fits(WithFinal(d, t), Out, Announced)
    BY <1>1, <1>3, <2>1, <2>2, FinalFitsIn DEF StreamInv
  <2> QED BY <1>2, <2>1, <2>3
<1>9. Ends => Stream'
  <2> SUFFICES ASSUME Ends PROVE Stream'
    OBVIOUS
  <2>1. CASE recogniser.desired
    BY <1>5, <2>1 DEF Ends
  <2>2. CASE ~recogniser.desired
    <3>1. /\ ~lost /\ page.partial = NoText /\ page' = Reset(page)
          /\ UNCHANGED <<wire, backendVars, link, cleanups>>
      BY <2>2 DEF Ends
    <3> QED BY <1>1, <3>1, ResetStream DEF StreamInv
  <2> QED BY <2>1, <2>2
<1>10. PressStop => Stream'
  <2> SUFFICES ASSUME PressStop PROVE Stream'
    OBVIOUS
  <2> DEFINE p == [page EXCEPT !.partial = NoText]
  <2>1. /\ ~lost /\ page' = Reset(p) /\ UNCHANGED <<wire, backendVars, link, cleanups>>
    BY DEF PressStop
  <2>2. p \in Pages /\ p.ordinal = page.ordinal /\ p.sent = page.sent /\ p.partial = NoText
    BY <1>1, NothingMadeIsNone DEF Pages
  <2> HIDE DEF p
  <2> QED BY <1>1, <2>1, <2>2, ResetStream DEF StreamInv
<1>11. ForceFinalize => Stream'
  <2> SUFFICES ASSUME ForceFinalize PROVE Stream'
    OBVIOUS
  <2> DEFINE p == Ensured(page)
             q == [p EXCEPT !.partial = NoText]
             d == Draft(q, NoSegment, NoFinal)
  <2>1. CASE page.partial = NoText \/ ~recogniser.desired
    BY <1>5, <2>1 DEF ForceFinalize
  <2>2. CASE ~(page.partial = NoText \/ ~recogniser.desired)
    <3>1. Send(IF Suppressed(p, page.partial) THEN d ELSE Forced(p)) /\ ~lost
      BY <2>2 DEF ForceFinalize, Send
    <3>2. Stream
      BY <3>1 DEF StreamInv
    <3>3. p = page
      BY <1>3, <2>2, <3>2 DEF InStep, Ensured
    <3>4. CASE Suppressed(p, page.partial)
      <4>1. Send(d)
        BY <3>1, <3>4
      <4>2. q = [page EXCEPT !.partial = NoText]
        BY <3>3
      <4> HIDE DEF p
      <4>3. /\ q \in Pages /\ q.current = page.current /\ q.ordinal = page.ordinal
            /\ q.forced = page.forced /\ q.lastPartial = page.lastPartial
            /\ q.partial = NoText /\ q.sent = page.sent
        BY <1>1, <4>2, NothingMadeIsNone DEF Pages
      <4> HIDE DEF q
      <4>4. d.page = q /\ d.partial = NoSegment /\ d.final = NoFinal
        BY DEF Draft
      <4> HIDE DEF d
      <4>5. q.ordinal >= page.ordinal
        BY <1>1, <4>3 DEF Pages
      <4>6. InStep(q, Out, Announced \union {NoSegment})
        BY <1>3, <3>2, <4>3 DEF InStep
      <4>7. Fits(d, Out, Announced)
        BY <4>3, <4>4, <4>5, <4>6 DEF Fits
      <4> QED BY <1>2, <3>1, <4>1, <4>7
    <3>5. CASE ~Suppressed(p, page.partial)
      <4>1. Send(Forced(page))
        BY <3>1, <3>3, <3>5
      <4>2. Fits(Forced(page), Out, Announced)
        BY <1>1, <1>3, <2>2, <3>2, ForcedFits
      <4> QED BY <1>2, <3>1, <4>1, <4>2
    <3> QED BY <3>4, <3>5
  <2> QED BY <2>1, <2>2
<1>12. Interrupt => Stream'
  <2> SUFFICES ASSUME Interrupt PROVE Stream'
    OBVIOUS
  <2> DEFINE p == IF page.current # NoSegment THEN page ELSE Ensured(page)
  <2>1. Send([Forced(p) EXCEPT !.page.stable = FALSE]) /\ page.partial # NoText
    BY DEF Interrupt
  <2>2. ~lost
    BY <2>1 DEF Send
  <2>3. Stream
    BY <2>2 DEF StreamInv
  <2>4. p = page
    BY <1>3, <2>1, <2>3 DEF InStep
  <2> HIDE DEF p
  <2>5. Fits([Forced(page) EXCEPT !.page.stable = FALSE], Out, Announced)
    BY <1>1, <1>3, <2>1, <2>3, ForcedFits
  <2> QED BY <1>2, <2>1, <2>2, <2>4, <2>5
<1>13. ASSUME PressStart \/ Begins \/ FailsForGood \/ ChangeSetting PROVE Stream'
  BY <1>5, <1>13 DEF PressStart, Begins, FailsForGood, ChangeSetting
<1>14. ASSUME NEW u \in wire, Build(u) PROVE Stream'
  <2>1. ~lost
    BY <1>14 DEF Build
  <2> QED BY <1>1, <1>14, <2>1, BuildStream DEF StreamInv
<1>15. HandleEvent => Stream'
  <2> SUFFICES ASSUME HandleEvent PROVE Stream'
    OBVIOUS
  <2>1. PICK e \in handling :
          /\ submitted' = IF IsFinal(e) THEN submitted \union {e} ELSE submitted
          /\ handling' = {}
          /\ UNCHANGED <<page, wire, watermark, tracking, link, cleanups, lost>>
    BY DEF HandleEvent, speechVars
  <2>2. Stream
    BY <2>1 DEF StreamInv
  <2>3. Seen' \subseteq Seen /\ \A d \in submitted' : d.kind # "partial"
    BY <2>1, <2>2 DEF Seen, IsFinal, Stream, StreamTypes
  <2> QED BY <2>1, <2>2, <2>3, StreamStays
<1>16. ~DropSocket
  BY DEF DropSocket
<1>17. ~Noticed /\ ~Reconnect /\ ~ClearScreen /\ ~ClearTracking
  <2>1. Noticed \/ Reconnect \/ ClearScreen \/ ClearTracking => Linked
    BY DEF Noticed, Reconnect, ClearScreen, ClearTracking, StreamInv, Stream
  <2> QED BY <2>1 DEF Noticed, Reconnect, ClearScreen, ClearTracking, Linked
<1>18. UNCHANGED segment_vars => Stream'
  BY <1>5 DEF segment_vars, speechVars
<1> QED
  BY <1>6, <1>7, <1>8, <1>9, <1>10, <1>11, <1>12, <1>13, <1>14, <1>15, <1>16, <1>17, <1>18
     DEF SegmentsNext

\* Updates in order give each final an identity of its own.
LEMMA StreamIdentifies == OrderInv /\ StreamInv => IdentityOfOneFinal
<1> SUFFICES ASSUME OrderInv, Stream, NEW e \in submitted, NEW d \in submitted,
                    e.segment = d.segment, e.revision = d.revision, e # d
             PROVE  FALSE
  BY DEF StreamInv, IdentityOfOneFinal
<1>1. e \in Seen /\ d \in Seen /\ e.n \in Int /\ d.n \in Int
  BY DEF Seen, OrderInv
<1>2. e.kind # "partial" /\ d.kind # "partial"
  BY DEF Stream, StreamTypes
<1>3. e.n < d.n \/ d.n < e.n
  BY <1>1 DEF Stream, Ordered
<1>4. \/ e.kind = "forced" /\ d.kind = "final"
      \/ d.kind = "forced" /\ e.kind = "final"
  BY <1>1, <1>2, <1>3 DEF Stream, Ordered, Before, Follows
<1> QED BY <1>1, <1>4 DEF Stream, Revised

\* As long as no update is lost or overtaken, and no interim text loses its segment, a
\* segment and its revision name one final, whatever is forced, interrupted or stopped.
THEOREM FinalsKeepTheirIdentity == SegmentsSpec => []IdentityOfOneFinal
<1>1. SegmentsInit => PageInv /\ OrderInv /\ StreamInv
  BY InitPage, InitOrder, InitStream
<1>2. PageInv /\ OrderInv /\ StreamInv /\ [SegmentsNext]_segment_vars
        => (PageInv /\ OrderInv /\ StreamInv)'
  BY StepKeepsPage, StepKeepsOrder, StepKeepsStream
<1> QED BY <1>1, <1>2, StreamIdentifies, PTL DEF SegmentsSpec

=============================================================================
