-------------------------- MODULE ProviderLimitsProofs --------------------------
(* Theorems about ProviderLimits, for any finite set of lines, any limits, any    *)
(* interval and any number of ticks, attempts and edits; and about the cache of   *)
(* TranslationEngine, which the lines of a provider share.                        *)
EXTENDS ProviderLimits, TranslationEngine, FiniteSetTheorems, SequenceTheorems, TLAPS

Guards == {"none", "mutex", "semaphore"}
Places == {"away", "wait", "held", "rate", "call", "pause"}
CallSet == [pc : Places, guard : Guards, until : Nat, ends : Nat, attempt : Nat]

LimitsTypeOK ==
  /\ clock \in Nat /\ limit \in Nat /\ edited \in Nat /\ gateSize \in Nat
  /\ allowedAt \in Nat /\ started \in Nat
  /\ calls \in [Lines -> CallSet]

\* A guard is held by no more lines than it admits; as long as the limit was left alone all
\* lines ask for the same guard, and the semaphore has as many permits as the limit says.
GuardInv ==
  /\ Cardinality(Holding("mutex")) <= 1
  /\ Cardinality(Holding("semaphore")) <= gateSize
  /\ edited = 0 => /\ gateSize \in {0, limit}
                   /\ \A l \in Lines : calls[l].pc # "away" => calls[l].guard = GuardOf(limit)

\* The lines that have reserved a slot which comes no later than t.
Reserved(t) == {l \in Lines : calls[l].pc = "rate" /\ calls[l].until <= t}
Waiting == {l \in Lines : calls[l].pc = "rate"}

\* Up to any moment from now on there is room for the calls that have begun and for those
\* whose slot will have come; all slots given away lie before the next one.
PaceInv ==
  /\ (started + Cardinality(Waiting)) * Interval <= allowedAt
  /\ \A t \in Nat : t >= clock => (started + Cardinality(Reserved(t))) * Interval <= t + Interval

LimitsInv == LimitsTypeOK /\ GuardInv /\ PaceInv

USE LimitsAssumption

-----------------------------------------------------------------------------
(* What a step does to one line and to the sets of lines *)

\* A line goes on; the others stay where they are.
LEMMA OneLineSteps ==
  ASSUME LimitsTypeOK, NEW l \in Lines, NEW rec \in CallSet, Steps(l, rec)
  PROVE  /\ calls' \in [Lines -> CallSet]
         /\ calls'[l] = rec
         /\ \A m \in Lines : m # l => calls'[m] = calls[m]
BY DEF Steps, LimitsTypeOK

\* The sets that the invariant counts are finite.
LEMMA SetsFinite ==
  /\ \A g : IsFiniteSet(Holding(g)) /\ Cardinality(Holding(g)) \in Nat
  /\ IsFiniteSet(Waiting) /\ Cardinality(Waiting) \in Nat
  /\ \A t : IsFiniteSet(Reserved(t)) /\ Cardinality(Reserved(t)) \in Nat
<1>1. \A S \in SUBSET Lines : IsFiniteSet(S) /\ Cardinality(S) \in Nat
  BY FS_Subset, FS_CardinalityType
<1> QED BY <1>1 DEF Holding, Waiting, Reserved

\* The same after a step.
LEMMA SetsStayFinite ==
  /\ \A g : IsFiniteSet(Holding(g)') /\ Cardinality(Holding(g)') \in Nat
  /\ IsFiniteSet(Waiting') /\ Cardinality(Waiting') \in Nat
  /\ \A t : IsFiniteSet(Reserved(t)') /\ Cardinality(Reserved(t)') \in Nat
<1>1. \A S \in SUBSET Lines : IsFiniteSet(S) /\ Cardinality(S) \in Nat
  BY FS_Subset, FS_CardinalityType
<1> QED BY <1>1 DEF Holding, Waiting, Reserved

\* A step that lets no line take a guard keeps the guards.
LEMMA NobodyEnters ==
  ASSUME GuardInv, LimitsTypeOK, UNCHANGED <<limit, edited, gateSize>>,
         \A m \in Lines : /\ calls'[m].pc \in {"held", "rate", "call", "pause"}
                             => /\ calls[m].pc \in {"held", "rate", "call", "pause"}
                                /\ calls'[m].guard = calls[m].guard
                          /\ calls'[m].pc # "away" => /\ calls[m].pc # "away"
                                                      /\ calls'[m].guard = calls[m].guard
  PROVE  GuardInv'
<1>1. \A g : Holding(g)' \subseteq Holding(g)
  BY DEF Holding
<1>2. \A g : Cardinality(Holding(g)') <= Cardinality(Holding(g))
  BY <1>1, SetsFinite, FS_Subset
<1>3. Cardinality(Holding("mutex")') <= 1
  BY <1>2, SetsFinite, SetsStayFinite DEF GuardInv
<1>4. Cardinality(Holding("semaphore")') <= gateSize'
  BY <1>2, SetsFinite, SetsStayFinite DEF GuardInv, LimitsTypeOK
<1>5. edited' = 0 => /\ gateSize' \in {0, limit'}
                     /\ \A m \in Lines : calls'[m].pc # "away" => calls'[m].guard = GuardOf(limit')
  BY DEF GuardInv
<1> QED BY <1>3, <1>4, <1>5 DEF GuardInv

\* Fewer intervals take less time.
LEMMA FewerCost ==
  ASSUME NEW m \in Nat, NEW n \in Nat, NEW k \in Nat, NEW b \in Int, m <= n, (k + n) * Interval <= b
  PROVE  (k + m) * Interval <= b /\ k * Interval <= b
<1>1. \A i, j \in Nat : (k + i + j) * Interval = (k + i) * Interval + j * Interval
  OBVIOUS
<1>2. \A j \in Nat : j * Interval >= 0 /\ j * Interval \in Int
  OBVIOUS
<1>3. n - m \in Nat /\ n = m + (n - m)
  OBVIOUS
<1> QED BY <1>1, <1>2, <1>3

\* A step that lets no line take a slot keeps the pace.
LEMMA NobodyReserves ==
  ASSUME PaceInv, LimitsTypeOK, LimitsTypeOK', UNCHANGED allowedAt, clock' >= clock, started' = started,
         \A m \in Lines : calls'[m].pc = "rate" => calls[m].pc = "rate" /\ calls'[m].until = calls[m].until
  PROVE  PaceInv'
<1>1. Waiting' \subseteq Waiting /\ \A t : Reserved(t)' \subseteq Reserved(t)
  BY DEF Waiting, Reserved
<1>2. /\ Cardinality(Waiting') <= Cardinality(Waiting)
      /\ \A t : Cardinality(Reserved(t)') <= Cardinality(Reserved(t))
  BY <1>1, SetsFinite, FS_Subset
<1>4. (started' + Cardinality(Waiting')) * Interval <= allowedAt'
  BY <1>2, FewerCost, SetsFinite, SetsStayFinite DEF PaceInv, LimitsTypeOK
<1>5. ASSUME NEW t \in Nat, t >= clock'
      PROVE  (started' + Cardinality(Reserved(t)')) * Interval <= t + Interval
  <2>1. t >= clock
    BY <1>5 DEF LimitsTypeOK
  <2>2. (started + Cardinality(Reserved(t))) * Interval <= t + Interval
    BY <2>1 DEF PaceInv
  <2> QED BY <1>2, <2>2, FewerCost, SetsFinite, SetsStayFinite DEF LimitsTypeOK
<1> QED BY <1>4, <1>5 DEF PaceInv

\* A line that goes on with the guard it holds keeps the invariant.
LEMMA LineStays ==
  ASSUME LimitsInv, NEW l \in Lines, NEW rec \in CallSet, Steps(l, rec),
         UNCHANGED <<clock, limit, edited, gateSize, allowedAt, started>>,
         rec.pc \in {"call", "pause"}, calls[l].pc \in {"call", "pause"}, rec.guard = calls[l].guard
  PROVE  LimitsInv'
<1>1. calls' \in [Lines -> CallSet] /\ calls'[l] = rec /\ \A m \in Lines : m # l => calls'[m] = calls[m]
  BY OneLineSteps DEF LimitsInv
<1>2. LimitsTypeOK' /\ clock' >= clock
  BY <1>1 DEF LimitsInv, LimitsTypeOK
<1>3. GuardInv'
  BY <1>1, NobodyEnters DEF LimitsInv
<1>4. PaceInv'
  BY <1>1, <1>2, NobodyReserves DEF LimitsInv
<1> QED BY <1>2, <1>3, <1>4 DEF LimitsInv

\* So does a line that leaves, wherever it is.
LEMMA LineLeaves ==
  ASSUME LimitsInv, NEW l \in Lines, Steps(l, Away),
         UNCHANGED <<clock, limit, edited, gateSize, allowedAt, started>>
  PROVE  LimitsInv'
<1>1. Away \in CallSet /\ Away.pc = "away"
  BY DEF Away, CallSet, Places, Guards
<1>2. calls' \in [Lines -> CallSet] /\ calls'[l] = Away /\ \A m \in Lines : m # l => calls'[m] = calls[m]
  BY <1>1, OneLineSteps DEF LimitsInv
<1>3. LimitsTypeOK' /\ clock' >= clock
  BY <1>2 DEF LimitsInv, LimitsTypeOK
<1>4. GuardInv'
  BY <1>1, <1>2, NobodyEnters DEF LimitsInv
<1>5. PaceInv'
  BY <1>1, <1>2, <1>3, NobodyReserves DEF LimitsInv
<1> QED BY <1>3, <1>4, <1>5 DEF LimitsInv

-----------------------------------------------------------------------------
(* The actions *)

\* At the start nothing is held, reserved or called.
LEMMA InitLimits == LimitsInit => LimitsInv
<1> SUFFICES ASSUME LimitsInit PROVE LimitsInv
  OBVIOUS
<1>1. LimitsTypeOK
  BY DEF LimitsInit, LimitsTypeOK, Away, CallSet, Places, Guards
<1>2. /\ Holding("mutex") = {} /\ Holding("semaphore") = {} /\ Waiting = {}
      /\ \A t : Reserved(t) = {}
  BY DEF LimitsInit, Away, Holding, Waiting, Reserved
<1>3. GuardInv
  BY <1>1, <1>2, FS_EmptySet DEF GuardInv, LimitsInit, Away, LimitsTypeOK
<1>4. started + Cardinality(Waiting) = 0 /\ \A t : started + Cardinality(Reserved(t)) = 0
  BY <1>2, FS_EmptySet DEF LimitsInit
<1>5. 0 * Interval = 0 /\ 0 * Interval <= allowedAt /\ \A t \in Nat : 0 * Interval <= t + Interval
  BY DEF LimitsInit
<1>6. PaceInv
  BY <1>4, <1>5 DEF PaceInv
<1> QED BY <1>1, <1>3, <1>6 DEF LimitsInv

\* A line begins: it waits for the guard that the limit asks for.
LEMMA BeginsKeeps == ASSUME LimitsInv, NEW l \in Lines, Begins(l) PROVE LimitsInv'
<1> DEFINE guard == GuardOf(limit)
           rec == [Away EXCEPT !.pc = "wait", !.guard = guard, !.ends = clock + LineTime]
<1>1. guard \in Guards /\ clock + LineTime \in Nat
  BY DEF LimitsInv, LimitsTypeOK, GuardOf, Guards
<1>2. /\ rec \in CallSet /\ rec.pc = "wait" /\ rec.guard = guard
  BY <1>1 DEF Away, CallSet, Places
<1>3. /\ Steps(l, rec) /\ calls[l].pc = "away"
      /\ gateSize' = IF guard = "semaphore" /\ gateSize = 0 THEN limit ELSE gateSize
      /\ UNCHANGED <<clock, limit, edited, allowedAt, started>>
  BY DEF Begins
<1> HIDE DEF rec, guard
<1>4. calls' \in [Lines -> CallSet] /\ calls'[l] = rec /\ \A m \in Lines : m # l => calls'[m] = calls[m]
  BY <1>2, <1>3, OneLineSteps DEF LimitsInv
<1>5. LimitsTypeOK'
  BY <1>3, <1>4 DEF LimitsInv, LimitsTypeOK
<1>6. PaceInv'
  BY <1>2, <1>3, <1>4, <1>5, NobodyReserves DEF LimitsInv, LimitsTypeOK
<1>7. \A g : Holding(g)' = Holding(g)
  BY <1>2, <1>3, <1>4 DEF Holding
<1>8. gateSize <= gateSize' /\ gateSize' \in Nat
  BY <1>3 DEF LimitsInv, LimitsTypeOK
<1>9. Cardinality(Holding("semaphore")') <= gateSize'
  BY <1>7, <1>8, SetsFinite DEF LimitsInv, GuardInv, LimitsTypeOK
<1>10. edited' = 0 => gateSize' \in {0, limit'}
  BY <1>3 DEF LimitsInv, GuardInv
<1>11. edited' = 0 => \A m \in Lines : calls'[m].pc # "away" => calls'[m].guard = GuardOf(limit')
  BY <1>2, <1>3, <1>4 DEF LimitsInv, GuardInv, guard
<1> QED BY <1>5, <1>6, <1>7, <1>9, <1>10, <1>11 DEF LimitsInv, GuardInv

\* A line takes its guard when it admits one more.
LEMMA EntersKeeps == ASSUME LimitsInv, NEW l \in Lines, Enters(l) PROVE LimitsInv'
<1>0. PICK guard : guard = calls[l].guard
  OBVIOUS
<1> DEFINE rec == [calls[l] EXCEPT !.pc = "held"]
<1>1. calls[l] \in CallSet /\ guard \in Guards
  BY <1>0 DEF LimitsInv, LimitsTypeOK, CallSet
<1>2. rec \in CallSet /\ rec.pc = "held" /\ rec.guard = guard
  BY <1>0, <1>1 DEF CallSet, Places
<1>3. /\ Steps(l, rec) /\ calls[l].pc = "wait" /\ Admits(guard)
      /\ UNCHANGED <<clock, limit, edited, gateSize, allowedAt, started>>
  BY <1>0 DEF Enters
<1> HIDE DEF rec
<1>4. calls' \in [Lines -> CallSet] /\ calls'[l] = rec /\ \A m \in Lines : m # l => calls'[m] = calls[m]
  BY <1>2, <1>3, OneLineSteps DEF LimitsInv
<1>5. LimitsTypeOK'
  BY <1>3, <1>4 DEF LimitsInv, LimitsTypeOK
<1>6. PaceInv'
  BY <1>2, <1>3, <1>4, <1>5, NobodyReserves DEF LimitsInv, LimitsTypeOK
<1>7. /\ Holding(guard)' = Holding(guard) \cup {l}
      /\ \A g : g # guard => Holding(g)' = Holding(g)
  BY <1>0, <1>2, <1>3, <1>4 DEF Holding
<1>8. Cardinality(Holding(guard)') <= Cardinality(Holding(guard)) + 1
  <2>1. Cardinality(Holding(guard) \cup {l}) \in {Cardinality(Holding(guard)), Cardinality(Holding(guard)) + 1}
    BY SetsFinite, FS_AddElement
  <2> QED BY <1>7, <2>1, SetsFinite
<1>9. guard = "mutex" => Cardinality(Holding("mutex")') <= 1
  <2> SUFFICES ASSUME guard = "mutex" PROVE Cardinality(Holding("mutex")') <= 1
    OBVIOUS
  <2>1. Holding("mutex") = {}
    BY <1>3 DEF Admits
  <2>2. Holding("mutex")' = {l}
    BY <1>7, <2>1
  <2> QED BY <2>2, FS_Singleton
<1>10. guard = "semaphore" => Cardinality(Holding("semaphore")) < gateSize
  BY <1>3 DEF Admits
<1>11. guard = "semaphore" => Cardinality(Holding("semaphore")') <= gateSize
  BY <1>8, <1>10, SetsFinite, SetsStayFinite DEF LimitsInv, LimitsTypeOK
<1>12. Cardinality(Holding("mutex")') <= 1
  BY <1>7, <1>9 DEF LimitsInv, GuardInv
<1>13. Cardinality(Holding("semaphore")') <= gateSize'
  BY <1>3, <1>7, <1>11 DEF LimitsInv, GuardInv
<1>14. edited' = 0 => /\ gateSize' \in {0, limit'}
                      /\ \A m \in Lines : calls'[m].pc # "away" => calls'[m].guard = GuardOf(limit')
  BY <1>0, <1>2, <1>3, <1>4 DEF LimitsInv, GuardInv
<1> QED BY <1>5, <1>6, <1>12, <1>13, <1>14 DEF LimitsInv, GuardInv

\* A line takes the next slot of the provider, which is not before now.
LEMMA ReservesKeeps == ASSUME LimitsInv, NEW l \in Lines, Reserves(l) PROVE LimitsInv'
<1>0. PICK slot \in Nat : slot = IF allowedAt > clock THEN allowedAt ELSE clock
  BY DEF LimitsInv, LimitsTypeOK
<1> DEFINE rec == [calls[l] EXCEPT !.pc = "rate", !.until = slot]
<1>1. calls[l] \in CallSet
  BY DEF LimitsInv, LimitsTypeOK
<1>2. rec \in CallSet /\ rec.pc = "rate" /\ rec.guard = calls[l].guard /\ rec.until = slot
  BY <1>1 DEF CallSet, Places
<1>3. /\ Steps(l, rec) /\ calls[l].pc = "held" /\ allowedAt' = slot + Interval
      /\ UNCHANGED <<clock, limit, edited, gateSize, started>>
  BY <1>0 DEF Reserves
<1>4. slot >= allowedAt /\ slot >= clock
  BY <1>0 DEF LimitsInv, LimitsTypeOK
<1> HIDE DEF rec
<1>5. calls' \in [Lines -> CallSet] /\ calls'[l] = rec /\ \A m \in Lines : m # l => calls'[m] = calls[m]
  BY <1>2, <1>3, OneLineSteps DEF LimitsInv
<1>6. LimitsTypeOK'
  BY <1>3, <1>5 DEF LimitsInv, LimitsTypeOK
<1>7. GuardInv'
  BY <1>2, <1>3, <1>5, NobodyEnters DEF LimitsInv
<1>8. Waiting' = Waiting \cup {l} /\ l \notin Waiting
  BY <1>2, <1>3, <1>5 DEF Waiting
<1>9. Cardinality(Waiting') = Cardinality(Waiting) + 1
  BY <1>8, SetsFinite, FS_AddElement
<1>10. (started + Cardinality(Waiting)) * Interval <= allowedAt
  BY DEF LimitsInv, PaceInv
<1>11. (started' + Cardinality(Waiting')) * Interval <= allowedAt'
  <2>1. \A k \in Nat : (k + 1) * Interval = k * Interval + Interval
    OBVIOUS
  <2>2. (started + Cardinality(Waiting) + 1) * Interval
          = (started + Cardinality(Waiting)) * Interval + Interval
    BY <2>1, SetsFinite DEF LimitsInv, LimitsTypeOK
  <2>3. started' + Cardinality(Waiting') = started + Cardinality(Waiting) + 1
    BY <1>3, <1>9, SetsFinite DEF LimitsInv, LimitsTypeOK
  <2>4. (started + Cardinality(Waiting)) * Interval \in Int
    BY SetsFinite DEF LimitsInv, LimitsTypeOK
  <2> QED BY <1>3, <1>4, <1>10, <2>2, <2>3, <2>4 DEF LimitsInv, LimitsTypeOK
<1>12. ASSUME NEW t \in Nat, t >= clock'
       PROVE  (started' + Cardinality(Reserved(t)')) * Interval <= t + Interval
  <2>1. CASE t < slot
    <3>1. Reserved(t)' = Reserved(t)
      BY <1>2, <1>3, <1>5, <2>1 DEF Reserved
    <3> QED BY <1>3, <1>12, <3>1 DEF LimitsInv, PaceInv
  <2>2. CASE t >= slot
    <3>1. Reserved(t)' \subseteq Waiting'
      BY DEF Reserved, Waiting
    <3>2. Cardinality(Reserved(t)') <= Cardinality(Waiting')
      BY <3>1, SetsStayFinite, FS_Subset
    <3>3. (started' + Cardinality(Reserved(t)')) * Interval <= allowedAt'
      BY <1>6, <1>11, <3>2, SetsStayFinite, FewerCost DEF LimitsTypeOK
    <3>4. (started' + Cardinality(Reserved(t)')) * Interval \in Int
      BY <1>6, SetsStayFinite DEF LimitsTypeOK
    <3> QED BY <1>3, <2>2, <3>3, <3>4
  <2> QED BY <2>1, <2>2
<1> QED BY <1>6, <1>7, <1>11, <1>12 DEF LimitsInv, PaceInv

\* A line whose slot has come calls the provider.
LEMMA CallsKeeps == ASSUME LimitsInv, NEW l \in Lines, Calls(l) PROVE LimitsInv'
<1>1. calls[l] \in CallSet
  BY DEF LimitsInv, LimitsTypeOK
<1>2. /\ calls[l].pc = "rate" /\ clock >= calls[l].until
      /\ UNCHANGED <<clock, limit, edited, gateSize, allowedAt>>
  BY DEF Calls
<1>3. CASE Steps(l, Away) /\ UNCHANGED started
  BY <1>2, <1>3, LineLeaves
<1>4. CASE Steps(l, [calls[l] EXCEPT !.pc = "call", !.attempt = 1]) /\ started' = started + 1
  <2> DEFINE rec == [calls[l] EXCEPT !.pc = "call", !.attempt = 1]
  <2>1. rec \in CallSet /\ rec.pc = "call" /\ rec.guard = calls[l].guard
    BY <1>1 DEF CallSet, Places
  <2>2. Steps(l, rec)
    BY <1>4
  <2> HIDE DEF rec
  <2>3. calls' \in [Lines -> CallSet] /\ calls'[l] = rec /\ \A m \in Lines : m # l => calls'[m] = calls[m]
    BY <2>1, <2>2, OneLineSteps DEF LimitsInv
  <2>4. LimitsTypeOK'
    BY <1>2, <1>4, <2>3 DEF LimitsInv, LimitsTypeOK
  <2>5. GuardInv'
    BY <1>2, <2>1, <2>3, NobodyEnters DEF LimitsInv
  <2>6. Waiting' = Waiting \ {l} /\ l \in Waiting
    BY <1>2, <2>1, <2>3 DEF Waiting
  <2>7. Cardinality(Waiting') = Cardinality(Waiting) - 1
    BY <2>6, SetsFinite, FS_RemoveElement
  <2>8. (started' + Cardinality(Waiting')) * Interval <= allowedAt'
    <3>1. started' + Cardinality(Waiting') = started + Cardinality(Waiting)
      BY <1>4, <2>7, SetsFinite DEF LimitsInv, LimitsTypeOK
    <3> QED BY <1>2, <3>1 DEF LimitsInv, PaceInv
  <2>9. ASSUME NEW t \in Nat, t >= clock'
        PROVE  (started' + Cardinality(Reserved(t)')) * Interval <= t + Interval
    <3>1. l \in Reserved(t)
      BY <1>1, <1>2, <2>9 DEF Reserved, LimitsInv, LimitsTypeOK, CallSet
    <3>2. Reserved(t)' = Reserved(t) \ {l}
      BY <2>1, <2>3 DEF Reserved
    <3>3. Cardinality(Reserved(t)') = Cardinality(Reserved(t)) - 1
      BY <3>1, <3>2, SetsFinite, FS_RemoveElement
    <3>4. started' + Cardinality(Reserved(t)') = started + Cardinality(Reserved(t))
      BY <1>4, <3>3, SetsFinite DEF LimitsInv, LimitsTypeOK
    <3> QED BY <1>2, <2>9, <3>4 DEF LimitsInv, PaceInv
  <2> QED BY <2>4, <2>5, <2>8, <2>9 DEF LimitsInv, PaceInv
<1> QED BY <1>3, <1>4 DEF Calls

\* The provider answers; the call is over or will be repeated.
LEMMA AnswersKeeps == ASSUME LimitsInv, NEW l \in Lines, Answers(l) PROVE LimitsInv'
<1>1. calls[l] \in CallSet
  BY DEF LimitsInv, LimitsTypeOK
<1>2. calls[l].pc = "call" /\ UNCHANGED <<clock, limit, edited, gateSize, allowedAt, started>>
  BY DEF Answers
<1>3. CASE Steps(l, Away)
  BY <1>2, <1>3, LineLeaves
<1>4. CASE Steps(l, [calls[l] EXCEPT !.pc = "pause"])
  <2> DEFINE rec == [calls[l] EXCEPT !.pc = "pause"]
  <2>1. rec \in CallSet /\ rec.pc = "pause" /\ rec.guard = calls[l].guard
    BY <1>1 DEF CallSet, Places
  <2>2. Steps(l, rec)
    BY <1>4
  <2> HIDE DEF rec
  <2> QED BY <1>2, <2>1, <2>2, LineStays
<1> QED BY <1>3, <1>4 DEF Answers

\* The pause is over; the call is repeated.
LEMMA RetriesKeeps == ASSUME LimitsInv, NEW l \in Lines, Retries(l) PROVE LimitsInv'
<1>1. calls[l] \in CallSet
  BY DEF LimitsInv, LimitsTypeOK
<1>2. PICK n \in Nat : n = calls[l].attempt + 1
  BY <1>1 DEF CallSet
<1> DEFINE rec == [calls[l] EXCEPT !.pc = "call", !.attempt = n]
<1>3. rec \in CallSet /\ rec.pc = "call" /\ rec.guard = calls[l].guard
  BY <1>1 DEF CallSet, Places
<1>4. /\ calls[l].pc = "pause" /\ Steps(l, rec)
      /\ UNCHANGED <<clock, limit, edited, gateSize, allowedAt, started>>
  BY <1>2 DEF Retries
<1> HIDE DEF rec
<1> QED BY <1>3, <1>4, LineStays

-----------------------------------------------------------------------------
(* The theorem *)

\* Every step keeps the invariant.
LEMMA StepKeepsLimits == LimitsInv /\ [LimitsNext]_limitVars => LimitsInv'
<1> SUFFICES ASSUME LimitsInv, [LimitsNext]_limitVars PROVE LimitsInv'
  OBVIOUS
<1>1. ASSUME NEW l \in Lines, GivesUp(l) PROVE LimitsInv'
  BY <1>1, LineLeaves DEF GivesUp
<1>2. ASSUME Ticks PROVE LimitsInv'
  <2>1. /\ clock' = clock + 1 /\ UNCHANGED <<limit, edited, gateSize, allowedAt, calls, started>>
    BY <1>2 DEF Ticks
  <2>2. LimitsTypeOK' /\ clock' >= clock
    BY <2>1 DEF LimitsInv, LimitsTypeOK
  <2> QED BY <2>1, <2>2, NobodyEnters, NobodyReserves DEF LimitsInv
<1>3. ASSUME LimitChanges PROVE LimitsInv'
  <2>1. /\ edited' = edited + 1 /\ limit' \in Limits
        /\ UNCHANGED <<clock, gateSize, allowedAt, calls, started>>
    BY <1>3 DEF LimitChanges
  <2>2. LimitsTypeOK' /\ edited' # 0 /\ clock' >= clock
    BY <2>1 DEF LimitsInv, LimitsTypeOK
  <2>3. Holding("mutex")' = Holding("mutex") /\ Holding("semaphore")' = Holding("semaphore")
    BY <2>1 DEF Holding
  <2>4. GuardInv'
    BY <2>1, <2>2, <2>3 DEF LimitsInv, GuardInv
  <2> QED BY <2>1, <2>2, <2>4, NobodyReserves DEF LimitsInv
<1>4. ASSUME UNCHANGED limitVars PROVE LimitsInv'
  <2>1. UNCHANGED <<clock, limit, edited, gateSize, allowedAt, calls, started>>
    BY <1>4 DEF limitVars
  <2>2. LimitsTypeOK' /\ clock' >= clock
    BY <2>1 DEF LimitsInv, LimitsTypeOK
  <2> QED BY <2>1, <2>2, NobodyEnters, NobodyReserves DEF LimitsInv
<1> QED BY <1>1, <1>2, <1>3, <1>4, BeginsKeeps, EntersKeeps, ReservesKeeps, CallsKeeps, AnswersKeeps,
           RetriesKeeps DEF LimitsNext

\* However lines are cancelled, retried and timed out: as long as the limit was left alone, no
\* more lines have a call under way than it says, and first calls are an interval apart.
THEOREM LimitsAlwaysHold == LimitsSpec => []LimitsHold
<1>1. ASSUME LimitsInv PROVE LimitsHold
  <2>1. ASSUME limit > 0, edited = 0 PROVE Cardinality(Calling) <= limit
    <3>1. \A l \in Calling : calls[l].guard = GuardOf(limit)
      BY <1>1, <2>1 DEF LimitsInv, GuardInv, Calling
    <3>2. GuardOf(limit) = IF limit = 1 THEN "mutex" ELSE "semaphore"
      BY <1>1, <2>1 DEF GuardOf, LimitsInv, LimitsTypeOK
    <3>3. Calling \subseteq Holding(GuardOf(limit))
      BY <3>1 DEF Calling, Holding
    <3>4. /\ Cardinality(Calling) <= Cardinality(Holding(GuardOf(limit)))
          /\ Cardinality(Calling) \in Nat
      BY <3>3, SetsFinite, FS_Subset, FS_CardinalityType
    <3>5. Cardinality(Holding(GuardOf(limit))) <= limit
      <4>1. CASE limit = 1
        BY <1>1, <3>2, <4>1 DEF LimitsInv, GuardInv
      <4>2. CASE limit # 1
        BY <1>1, <2>1, <3>2, <4>2, SetsFinite DEF LimitsInv, GuardInv, LimitsTypeOK
      <4> QED BY <4>1, <4>2
    <3> QED BY <1>1, <3>4, <3>5, SetsFinite DEF LimitsInv, LimitsTypeOK
  <2>2. (started - 1) * Interval <= clock
    <3>1. (started + Cardinality(Reserved(clock))) * Interval <= clock + Interval
      BY <1>1 DEF LimitsInv, PaceInv, LimitsTypeOK
    <3>2. started * Interval <= clock + Interval
      BY <1>1, <3>1, SetsFinite, FewerCost DEF LimitsInv, LimitsTypeOK
    <3>3. (started - 1) * Interval = started * Interval - Interval /\ started * Interval \in Int
      BY <1>1 DEF LimitsInv, LimitsTypeOK
    <3> QED BY <1>1, <3>2, <3>3 DEF LimitsInv, LimitsTypeOK
  <2> QED BY <2>1, <2>2 DEF LimitsHold
<1> QED BY <1>1, InitLimits, StepKeepsLimits, PTL DEF LimitsSpec

-----------------------------------------------------------------------------
(* The cache of the engine.  CacheIsSound is almost inductive: an insert      *)
(* breaks the limit until the oldest are evicted, so that the operations are  *)
(* proved from Coherent, the part without the limit.  The file needs nothing  *)
(* but its type, as whatever an engine loads it clears at once.               *)

USE EngineAssumption

\* With one index of k the queue loses exactly that place.
LEMMA IndexOfKey ==
  ASSUME NEW s \in Seq(CacheKeys), IsInjective(s), NEW i \in DOMAIN s
  PROVE  RemoveFirst(s, s[i]) = RemoveAt(s, i)
<1>1. DOMAIN s = 1..Len(s) /\ i \in 1..Len(s) OBVIOUS
<1>2. {j \in 1..Len(s) : s[j] = s[i]} = {i}
  BY <1>1 DEF IsInjective
<1>3. Min({i}) = i
  BY <1>1 DEF Min
<1>4. SelectInSeq(s, LAMBDA v : v = s[i]) = i
  BY <1>2, <1>3 DEF SelectInSeq
<1> QED BY <1>1, <1>4 DEF RemoveFirst

\* One place less: what lay behind it moves up.
LEMMA PlaceRemoved ==
  ASSUME NEW s \in Seq(CacheKeys), NEW i \in DOMAIN s
  PROVE  /\ RemoveAt(s, i) \in Seq(CacheKeys)
         /\ Len(RemoveAt(s, i)) = Len(s) - 1
         /\ \A j \in 1..(Len(s) - 1) : RemoveAt(s, i)[j] = IF j < i THEN s[j] ELSE s[j + 1]
<1>1. i \in 1..Len(s) /\ Len(s) \in Nat OBVIOUS
<1> DEFINE l == SubSeq(s, 1, i - 1)
           r == SubSeq(s, i + 1, Len(s))
<1>2. l \in Seq(CacheKeys) /\ Len(l) = i - 1 /\ \A j \in 1..(i - 1) : l[j] = s[j]
  BY <1>1
<1>3. r \in Seq(CacheKeys) /\ Len(r) = Len(s) - i /\ \A j \in 1..(Len(s) - i) : r[j] = s[i + j]
  BY <1>1
<1>4. RemoveAt(s, i) = l \o r BY DEF RemoveAt
<1> HIDE DEF l, r
<1> DEFINE t == l \o r
<1>5. /\ t \in Seq(CacheKeys) /\ Len(t) = Len(l) + Len(r)
      /\ \A j \in 1..Len(t) : t[j] = IF j <= Len(l) THEN l[j] ELSE r[j - Len(l)]
  <2>1. l \in Seq(CacheKeys) /\ r \in Seq(CacheKeys) BY <1>2, <1>3
  <2> QED BY <2>1, ConcatProperties
<1> HIDE DEF t
<1>6. Len(t) = Len(s) - 1 BY <1>1, <1>2, <1>3, <1>5
<1>7. ASSUME NEW j \in 1..(Len(s) - 1) PROVE t[j] = IF j < i THEN s[j] ELSE s[j + 1]
  <2>1. CASE j < i
    <3>1. j \in 1..(i - 1) /\ j <= Len(l) /\ j \in 1..Len(t) BY <1>1, <1>2, <1>6, <2>1
    <3> QED BY <1>2, <1>5, <2>1, <3>1
  <2>2. CASE ~(j < i)
    <3>1. j + 1 - i \in 1..(Len(s) - i) /\ ~(j <= Len(l)) /\ j \in 1..Len(t)
      BY <1>1, <1>2, <1>6, <2>2
    <3>2. t[j] = r[j - Len(l)] BY <1>5, <3>1
    <3>3. j - Len(l) = j + 1 - i /\ i + (j + 1 - i) = j + 1 BY <1>1, <1>2
    <3>4. r[j + 1 - i] = s[j + 1] BY <1>3, <3>1, <3>3
    <3> QED BY <2>2, <3>2, <3>3, <3>4
  <2> QED BY <2>1, <2>2
<1> QED BY <1>4, <1>5, <1>6, <1>7 DEF t

\* A key that is taken out of a queue without repetition is the only one that goes.
LEMMA KeyRemoved ==
  ASSUME NEW s \in Seq(CacheKeys), IsInjective(s), NEW k \in ToSet(s)
  PROVE  /\ RemoveFirst(s, k) \in Seq(CacheKeys) /\ IsInjective(RemoveFirst(s, k))
         /\ ToSet(RemoveFirst(s, k)) = ToSet(s) \ {k}
         /\ Len(RemoveFirst(s, k)) = Len(s) - 1
<1>1. PICK i \in DOMAIN s : s[i] = k BY DEF ToSet
<1>2. i \in 1..Len(s) /\ Len(s) \in Nat /\ DOMAIN s = 1..Len(s) OBVIOUS
<1> DEFINE t == RemoveAt(s, i)
<1>3. RemoveFirst(s, k) = t BY <1>1, IndexOfKey
<1>4. /\ t \in Seq(CacheKeys) /\ Len(t) = Len(s) - 1
      /\ \A j \in 1..(Len(s) - 1) : t[j] = IF j < i THEN s[j] ELSE s[j + 1]
  BY PlaceRemoved
<1> HIDE DEF t
<1>5. DOMAIN t = 1..(Len(s) - 1) BY <1>2, <1>4
<1> DEFINE from(j) == IF j < i THEN j ELSE j + 1
<1>6. \A j \in DOMAIN t : from(j) \in DOMAIN s /\ from(j) # i /\ t[j] = s[from(j)]
  BY <1>2, <1>4, <1>5
<1>7. IsInjective(t)
  <2> SUFFICES ASSUME NEW j \in DOMAIN t, NEW m \in DOMAIN t, t[j] = t[m] PROVE j = m
    BY DEF IsInjective
  <2>1. from(j) = from(m) BY <1>6 DEF IsInjective
  <2> QED BY <1>2, <1>5, <2>1
<1>8. ToSet(t) \subseteq ToSet(s) \ {k}
  <2> SUFFICES ASSUME NEW j \in DOMAIN t PROVE t[j] \in ToSet(s) /\ t[j] # k
    BY DEF ToSet
  <2> HIDE DEF from
  <2>1. from(j) \in DOMAIN s /\ from(j) # i /\ t[j] = s[from(j)] BY <1>6
  <2> QED BY <1>1, <2>1 DEF ToSet, IsInjective
<1>9. ASSUME NEW x \in ToSet(s), x # k PROVE x \in ToSet(t)
  <2>1. PICK j \in DOMAIN s : s[j] = x BY DEF ToSet
  <2>2. j # i BY <1>1, <1>9, <2>1
  <2>3. CASE j < i
    <3>1. j \in DOMAIN t /\ t[j] = x BY <1>2, <1>4, <1>5, <2>1, <2>3
    <3> QED BY <3>1 DEF ToSet
  <2>4. CASE j > i
    <3>1. j - 1 \in DOMAIN t /\ t[j - 1] = x BY <1>2, <1>4, <1>5, <2>1, <2>4
    <3> QED BY <3>1 DEF ToSet
  <2> QED BY <1>2, <2>1, <2>2, <2>3, <2>4
<1> QED BY <1>3, <1>4, <1>7, <1>8, <1>9

\* A new key at the end of the queue is the only one that comes.
LEMMA KeyAppended ==
  ASSUME NEW s \in Seq(CacheKeys), IsInjective(s), NEW k \in CacheKeys, k \notin ToSet(s)
  PROVE  /\ Append(s, k) \in Seq(CacheKeys) /\ IsInjective(Append(s, k))
         /\ ToSet(Append(s, k)) = ToSet(s) \union {k}
         /\ Len(Append(s, k)) = Len(s) + 1
<1> DEFINE t == Append(s, k)
<1>1. /\ t \in Seq(CacheKeys) /\ Len(t) = Len(s) + 1 /\ Len(s) \in Nat
      /\ t[Len(s) + 1] = k /\ \A j \in 1..Len(s) : t[j] = s[j]
      /\ DOMAIN s = 1..Len(s) /\ DOMAIN t = 1..(Len(s) + 1)
  OBVIOUS
<1> HIDE DEF t
<1>2. ASSUME NEW j \in DOMAIN t
      PROVE  (j \in DOMAIN s /\ t[j] = s[j]) \/ (j = Len(s) + 1 /\ t[j] = k)
  <2>1. j \in 1..(Len(s) + 1) BY <1>1
  <2>2. CASE j \in 1..Len(s) BY <1>1, <2>2
  <2>3. CASE j = Len(s) + 1 BY <1>1, <2>3
  <2> QED BY <1>1, <2>1, <2>2, <2>3
<1>3. Len(s) + 1 \in DOMAIN t /\ \A j \in DOMAIN s : j \in DOMAIN t BY <1>1
<1>4. ToSet(t) = ToSet(s) \union {k}
  BY <1>1, <1>2, <1>3 DEF ToSet
<1>5. IsInjective(t)
  BY <1>2 DEF ToSet, IsInjective
<1> QED BY <1>1, <1>4, <1>5 DEF t

\* Without its n oldest keys the queue holds exactly the others.
LEMMA OldestGone ==
  ASSUME NEW s \in Seq(CacheKeys), IsInjective(s), NEW n \in 1..Len(s)
  PROVE  LET t == SubSeq(s, n + 1, Len(s))
         IN /\ t \in Seq(CacheKeys) /\ IsInjective(t)
            /\ ToSet(t) = ToSet(s) \ {s[i] : i \in 1..n}
            /\ Len(t) = Len(s) - n
<1> DEFINE t == SubSeq(s, n + 1, Len(s))
<1>1. n \in Nat /\ n <= Len(s) /\ Len(s) \in Nat /\ DOMAIN s = 1..Len(s) OBVIOUS
<1>2. /\ t \in Seq(CacheKeys) /\ Len(t) = Len(s) - n /\ DOMAIN t = 1..(Len(s) - n)
      /\ \A j \in 1..(Len(s) - n) : t[j] = s[n + j]
  <2> DEFINE low == n + 1
             high == Len(s)
  <2>1. low \in Int /\ high \in Int /\ \A i \in low..high : s[i] \in CacheKeys BY <1>1
  <2>2. t = SubSeq(s, low, high) OBVIOUS
  <2>8. low = n + 1 /\ high = Len(s) OBVIOUS
  <2> HIDE DEF low, high, t
  <2>3. /\ t \in Seq(CacheKeys) /\ Len(t) = IF low <= high THEN high - low + 1 ELSE 0
        /\ \A i \in 1..(high - low + 1) : t[i] = s[low + i - 1]
    BY <2>1, <2>2, SubSeqProperties
  <2>4. high - low + 1 = Len(s) - n /\ (low <= high \/ Len(s) - n = 0)
    <3>1. n \in Nat /\ Len(s) \in Nat /\ n <= Len(s) BY <1>1
    <3> QED BY <2>8, <3>1
  <2>5. Len(t) = Len(s) - n
    <3>1. CASE low <= high BY <2>3, <2>4, <3>1
    <3>2. CASE ~(low <= high) BY <2>3, <2>4, <3>2
    <3> QED BY <3>1, <3>2
  <2>6. DOMAIN t = 1..Len(t) BY <2>3
  <2>7. \A i \in 1..(Len(s) - n) : t[i] = s[n + i]
    <3> TAKE i \in 1..(Len(s) - n)
    <3>1. t[i] = s[low + i - 1] BY <2>3, <2>4
    <3>2. low + i - 1 = n + i BY <1>1, <2>8
    <3> QED BY <3>1, <3>2
  <2> QED BY <2>3, <2>5, <2>6, <2>7
<1> HIDE DEF t
<1>3. IsInjective(t)
  <2> SUFFICES ASSUME NEW i \in DOMAIN t, NEW j \in DOMAIN t, t[i] = t[j] PROVE i = j
    BY DEF IsInjective
  <2>1. n + i \in DOMAIN s /\ n + j \in DOMAIN s /\ s[n + i] = s[n + j]
    <3>1. DOMAIN t = 1..(Len(s) - n) /\ \A x \in 1..(Len(s) - n) : t[x] = s[n + x] BY <1>2
    <3>2. i \in 1..(Len(s) - n) /\ j \in 1..(Len(s) - n) BY <3>1
    <3>3. t[i] = s[n + i] /\ t[j] = s[n + j] BY <3>1, <3>2
    <3>4. n + i \in 1..Len(s) /\ n + j \in 1..Len(s) BY <1>1, <3>2
    <3> QED BY <1>1, <3>3, <3>4
  <2>2. n + i = n + j BY <2>1 DEF IsInjective
  <2> QED BY <1>1, <1>2, <2>2
<1>4. ASSUME NEW x \in ToSet(t) PROVE x \in ToSet(s) /\ x \notin {s[i] : i \in 1..n}
  <2>1. PICK j \in 1..(Len(s) - n) : x = s[n + j] BY <1>2, <1>4 DEF ToSet
  <2>2. n + j \in DOMAIN s /\ n + j \notin 1..n BY <1>1, <2>1
  <2> QED BY <1>1, <2>1, <2>2 DEF ToSet, IsInjective
<1>5. ASSUME NEW x \in ToSet(s), x \notin {s[i] : i \in 1..n} PROVE x \in ToSet(t)
  <2>1. PICK j \in DOMAIN s : x = s[j] BY DEF ToSet
  <2>2. j \notin 1..n BY <1>5, <2>1
  <2>3. j - n \in DOMAIN t /\ t[j - n] = x BY <1>1, <1>2, <2>1, <2>2
  <2> QED BY <2>3 DEF ToSet
<1> QED BY <1>2, <1>3, <1>4, <1>5 DEF t

-----------------------------------------------------------------------------
(* The types and the invariant of the engine *)

EntrySet == [made : Signatures, late : BOOLEAN]
Caches == UNION {[D -> EntrySet] : D \in SUBSET CacheKeys}
EngineSet ==
  [signature : Signatures \union {"unset"}, entries : Caches, order : Seq(CacheKeys), limit : Nat,
   enabled : BOOLEAN, persist : BOOLEAN, dirty : BOOLEAN, loaded : BOOLEAN]
LineSet == [pc : {"free"}] \union [pc : {"plan", "fetch"}, key : CacheKeys, made : Signatures]

EngineTypeOK ==
  /\ setup \in Configurations
  /\ engine \in EngineSet
  /\ disk \in Caches
  /\ lines \in [LinesUnderWay -> LineSet]
  /\ session \in [on : BOOLEAN, count : Nat]
  /\ saves \in Nat
  /\ kept \in [entries : Caches, signature : Signatures \union {"unset"}]

\* The parts of CacheIsSound, of any record of the engine: those that hold after each operation
\* of the cache, and the limit, which an insert exceeds until the oldest are gone.
Agree(e) == ToSet(e.order) = Keyed(e) /\ IsInjective(e.order)
OffIsEmpty(e) == ~e.enabled => Keyed(e) = {}
StaleIsLate(e) == \A k \in Keyed(e) : e.entries[k].made # e.signature => e.entries[k].late
Coherent(e) == Agree(e) /\ OffIsEmpty(e) /\ StaleIsLate(e)
Sound(e) == Coherent(e) /\ Len(e.order) <= e.limit

EngineInv == EngineTypeOK /\ Sound(engine)

\* The empty map is a cache, a cache maps keys to entries, and every such map is one.
LEMMA CacheFacts ==
  /\ Nothing \in Caches /\ DOMAIN Nothing = {}
  /\ \A c \in Caches : DOMAIN c \subseteq CacheKeys /\ \A k \in DOMAIN c : c[k] \in EntrySet
  /\ \A D \in SUBSET CacheKeys : [D -> EntrySet] \subseteq Caches
<1>1. DOMAIN Nothing = {} BY DEF Nothing
<1>2. Nothing \in [{} -> EntrySet] BY DEF Nothing
<1>3. {} \in SUBSET CacheKeys OBVIOUS
<1>4. Nothing \in Caches BY <1>2, <1>3 DEF Caches
<1>5. \A c \in Caches : DOMAIN c \subseteq CacheKeys /\ \A k \in DOMAIN c : c[k] \in EntrySet
  BY DEF Caches
<1> QED BY <1>1, <1>4, <1>5 DEF Caches

\* clear_locked leaves a sound cache whatever there was before, so that what the file
\* held need not be known.
LEMMA ClearedSound ==
  ASSUME NEW e \in EngineSet
  PROVE  LET c == Cleared(e)
         IN c \in EngineSet /\ Sound(c) /\ c.persist = e.persist
<1> DEFINE c == Cleared(e)
<1>1. c \in EngineSet
  <2>1. <<>> \in Seq(CacheKeys) /\ Nothing \in Caches BY CacheFacts
  <2> QED BY <2>1 DEF Cleared, EngineSet
<1>2. /\ c.entries = Nothing /\ c.order = <<>> /\ c.limit = e.limit /\ c.persist = e.persist
      /\ c.limit \in Nat
  BY DEF Cleared, EngineSet
<1> HIDE DEF c
<1>3. ToSet(c.order) = {} /\ IsInjective(c.order) /\ Len(c.order) = 0
  BY <1>2 DEF ToSet, IsInjective
<1>4. Keyed(c) = {} BY <1>2, CacheFacts DEF Keyed
<1>5. Sound(c)
  BY <1>2, <1>3, <1>4 DEF Sound, Coherent, Agree, OffIsEmpty, StaleIsLate
<1> QED BY <1>1, <1>2, <1>5 DEF c

\* What ensure_loaded reads is gone after the clear that follows it.
LEMMA LoadedThenCleared ==
  ASSUME NEW e \in EngineSet
  PROVE  Cleared(Loaded(e)) = Cleared([e EXCEPT !.loaded = TRUE])
<1>1. CASE e.loaded BY <1>1 DEF Cleared, Loaded, EngineSet
<1>2. CASE ~e.loaded BY <1>2 DEF Cleared, Loaded, EngineSet
<1> QED BY <1>1, <1>2

\* touch_locked moves a key to the end and changes nothing else.
LEMMA TouchSound ==
  ASSUME NEW e \in EngineSet, Sound(e), NEW k \in Keyed(e)
  PROVE  Touch(e, k) \in EngineSet /\ Sound(Touch(e, k))
<1> DEFINE s == e.order
           t == Append(RemoveFirst(s, k), k)
           u == Touch(e, k)
<1>1. s \in Seq(CacheKeys) /\ IsInjective(s) /\ k \in ToSet(s) /\ ToSet(s) = Keyed(e)
  BY DEF EngineSet, Sound, Coherent, Agree
<1>2. k \in CacheKeys /\ Len(s) \in Nat /\ e.limit \in Nat BY <1>1 DEF ToSet, EngineSet
<1>3. /\ RemoveFirst(s, k) \in Seq(CacheKeys) /\ IsInjective(RemoveFirst(s, k))
      /\ ToSet(RemoveFirst(s, k)) = ToSet(s) \ {k}
      /\ Len(RemoveFirst(s, k)) = Len(s) - 1
  BY <1>1, KeyRemoved
<1>4. k \notin ToSet(RemoveFirst(s, k)) BY <1>3
<1>5. /\ t \in Seq(CacheKeys) /\ IsInjective(t) /\ Len(t) = Len(s)
      /\ ToSet(t) = (ToSet(s) \ {k}) \union {k}
  BY <1>2, <1>3, <1>4, KeyAppended
<1>6. ToSet(t) = Keyed(e) BY <1>1, <1>5
<1>7. u = [e EXCEPT !.order = t] BY DEF Touch
<1> HIDE DEF t, u
<1>8. /\ u \in EngineSet /\ u.order = t /\ u.entries = e.entries /\ u.limit = e.limit
      /\ u.enabled = e.enabled /\ u.signature = e.signature
  BY <1>5, <1>7 DEF EngineSet
<1>9. Sound(u)
  BY <1>2, <1>5, <1>6, <1>8 DEF Sound, Coherent, Agree, OffIsEmpty, StaleIsLate, Keyed
<1> QED BY <1>8, <1>9 DEF u

\* evict_locked restores the limit, also when the limit was made smaller, and takes the
\* same keys from the map and from the queue.
LEMMA EvictSound ==
  ASSUME NEW e \in EngineSet, Coherent(e)
  PROVE  Evict(e) \in EngineSet /\ Sound(Evict(e)) /\ Evict(e).persist = e.persist
<1> DEFINE n == Len(e.order) - e.limit
           old == {e.order[i] : i \in 1..n}
           t == SubSeq(e.order, n + 1, Len(e.order))
           left == [k \in DOMAIN e.entries \ old |-> e.entries[k]]
           u == Evict(e)
<1>1. e.order \in Seq(CacheKeys) /\ Len(e.order) \in Nat /\ e.limit \in Nat /\ n \in Int
  BY DEF EngineSet
<1>2. CASE n <= 0
  <2>1. u = e BY <1>2 DEF Evict
  <2> QED BY <1>1, <1>2, <2>1 DEF Sound
<1>3. CASE ~(n <= 0)
  <2>1. n \in 1..Len(e.order) BY <1>1, <1>3
  <2>2. u = [e EXCEPT !.order = t, !.dirty = TRUE, !.entries = left] BY <1>3 DEF Evict
  <2>3. IsInjective(e.order) /\ ToSet(e.order) = DOMAIN e.entries
    BY DEF Coherent, Agree, Keyed
  <2>4. /\ t \in Seq(CacheKeys) /\ IsInjective(t) /\ ToSet(t) = ToSet(e.order) \ old
        /\ Len(t) = Len(e.order) - n
    BY <1>1, <2>1, <2>3, OldestGone
  <2>5. Len(t) = e.limit BY <1>1, <2>4
  <2>6. e.entries \in Caches BY DEF EngineSet
  <2>7. left \in Caches /\ DOMAIN left = DOMAIN e.entries \ old
        /\ \A k \in DOMAIN left : left[k] = e.entries[k]
    <3>1. DOMAIN left \in SUBSET CacheKeys /\ left \in [DOMAIN left -> EntrySet]
      BY <2>6, CacheFacts
    <3> QED BY <3>1, CacheFacts
  <2> HIDE DEF t, left, old, n, u
  <2>8. /\ u \in EngineSet /\ u.order = t /\ u.entries = left /\ u.limit = e.limit
        /\ u.enabled = e.enabled /\ u.signature = e.signature /\ u.persist = e.persist
    BY <2>2, <2>4, <2>7 DEF EngineSet
  <2>9. Agree(u) BY <2>3, <2>4, <2>7, <2>8 DEF Agree, Keyed
  <2>10. OffIsEmpty(u) BY <2>7, <2>8 DEF Coherent, OffIsEmpty, Keyed
  <2>11. StaleIsLate(u) BY <2>7, <2>8 DEF Coherent, StaleIsLate, Keyed
  <2>12. Len(u.order) <= u.limit BY <1>1, <2>5, <2>8
  <2> QED BY <2>8, <2>9, <2>10, <2>11, <2>12 DEF Sound, Coherent, u
<1> QED BY <1>1, <1>2, <1>3

\* The map after one entry was stored.
LEMMA EntryStored ==
  ASSUME NEW e \in EngineSet, NEW k \in CacheKeys, NEW v \in EntrySet
  PROVE  LET f == WithEntry(e.entries, k, v)
         IN /\ f \in Caches /\ DOMAIN f = Keyed(e) \union {k}
            /\ f[k] = v /\ \A x \in Keyed(e) : x # k => f[x] = e.entries[x]
<1> DEFINE f == WithEntry(e.entries, k, v)
<1>1. e.entries \in Caches BY DEF EngineSet
<1>2. DOMAIN e.entries \subseteq CacheKeys /\ \A x \in DOMAIN e.entries : e.entries[x] \in EntrySet
  BY <1>1, CacheFacts
<1>3. /\ DOMAIN f = DOMAIN e.entries \union {k} /\ f[k] = v
      /\ \A x \in DOMAIN e.entries : x # k => f[x] = e.entries[x]
      /\ f \in [DOMAIN e.entries \union {k} -> EntrySet]
  BY <1>2 DEF WithEntry
<1>4. DOMAIN e.entries \union {k} \in SUBSET CacheKeys BY <1>2
<1> HIDE DEF f
<1>5. f \in Caches BY <1>3, <1>4, CacheFacts
<1> QED BY <1>3, <1>5 DEF Keyed, f

\* insert_locked, of a new key, a known one, and a known one with the same text.
LEMMA InsertSound ==
  ASSUME NEW e \in EngineSet, Sound(e), e.enabled,
         NEW k \in CacheKeys, NEW v \in EntrySet, v.made # e.signature => v.late
  PROVE  Insert(e, k, v) \in EngineSet /\ Sound(Insert(e, k, v))
<1> DEFINE f == WithEntry(e.entries, k, v)
           stored == [e EXCEPT !.entries = f]
<1>1. /\ f \in Caches /\ DOMAIN f = Keyed(e) \union {k}
      /\ f[k] = v /\ \A x \in Keyed(e) : x # k => f[x] = e.entries[x]
  BY EntryStored
<1>2. Insert(e, k, v) = IF k \in Keyed(e)
                        THEN IF e.entries[k] = v THEN Touch(e, k) ELSE Touch(stored, k)
                        ELSE Evict([stored EXCEPT !.order = Append(@, k)])
  BY DEF Insert
<1> HIDE DEF f
<1>3. /\ stored \in EngineSet /\ stored.entries = f /\ stored.order = e.order
      /\ stored.limit = e.limit /\ stored.enabled = e.enabled /\ stored.signature = e.signature
  BY <1>1 DEF EngineSet
<1>4. CASE k \in Keyed(e)
  <2>1. CASE e.entries[k] = v BY <1>2, <1>4, <2>1, TouchSound
  <2>2. CASE e.entries[k] # v
    <3>1. Keyed(stored) = Keyed(e) BY <1>1, <1>3, <1>4 DEF Keyed
    <3> HIDE DEF stored
    <3>2. StaleIsLate(stored)
      BY <1>1, <1>3, <3>1 DEF Sound, Coherent, StaleIsLate, Keyed
    <3>3. Sound(stored)
      BY <1>3, <3>1, <3>2 DEF Sound, Coherent, Agree, OffIsEmpty
    <3>4. Touch(stored, k) \in EngineSet /\ Sound(Touch(stored, k))
      BY <1>3, <1>4, <3>1, <3>3, TouchSound
    <3> QED BY <1>2, <1>4, <2>2, <3>4
  <2> QED BY <2>1, <2>2
<1>5. CASE k \notin Keyed(e)
  <2> DEFINE t == Append(e.order, k)
             u == [stored EXCEPT !.order = t]
  <2>1. e.order \in Seq(CacheKeys) /\ IsInjective(e.order) /\ ToSet(e.order) = Keyed(e)
    BY DEF EngineSet, Sound, Coherent, Agree
  <2>2. t \in Seq(CacheKeys) /\ IsInjective(t) /\ ToSet(t) = Keyed(e) \union {k}
    BY <1>5, <2>1, KeyAppended
  <2>3. Insert(e, k, v) = Evict(u) BY <1>2, <1>3, <1>5
  <2> HIDE DEF t, stored
  <2>4. /\ u \in EngineSet /\ u.entries = f /\ u.order = t
        /\ u.enabled = e.enabled /\ u.signature = e.signature
    BY <1>3, <2>2 DEF EngineSet
  <2> HIDE DEF u
  <2>5. Agree(u) BY <1>1, <2>2, <2>4 DEF Agree, Keyed
  <2>6. OffIsEmpty(u) BY <2>4 DEF OffIsEmpty
  <2>7. StaleIsLate(u)
    BY <1>1, <2>4 DEF Sound, Coherent, StaleIsLate, Keyed
  <2> QED BY <2>3, <2>4, <2>5, <2>6, <2>7, EvictSound DEF Coherent
<1> QED BY <1>4, <1>5

-----------------------------------------------------------------------------
(* What an operation and a step do to the cache *)

\* maybe_flush changes the file and the dirty mark alone.
LEMMA FlushedSound ==
  ASSUME NEW e \in EngineSet, Sound(e), NEW file \in Caches, NEW after \in Flushed(e, file)
  PROVE  after.engine \in EngineSet /\ Sound(after.engine) /\ after.disk \in Caches
<1> DEFINE clean == [e EXCEPT !.dirty = FALSE]
<1>1. /\ clean \in EngineSet /\ clean.order = e.order /\ clean.entries = e.entries
      /\ clean.limit = e.limit /\ clean.enabled = e.enabled /\ clean.signature = e.signature
  BY DEF EngineSet
<1>2. e.entries \in Caches BY DEF EngineSet
<1>3. \/ after.engine = e /\ after.disk = file
      \/ after.engine = clean /\ after.disk = e.entries
  <2>1. \/ after = [engine |-> e, disk |-> file]
        \/ after = [engine |-> clean, disk |-> e.entries]
    BY Zenon DEF Flushed
  <2> HIDE DEF clean
  <2>2. CASE after = [engine |-> e, disk |-> file] BY <2>2
  <2>3. CASE after = [engine |-> clean, disk |-> e.entries] BY <2>3
  <2> QED BY <2>1, <2>2, <2>3
<1> HIDE DEF clean
<1>4. Sound(clean)
  BY <1>1 DEF Sound, Coherent, Agree, OffIsEmpty, StaleIsLate, Keyed
<1> QED BY <1>1, <1>2, <1>3, <1>4

\* update_settings, on the way to off as on the way to another size.
LEMMA UpdatedSound ==
  ASSUME NEW e \in EngineSet, Sound(e), NEW file \in Caches, setup' \in Configurations,
         NEW after \in UpdatedCache(e, file)
  PROVE  after.engine \in EngineSet /\ Sound(after.engine) /\ after.disk \in Caches
<1>1. setup'.enabled \in BOOLEAN /\ setup'.persist \in BOOLEAN /\ setup'.size \in Nat
  BY DEF Configurations
<1>2. CASE ~setup'.enabled
  <2> DEFINE c == Cleared(e)
             u == [c EXCEPT !.enabled = FALSE]
  <2>1. after.engine = u /\ after.disk \in {Nothing, file}
    BY <1>2 DEF UpdatedCache
  <2>2. c \in EngineSet /\ Sound(c) /\ c.entries = Nothing
    <3>1. c.entries = Nothing BY DEF Cleared, EngineSet
    <3> QED BY <3>1, ClearedSound
  <2> HIDE DEF c
  <2>3. /\ u \in EngineSet /\ u.order = c.order /\ u.entries = c.entries
        /\ u.limit = c.limit /\ u.signature = c.signature
    BY <2>2 DEF EngineSet
  <2> HIDE DEF u
  <2>4. Keyed(u) = {} BY <2>2, <2>3, CacheFacts DEF Keyed
  <2>5. Sound(u)
    BY <2>2, <2>3, <2>4 DEF Sound, Coherent, Agree, OffIsEmpty, StaleIsLate, Keyed
  <2> QED BY <2>1, <2>3, <2>5, CacheFacts
<1>3. CASE setup'.enabled
  <2> DEFINE u == [e EXCEPT !.enabled = TRUE, !.limit = setup'.size]
             v == Evict(u)
             w == [v EXCEPT !.persist = setup'.persist]
  <2>1. after \in Flushed(w, file) BY <1>3 DEF UpdatedCache
  <2>2. /\ u \in EngineSet /\ u.order = e.order /\ u.entries = e.entries
        /\ u.enabled = TRUE /\ u.signature = e.signature
    BY <1>1 DEF EngineSet
  <2> HIDE DEF u
  <2>3. Coherent(u)
    BY <2>2 DEF Sound, Coherent, Agree, OffIsEmpty, StaleIsLate, Keyed
  <2>4. v \in EngineSet /\ Sound(v) BY <2>2, <2>3, EvictSound
  <2> HIDE DEF v
  <2>5. /\ w \in EngineSet /\ w.order = v.order /\ w.entries = v.entries /\ w.limit = v.limit
        /\ w.enabled = v.enabled /\ w.signature = v.signature
    BY <1>1, <2>4 DEF EngineSet
  <2> HIDE DEF w
  <2>6. Sound(w)
    BY <2>4, <2>5 DEF Sound, Coherent, Agree, OffIsEmpty, StaleIsLate, Keyed
  <2> QED BY <2>1, <2>5, <2>6, FlushedSound
<1> QED BY <1>1, <1>2, <1>3

\* apply_live_settings: another signature empties the cache before it counts; the same
\* signature keeps it.
LEMMA LiveSettingsSound ==
  ASSUME EngineTypeOK, Sound(engine), setup' \in Configurations, ApplyLiveSettings
  PROVE  engine' \in EngineSet /\ Sound(engine)' /\ disk' \in Caches
<1>1. engine \in EngineSet /\ disk \in Caches /\ setup'.signature \in Signatures
  BY DEF EngineTypeOK, Configurations
<1>2. PICK after \in LiveSettings : engine' = after.engine /\ disk' = after.disk
  BY DEF ApplyLiveSettings
<1>3. after.engine \in EngineSet /\ Sound(after.engine) /\ after.disk \in Caches
  <2> DEFINE known == [engine EXCEPT !.signature = SignatureOf(setup')]
             loaded == [known EXCEPT !.loaded = TRUE]
             file == IF engine.persist THEN Nothing ELSE disk
  <2>1. CASE engine.signature # SignatureOf(setup')
    <3>1. after \in UpdatedCache(Cleared(Loaded(known)), file)
      BY <1>2, <2>1 DEF LiveSettings
    <3>2. known \in EngineSet BY <1>1 DEF EngineSet, SignatureOf
    <3> HIDE DEF known
    <3>3. Cleared(Loaded(known)) = Cleared(loaded) BY <3>2, LoadedThenCleared
    <3>4. loaded \in EngineSet BY <3>2 DEF EngineSet
    <3> HIDE DEF loaded
    <3>5. Cleared(loaded) \in EngineSet /\ Sound(Cleared(loaded)) BY <3>4, ClearedSound
    <3>6. file \in Caches BY <1>1, CacheFacts
    <3> HIDE DEF file
    <3> QED BY <3>1, <3>3, <3>5, <3>6, UpdatedSound
  <2>2. CASE engine.signature = SignatureOf(setup')
    <3>1. after \in UpdatedCache(engine, disk) BY <1>2, <2>2 DEF LiveSettings
    <3> QED BY <1>1, <3>1, UpdatedSound
  <2> QED BY <2>1, <2>2
<1>4. Sound(engine)' = Sound(after.engine)
  BY <1>2 DEF Sound, Coherent, Agree, OffIsEmpty, StaleIsLate, Keyed
<1> QED BY <1>2, <1>3, <1>4

\* The invariant holds when the program starts.
LEMMA EngineInitOK == EngineInit => EngineInv
<1> SUFFICES ASSUME EngineInit PROVE EngineInv OBVIOUS
<1>1. Cardinality(CacheKeys) \in Nat BY FS_CardinalityType
<1>2. Nothing \in Caches /\ <<>> \in Seq(CacheKeys) /\ DOMAIN Nothing = {} BY CacheFacts
<1>3. engine \in EngineSet BY <1>1, <1>2 DEF EngineInit, NewEngine, EngineSet
<1>4. /\ engine.entries = Nothing /\ engine.order = <<>>
      /\ engine.limit = Cardinality(CacheKeys)
  BY DEF EngineInit, NewEngine
<1>5. Sound(engine)
  BY <1>1, <1>2, <1>4
     DEF Sound, Coherent, Agree, OffIsEmpty, StaleIsLate, Keyed, ToSet, IsInjective
<1>6. EngineTypeOK
  <2>1. setup \in Configurations /\ disk \in Caches BY <1>2 DEF EngineInit
  <2>2. lines \in [LinesUnderWay -> LineSet] BY DEF EngineInit, LineSet
  <2>3. /\ session \in [on : BOOLEAN, count : Nat] /\ saves \in Nat
        /\ kept \in [entries : Caches, signature : Signatures \union {"unset"}]
    BY <1>2 DEF EngineInit
  <2> QED BY <1>3, <2>1, <2>2, <2>3 DEF EngineTypeOK
<1> QED BY <1>5, <1>6 DEF EngineInv

\* Every step preserves the invariant.
LEMMA EngineStep == EngineInv /\ [EngineNext]_engineVars => EngineInv'
<1> SUFFICES ASSUME EngineInv, [EngineNext]_engineVars PROVE EngineInv' OBVIOUS
<1> USE DEF EngineInv
<1>1. ASSUME SaveSettings PROVE EngineInv'
  <2>1. /\ setup' \in Configurations /\ saves' \in Nat
        /\ UNCHANGED <<lines, session, kept>>
    BY <1>1 DEF SaveSettings, EngineTypeOK
  <2>2. engine' \in EngineSet /\ Sound(engine)' /\ disk' \in Caches
    <3>1. CASE ApplyLiveSettings BY <2>1, <3>1, LiveSettingsSound
    <3>2. CASE UNCHANGED <<engine, disk>>
      BY <3>2 DEF EngineTypeOK, Sound, Coherent, Agree, OffIsEmpty, StaleIsLate, Keyed
    <3> QED BY <1>1, <3>1, <3>2 DEF SaveSettings
  <2> QED BY <2>1, <2>2 DEF EngineTypeOK, LinesUnderWay
<1>2. ASSUME StartController PROVE EngineInv'
  <2>1. /\ setup' = setup /\ UNCHANGED <<lines, saves>> /\ ApplyLiveSettings
        /\ session' = [on |-> TRUE, count |-> session.count + 1]
        /\ kept' = [entries |-> disk, signature |-> SignatureOf(setup)]
    BY <1>2 DEF StartController
  <2>2. engine' \in EngineSet /\ Sound(engine)' /\ disk' \in Caches
    BY <2>1, LiveSettingsSound DEF EngineTypeOK
  <2>3. /\ session' \in [on : BOOLEAN, count : Nat]
        /\ kept' \in [entries : Caches, signature : Signatures \union {"unset"}]
    BY <2>1 DEF EngineTypeOK, SignatureOf, Configurations
  <2> QED BY <2>1, <2>2, <2>3 DEF EngineTypeOK, LinesUnderWay
<1>3. ASSUME StopController PROVE EngineInv'
  <2>1. Cardinality(CacheKeys) \in Nat BY FS_CardinalityType
  <2>2. Nothing \in Caches /\ <<>> \in Seq(CacheKeys) /\ DOMAIN Nothing = {} BY CacheFacts
  <2>3. engine' = NewEngine BY <1>3 DEF StopController
  <2>4. engine' \in EngineSet BY <2>1, <2>2, <2>3 DEF NewEngine, EngineSet
  <2>5. Sound(engine)'
    BY <2>1, <2>2, <2>3
       DEF NewEngine, Sound, Coherent, Agree, OffIsEmpty, StaleIsLate, Keyed, ToSet, IsInjective
  <2>6. lines' \in [LinesUnderWay -> LineSet] BY <1>3 DEF StopController, LineSet
  <2>7. session' \in [on : BOOLEAN, count : Nat] BY <1>3 DEF StopController, EngineTypeOK
  <2> QED BY <1>3, <2>4, <2>5, <2>6, <2>7 DEF StopController, EngineTypeOK, LinesUnderWay
<1>4. ASSUME NEW l \in LinesUnderWay, Prepare(l) PROVE EngineInv'
  <2>1. ApplyLiveSettings /\ UNCHANGED <<setup, session, saves, kept>>
    BY <1>4 DEF Prepare
  <2>2. engine' \in EngineSet /\ Sound(engine)' /\ disk' \in Caches
    BY <2>1, LiveSettingsSound DEF EngineTypeOK
  <2>3. lines' \in [LinesUnderWay -> LineSet]
    <3>1. PICK k \in CacheKeys :
            lines' = [lines EXCEPT ![l] = [pc |-> "plan", key |-> k, made |-> SignatureOf(setup)]]
      BY <1>4 DEF Prepare
    <3>2. [pc |-> "plan", key |-> k, made |-> SignatureOf(setup)] \in LineSet
      BY DEF LineSet, SignatureOf, EngineTypeOK, Configurations
    <3> QED BY <3>1, <3>2 DEF EngineTypeOK
  <2> QED BY <2>1, <2>2, <2>3 DEF EngineTypeOK, LinesUnderWay
<1>5. ASSUME NEW l \in LinesUnderWay, Plan(l) PROVE EngineInv'
  <2>1. engine \in EngineSet /\ Sound(engine) /\ lines[l] \in LineSet /\ lines[l].pc = "plan"
    BY <1>5 DEF Plan, EngineTypeOK
  <2>2. UNCHANGED <<setup, disk, session, saves, kept>> BY <1>5 DEF Plan
  <2>3. engine' \in EngineSet /\ Sound(engine)'
    <3>1. engine' = engine \/ (lines[l].key \in Keyed(engine) /\ engine' = Touch(engine, lines[l].key))
      BY <1>5 DEF Plan
    <3>2. CASE engine' = engine
      BY <2>1, <3>2 DEF Sound, Coherent, Agree, OffIsEmpty, StaleIsLate, Keyed
    <3>3. CASE lines[l].key \in Keyed(engine) /\ engine' = Touch(engine, lines[l].key)
      <4>1. engine' \in EngineSet /\ Sound(Touch(engine, lines[l].key))
        BY <2>1, <3>3, TouchSound
      <4> QED BY <3>3, <4>1 DEF Sound, Coherent, Agree, OffIsEmpty, StaleIsLate, Keyed
    <3> QED BY <3>1, <3>2, <3>3
  <2>4. lines' \in [LinesUnderWay -> LineSet]
    <3>1. [pc |-> "free"] \in LineSet /\ [lines[l] EXCEPT !.pc = "fetch"] \in LineSet
      BY <2>1 DEF LineSet
    <3>2. lines' = [lines EXCEPT ![l] = [pc |-> "free"]]
          \/ lines' = [lines EXCEPT ![l] = [lines[l] EXCEPT !.pc = "fetch"]]
      BY <1>5 DEF Plan
    <3> QED BY <3>1, <3>2 DEF EngineTypeOK
  <2> QED BY <2>2, <2>3, <2>4 DEF EngineTypeOK, LinesUnderWay
<1>6. ASSUME NEW l \in LinesUnderWay, Store(l) PROVE EngineInv'
  <2> DEFINE k == lines[l].key
             known == k \in Keyed(engine) /\ engine.entries[k] = Entry(l)
             inserted == Insert(engine, k, Entry(l))
             stored == [inserted EXCEPT !.dirty = inserted.dirty \/ ~known]
  <2>1. /\ engine \in EngineSet /\ Sound(engine) /\ disk \in Caches
        /\ lines[l] \in LineSet /\ lines[l].pc = "fetch"
    BY <1>6 DEF Store, EngineTypeOK
  <2>2. k \in CacheKeys /\ lines[l].made \in Signatures BY <2>1 DEF LineSet
  <2>3. lines' \in [LinesUnderWay -> LineSet] /\ UNCHANGED <<setup, session, saves, kept>>
    BY <1>6 DEF Store, EngineTypeOK, LineSet
  <2>4. engine' \in EngineSet /\ Sound(engine)' /\ disk' \in Caches
    <3>1. CASE ~engine.enabled
      <4>1. UNCHANGED <<engine, disk>> BY <1>6, <3>1 DEF Store
      <4> QED BY <2>1, <4>1 DEF Sound, Coherent, Agree, OffIsEmpty, StaleIsLate, Keyed
    <3>2. CASE engine.enabled
      <4>1. PICK after \in Flushed(stored, disk) : engine' = after.engine /\ disk' = after.disk
        BY <1>6, <3>2 DEF Store
      <4>2. Entry(l) \in EntrySet /\ (Entry(l).made # engine.signature => Entry(l).late)
        BY <2>2 DEF Entry, EntrySet
      <4>3. inserted \in EngineSet /\ Sound(inserted) BY <2>1, <2>2, <3>2, <4>2, InsertSound
      <4> DEFINE d == inserted.dirty \/ ~known
      <4>4. d \in BOOLEAN /\ stored = [inserted EXCEPT !.dirty = d] OBVIOUS
      <4> HIDE DEF inserted, d, stored
      <4>5. /\ stored \in EngineSet /\ stored.order = inserted.order
            /\ stored.entries = inserted.entries /\ stored.limit = inserted.limit
            /\ stored.enabled = inserted.enabled /\ stored.signature = inserted.signature
        BY <4>3, <4>4 DEF EngineSet
      <4>6. Sound(stored)
        BY <4>3, <4>5 DEF Sound, Coherent, Agree, OffIsEmpty, StaleIsLate, Keyed
      <4>7. after.engine \in EngineSet /\ Sound(after.engine) /\ after.disk \in Caches
        BY <2>1, <4>5, <4>6, FlushedSound
      <4> QED BY <4>1, <4>7 DEF Sound, Coherent, Agree, OffIsEmpty, StaleIsLate, Keyed
    <3> QED BY <3>1, <3>2
  <2> QED BY <2>3, <2>4 DEF EngineTypeOK, LinesUnderWay
<1>7. ASSUME NEW l \in LinesUnderWay, Fails(l) PROVE EngineInv'
  <2>1. lines' \in [LinesUnderWay -> LineSet] BY <1>7 DEF Fails, EngineTypeOK, LineSet
  <2> QED BY <1>7, <2>1
     DEF Fails, EngineTypeOK, LinesUnderWay, Sound, Coherent, Agree, OffIsEmpty, StaleIsLate, Keyed
<1>8. CASE UNCHANGED engineVars
  BY <1>8 DEF engineVars, EngineTypeOK, LinesUnderWay, Sound, Coherent, Agree, OffIsEmpty,
              StaleIsLate, Keyed
<1> QED BY <1>1, <1>2, <1>3, <1>4, <1>5, <1>6, <1>7, <1>8 DEF EngineNext

\* Engine, cache, file, lines and settings have their types in every state.
THEOREM CacheTypeCorrect == EngineSpec => []EngineTypeOK
<1>1. EngineInv => EngineTypeOK BY DEF EngineInv
<1> QED BY <1>1, EngineInitOK, EngineStep, PTL DEF EngineSpec

\* CacheIsSound, for any finite set of keys, any sizes and signatures and any number of
\* lines, saves and sessions: the queue of the keys and the map agree, the limit holds, a cache
\* that is off is empty, and a text made under other settings than the engine's is in it only if
\* its call was under way when they changed.
THEOREM CacheSoundness == EngineSpec => []CacheIsSound
<1>1. EngineInv => CacheIsSound
  BY DEF EngineInv, Sound, Coherent, Agree, OffIsEmpty, StaleIsLate, CacheIsSound
<1> QED BY <1>1, EngineInitOK, EngineStep, PTL DEF EngineSpec

=============================================================================
