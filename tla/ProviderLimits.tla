---------------------------- MODULE ProviderLimits ----------------------------
(***************************************************************************)
(* The limits of one provider as the lines of the dispatcher's jobs meet   *)
(* them: translate_one_line waits, within the time of the line, for the    *)
(* provider's mutex or semaphore, then for its slot of the minimum         *)
(* interval, and calls with retries while it holds the guard.              *)
(***************************************************************************)
EXTENDS Integers, FiniteSets

CONSTANTS
  Lines,       \* lines that may be under way at once
  MaxClock,    \* bound on the ticks
  Limits,      \* what max_concurrent_targets may be; 0 is no limit
  Interval,    \* min_interval_ms in ticks, 0 for none
  LineTime,    \* timeout_ms in ticks
  MaxAttempts, \* DEFAULT_TRANSLATION_RETRIES + 1
  MaxEdits     \* bound on the changes of the limit

ASSUME LimitsAssumption ==
  /\ IsFiniteSet(Lines)
  /\ Limits \subseteq Nat
  /\ Interval \in Nat /\ LineTime \in Nat

VARIABLES
  clock,
  limit,     \* max_concurrent_targets
  edited,    \* changes of it so far
  gateSize,  \* permits the semaphore was made with, 0 before there is one
  allowedAt, \* provider_next_allowed_at
  calls,     \* per line: where translate_one_line is, and what it holds
  started    \* lines whose provider call has begun

limitVars == <<clock, limit, edited, gateSize, allowedAt, calls, started>>

Away == [pc |-> "away", guard |-> "none", until |-> 0, ends |-> 0, attempt |-> 0]

LimitsInit ==
  /\ clock = 0 /\ edited = 0 /\ gateSize = 0 /\ allowedAt = 0 /\ started = 0
  /\ limit \in Limits
  /\ calls = [l \in Lines |-> Away]

Holding(guard) == {l \in Lines : calls[l].pc \in {"held", "rate", "call", "pause"} /\ calls[l].guard = guard}
Steps(l, rec) == calls' = [calls EXCEPT ![l] = rec]

\* The guard that a limit asks for.
GuardOf(n) == IF n = 1 THEN "mutex" ELSE IF n > 1 THEN "semaphore" ELSE "none"

\* The limit is read twice, first for the mutex and then for the semaphore; read as one here.
Begins(l) ==
  /\ calls[l].pc = "away"
  /\ LET guard == GuardOf(limit)
     IN /\ Steps(l, [Away EXCEPT !.pc = "wait", !.guard = guard, !.ends = clock + LineTime])
        /\ gateSize' = IF guard = "semaphore" /\ gateSize = 0 THEN limit ELSE gateSize
  /\ UNCHANGED <<clock, limit, edited, allowedAt, started>>

AdmitsWithoutMutex(guard) == guard = "semaphore" => Cardinality(Holding("semaphore")) < gateSize

Admits(guard) ==
  /\ guard = "mutex" => Holding("mutex") = {}
  /\ guard = "semaphore" => Cardinality(Holding("semaphore")) < gateSize

Enters(l) ==
  /\ calls[l].pc = "wait" /\ Admits(calls[l].guard)
  /\ Steps(l, [calls[l] EXCEPT !.pc = "held"])
  /\ UNCHANGED <<clock, limit, edited, gateSize, allowedAt, started>>

\* provider_rate_wait: a line takes the next slot and sleeps until it comes.
Reserves(l) ==
  /\ calls[l].pc = "held"
  /\ LET slot == IF allowedAt > clock THEN allowedAt ELSE clock
     IN /\ allowedAt' = slot + Interval
        /\ Steps(l, [calls[l] EXCEPT !.pc = "rate", !.until = slot])
  /\ UNCHANGED <<clock, limit, edited, gateSize, started>>

\* translate_target_concurrent: a hit of the cache ends the line without a call.
Calls(l) ==
  /\ calls[l].pc = "rate" /\ clock >= calls[l].until
  /\ \/ /\ Steps(l, [calls[l] EXCEPT !.pc = "call", !.attempt = 1]) /\ started' = started + 1
     \/ Steps(l, Away) /\ UNCHANGED started
  /\ UNCHANGED <<clock, limit, edited, gateSize, allowedAt>>

\* translate_with_retry: the answer, an error that is final, or one that may be retried.
Answers(l) ==
  /\ calls[l].pc = "call"
  /\ \/ Steps(l, Away)
     \/ /\ calls[l].attempt < MaxAttempts /\ clock < calls[l].ends
        /\ Steps(l, [calls[l] EXCEPT !.pc = "pause"])
  /\ UNCHANGED <<clock, limit, edited, gateSize, allowedAt, started>>

\* sleep_with_jitter is over: the call is repeated in the guard and without a new slot.
Retries(l) ==
  /\ calls[l].pc = "pause"
  /\ Steps(l, [calls[l] EXCEPT !.pc = "call", !.attempt = @ + 1])
  /\ UNCHANGED <<clock, limit, edited, gateSize, allowedAt, started>>

\* The time of the line is over, wherever it is, or its job is cancelled: the guard is given back
\* with the future, the slot it reserved is not.
GivesUp(l) ==
  /\ calls[l].pc # "away"
  /\ Steps(l, Away)
  /\ UNCHANGED <<clock, limit, edited, gateSize, allowedAt, started>>

Ticks ==
  /\ clock < MaxClock /\ clock' = clock + 1
  /\ UNCHANGED <<limit, edited, gateSize, allowedAt, calls, started>>

LimitChanges ==
  /\ edited < MaxEdits /\ edited' = edited + 1
  /\ limit' \in Limits \ {limit}
  /\ UNCHANGED <<clock, gateSize, allowedAt, calls, started>>

LimitsNext ==
  \/ Ticks \/ LimitChanges
  \/ \E l \in Lines :
       Begins(l) \/ Enters(l) \/ Reserves(l) \/ Calls(l) \/ Answers(l) \/ Retries(l) \/ GivesUp(l)

LimitsSpec == LimitsInit /\ [][LimitsNext]_limitVars

-----------------------------------------------------------------------------
(* Properties *)

Calling == {l \in Lines : calls[l].pc \in {"call", "pause"}}

\* However lines are cancelled while they wait, are called or are about to repeat a call: with a
\* limit that is left alone no more lines than it says have a call under way, and the first calls
\* of the lines are, from the start, no more than one per interval.
LimitsHold ==
  /\ limit > 0 /\ edited = 0 => Cardinality(Calling) <= limit
  /\ Interval > 0 => (started - 1) * Interval <= clock
=============================================================================
