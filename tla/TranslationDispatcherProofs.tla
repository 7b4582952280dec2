---------------------- MODULE TranslationDispatcherProofs ----------------------
(***************************************************************************)
(* The safety properties of the translation dispatcher for any number of   *)
(* jobs, slots, lines and lineage keys.                                    *)
(*                                                                         *)
(* None of them is inductive alone.  IInv adds how ids and sequences grow  *)
(* (IdsInOrder) and that a job's control state decides which collection    *)
(* holds it (PlacesAgree): from these follow that an epilogue unlists no   *)
(* namesake and that a cancelled job is never listed again, which is what  *)
(* keeps the counter right.                                                *)
(***************************************************************************)
EXTENDS TranslationDispatcher, FiniteSetTheorems, TLAPS

Submitting == submit.pc \in {"judge", "admit"}

IdsInOrder ==
  /\ \A j \in Jobs : sequence_of[j] = IF j <= next_job_id THEN j ELSE 0
  /\ last_sequence = IF Submitting THEN next_job_id + 1 ELSE next_job_id
  /\ Submitting => submit.seq = last_sequence
  /\ submit.pc = "enqueue" =>
       submit.job \in Jobs /\ submit.job = next_job_id /\ phase[submit.job] = "none"
  /\ \A j \in Jobs : phase[j] # "none" => j <= next_job_id

PlacesAgree ==
  /\ queue = {j \in Jobs : phase[j] = Queued}
  /\ active_tasks = {j \in Jobs : Running(j)}
  /\ worker = "popped" => in_hand \in Jobs /\ phase[in_hand] = "popped"
  /\ worker = "listed" => in_hand \in Jobs
  /\ \A j \in cancelled : phase[j] \in LivePhases \union {"ended"}
  /\ aborted \subseteq cancelled

SlotsCounted == SlotAccounting /\ (~stopped => active_jobs <= MaxConcurrent)

StopLeavesOne == stopped => \A i, j \in active_tasks \union PoppedJobs : i = j

\* The controller's mutex: stop and submit_final never overlap.
StopExcludesSubmit == stopped => submit.pc = "idle"

LateSettled ==
  \A j \in Jobs :
    /\ late[j] \in {0, 1}
    /\ late[j] = 1 => /\ stopped \/ Superseded(j)
                      /\ phase[j] \notin {"publish", "complete"}
                      /\ j <= next_job_id

IInv ==
  /\ TypeOK
  /\ IdsInOrder
  /\ PlacesAgree
  /\ SlotsCounted
  /\ StopLeavesOne
  /\ StopExcludesSubmit
  /\ LateSettled
  /\ NoLostWakeup

-----------------------------------------------------------------------------

\* Any set of jobs is finite.
LEMMA JobsFinite ==
  ASSUME NEW S \in SUBSET Jobs
  PROVE  IsFiniteSet(S) /\ Cardinality(S) \in Nat
<1>1. IsFiniteSet(Jobs)
  BY BoundsAssumption, FS_Interval DEF Jobs
<1>2. IsFiniteSet(S)
  BY <1>1, FS_Subset
<1>3. QED
  BY <1>2, FS_CardinalityType

\* Removing a part of a set of jobs takes its size off the count.
LEMMA RemovePart ==
  ASSUME NEW S \in SUBSET Jobs, NEW T \in SUBSET S
  PROVE  /\ Cardinality(S \ T) = Cardinality(S) - Cardinality(T)
         /\ Cardinality(T) <= Cardinality(S)
<1>1. IsFiniteSet(S) /\ IsFiniteSet(T) /\ Cardinality(S) \in Nat /\ Cardinality(T) \in Nat
  BY JobsFinite
<1>2. S \intersect T = T
  OBVIOUS
<1>3. Cardinality(S \ T) = Cardinality(S) - Cardinality(S \intersect T)
  BY <1>1, FS_Difference
<1>4. Cardinality(T) <= Cardinality(S)
  BY <1>1, FS_Subset
<1>5. QED
  BY <1>2, <1>3, <1>4

\* A set without two different elements.
LEMMA AtMostOne ==
  ASSUME NEW S, \A x, y \in S : x = y
  PROVE  Cardinality(S) <= 1
<1>1. CASE S = {}
  BY <1>1, FS_EmptySet
<1>2. CASE S # {}
  <2>1. PICK x \in S : TRUE
    BY <1>2
  <2>2. S = {x}
    BY <2>1
  <2>3. QED
    BY <2>2, FS_Singleton
<1>3. QED
  BY <1>1, <1>2

\* The initial states satisfy the invariant.
LEMMA InitIInv == Init => IInv
<1> SUFFICES ASSUME Init PROVE IInv
  OBVIOUS
<1>1. TypeOK
  <2>1. IdleLines \in [Lines -> LineStates]
    BY DEF IdleLines, LineStates
  <2>2. /\ line \in [Jobs -> [Lines -> LineStates]]
        /\ phase \in [Jobs -> Phases]
    BY <2>1 DEF Init, Phases
  <2>3. submit \in [pc : SubmitStates, seq : Sequences \union {0},
                    key : Keys \union {NoKey}, job : Jobs \union {NoJob},
                    todo : SUBSET Sequences, doomed : SUBSET Sequences]
    BY DEF Init, IdleSubmit, SubmitStates
  <2>4. /\ sequence_of \in [Jobs -> Sequences \union {0}]
        /\ key_of \in [Jobs -> Keys \union {NoKey}]
        /\ generation_of \in [Jobs -> Nat]
        /\ late \in [Jobs -> Nat]
        /\ current \in [Jobs -> Lines \union {NoLine}]
        /\ preview_lineage \in [Keys -> Nat]
    BY DEF Init
  <2>5. /\ queue \in SUBSET Jobs /\ active_jobs \in Nat /\ active_tasks \in SUBSET Jobs
        /\ handles \in SUBSET active_tasks
        /\ next_job_id \in 0..MaxJobs /\ worker \in WorkerStates
        /\ in_hand \in Jobs \union {NoJob}
        /\ cancelled \in SUBSET Jobs /\ aborted \in SUBSET Jobs
        /\ last_sequence \in Sequences \union {0} /\ relevant \in SUBSET Sequences
    BY BoundsAssumption DEF Init, WorkerStates
  <2>6. stopped \in BOOLEAN /\ permit \in BOOLEAN
    BY DEF Init
  <2>7. QED
    BY <2>2, <2>3, <2>4, <2>5, <2>6 DEF TypeOK
<1> USE BoundsAssumption DEF Init
<1>2. IdsInOrder
  BY DEF IdsInOrder, Submitting, IdleSubmit, Jobs
<1>3. PlacesAgree
  BY DEF PlacesAgree, Queued, Running, LivePhases
<1>4. PoppedJobs = {}
  BY DEF PoppedJobs
<1>5. SlotsCounted
  BY <1>4, FS_EmptySet DEF SlotsCounted, SlotAccounting
<1>6. StopLeavesOne /\ StopExcludesSubmit /\ LateSettled /\ NoLostWakeup
  BY DEF StopLeavesOne, StopExcludesSubmit, LateSettled, NoLostWakeup
<1>7. QED
  BY <1>1, <1>2, <1>3, <1>5, <1>6 DEF IInv

-----------------------------------------------------------------------------

(* The type invariant, in the parts an action disturbs separately. *)

RunTypes ==
  /\ phase \in [Jobs -> Phases]
  /\ line \in [Jobs -> [Lines -> LineStates]]
  /\ current \in [Jobs -> Lines \union {NoLine}]

FeedTypes ==
  /\ submit \in [pc : SubmitStates, seq : Sequences \union {0},
                 key : Keys \union {NoKey}, job : Jobs \union {NoJob},
                 todo : SUBSET Sequences, doomed : SUBSET Sequences]
  /\ last_sequence \in Sequences \union {0}
  /\ relevant \in SUBSET Sequences
  /\ late \in [Jobs -> Nat]

JobTypes ==
  /\ next_job_id \in 0..MaxJobs
  /\ preview_lineage \in [Keys -> Nat]
  /\ sequence_of \in [Jobs -> Sequences \union {0}]
  /\ key_of \in [Jobs -> Keys \union {NoKey}]
  /\ generation_of \in [Jobs -> Nat]

PoolTypes ==
  /\ queue \in SUBSET Jobs
  /\ active_jobs \in Nat
  /\ active_tasks \in SUBSET Jobs
  /\ handles \in SUBSET active_tasks
  /\ worker \in WorkerStates
  /\ in_hand \in Jobs \union {NoJob}
  /\ cancelled \in SUBSET Jobs
  /\ aborted \in SUBSET Jobs

Flags == stopped \in BOOLEAN /\ permit \in BOOLEAN

LEMMA TypeParts == TypeOK <=> RunTypes /\ FeedTypes /\ JobTypes /\ PoolTypes /\ Flags
BY DEF TypeOK, RunTypes, FeedTypes, JobTypes, PoolTypes, Flags

LEMMA LineTypes ==
  /\ IdleLines \in [Lines -> LineStates]
  /\ [l \in Lines |-> "gate"] \in [Lines -> LineStates]
BY DEF IdleLines, LineStates

LEMMA SetLineTypes ==
  ASSUME RunTypes, NEW j \in Jobs, NEW l \in Lines, NEW state \in LineStates,
         SetLine(j, l, state)
  PROVE  line' \in [Jobs -> [Lines -> LineStates]]
<1>1. [line[j] EXCEPT ![l] = state] \in [Lines -> LineStates]
  BY DEF RunTypes
<1>2. line' = [line EXCEPT ![j] = [line[j] EXCEPT ![l] = state]]
  BY DEF SetLine, RunTypes
<1>3. QED
  BY <1>1, <1>2 DEF RunTypes

\* A job that is queued or listed has been admitted.
LEMMA HeldJobs ==
  ASSUME PlacesAgree, NEW j \in queue \union active_tasks
  PROVE  j \in Jobs /\ phase[j] # "none"
BY DEF PlacesAgree, Running, Queued, LivePhases

\* An admitted job carries its own id as its sequence.
LEMMA StartedJobs ==
  ASSUME JobTypes, IdsInOrder, NEW j \in Jobs, phase[j] # "none"
  PROVE  sequence_of[j] = j /\ j <= next_job_id
BY DEF IdsInOrder

\* What an event handed to the subtitle router does keeps the types.
LEMMA HandOverTypes ==
  ASSUME FeedTypes, JobTypes, IdsInOrder, NEW j \in Jobs, phase[j] # "none", HandOver(j)
  PROVE  relevant' \in SUBSET Sequences /\ late' \in [Jobs -> Nat]
<1>1. sequence_of[j] \in Sequences
  BY BoundsAssumption DEF IdsInOrder, JobTypes, Jobs, Sequences
<1>2. relevant' \in SUBSET Sequences
  BY <1>1 DEF HandOver, FeedTypes
<1>3. late' \in [Jobs -> Nat]
  <2>1. late' = [late EXCEPT ![j] = @ + 1] \/ late' = [late EXCEPT ![j] = @]
    BY DEF HandOver
  <2>2. QED
    BY <2>1 DEF FeedTypes
<1>4. QED
  BY <1>2, <1>3

\* Every action keeps the types.
LEMMA TypeStep == TypeOK /\ IdsInOrder /\ PlacesAgree /\ [Next]_vars => TypeOK'
<1> DEFINE TypesNext == RunTypes' /\ FeedTypes' /\ JobTypes' /\ PoolTypes' /\ Flags'
<1> SUFFICES ASSUME RunTypes, FeedTypes, JobTypes, PoolTypes, Flags,
                    IdsInOrder, PlacesAgree, [Next]_vars
             PROVE  TypesNext
  <2>1. TypeOK' <=> TypesNext
    BY TypeParts, PTL
  <2>2. QED
    BY TypeParts, <2>1
<1> USE BoundsAssumption, LineTypes
    DEF vars, queueVars, jobVars, workerVars, runVars, cancelVars, feedVars, RunTypes,
        FeedTypes, JobTypes, PoolTypes, Flags, Jobs, Sequences
<1>1. ASSUME NEW k \in Keys \union {NoKey}, SubmitFinal(k) PROVE TypesNext
  <2>1. RunTypes'
    BY <1>1 DEF SubmitFinal, IdleSubmit, IdsInOrder, Submitting, SubmitStates
  <2>2. FeedTypes'
    <3>1. \A j \in queue \union active_tasks : sequence_of[j] \in Sequences
      <4> SUFFICES ASSUME NEW j \in queue \union active_tasks
                   PROVE  sequence_of[j] \in Sequences
        OBVIOUS
      <4>1. j \in Jobs /\ phase[j] # "none"
        BY HeldJobs
      <4>2. QED
        BY <4>1, StartedJobs
    <3>2. last_sequence + 1 \in Sequences
      BY <1>1 DEF SubmitFinal, IdsInOrder, Submitting
    <3> DEFINE older == {sequence_of[j] : j \in {i \in queue \union active_tasks :
                                                    sequence_of[i] < last_sequence + 1}}
    <3>a. older \in SUBSET Sequences
      BY <3>1
    <3>b. submit' = [IdleSubmit EXCEPT !.pc = "judge", !.seq = last_sequence + 1,
                                       !.key = k, !.todo = older]
      BY <1>1 DEF SubmitFinal
    <3> HIDE DEF older
    <3>3. submit' \in [pc : SubmitStates, seq : Sequences \union {0},
                       key : Keys \union {NoKey}, job : Jobs \union {NoJob},
                       todo : SUBSET Sequences, doomed : SUBSET Sequences]
      BY <3>a, <3>b, <3>2 DEF IdleSubmit, SubmitStates
    <3>4. QED
      BY <1>1, <3>2, <3>3 DEF SubmitFinal
  <2>3. JobTypes'
    BY <1>1 DEF SubmitFinal, IdleSubmit, IdsInOrder, Submitting, SubmitStates
  <2>4. PoolTypes'
    BY <1>1 DEF SubmitFinal, IdleSubmit, IdsInOrder, Submitting, SubmitStates
  <2>5. Flags'
    BY <1>1 DEF SubmitFinal, IdleSubmit, IdsInOrder, Submitting, SubmitStates
  <2>6. QED
    BY <2>1, <2>2, <2>3, <2>4, <2>5
<1>2. ASSUME NEW s \in Sequences, Forget(s) PROVE TypesNext
  BY <1>2 DEF Forget
<1>3. ASSUME NEW s \in Sequences, JudgeOlder(s) PROVE TypesNext
  BY <1>3 DEF JudgeOlder
<1>4. CASE CancelOlder
  <2>1. RunTypes'
    BY <1>4 DEF CancelOlder, RaiseFlags, NotifyWaiters, WorkerStates, SubmitStates, Phases, SaturatingSub
  <2>2. FeedTypes'
    BY <1>4 DEF CancelOlder, RaiseFlags, NotifyWaiters, WorkerStates, SubmitStates, Phases, SaturatingSub
  <2>3. JobTypes'
    BY <1>4 DEF CancelOlder, RaiseFlags, NotifyWaiters, WorkerStates, SubmitStates, Phases, SaturatingSub
  <2>4. PoolTypes'
    <3>1. Cardinality({j \in active_tasks : Doomed(j)}) \in Nat
      BY JobsFinite
    <3>2. active_jobs' \in Nat
      BY <1>4, <3>1 DEF CancelOlder, SaturatingSub
    <3>3. worker' \in WorkerStates
      BY <1>4 DEF CancelOlder, NotifyWaiters, WorkerStates
    <3>4. QED
      BY <1>4, <3>2, <3>3 DEF CancelOlder, RaiseFlags
  <2>5. Flags'
    BY <1>4 DEF CancelOlder, RaiseFlags, NotifyWaiters, WorkerStates, SubmitStates, Phases, SaturatingSub
  <2>6. QED
    BY <2>1, <2>2, <2>3, <2>4, <2>5
<1>5. CASE AdmitJob
  <2>1. RunTypes'
    BY <1>5 DEF AdmitJob, IdsInOrder, Submitting, SubmitStates
  <2>2. FeedTypes'
    <3>1. next_job_id + 1 \in Jobs
      BY <1>5 DEF AdmitJob, IdsInOrder, Submitting
    <3>2. QED
      BY <1>5, <3>1 DEF AdmitJob, SubmitStates
  <2>3. JobTypes'
    <3>1. PICK j, k : j = next_job_id + 1 /\ k = submit.key
      OBVIOUS
    <3>2. j \in Jobs /\ j \in 0..MaxJobs /\ submit.seq \in Sequences \union {0} /\ k \in Keys \union {NoKey}
      BY <1>5, <3>1 DEF AdmitJob, IdsInOrder, Submitting
    <3>3. next_job_id' \in 0..MaxJobs
      BY <1>5, <3>1, <3>2 DEF AdmitJob
    <3>4. sequence_of' \in [Jobs -> Sequences \union {0}]
      <4>1. sequence_of' = [sequence_of EXCEPT ![j] = submit.seq]
        BY <1>5, <3>1 DEF AdmitJob
      <4>2. QED
        BY <3>2, <4>1
    <3>5. key_of' \in [Jobs -> Keys \union {NoKey}]
      <4>1. key_of' = [key_of EXCEPT ![j] = k]
        BY <1>5, <3>1 DEF AdmitJob
      <4>2. QED
        BY <3>2, <4>1
    <3>6. preview_lineage' \in [Keys -> Nat] /\ generation_of' \in [Jobs -> Nat]
      <4>1. CASE k \in Keys
        <5>1. PICK n : n = preview_lineage[k] + 1
          OBVIOUS
        <5>2. n \in Nat
          BY <4>1, <5>1
        <5>3. preview_lineage' = [preview_lineage EXCEPT ![k] = n]
          BY <1>5, <3>1, <4>1, <5>1 DEF AdmitJob
        <5>4. generation_of' = [generation_of EXCEPT ![j] = n]
          BY <1>5, <3>1, <4>1, <5>1 DEF AdmitJob
        <5>5. preview_lineage' \in [Keys -> Nat]
          BY <5>2, <5>3
        <5>6. generation_of' \in [Jobs -> Nat]
          BY <5>2, <5>4
        <5>7. QED
          BY <5>5, <5>6
      <4>2. CASE k \notin Keys
        BY <1>5, <3>1, <4>2 DEF AdmitJob
      <4>3. QED
        BY <4>1, <4>2
    <3>7. QED
      BY <3>3, <3>4, <3>5, <3>6
  <2>4. PoolTypes'
    BY <1>5 DEF AdmitJob, IdsInOrder, Submitting, SubmitStates
  <2>5. Flags'
    BY <1>5 DEF AdmitJob, IdsInOrder, Submitting, SubmitStates
  <2>6. QED
    BY <2>1, <2>2, <2>3, <2>4, <2>5
<1>6. CASE EnqueueJob
  BY <1>6 DEF EnqueueJob, IdsInOrder, Phases, SubmitStates
<1>7. ASSUME NEW j \in Jobs, DropOverflow(j) PROVE TypesNext
  BY <1>7 DEF DropOverflow, Phases
<1>8. CASE WakeWorker
  BY <1>8 DEF WakeWorker, NotifyOne, WorkerStates, IdleSubmit, SubmitStates
<1>9. ASSUME NEW j \in Jobs, WorkerPop(j) PROVE TypesNext
  <2>1. RunTypes'
    BY <1>9 DEF WorkerPop, WorkerStates, Phases
  <2>2. FeedTypes'
    BY <1>9 DEF WorkerPop, WorkerStates, Phases
  <2>3. JobTypes'
    BY <1>9 DEF WorkerPop, WorkerStates, Phases
  <2>4. PoolTypes'
    BY <1>9 DEF WorkerPop, WorkerStates, Phases
  <2>5. Flags'
    BY <1>9 DEF WorkerPop, WorkerStates, Phases
  <2>6. QED
    BY <2>1, <2>2, <2>3, <2>4, <2>5
<1>10. CASE WorkerDecideWait
  BY <1>10 DEF WorkerDecideWait, WorkerStates
<1>11. CASE WorkerWait
  BY <1>11 DEF WorkerWait, WorkerStates
<1>12. CASE WorkerList
  BY <1>12 DEF WorkerList, WorkerStates, PlacesAgree, Phases, LivePhases
<1>13. CASE WorkerStoreHandle
  BY <1>13 DEF WorkerStoreHandle, WorkerStates
<1>14. CASE WorkerGone
  BY <1>14 DEF WorkerGone, WorkerStates, Phases
<1>15. ASSUME NEW j \in Jobs, JobStep(j) PROVE TypesNext
  <2>1. CASE JobSkip(j)
    BY <2>1 DEF JobSkip, Goto, Phases, LivePhases
  <2>2. CASE JobGates(j)
    <3>1. RunTypes'
      <4>1. phase' \in [Jobs -> Phases] /\ current' = current
        BY <2>2 DEF JobGates, Goto, Phases, LivePhases
      <4>2. line' \in [Jobs -> [Lines -> LineStates]]
        BY <2>2 DEF JobGates, Goto
      <4>3. QED
        BY <4>1, <4>2
    <3>2. FeedTypes'
      BY <2>2 DEF JobGates, Goto, Phases, LivePhases, LineStates
    <3>3. JobTypes'
      BY <2>2 DEF JobGates, Goto, Phases, LivePhases, LineStates
    <3>4. PoolTypes'
      BY <2>2 DEF JobGates, Goto, Phases, LivePhases, LineStates
    <3>5. Flags'
      BY <2>2 DEF JobGates, Goto, Phases, LivePhases, LineStates
    <3>6. QED
      BY <3>1, <3>2, <3>3, <3>4, <3>5
  <2>3. ASSUME NEW l \in Lines, JobTake(j, l) PROVE TypesNext
    <3>1. RunTypes'
      <4>1. CASE LeaveRun(j, "epilogue")
        BY <4>1 DEF LeaveRun, Phases, LivePhases
      <4>2. CASE /\ phase' = [phase EXCEPT ![j] = "publish"]
                 /\ current' = [current EXCEPT ![j] = l]
                 /\ line' = line
        BY <4>2 DEF Phases, LivePhases
      <4>3. CASE SetLine(j, l, "taken") /\ phase' = phase /\ current' = current
        BY <4>3, SetLineTypes DEF LineStates
      <4>4. QED
        BY <2>3, <4>1, <4>2, <4>3 DEF JobTake
    <3>2. FeedTypes'
      BY <2>3 DEF JobTake, LeaveRun, SetLine, Phases, LivePhases, LineStates, IdleLines
    <3>3. JobTypes'
      BY <2>3 DEF JobTake, LeaveRun, SetLine, Phases, LivePhases, LineStates, IdleLines
    <3>4. PoolTypes'
      BY <2>3 DEF JobTake, LeaveRun, SetLine, Phases, LivePhases, LineStates, IdleLines
    <3>5. Flags'
      BY <2>3 DEF JobTake, LeaveRun, SetLine, Phases, LivePhases, LineStates, IdleLines
    <3>6. QED
      BY <3>1, <3>2, <3>3, <3>4, <3>5
  <2>4. CASE JobPublish(j)
    <3>1. RunTypes'
      BY <2>4 DEF JobPublish, HandOver, SetLine, Phases, LivePhases, LineStates
    <3>2. FeedTypes'
      BY <2>4, HandOverTypes DEF JobPublish, Phases
    <3>3. JobTypes'
      BY <2>4 DEF JobPublish, HandOver, SetLine, Phases, LivePhases, LineStates
    <3>4. PoolTypes'
      BY <2>4 DEF JobPublish, HandOver, SetLine, Phases, LivePhases, LineStates
    <3>5. Flags'
      BY <2>4 DEF JobPublish, HandOver, SetLine, Phases, LivePhases, LineStates
    <3>6. QED
      BY <3>1, <3>2, <3>3, <3>4, <3>5
  <2>5. CASE JobCompletion(j)
    BY <2>5 DEF JobCompletion, LeaveRun, IdleLines, Phases, LivePhases, LineStates
  <2>6. CASE JobPublishComplete(j)
    <3>1. RunTypes'
      BY <2>6 DEF JobPublishComplete, HandOver, Goto, Phases, LivePhases
    <3>2. FeedTypes'
      BY <2>6, HandOverTypes DEF JobPublishComplete, Goto, Phases
    <3>3. JobTypes'
      BY <2>6 DEF JobPublishComplete, HandOver, Goto, Phases, LivePhases
    <3>4. PoolTypes'
      BY <2>6 DEF JobPublishComplete, HandOver, Goto, Phases, LivePhases
    <3>5. Flags'
      BY <2>6 DEF JobPublishComplete, HandOver, Goto, Phases, LivePhases
    <3>6. QED
      BY <3>1, <3>2, <3>3, <3>4, <3>5
  <2>7. CASE JobCancelled(j)
    BY <2>7 DEF JobCancelled, LeaveRun, IdleLines, Phases, LivePhases, LineStates
  <2>8. CASE JobEpilogue(j)
    <3>1. RunTypes'
      BY <2>8 DEF JobEpilogue, LeaveRun, IdleLines, Phases, LivePhases, LineStates, FreeSlot, NotifyOne, WorkerStates, SaturatingSub
    <3>2. FeedTypes'
      BY <2>8 DEF JobEpilogue, LeaveRun, IdleLines, Phases, LivePhases, LineStates, FreeSlot, NotifyOne, WorkerStates, SaturatingSub
    <3>3. JobTypes'
      BY <2>8 DEF JobEpilogue, LeaveRun, IdleLines, Phases, LivePhases, LineStates, FreeSlot, NotifyOne, WorkerStates, SaturatingSub
    <3>4. PoolTypes'
      <4>1. active_jobs' \in Nat
        BY <2>8 DEF JobEpilogue, FreeSlot, SaturatingSub
      <4>2. active_tasks' \in SUBSET Jobs /\ handles' \in SUBSET active_tasks'
        BY <2>8 DEF JobEpilogue, FreeSlot
      <4>3. worker' \in WorkerStates
        BY <2>8 DEF JobEpilogue, NotifyOne, WorkerStates
      <4>4. QED
        BY <2>8, <4>1, <4>2, <4>3 DEF JobEpilogue
    <3>5. Flags'
      BY <2>8 DEF JobEpilogue, LeaveRun, IdleLines, Phases, LivePhases, LineStates, FreeSlot, NotifyOne, WorkerStates, SaturatingSub
    <3>6. QED
      BY <3>1, <3>2, <3>3, <3>4, <3>5
  <2>9. CASE JobKilled(j)
    BY <2>9 DEF JobKilled, LeaveRun, IdleLines, Phases, LivePhases, LineStates
  <2>10. QED
    BY <1>15, <2>1, <2>2, <2>3, <2>4, <2>5, <2>6, <2>7, <2>8, <2>9 DEF JobStep
<1>16. ASSUME NEW j \in Jobs, NEW l \in Lines, LineStep(j, l) PROVE TypesNext
  <2>1. RunTypes'
    <3>1. \E state \in LineStates : SetLine(j, l, state)
      BY <1>16 DEF LineStep, LineGate, LineFinish, LinePanic, LineStates
    <3>2. line' \in [Jobs -> [Lines -> LineStates]]
      BY <3>1, SetLineTypes
    <3>3. QED
      BY <1>16, <3>2 DEF LineStep, LineGate, LineFinish, LinePanic
  <2>2. FeedTypes'
    BY <1>16 DEF LineStep, LineGate, LineFinish, LinePanic, SetLine, LineStates
  <2>3. JobTypes'
    BY <1>16 DEF LineStep, LineGate, LineFinish, LinePanic, SetLine, LineStates
  <2>4. PoolTypes'
    BY <1>16 DEF LineStep, LineGate, LineFinish, LinePanic, SetLine, LineStates
  <2>5. Flags'
    BY <1>16 DEF LineStep, LineGate, LineFinish, LinePanic, SetLine, LineStates
  <2>6. QED
    BY <2>1, <2>2, <2>3, <2>4, <2>5
<1>17. CASE Stop
  <2>1. RunTypes'
    BY <1>17 DEF Stop, RaiseFlags, NotifyWaiters, WorkerStates, Phases, SaturatingSub
  <2>2. FeedTypes'
    BY <1>17 DEF Stop, RaiseFlags, NotifyWaiters, WorkerStates, Phases, SaturatingSub
  <2>3. JobTypes'
    BY <1>17 DEF Stop, RaiseFlags, NotifyWaiters, WorkerStates, Phases, SaturatingSub
  <2>4. PoolTypes'
    <3>0. Cardinality(active_tasks) \in Nat
      BY JobsFinite
    <3>1. active_jobs' \in Nat
      BY <1>17, <3>0 DEF Stop, SaturatingSub
    <3>2. QED
      BY <1>17, <3>1 DEF Stop, RaiseFlags, NotifyWaiters, WorkerStates
  <2>5. Flags'
    BY <1>17 DEF Stop, RaiseFlags, NotifyWaiters, WorkerStates, Phases, SaturatingSub
  <2>6. QED
    BY <2>1, <2>2, <2>3, <2>4, <2>5
<1>18. CASE Halted \/ UNCHANGED vars
  BY <1>18 DEF Halted
<1>19. QED
  BY <1>1, <1>2, <1>3, <1>4, <1>5, <1>6, <1>7, <1>8, <1>9, <1>10, <1>11, <1>12, <1>13,
     <1>14, <1>15, <1>16, <1>17, <1>18 DEF Next, SubmitStep, WorkerStep

-----------------------------------------------------------------------------

\* What every step of a job's task has in common: only that job moves, it was
\* live, and it gives its slot back only by its epilogue or by being killed.
LEMMA JobStepShape ==
  ASSUME TypeOK, NEW j \in Jobs, JobStep(j)
  PROVE  /\ UNCHANGED <<queue, stopped, jobVars, in_hand, cancelVars, feedVars>>
         /\ phase[j] \in LivePhases
         /\ phase' = [phase EXCEPT ![j] = phase'[j]]
         /\ \/ phase'[j] \in LivePhases /\ UNCHANGED <<queueVars, workerVars, permit>>
            \/ phase'[j] = "ended" /\ (JobEpilogue(j) \/ JobKilled(j))
<1> USE DEF jobVars, cancelVars, feedVars, queueVars, workerVars, LivePhases, TypeOK
<1>1. CASE JobSkip(j)
  BY <1>1 DEF JobSkip, Goto
<1>2. CASE JobGates(j)
  BY <1>2 DEF JobGates, Goto
<1>3. ASSUME NEW l \in Lines, JobTake(j, l)
      PROVE  /\ phase[j] = "lines" /\ phase'[j] \in LivePhases
             /\ phase' = [phase EXCEPT ![j] = phase'[j]]
  BY <1>3 DEF JobTake, LeaveRun
<1>4. CASE JobPublish(j)
  BY <1>4 DEF JobPublish
<1>5. CASE JobCompletion(j)
  BY <1>5 DEF JobCompletion, LeaveRun
<1>6. CASE JobPublishComplete(j)
  BY <1>6 DEF JobPublishComplete, Goto
<1>7. CASE JobCancelled(j)
  BY <1>7 DEF JobCancelled, LeaveRun
<1>8. CASE JobEpilogue(j)
  BY <1>8 DEF JobEpilogue, LeaveRun
<1>9. CASE JobKilled(j)
  BY <1>9 DEF JobKilled, LeaveRun
<1>10. ASSUME NEW l \in Lines, JobTake(j, l)
       PROVE  UNCHANGED <<queueVars, jobVars, workerVars, permit, cancelVars, feedVars>>
  BY <1>10 DEF JobTake
<1>11. QED
  BY <1>1, <1>2, <1>3, <1>4, <1>5, <1>6, <1>7, <1>8, <1>9, <1>10 DEF JobStep

\* IdsInOrder survives a step that submits nothing and unstarts no job.
LEMMA IdsKept ==
  ASSUME TypeOK, IdsInOrder, UNCHANGED <<jobVars, feedVars>>,
         \A j \in Jobs : phase'[j] = "none" <=> phase[j] = "none"
  PROVE  IdsInOrder'
BY DEF IdsInOrder, Submitting, jobVars, feedVars

LEMMA IdsStep == IInv /\ [Next]_vars => IdsInOrder'
<1> SUFFICES ASSUME TypeOK, IdsInOrder, PlacesAgree, [Next]_vars PROVE IdsInOrder'
  BY DEF IInv
<1> USE BoundsAssumption DEF jobVars, feedVars
<1>1. ASSUME NEW k \in Keys \union {NoKey}, SubmitFinal(k) PROVE IdsInOrder'
  BY <1>1 DEF SubmitFinal, IdleSubmit, IdsInOrder, Submitting, runVars
<1>2. ASSUME NEW s \in Sequences, Forget(s) PROVE IdsInOrder'
  BY <1>2, IdsKept DEF Forget, runVars
<1>3. ASSUME NEW s \in Sequences, JudgeOlder(s) PROVE IdsInOrder'
  BY <1>3 DEF JudgeOlder, IdsInOrder, Submitting, runVars, TypeOK
<1>4. CASE CancelOlder
  <2>1. \A j \in Jobs : phase'[j] = "none" <=> phase[j] = "none"
    BY <1>4, HeldJobs DEF CancelOlder
  <2>2. QED
    BY <1>4, <2>1 DEF CancelOlder, IdsInOrder, Submitting, TypeOK
<1>5. CASE AdmitJob
  <2>1. next_job_id + 1 \in Jobs /\ submit.seq = next_job_id + 1
    BY <1>5 DEF AdmitJob, IdsInOrder, Submitting, TypeOK, Sequences, Jobs
  <2>2. phase[next_job_id + 1] = "none"
    BY <2>1 DEF IdsInOrder, TypeOK
  <2>3. \A j \in Jobs : sequence_of'[j] = IF j <= next_job_id' THEN j ELSE 0
    BY <1>5, <2>1 DEF AdmitJob, IdsInOrder, TypeOK, Jobs
  <2>4. QED
    BY <1>5, <2>1, <2>2, <2>3 DEF AdmitJob, IdsInOrder, Submitting, TypeOK, runVars, Jobs
<1>6. CASE EnqueueJob
  BY <1>6 DEF EnqueueJob, IdsInOrder, Submitting, TypeOK, Queued
<1>7. ASSUME NEW j \in Jobs, DropOverflow(j) PROVE IdsInOrder'
  <2>1. phase[j] # "none"
    BY <1>7, HeldJobs DEF DropOverflow, IsOverflowVictim, Oldest
  <2>2. QED
    BY <1>7, <2>1, IdsKept DEF DropOverflow, TypeOK
<1>8. CASE WakeWorker
  BY <1>8 DEF WakeWorker, IdleSubmit, IdsInOrder, Submitting, runVars
<1>9. ASSUME NEW j \in Jobs, WorkerPop(j) PROVE IdsInOrder'
  <2>1. phase[j] # "none"
    BY <1>9, HeldJobs DEF WorkerPop, Oldest
  <2>2. QED
    BY <1>9, <2>1, IdsKept DEF WorkerPop, TypeOK
<1>10. CASE WorkerDecideWait \/ WorkerWait \/ WorkerStoreHandle
  BY <1>10, IdsKept DEF WorkerDecideWait, WorkerWait, WorkerStoreHandle, runVars
<1>11. CASE WorkerList
  BY <1>11, IdsKept DEF WorkerList, PlacesAgree, TypeOK
<1>12. CASE WorkerGone
  BY <1>12, IdsKept DEF WorkerGone, PlacesAgree, TypeOK
<1>13. ASSUME NEW j \in Jobs, JobStep(j) PROVE IdsInOrder'
  BY <1>13, JobStepShape, IdsKept DEF LivePhases, TypeOK
<1>14. ASSUME NEW j \in Jobs, NEW l \in Lines, LineStep(j, l) PROVE IdsInOrder'
  BY <1>14, IdsKept DEF LineStep, LineGate, LineFinish, LinePanic
<1>15. CASE Stop
  BY <1>15, IdsKept DEF Stop, TypeOK, Queued
<1>16. CASE Halted \/ UNCHANGED vars
  BY <1>16, IdsKept DEF Halted, vars, runVars
<1>17. QED
  BY <1>1, <1>2, <1>3, <1>4, <1>5, <1>6, <1>7, <1>8, <1>9, <1>10, <1>11, <1>12, <1>13,
     <1>14, <1>15, <1>16 DEF Next, SubmitStep, WorkerStep

-----------------------------------------------------------------------------

\* PlacesAgree survives a step that moves no job and at most wakes the worker.
LEMMA PlacesKept ==
  ASSUME PlacesAgree, UNCHANGED <<queue, active_tasks, phase, cancelVars>>,
         \/ UNCHANGED workerVars
         \/ worker' \notin {"popped", "listed"}
  PROVE  PlacesAgree'
BY DEF PlacesAgree, Running, cancelVars, workerVars

\* Each live job is where its control state says.
LEMMA PlacesStep == IInv /\ [Next]_vars => PlacesAgree'
<1> SUFFICES ASSUME TypeOK, IdsInOrder, PlacesAgree, [Next]_vars PROVE PlacesAgree'
  BY DEF IInv
<1> USE DEF queueVars, runVars, cancelVars, workerVars
<1>1. ASSUME NEW k \in Keys \union {NoKey}, SubmitFinal(k) PROVE PlacesAgree'
  BY <1>1, PlacesKept DEF SubmitFinal
<1>2. ASSUME NEW s \in Sequences, Forget(s) \/ JudgeOlder(s) PROVE PlacesAgree'
  BY <1>2, PlacesKept DEF Forget, JudgeOlder
<1>3. CASE CancelOlder
  <2> DEFINE removed == {j \in active_tasks : Doomed(j)}
             unqueued == {j \in queue : Doomed(j)}
  <2>1. /\ queue' = queue \ unqueued /\ active_tasks' = active_tasks \ removed
        /\ cancelled' = cancelled \union removed
        /\ aborted' = aborted \union (removed \intersect handles)
        /\ phase' = [j \in Jobs |-> IF j \in unqueued THEN "dropped" ELSE phase[j]]
        /\ in_hand' = in_hand
        /\ worker' = worker \/ worker' = "check"
    BY <1>3 DEF CancelOlder, RaiseFlags, NotifyWaiters
  <2>2. removed \subseteq active_tasks /\ unqueued \subseteq queue
    OBVIOUS
  <2> HIDE DEF removed, unqueued
  <2>3. queue' = {j \in Jobs : phase'[j] = Queued}
    BY <2>1, <2>2 DEF PlacesAgree, Queued, TypeOK
  <2>4. active_tasks' = {j \in Jobs : Running(j)'}
    BY <2>1, <2>2 DEF PlacesAgree, Queued, TypeOK, Running, LivePhases
  <2>5. \A j \in cancelled' : phase'[j] \in LivePhases \union {"ended"}
    BY <2>1, <2>2 DEF PlacesAgree, Queued, TypeOK, Running, LivePhases
  <2>6. /\ worker' = "popped" => in_hand' \in Jobs /\ phase'[in_hand'] = "popped"
        /\ worker' = "listed" => in_hand' \in Jobs
        /\ aborted' \subseteq cancelled'
    BY <2>1, <2>2 DEF PlacesAgree, Queued
  <2>7. QED
    BY <2>3, <2>4, <2>5, <2>6 DEF PlacesAgree
<1>4. CASE AdmitJob
  BY <1>4, PlacesKept DEF AdmitJob
<1>5. CASE EnqueueJob
  BY <1>5 DEF EnqueueJob, IdsInOrder, PlacesAgree, TypeOK, Running, LivePhases, Queued
<1>6. ASSUME NEW j \in Jobs, DropOverflow(j) PROVE PlacesAgree'
  <2>1. phase[j] = Queued
    BY <1>6 DEF DropOverflow, IsOverflowVictim, Oldest, PlacesAgree
  <2>2. QED
    BY <1>6, <2>1 DEF DropOverflow, PlacesAgree, TypeOK, Running, LivePhases, Queued
<1>7. CASE WakeWorker
  BY <1>7 DEF WakeWorker, NotifyOne, PlacesAgree, Running
<1>8. ASSUME NEW j \in Jobs, WorkerPop(j) PROVE PlacesAgree'
  <2>1. phase[j] = Queued
    BY <1>8 DEF WorkerPop, Oldest, PlacesAgree
  <2>2. QED
    BY <1>8, <2>1 DEF WorkerPop, PlacesAgree, TypeOK, Running, LivePhases, Queued
<1>9. CASE WorkerDecideWait \/ WorkerWait
  BY <1>9, PlacesKept DEF WorkerDecideWait, WorkerWait
<1>10. CASE WorkerStoreHandle
  BY <1>10, PlacesKept DEF WorkerStoreHandle
<1>11. CASE WorkerList
  <2>1. in_hand \in Jobs /\ phase[in_hand] = "popped" /\ in_hand \notin cancelled
    BY <1>11 DEF WorkerList, PlacesAgree, LivePhases
  <2>2. QED
    BY <1>11, <2>1 DEF WorkerList, PlacesAgree, TypeOK, Running, LivePhases, Queued
<1>12. CASE WorkerGone
  BY <1>12 DEF WorkerGone, PlacesAgree, TypeOK, Running, LivePhases, Queued
<1>13. ASSUME NEW j \in Jobs, JobStep(j) PROVE PlacesAgree'
  <2>1. /\ UNCHANGED <<queue, in_hand, cancelVars>> /\ phase[j] \in LivePhases
        /\ phase' = [phase EXCEPT ![j] = phase'[j]]
    BY <1>13, JobStepShape
  <2>2. worker' = worker \/ worker' = "check"
    BY <1>13, JobStepShape DEF JobEpilogue, NotifyOne, JobKilled
  <2>3. CASE phase'[j] \in LivePhases /\ UNCHANGED queueVars
    BY <2>1, <2>2, <2>3 DEF PlacesAgree, TypeOK, Running, LivePhases, Queued
  <2>4. CASE phase'[j] = "ended" /\ JobEpilogue(j)
    <3>1. active_tasks' = active_tasks \ {j}
      BY <2>4, StartedJobs, HeldJobs, TypeParts DEF JobEpilogue, FreeSlot
    <3>2. QED
      BY <2>1, <2>2, <2>4, <3>1 DEF PlacesAgree, TypeOK, Running, LivePhases, Queued
  <2>5. CASE phase'[j] = "ended" /\ JobKilled(j)
    <3>1. active_tasks' = active_tasks /\ j \in cancelled
      BY <2>5 DEF JobKilled, PlacesAgree
    <3>2. QED
      BY <2>1, <2>2, <2>5, <3>1 DEF PlacesAgree, TypeOK, Running, LivePhases, Queued
  <2>6. QED
    BY <1>13, <2>3, <2>4, <2>5, JobStepShape
<1>14. ASSUME NEW j \in Jobs, NEW l \in Lines, LineStep(j, l) PROVE PlacesAgree'
  BY <1>14, PlacesKept DEF LineStep, LineGate, LineFinish, LinePanic
<1>15. CASE Stop
  BY <1>15 DEF Stop, RaiseFlags, NotifyWaiters, PlacesAgree, TypeOK, Running, LivePhases, Queued
<1>16. CASE Halted \/ UNCHANGED vars
  BY <1>16, PlacesKept DEF Halted, vars
<1>17. QED
  BY <1>1, <1>2, <1>3, <1>4, <1>5, <1>6, <1>7, <1>8, <1>9, <1>10, <1>11, <1>12, <1>13,
     <1>14, <1>15, <1>16 DEF Next, SubmitStep, WorkerStep

-----------------------------------------------------------------------------

\* SlotsCounted reads nothing but these.
LEMMA SlotsKept ==
  ASSUME SlotsCounted, UNCHANGED <<active_jobs, active_tasks, stopped>>,
         PoppedJobs' = PoppedJobs
  PROVE  SlotsCounted'
BY DEF SlotsCounted, SlotAccounting

\* A worker that neither takes nor lets go of a popped job.
LEMMA PoppedKept ==
  ASSUME UNCHANGED workerVars \/ (worker # "popped" /\ worker' # "popped")
                              \/ (UNCHANGED in_hand /\ worker' = worker)
  PROVE  PoppedJobs' = PoppedJobs
BY DEF PoppedJobs, workerVars

\* The two kinds of notification only move the worker out of its wait.
LEMMA NotifyKeepsPopped ==
  ASSUME NotifyOne \/ NotifyWaiters \/ UNCHANGED worker, UNCHANGED in_hand
  PROVE  PoppedJobs' = PoppedJobs
BY DEF NotifyOne, NotifyWaiters, PoppedJobs

\* Until stop the counter is right, and within the limit.
LEMMA SlotsStep == IInv /\ [Next]_vars => SlotsCounted'
<1> SUFFICES ASSUME TypeOK, IdsInOrder, PlacesAgree, SlotsCounted, [Next]_vars
             PROVE  SlotsCounted'
  BY DEF IInv
<1> USE DEF queueVars, workerVars
<1>1. ASSUME NEW k \in Keys \union {NoKey}, SubmitFinal(k) PROVE SlotsCounted'
  BY <1>1, SlotsKept, PoppedKept DEF SubmitFinal
<1>2. ASSUME NEW s \in Sequences, Forget(s) \/ JudgeOlder(s) PROVE SlotsCounted'
  BY <1>2, SlotsKept, PoppedKept DEF Forget, JudgeOlder
<1>3. CASE CancelOlder
  <2> DEFINE removed == {j \in active_tasks : Doomed(j)}
  <2>1. /\ active_tasks' = active_tasks \ removed
        /\ active_jobs' = SaturatingSub(active_jobs, Cardinality(removed))
        /\ stopped' = stopped
    BY <1>3 DEF CancelOlder
  <2>2. PoppedJobs' = PoppedJobs
    BY <1>3, NotifyKeepsPopped DEF CancelOlder
  <2>3. removed \in SUBSET active_tasks /\ active_tasks \in SUBSET Jobs
    BY DEF TypeOK
  <2>4. PoppedJobs \in SUBSET Jobs
    BY DEF PoppedJobs, PlacesAgree
  <2>5. /\ Cardinality(active_tasks \ removed)
            = Cardinality(active_tasks) - Cardinality(removed)
        /\ Cardinality(removed) <= Cardinality(active_tasks)
        /\ Cardinality(removed) \in Nat /\ Cardinality(active_tasks) \in Nat
        /\ Cardinality(PoppedJobs) \in Nat
    BY <2>3, <2>4, RemovePart, JobsFinite
  <2> HIDE DEF removed
  <2>6. active_jobs \in Nat /\ MaxConcurrent \in Nat
    BY BoundsAssumption DEF TypeOK
  <2>7. ~stopped => active_jobs' = active_jobs - Cardinality(removed)
    BY <2>1, <2>5, <2>6 DEF SlotsCounted, SlotAccounting, SaturatingSub
  <2>8. QED
    BY <2>1, <2>2, <2>5, <2>6, <2>7 DEF SlotsCounted, SlotAccounting
<1>4. CASE AdmitJob
  BY <1>4, SlotsKept, PoppedKept DEF AdmitJob
<1>5. CASE EnqueueJob
  BY <1>5, SlotsKept, PoppedKept DEF EnqueueJob
<1>6. ASSUME NEW j \in Jobs, DropOverflow(j) PROVE SlotsCounted'
  BY <1>6, SlotsKept, PoppedKept DEF DropOverflow
<1>7. CASE WakeWorker
  BY <1>7, SlotsKept, NotifyKeepsPopped DEF WakeWorker
<1>8. ASSUME NEW j \in Jobs, WorkerPop(j) PROVE SlotsCounted'
  <2>1. Cardinality(PoppedJobs) = 0 /\ Cardinality(PoppedJobs') = 1
    BY <1>8, FS_EmptySet, FS_Singleton DEF WorkerPop, PoppedJobs
  <2>2. /\ active_jobs' = active_jobs + 1 /\ active_jobs < MaxConcurrent
        /\ active_tasks' = active_tasks /\ stopped' = stopped
    BY <1>8 DEF WorkerPop
  <2>3. Cardinality(active_tasks) \in Nat /\ active_jobs \in Nat /\ MaxConcurrent \in Nat
    BY JobsFinite, BoundsAssumption DEF TypeOK
  <2>4. QED
    BY <2>1, <2>2, <2>3 DEF SlotsCounted, SlotAccounting
<1>9. CASE WorkerDecideWait \/ WorkerWait
  BY <1>9, SlotsKept, PoppedKept DEF WorkerDecideWait, WorkerWait
<1>10. CASE WorkerStoreHandle
  BY <1>10, SlotsKept, PoppedKept DEF WorkerStoreHandle
<1>11. CASE WorkerList
  <2>1. in_hand \in Jobs /\ in_hand \notin active_tasks
    BY <1>11 DEF WorkerList, PlacesAgree, Running, LivePhases
  <2>2. Cardinality(active_tasks') = Cardinality(active_tasks) + 1
    <3>1. IsFiniteSet(active_tasks)
      BY JobsFinite DEF TypeOK
    <3>2. active_tasks' = active_tasks \union {in_hand}
      BY <1>11 DEF WorkerList
    <3>3. QED
      BY <2>1, <3>1, <3>2, FS_AddElement
  <2>3. Cardinality(PoppedJobs) = 1 /\ Cardinality(PoppedJobs') = 0
    BY <1>11, FS_EmptySet, FS_Singleton DEF WorkerList, PoppedJobs
  <2>4. Cardinality(active_tasks) \in Nat
    BY JobsFinite DEF TypeOK
  <2>5. UNCHANGED <<active_jobs, stopped>>
    BY <1>11 DEF WorkerList
  <2>6. QED
    BY <2>2, <2>3, <2>4, <2>5 DEF SlotsCounted, SlotAccounting
<1>12. CASE WorkerGone \/ Stop
  BY <1>12 DEF WorkerGone, Stop, SlotsCounted, SlotAccounting
<1>13. ASSUME NEW j \in Jobs, JobStep(j) PROVE SlotsCounted'
  <2>1. CASE UNCHANGED <<queueVars, workerVars>>
    BY <2>1, SlotsKept, PoppedKept
  <2>2. CASE JobEpilogue(j)
    <3>1. PoppedJobs' = PoppedJobs /\ stopped' = stopped
      BY <2>2, NotifyKeepsPopped DEF JobEpilogue
    <3>2. CASE j \notin active_tasks
      BY <2>2, <3>1, <3>2, SlotsKept DEF JobEpilogue, FreeSlot
    <3>3. CASE j \in active_tasks
      <4>1. active_tasks' = active_tasks \ {j}
        BY <2>2, <3>3, StartedJobs, HeldJobs, TypeParts DEF JobEpilogue, FreeSlot
      <4>2. {j} \in SUBSET active_tasks /\ active_tasks \in SUBSET Jobs
        BY <3>3 DEF TypeOK
      <4>3. PoppedJobs \in SUBSET Jobs
        BY DEF PoppedJobs, PlacesAgree
      <4>4. /\ Cardinality(active_tasks') = Cardinality(active_tasks) - 1
            /\ 1 <= Cardinality(active_tasks)
            /\ Cardinality(active_tasks) \in Nat /\ Cardinality(PoppedJobs) \in Nat
        <5>1. Cardinality({j}) = 1
          BY FS_Singleton
        <5>2. QED
          BY <4>1, <4>2, <4>3, <5>1, RemovePart, JobsFinite
      <4>5. active_jobs' = SaturatingSub(active_jobs, 1)
        BY <2>2, <3>3 DEF JobEpilogue, FreeSlot
      <4>6. active_jobs \in Nat /\ MaxConcurrent \in Nat
        BY BoundsAssumption DEF TypeOK
      <4>7. QED
        BY <3>1, <4>4, <4>5, <4>6 DEF SlotsCounted, SlotAccounting, SaturatingSub
    <3>4. QED
      BY <3>2, <3>3
  <2>3. CASE JobKilled(j)
    BY <2>3, SlotsKept, PoppedKept DEF JobKilled
  <2>4. QED
    BY <1>13, <2>1, <2>2, <2>3, JobStepShape
<1>14. ASSUME NEW j \in Jobs, NEW l \in Lines, LineStep(j, l) PROVE SlotsCounted'
  BY <1>14, SlotsKept, PoppedKept DEF LineStep, LineGate, LineFinish, LinePanic
<1>15. CASE Halted \/ UNCHANGED vars
  BY <1>15, SlotsKept, PoppedKept DEF Halted, vars
<1>16. QED
  BY <1>1, <1>2, <1>3, <1>4, <1>5, <1>6, <1>7, <1>8, <1>9, <1>10, <1>11, <1>12, <1>13,
     <1>14, <1>15 DEF Next, SubmitStep, WorkerStep

-----------------------------------------------------------------------------

\* After stop at most one job is still listed or about to be.
LEMMA StopLeavesOneStep == IInv /\ [Next]_vars => StopLeavesOne'
<1> SUFFICES ASSUME TypeOK, IdsInOrder, PlacesAgree, StopLeavesOne, [Next]_vars
             PROVE  StopLeavesOne'
  BY DEF IInv
<1> DEFINE Left == active_tasks \union PoppedJobs
<1>1. CASE Left' \subseteq Left /\ stopped' = stopped
  BY <1>1 DEF StopLeavesOne
<1>2. CASE ~stopped'
  BY <1>2 DEF StopLeavesOne
<1> USE DEF queueVars, workerVars
<1>3. ASSUME NEW k \in Keys \union {NoKey}, SubmitFinal(k) PROVE StopLeavesOne'
  BY <1>3, <1>1, PoppedKept DEF SubmitFinal
<1>4. ASSUME NEW s \in Sequences, Forget(s) \/ JudgeOlder(s) PROVE StopLeavesOne'
  BY <1>4, <1>1, PoppedKept DEF Forget, JudgeOlder
<1>5. CASE CancelOlder
  BY <1>5, <1>1, NotifyKeepsPopped DEF CancelOlder
<1>6. CASE AdmitJob \/ EnqueueJob \/ WakeWorker
  BY <1>6, <1>1, PoppedKept, NotifyKeepsPopped DEF AdmitJob, EnqueueJob, WakeWorker
<1>7. ASSUME NEW j \in Jobs, DropOverflow(j) PROVE StopLeavesOne'
  BY <1>7, <1>1, PoppedKept DEF DropOverflow
<1>8. ASSUME NEW j \in Jobs, WorkerPop(j) PROVE StopLeavesOne'
  BY <1>8, <1>2 DEF WorkerPop
<1>9. CASE WorkerDecideWait \/ WorkerWait \/ WorkerStoreHandle
  BY <1>9, <1>1, PoppedKept DEF WorkerDecideWait, WorkerWait, WorkerStoreHandle
<1>10. CASE WorkerList
  BY <1>10, <1>1 DEF WorkerList, PoppedJobs
<1>11. CASE WorkerGone
  BY <1>11, <1>1 DEF WorkerGone, PoppedJobs
<1>12. ASSUME NEW j \in Jobs, JobStep(j) PROVE StopLeavesOne'
  <2>1. PoppedJobs' = PoppedJobs /\ stopped' = stopped
    BY <1>12, JobStepShape, PoppedKept, NotifyKeepsPopped DEF JobEpilogue, JobKilled
  <2>2. active_tasks' \subseteq active_tasks
    BY <1>12, JobStepShape DEF JobEpilogue, FreeSlot, JobKilled
  <2>3. QED
    BY <2>1, <2>2, <1>1
<1>13. ASSUME NEW j \in Jobs, NEW l \in Lines, LineStep(j, l) PROVE StopLeavesOne'
  BY <1>13, <1>1, PoppedKept DEF LineStep, LineGate, LineFinish, LinePanic
<1>14. CASE Stop
  BY <1>14 DEF Stop, StopLeavesOne, NotifyWaiters, PoppedJobs
<1>15. CASE Halted \/ UNCHANGED vars
  BY <1>15, <1>1, PoppedKept DEF Halted, vars
<1>16. QED
  BY <1>3, <1>4, <1>5, <1>6, <1>7, <1>8, <1>9, <1>10, <1>11, <1>12, <1>13, <1>14, <1>15
     DEF Next, SubmitStep, WorkerStep

-----------------------------------------------------------------------------

\* Nothing is submitted to a stopped dispatcher.
LEMMA MutexStep == IInv /\ [Next]_vars => StopExcludesSubmit'
<1> SUFFICES ASSUME TypeOK, StopExcludesSubmit, [Next]_vars
             PROVE  StopExcludesSubmit'
  BY DEF IInv
<1>1. CASE UNCHANGED <<stopped, submit>>
  BY <1>1 DEF StopExcludesSubmit
<1> USE DEF queueVars, feedVars
<1>2. ASSUME NEW k \in Keys \union {NoKey}, SubmitFinal(k) PROVE StopExcludesSubmit'
  BY <1>2 DEF SubmitFinal, StopExcludesSubmit
<1>3. ASSUME NEW s \in Sequences, Forget(s) \/ JudgeOlder(s) PROVE StopExcludesSubmit'
  BY <1>3, <1>1 DEF Forget, JudgeOlder, StopExcludesSubmit
<1>4. CASE CancelOlder \/ AdmitJob \/ EnqueueJob \/ WakeWorker
  BY <1>4 DEF CancelOlder, AdmitJob, EnqueueJob, WakeWorker, StopExcludesSubmit
<1>5. ASSUME NEW j \in Jobs, DropOverflow(j) \/ WorkerPop(j) PROVE StopExcludesSubmit'
  BY <1>5, <1>1 DEF DropOverflow, WorkerPop
<1>6. CASE WorkerDecideWait \/ WorkerWait \/ WorkerList \/ WorkerStoreHandle \/ WorkerGone
  BY <1>6, <1>1 DEF WorkerDecideWait, WorkerWait, WorkerList, WorkerStoreHandle, WorkerGone
<1>7. ASSUME NEW j \in Jobs, JobStep(j) PROVE StopExcludesSubmit'
  BY <1>7, <1>1, JobStepShape
<1>8. ASSUME NEW j \in Jobs, NEW l \in Lines, LineStep(j, l) PROVE StopExcludesSubmit'
  BY <1>8, <1>1 DEF LineStep, LineGate, LineFinish, LinePanic
<1>9. CASE Stop
  BY <1>9 DEF Stop, StopExcludesSubmit
<1>10. CASE Halted \/ UNCHANGED vars
  BY <1>10, <1>1 DEF Halted, vars
<1>11. QED
  BY <1>2, <1>3, <1>4, <1>5, <1>6, <1>7, <1>8, <1>9, <1>10
     DEF Next, SubmitStep, WorkerStep

\* A wake-up is never lost: NoLostWakeup needs no other invariant.
LEMMA WakeupStep == IInv /\ [Next]_vars => NoLostWakeup'
<1> SUFFICES ASSUME TypeOK, NoLostWakeup, [Next]_vars
             PROVE  NoLostWakeup'
  BY DEF IInv
<1>1. CASE submit'.pc \in {"admit", "enqueue", "wake"}
  BY <1>1 DEF NoLostWakeup
<1>2. CASE worker' \notin {"waiting", "deciding"}
  BY <1>2 DEF NoLostWakeup
<1>3. CASE /\ UNCHANGED <<stopped, active_jobs, worker, permit>>
           /\ queue' \subseteq queue
           /\ submit.pc \in {"admit", "enqueue", "wake"}
                => submit'.pc \in {"admit", "enqueue", "wake"}
  BY <1>3 DEF NoLostWakeup
<1>4. CASE NotifyOne
  BY <1>4, <1>2 DEF NotifyOne, NoLostWakeup, TypeOK, WorkerStates
<1> USE DEF queueVars, workerVars, feedVars
<1>5. ASSUME NEW k \in Keys \union {NoKey}, SubmitFinal(k) PROVE NoLostWakeup'
  BY <1>5, <1>3 DEF SubmitFinal
<1>6. ASSUME NEW s \in Sequences, Forget(s) \/ JudgeOlder(s) PROVE NoLostWakeup'
  BY <1>6, <1>3 DEF Forget, JudgeOlder
<1>7. CASE CancelOlder \/ AdmitJob \/ EnqueueJob
  BY <1>7, <1>1 DEF CancelOlder, AdmitJob, EnqueueJob, TypeOK
<1>8. ASSUME NEW j \in Jobs, DropOverflow(j) PROVE NoLostWakeup'
  BY <1>8, <1>3 DEF DropOverflow
<1>9. CASE WakeWorker
  BY <1>9, <1>4 DEF WakeWorker
<1>10. ASSUME NEW j \in Jobs, WorkerPop(j) PROVE NoLostWakeup'
  BY <1>10, <1>2 DEF WorkerPop
<1>11. CASE WorkerDecideWait
  BY <1>11, BoundsAssumption DEF WorkerDecideWait, NoLostWakeup, TypeOK
<1>12. CASE WorkerWait
  BY <1>12 DEF WorkerWait, NoLostWakeup, TypeOK
<1>13. CASE WorkerList \/ WorkerStoreHandle \/ WorkerGone
  BY <1>13, <1>2 DEF WorkerList, WorkerStoreHandle, WorkerGone
<1>14. ASSUME NEW j \in Jobs, JobStep(j) PROVE NoLostWakeup'
  BY <1>14, <1>3, <1>4, JobStepShape DEF JobEpilogue, JobKilled
<1>15. ASSUME NEW j \in Jobs, NEW l \in Lines, LineStep(j, l) PROVE NoLostWakeup'
  BY <1>15, <1>3 DEF LineStep, LineGate, LineFinish, LinePanic
<1>16. CASE Stop
  BY <1>16 DEF Stop, NoLostWakeup
<1>17. CASE Halted \/ UNCHANGED vars
  BY <1>17, <1>3 DEF Halted, vars
<1>18. QED
  BY <1>5, <1>6, <1>7, <1>8, <1>9, <1>10, <1>11, <1>12, <1>13, <1>14, <1>15, <1>16, <1>17
     DEF Next, SubmitStep, WorkerStep

-----------------------------------------------------------------------------

\* Only AdmitJob touches a job's fields or a lineage, and stop is for good.
LEMMA LineageStep == [Next]_vars => (AdmitJob \/ UNCHANGED jobVars) /\ (stopped => stopped')
<1> SUFFICES ASSUME [Next]_vars
             PROVE  (AdmitJob \/ UNCHANGED jobVars) /\ (stopped => stopped')
  OBVIOUS
<1> USE DEF queueVars
<1>1. ASSUME NEW k \in Keys \union {NoKey}, SubmitFinal(k)
      PROVE  UNCHANGED jobVars /\ stopped' = stopped
  BY <1>1 DEF SubmitFinal
<1>2. ASSUME NEW s \in Sequences, Forget(s) \/ JudgeOlder(s)
      PROVE  UNCHANGED jobVars /\ stopped' = stopped
  BY <1>2 DEF Forget, JudgeOlder
<1>3. CASE CancelOlder \/ EnqueueJob \/ WakeWorker
  BY <1>3 DEF CancelOlder, EnqueueJob, WakeWorker
<1>4. CASE AdmitJob
  BY <1>4 DEF AdmitJob
<1>5. ASSUME NEW j \in Jobs, DropOverflow(j) \/ WorkerPop(j)
      PROVE  UNCHANGED jobVars /\ stopped' = stopped
  BY <1>5 DEF DropOverflow, WorkerPop
<1>6. CASE WorkerDecideWait \/ WorkerWait \/ WorkerList \/ WorkerStoreHandle \/ WorkerGone
  BY <1>6 DEF WorkerDecideWait, WorkerWait, WorkerList, WorkerStoreHandle, WorkerGone
<1>7. ASSUME NEW j \in Jobs, JobStep(j) PROVE UNCHANGED jobVars /\ stopped' = stopped
  <2>1. CASE JobSkip(j) \/ JobGates(j) \/ JobPublish(j) \/ JobCompletion(j)
    BY <2>1 DEF JobSkip, JobGates, JobPublish, JobCompletion
  <2>2. CASE JobPublishComplete(j) \/ JobCancelled(j) \/ JobEpilogue(j) \/ JobKilled(j)
    BY <2>2 DEF JobPublishComplete, JobCancelled, JobEpilogue, JobKilled
  <2>3. ASSUME NEW l \in Lines, JobTake(j, l) PROVE UNCHANGED jobVars /\ stopped' = stopped
    BY <2>3 DEF JobTake
  <2>4. QED
    BY <1>7, <2>1, <2>2, <2>3 DEF JobStep
<1>8. ASSUME NEW j \in Jobs, NEW l \in Lines, LineStep(j, l)
      PROVE  UNCHANGED jobVars /\ stopped' = stopped
  BY <1>8 DEF LineStep, LineGate, LineFinish, LinePanic
<1>9. CASE Stop \/ Halted \/ UNCHANGED vars
  BY <1>9 DEF Stop, Halted, vars
<1>10. QED
  BY <1>1, <1>2, <1>3, <1>4, <1>5, <1>6, <1>7, <1>8, <1>9 DEF Next, SubmitStep, WorkerStep

\* A job that became void, and was admitted, stays so.
LEMMA VoidLasts ==
  ASSUME TypeOK, IdsInOrder, [Next]_vars, NEW j \in Jobs, j <= next_job_id,
         stopped \/ Superseded(j)
  PROVE  (stopped' \/ Superseded(j)') /\ j <= next_job_id'
<1>1. CASE UNCHANGED jobVars
  BY <1>1, LineageStep DEF jobVars, Superseded
<1>2. CASE AdmitJob
  <2>1. next_job_id' = next_job_id + 1 /\ key_of'[j] = key_of[j] /\ stopped' = stopped
    BY <1>2 DEF AdmitJob, TypeOK, queueVars, Jobs
  <2>2. generation_of'[j] = generation_of[j]
    <3>1. j # next_job_id + 1 /\ generation_of \in [Jobs -> Nat]
      BY BoundsAssumption DEF Jobs, TypeOK
    <3>2. CASE submit.key \in Keys
      <4>1. generation_of' = [generation_of EXCEPT
                                ![next_job_id + 1] = preview_lineage[submit.key] + 1]
        BY <1>2, <3>2 DEF AdmitJob
      <4>2. QED
        BY <3>1, <4>1
    <3>3. CASE submit.key \notin Keys
      BY <1>2, <3>3 DEF AdmitJob
    <3>4. QED
      BY <3>2, <3>3
  <2>3. \A k \in Keys : preview_lineage'[k] >= preview_lineage[k]
    <3>1. preview_lineage \in [Keys -> Nat]
      BY DEF TypeOK
    <3>2. CASE submit.key \in Keys
      <4>1. preview_lineage' = [preview_lineage EXCEPT ![submit.key] = @ + 1]
        BY <1>2, <3>2 DEF AdmitJob
      <4>2. QED
        BY <3>1, <4>1
    <3>3. CASE submit.key \notin Keys
      <4>1. preview_lineage' = preview_lineage
        BY <1>2, <3>3 DEF AdmitJob
      <4>2. QED
        BY <3>1, <4>1
    <3>4. QED
      BY <3>2, <3>3
  <2>4. QED
    <3>1. preview_lineage \in [Keys -> Nat] /\ preview_lineage' \in [Keys -> Nat]
      <4>1. preview_lineage \in [Keys -> Nat]
        BY DEF TypeOK
      <4>2. CASE submit.key \in Keys
        <5>1. preview_lineage' = [preview_lineage EXCEPT ![submit.key] = @ + 1]
          BY <1>2, <4>2 DEF AdmitJob
        <5>2. QED
          BY <4>1, <4>2, <5>1
      <4>3. CASE submit.key \notin Keys
        BY <1>2, <4>1, <4>3 DEF AdmitJob
      <4>4. QED
        BY <4>1, <4>2, <4>3
    <3>2. generation_of[j] \in Nat /\ next_job_id \in Nat
      BY BoundsAssumption DEF TypeOK
    <3>3. Superseded(j) => Superseded(j)'
      BY <2>1, <2>2, <2>3, <3>1, <3>2 DEF Superseded
    <3>4. QED
      BY <2>1, <3>2, <3>3 DEF Jobs
<1>3. QED
  BY <1>1, <1>2, LineageStep

\* LateSettled survives a step that publishes nothing and brings no void job
\* before a publication.
LEMMA LateKept ==
  ASSUME TypeOK, IdsInOrder, LateSettled, [Next]_vars, late' = late,
         \A j \in Jobs : phase'[j] \in {"publish", "complete"}
                           => phase[j] \in {"publish", "complete"} \/ ~(stopped \/ Superseded(j))
  PROVE  LateSettled'
<1>1. SUFFICES ASSUME NEW j \in Jobs, late[j] = 1
               PROVE  /\ stopped' \/ Superseded(j)'
                      /\ phase'[j] \notin {"publish", "complete"}
                      /\ j <= next_job_id'
  BY DEF LateSettled
<1>2. QED
  BY <1>1, VoidLasts DEF LateSettled

\* The one late event of a job was its last one.
LEMMA LateStep == IInv /\ [Next]_vars => LateSettled'
<1> SUFFICES ASSUME TypeOK, IdsInOrder, LateSettled, [Next]_vars
             PROVE  LateSettled'
  BY DEF IInv
<1> USE DEF runVars
<1>1. ASSUME NEW k \in Keys \union {NoKey}, SubmitFinal(k) PROVE LateSettled'
  BY <1>1, LateKept DEF SubmitFinal
<1>2. ASSUME NEW s \in Sequences, Forget(s) \/ JudgeOlder(s) PROVE LateSettled'
  BY <1>2, LateKept DEF Forget, JudgeOlder
<1>3. CASE CancelOlder \/ AdmitJob \/ EnqueueJob \/ WakeWorker
  BY <1>3, LateKept DEF CancelOlder, AdmitJob, EnqueueJob, WakeWorker, TypeOK, Queued
<1>4. ASSUME NEW j \in Jobs, DropOverflow(j) \/ WorkerPop(j) PROVE LateSettled'
  BY <1>4, LateKept DEF DropOverflow, WorkerPop, TypeOK
<1>5. CASE WorkerDecideWait \/ WorkerWait \/ WorkerStoreHandle
  BY <1>5, LateKept DEF WorkerDecideWait, WorkerWait, WorkerStoreHandle
<1>6. CASE WorkerList \/ WorkerGone
  BY <1>6, LateKept DEF WorkerList, WorkerGone, TypeOK
<1>7. ASSUME NEW j \in Jobs, JobStep(j) PROVE LateSettled'
  <2>1. CASE JobPublish(j) \/ JobPublishComplete(j)
    <3>1. phase[j] \in {"publish", "complete"} /\ HandOver(j)
          /\ phase' = [phase EXCEPT ![j] = phase'[j]] /\ phase'[j] \in {"lines", "epilogue"}
      BY <2>1 DEF JobPublish, JobPublishComplete, Goto, TypeOK
    <3>2. late[j] = 0 /\ j <= next_job_id
      BY <3>1 DEF LateSettled, IdsInOrder
    <3>3. late' = late \/ (late' = [late EXCEPT ![j] = 1] /\ (stopped \/ Superseded(j)))
      <4>1. late \in [Jobs -> Nat]
        BY DEF TypeOK
      <4>2. CASE stopped \/ Superseded(j)
        <5>1. late' = [late EXCEPT ![j] = late[j] + 1]
          BY <3>1, <4>2 DEF HandOver
        <5>2. QED
          BY <3>2, <4>1, <4>2, <5>1
      <4>3. CASE ~(stopped \/ Superseded(j))
        <5>1. late' = [late EXCEPT ![j] = late[j]]
          BY <3>1, <4>3 DEF HandOver
        <5>2. QED
          BY <4>1, <5>1
      <4>4. QED
        BY <4>2, <4>3
    <3>4. CASE late' = late
      BY <3>1, <3>4, LateKept DEF TypeOK
    <3>5. CASE late' = [late EXCEPT ![j] = 1] /\ (stopped \/ Superseded(j))
      <4>1. SUFFICES ASSUME NEW i \in Jobs
                     PROVE  /\ late'[i] \in {0, 1}
                            /\ late'[i] = 1 => /\ stopped' \/ Superseded(i)'
                                               /\ phase'[i] \notin {"publish", "complete"}
                                               /\ i <= next_job_id'
        BY DEF LateSettled
      <4>2. CASE i = j
        BY <3>1, <3>2, <3>5, <4>2, VoidLasts DEF TypeOK
      <4>3. CASE i # j
        BY <3>1, <3>5, <4>3, VoidLasts DEF TypeOK, LateSettled
      <4>4. QED
        BY <4>2, <4>3
    <3>6. QED
      BY <3>3, <3>4, <3>5
  <2>2. CASE JobSkip(j) \/ JobGates(j)
    BY <2>2, LateKept DEF JobSkip, JobGates, Goto, TypeOK
  <2>3. ASSUME NEW l \in Lines, JobTake(j, l) PROVE LateSettled'
    <3>1. late' = late /\ (\/ phase' = phase
                           \/ phase' = [phase EXCEPT ![j] = "epilogue"]
                           \/ ~(stopped \/ Superseded(j))
                              /\ phase' = [phase EXCEPT ![j] = "publish"])
      BY <2>3 DEF JobTake, LeaveRun, Fresh
    <3>2. QED
      BY <3>1, LateKept DEF TypeOK
  <2>4. CASE JobCompletion(j)
    <3>1. late' = late /\ (\/ phase' = [phase EXCEPT ![j] = "epilogue"]
                           \/ ~(stopped \/ Superseded(j))
                              /\ phase' = [phase EXCEPT ![j] = "complete"])
      BY <2>4 DEF JobCompletion, LeaveRun, Void, Fresh
    <3>2. QED
      BY <3>1, LateKept DEF TypeOK
  <2>5. CASE JobCancelled(j) \/ JobEpilogue(j) \/ JobKilled(j)
    BY <2>5, LateKept DEF JobCancelled, JobEpilogue, JobKilled, LeaveRun, TypeOK
  <2>6. QED
    BY <1>7, <2>1, <2>2, <2>3, <2>4, <2>5 DEF JobStep
<1>8. ASSUME NEW j \in Jobs, NEW l \in Lines, LineStep(j, l) PROVE LateSettled'
  BY <1>8, LateKept DEF LineStep, LineGate, LineFinish, LinePanic
<1>9. CASE Stop
  BY <1>9, LateKept DEF Stop, TypeOK
<1>10. CASE Halted \/ UNCHANGED vars
  BY <1>10, LateKept DEF Halted, vars
<1>11. QED
  BY <1>1, <1>2, <1>3, <1>4, <1>5, <1>6, <1>7, <1>8, <1>9, <1>10
     DEF Next, SubmitStep, WorkerStep

-----------------------------------------------------------------------------
(* The theorems *)

\* IInv holds in every state of every behaviour.
THEOREM Invariance == Spec => []IInv
<1>1. IInv /\ [Next]_vars => IInv'
  BY TypeStep, IdsStep, PlacesStep, SlotsStep, StopLeavesOneStep, MutexStep,
     LateStep, WakeupStep
     DEF IInv
<1>2. QED
  BY <1>1, InitIInv, PTL DEF Spec

\* Every variable keeps its type, for all bounds and configurations.
THEOREM TypeCorrect == Spec => []TypeOK
<1>1. IInv => TypeOK
  BY DEF IInv
<1>2. QED
  BY <1>1, Invariance, PTL

\* The worker's slot counter never drifts from the listed and popped jobs,
\* whatever cancellations and epilogues race.
THEOREM SlotsAccounted == Spec => []SlotAccounting
<1>1. IInv => SlotAccounting
  BY DEF IInv, SlotsCounted
<1>2. QED
  BY <1>1, Invariance, PTL

\* Every uncancelled running job is within reach of cancel_older_than and stop.
THEOREM NoJobOrphaned == Spec => []NoOrphan
<1>1. IInv => NoOrphan
  BY DEF IInv, PlacesAgree, NoOrphan
<1>2. QED
  BY <1>1, Invariance, PTL

\* Never more uncancelled jobs than max_concurrent_jobs.
THEOREM ConcurrencyBounded == Spec => []NoOverrun
<1>1. ASSUME IInv PROVE NoOverrun
  <2> DEFINE running == {j \in Jobs : Running(j)}
  <2>1. running = active_tasks /\ active_tasks \in SUBSET Jobs
    BY <1>1 DEF IInv, PlacesAgree
  <2>2. PoppedJobs \in SUBSET Jobs
    BY <1>1 DEF IInv, PlacesAgree, PoppedJobs
  <2>3. IsFiniteSet(active_tasks) /\ IsFiniteSet(PoppedJobs)
    BY <2>1, <2>2, JobsFinite
  <2>4. CASE ~stopped
    <3>1. PoppedJobs \intersect active_tasks = {}
      BY <1>1, <2>1 DEF IInv, PlacesAgree, PoppedJobs, Running, LivePhases
    <3>2. Cardinality(active_tasks \union PoppedJobs)
            = Cardinality(active_tasks) + Cardinality(PoppedJobs)
      <4>1. Cardinality(active_tasks \union PoppedJobs)
              = Cardinality(active_tasks) + Cardinality(PoppedJobs)
                - Cardinality(active_tasks \intersect PoppedJobs)
        BY <2>3, FS_Union
      <4>2. Cardinality(active_tasks \intersect PoppedJobs) = 0
        BY <3>1, FS_EmptySet
      <4>3. Cardinality(active_tasks) \in Nat /\ Cardinality(PoppedJobs) \in Nat
        BY <2>3, FS_CardinalityType
      <4>4. QED
        BY <4>1, <4>2, <4>3
    <3>3. QED
      <4>1. Cardinality(active_tasks \union PoppedJobs) <= MaxConcurrent
        BY <1>1, <2>4, <3>2 DEF IInv, SlotsCounted, SlotAccounting
      <4>2. QED
        BY <2>1, <4>1 DEF NoOverrun
  <2>5. CASE stopped
    <3>1. \A i, j \in active_tasks \union PoppedJobs : i = j
      BY <1>1, <2>5 DEF IInv, StopLeavesOne
    <3>2. Cardinality(active_tasks \union PoppedJobs) <= 1
      BY <3>1, AtMostOne
    <3>3. Cardinality(active_tasks \union PoppedJobs) \in Nat
      BY <2>3, FS_Union, FS_CardinalityType
    <3>4. Cardinality(active_tasks \union PoppedJobs) <= MaxConcurrent
      BY <3>2, <3>3, BoundsAssumption
    <3>5. QED
      BY <2>1, <3>4 DEF NoOverrun
  <2>6. QED
    BY <2>4, <2>5
<1>2. QED
  BY <1>1, Invariance, PTL

\* Stop leaves at most one uncancelled job behind.
THEOREM StopReaches == Spec => []StopReachesAll
<1>1. ASSUME IInv, stopped PROVE Cardinality({j \in Jobs : Running(j)}) <= 1
  <2>1. {j \in Jobs : Running(j)} = active_tasks
    BY <1>1 DEF IInv, PlacesAgree
  <2>2. \A i, j \in active_tasks : i = j
    BY <1>1 DEF IInv, StopLeavesOne
  <2>3. QED
    BY <2>1, <2>2, AtMostOne
<1>2. IInv => StopReachesAll
  BY <1>1 DEF StopReachesAll
<1>3. QED
  BY <1>2, Invariance, PTL

\* A job publishes at most one event after it became void.
THEOREM LateBounded == Spec => []LateBound
<1>1. IInv => LateBound
  BY DEF IInv, LateSettled, LateBound
<1>2. QED
  BY <1>1, Invariance, PTL

\* Slots, limit and reach together.
THEOREM JobsAlwaysAccounted == Spec => []JobsAccounted
<1>1. SlotAccounting /\ NoOverrun /\ NoOrphan /\ StopReachesAll => JobsAccounted
  BY DEF JobsAccounted
<1>2. QED
  BY <1>1, SlotsAccounted, ConcurrencyBounded, NoJobOrphaned, StopReaches, PTL

\* The worker never sleeps through the last wake-up.
THEOREM WakeupsKept == Spec => []NoLostWakeup
<1>1. IInv => NoLostWakeup
  BY DEF IInv
<1>2. QED
  BY <1>1, Invariance, PTL

-----------------------------------------------------------------------------
(* The refinement of JobPool *)

RunningJobs == active_tasks \union PoppedJobs

\* The instance counts with the same Cardinality.
LEMMA SameCardinality == \A S : Pool!Cardinality(S) = Cardinality(S)
BY DEF Cardinality, Pool!Cardinality, IsFiniteSet, Pool!IsFiniteSet

LEMMA PoolInitially == Init => Pool!PoolInit
BY DEF Init, Pool!PoolInit, PoppedJobs, LastQueued, IdleSubmit

\* A step under which no job enters the pool.
LEMMA WithdrawStep ==
  ASSUME queue' \subseteq queue, RunningJobs' \subseteq RunningJobs,
         LastQueued' = LastQueued, stopped' = stopped
  PROVE  Pool!Withdraw
BY DEF Pool!Withdraw, RunningJobs

\* Every step of the dispatcher is one of the pool, or stutters.
LEMMA PoolStep == IInv /\ [Next]_vars => [Pool!PoolNext]_(Pool!poolVars)
<1> SUFFICES ASSUME TypeOK, IdsInOrder, PlacesAgree, SlotsCounted,
                    StopExcludesSubmit, [Next]_vars
             PROVE  Pool!PoolNext
  BY DEF IInv
<1> USE DEF queueVars, workerVars, jobVars, feedVars
<1>1. SUFFICES ASSUME ~Pool!Withdraw PROVE Pool!PoolNext
  BY DEF Pool!PoolNext
<1>2. ASSUME NEW k \in Keys \union {NoKey}, SubmitFinal(k) PROVE Pool!PoolNext
  BY <1>2, <1>1, WithdrawStep, PoppedKept DEF SubmitFinal, LastQueued, IdleSubmit, RunningJobs
<1>3. ASSUME NEW s \in Sequences, Forget(s) PROVE Pool!PoolNext
  BY <1>3, <1>1, WithdrawStep, PoppedKept DEF Forget, LastQueued, RunningJobs
<1>4. ASSUME NEW s \in Sequences, JudgeOlder(s) PROVE Pool!PoolNext
  BY <1>4, <1>1, WithdrawStep, PoppedKept DEF JudgeOlder, LastQueued, RunningJobs, TypeOK
<1>5. CASE CancelOlder
  <2>1. LastQueued' = LastQueued
    BY <1>5 DEF CancelOlder, LastQueued, TypeOK
  <2>2. QED
    BY <1>5, <2>1, <1>1, WithdrawStep, NotifyKeepsPopped DEF CancelOlder, RunningJobs
<1>6. CASE AdmitJob
  <2>1. LastQueued' = LastQueued
    BY <1>6, BoundsAssumption DEF AdmitJob, LastQueued, TypeOK
  <2>2. QED
    BY <1>6, <2>1, <1>1, WithdrawStep, PoppedKept DEF AdmitJob, RunningJobs
<1>7. CASE EnqueueJob
  <2>1. ~stopped
    BY <1>7 DEF EnqueueJob, StopExcludesSubmit
  <2>2. submit.job \in Jobs /\ submit.job = next_job_id
    BY <1>7 DEF EnqueueJob, IdsInOrder
  <2>3. LastQueued = next_job_id - 1 /\ LastQueued' = next_job_id
    BY <1>7 DEF EnqueueJob, LastQueued, TypeOK
  <2>4. submit.job > LastQueued
    BY <2>2, <2>3 DEF Jobs
  <2>5. RunningJobs' = RunningJobs
    BY <1>7, PoppedKept DEF EnqueueJob, RunningJobs
  <2>6. Pool!Accept(submit.job)
    <3>1. Cardinality(queue) < QueueMax /\ queue' = queue \union {submit.job}
          /\ stopped' = stopped
      BY <1>7 DEF EnqueueJob
    <3>2. LastQueued' = submit.job
      BY <2>2, <2>3
    <3>3. QED
      BY <3>1, <3>2, <2>1, <2>4, <2>5, SameCardinality DEF Pool!Accept, RunningJobs
  <2>7. QED
    BY <2>2, <2>6 DEF Pool!PoolNext
<1>8. ASSUME NEW j \in Jobs, DropOverflow(j) PROVE Pool!PoolNext
  BY <1>8, <1>1, WithdrawStep, PoppedKept DEF DropOverflow, LastQueued, RunningJobs
<1>9. CASE WakeWorker
  BY <1>9, <1>1, WithdrawStep, NotifyKeepsPopped
     DEF WakeWorker, LastQueued, RunningJobs, IdleSubmit
<1>10. ASSUME NEW j \in Jobs, WorkerPop(j) PROVE Pool!PoolNext
  <2>1. RunningJobs = active_tasks /\ RunningJobs' = RunningJobs \union {j}
    BY <1>10 DEF WorkerPop, RunningJobs, PoppedJobs
  <2>2. Cardinality(active_tasks) < MaxConcurrent
    <3>1. Cardinality(PoppedJobs) = 0
      BY <1>10, FS_EmptySet DEF WorkerPop, PoppedJobs
    <3>2. Cardinality(active_tasks) \in Nat
      BY JobsFinite DEF TypeOK
    <3>3. QED
      BY <1>10, <3>1, <3>2 DEF WorkerPop, SlotsCounted, SlotAccounting
  <2>3. LastQueued' = LastQueued
    BY <1>10 DEF WorkerPop, LastQueued
  <2>4. Pool!Start(j)
    <3>1. /\ ~stopped /\ stopped' = stopped /\ queue' = queue \ {j}
          /\ j \in queue /\ \A i \in queue : j <= i
      BY <1>10 DEF WorkerPop, Oldest
    <3>2. QED
      BY <3>1, <2>1, <2>2, <2>3, SameCardinality DEF Pool!Start, RunningJobs
  <2>5. QED
    BY <2>4 DEF Pool!PoolNext
<1>11. CASE WorkerDecideWait \/ WorkerWait \/ WorkerStoreHandle
  BY <1>11, <1>1, WithdrawStep, PoppedKept
     DEF WorkerDecideWait, WorkerWait, WorkerStoreHandle, LastQueued, RunningJobs
<1>12. CASE WorkerList \/ WorkerGone
  BY <1>12, <1>1, WithdrawStep DEF WorkerList, WorkerGone, LastQueued, RunningJobs, PoppedJobs
<1>13. ASSUME NEW j \in Jobs, JobStep(j) PROVE Pool!PoolNext
  <2>1. PoppedJobs' = PoppedJobs
    BY <1>13, JobStepShape, PoppedKept, NotifyKeepsPopped DEF JobEpilogue, JobKilled
  <2>2. active_tasks' \subseteq active_tasks
    BY <1>13, JobStepShape DEF JobEpilogue, FreeSlot, JobKilled
  <2>3. QED
    BY <1>13, <2>1, <2>2, <1>1, JobStepShape, WithdrawStep DEF RunningJobs, LastQueued
<1>14. ASSUME NEW j \in Jobs, NEW l \in Lines, LineStep(j, l) PROVE Pool!PoolNext
  BY <1>14, <1>1, WithdrawStep, PoppedKept
     DEF LineStep, LineGate, LineFinish, LinePanic, LastQueued, RunningJobs
<1>15. CASE Stop
  <2>1. RunningJobs' \subseteq RunningJobs /\ \A i, j \in RunningJobs' : i = j
    BY <1>15 DEF Stop, NotifyWaiters, RunningJobs, PoppedJobs
  <2>2. LastQueued' = LastQueued
    BY <1>15 DEF Stop, LastQueued
  <2>3. Pool!Close
    BY <1>15, <2>1, <2>2 DEF Stop, Pool!Close, RunningJobs
  <2>4. QED
    BY <2>3 DEF Pool!PoolNext
<1>16. CASE Halted \/ UNCHANGED vars
  BY <1>16, <1>1, WithdrawStep, PoppedKept DEF Halted, vars, LastQueued, RunningJobs
<1>17. QED
  BY <1>2, <1>3, <1>4, <1>5, <1>6, <1>7, <1>8, <1>9, <1>10, <1>11, <1>12, <1>13, <1>14,
     <1>15, <1>16 DEF Next, SubmitStep, WorkerStep

\* The dispatcher implements JobPool.
THEOREM PoolImplemented == Spec => ImplementsPool
<1>1. QED
  BY PoolInitially, PoolStep, Invariance, PTL DEF Spec, ImplementsPool, Pool!PoolSpec

=============================================================================
