------------------------- MODULE TranslationDispatcher -------------------------
(***************************************************************************)
(* The translation dispatcher of crates/voicesub-translation: one worker   *)
(* task pops queued jobs, a spawned task runs each job, and one more task  *)
(* per translation line calls the provider.  The module covers the life of *)
(* ONE dispatcher: TranslationRuntimeController creates it, calls          *)
(* submit_final and stop under its own mutex (so those two never overlap), *)
(* and drops it after stop.                                                *)
(*                                                                         *)
(* A step is a critical section of `inner` or a stretch between two awaits *)
(* whose order against other tasks matters.  Task::abort is not atomic: an *)
(* aborted task dies at the next await that has to wait, so it may take    *)
(* further steps first.                                                    *)
(***************************************************************************)
EXTENDS Naturals, FiniteSets

CONSTANTS
  MaxJobs,        \* bound on the jobs submitted in one life of the dispatcher
  QueueMax,       \* translation.queue_max_size, clamped to 1..64
  MaxConcurrent,  \* translation.max_concurrent_jobs, clamped to 1..8
  Lines,          \* enabled translation lines of the configuration
  Keys            \* preview lineage keys "<segment_id>:<revision>"

ASSUME BoundsAssumption ==
  /\ MaxJobs \in Nat
  /\ QueueMax \in Nat \ {0}
  /\ MaxConcurrent \in Nat \ {0}

Jobs == 1..MaxJobs
NoJob == 0
Sequences == 1..MaxJobs
NoKey == "no key"
ASSUME KeysAssumption == NoKey \notin Keys
NoLine == "no line"
ASSUME LinesAssumption == NoLine \notin Lines

VARIABLES
  queue,            \* ids of the queued jobs, see Oldest
  active_jobs,      \* slots taken
  active_tasks,     \* jobs listed in DispatcherInner::active_tasks
  handles,          \* listed jobs whose JoinHandle has been stored
  stopped,
  next_job_id,
  preview_lineage,  \* generation of each lineage key
  worker,           \* control state of worker_loop
  in_hand,          \* the job worker_loop holds between its critical sections
  permit,           \* the permit tokio::Notify stores
  sequence_of, key_of, generation_of,  \* the immutable fields of QueuedJob
  phase,            \* control state of run_job, per job
  line,             \* state of translate_one_line, per job and line
  current,          \* the line whose result run_job is handling
  cancelled,        \* jobs whose cancel flag is set
  aborted,          \* jobs whose task has been told to abort
  submit,           \* control state of the submit_final in progress
  last_sequence,    \* sequence of the newest final of the session
  relevant,         \* sequences the subtitle router calls relevant
  late              \* history: events published after their job became void

queueVars == <<queue, active_jobs, active_tasks, handles, stopped>>
jobVars == <<sequence_of, key_of, generation_of, next_job_id, preview_lineage>>
workerVars == <<worker, in_hand>>
runVars == <<phase, line, current>>
cancelVars == <<cancelled, aborted>>
feedVars == <<submit, last_sequence>>
vars == <<queueVars, jobVars, workerVars, permit, runVars, cancelVars, feedVars,
          relevant, late>>

WorkerStates == {"check", "deciding", "waiting", "popped", "listed", "gone"}
Queued == "queued"
LivePhases == {"gates", "lines", "publish", "complete", "epilogue"}
Phases == {"none", Queued, "popped", "dropped", "ended"} \union LivePhases
LineStates == {"idle", "gate", "call", "result", "skip", "taken"}
SubmitStates == {"idle", "judge", "admit", "enqueue", "wake"}

IdleLines == [l \in Lines |-> "idle"]
IdleSubmit == [pc |-> "idle", seq |-> 0, key |-> NoKey, job |-> NoJob,
               todo |-> {}, doomed |-> {}]

Init ==
  /\ queue = {}
  /\ active_jobs = 0
  /\ active_tasks = {}
  /\ handles = {}
  /\ stopped = FALSE
  /\ next_job_id = 0
  /\ preview_lineage = [k \in Keys |-> 0]
  /\ worker = "check"
  /\ in_hand = NoJob
  /\ permit = FALSE
  /\ sequence_of = [j \in Jobs |-> 0]
  /\ key_of = [j \in Jobs |-> NoKey]
  /\ generation_of = [j \in Jobs |-> 0]
  /\ phase = [j \in Jobs |-> "none"]
  /\ line = [j \in Jobs |-> IdleLines]
  /\ current = [j \in Jobs |-> NoLine]
  /\ cancelled = {}
  /\ aborted = {}
  /\ submit = IdleSubmit
  /\ last_sequence = 0
  /\ relevant = {}
  /\ late = [j \in Jobs |-> 0]

-----------------------------------------------------------------------------
(* Helpers *)

Superseded(j) ==
  key_of[j] \in Keys /\ preview_lineage[key_of[j]] > generation_of[j]

Fresh(j) == sequence_of[j] \in relevant /\ ~Superseded(j)

Void(j) == stopped \/ ~Fresh(j)

\* Ids are handed out and queued in one order, under the controller's mutex, so
\* the front of the VecDeque is its least id.
OldestFromBack(j, S) == j \in S /\ \A i \in S : j >= i
Oldest(j, S) == j \in S /\ \A i \in S : j <= i

SaturatingSub(a, b) == IF a >= b THEN a - b ELSE 0

\* A cancelled job gets its flag set and, once its handle is stored, is aborted.
RaiseFlags(S) ==
  /\ cancelled' = cancelled \union S
  /\ aborted' = aborted \union (S \intersect handles)

\* The epilogue unlists the job and, by sequence, its namesakes.
FreeSlotAlways(j) ==
  /\ active_jobs' = SaturatingSub(active_jobs, 1)
  /\ active_tasks' = active_tasks \ {j}
  /\ handles' = handles \ {j}
FreeSlot(j) ==
  IF j \in active_tasks
  THEN /\ active_jobs' = SaturatingSub(active_jobs, 1)
       /\ active_tasks' = {t \in active_tasks : t # j /\ sequence_of[t] # sequence_of[j]}
       /\ handles' = handles \intersect active_tasks'
  ELSE UNCHANGED <<active_jobs, active_tasks, handles>>

\* notify_one: wake the waiting worker, or leave a permit for its next wait.
NotifyOneWithoutPermit ==
  /\ worker' = IF worker = "waiting" THEN "check" ELSE worker
  /\ UNCHANGED permit
NotifyOne ==
  IF worker = "waiting"
  THEN worker' = "check" /\ UNCHANGED permit
  ELSE permit' = TRUE /\ UNCHANGED worker

\* notify_waiters: wakes the worker only if it already waits; stores nothing.
NotifyWaiters ==
  /\ worker' = IF worker = "waiting" THEN "check" ELSE worker
  /\ UNCHANGED permit

\* A job task that leaves run_job drops its JoinSet, which aborts its lines.
LeaveRun(j, p) ==
  /\ phase' = [phase EXCEPT ![j] = p]
  /\ line' = [line EXCEPT ![j] = IdleLines]
  /\ current' = [current EXCEPT ![j] = NoLine]

Goto(j, p) ==
  /\ phase' = [phase EXCEPT ![j] = p]
  /\ UNCHANGED <<line, current>>

-----------------------------------------------------------------------------
(* The subtitle side: a sequence stops being relevant when its block is     *)
(* replaced or expires, and returns only with an event of its own job.      *)

Forget(s) ==
  /\ s \in relevant
  /\ relevant' = relevant \ {s}
  /\ UNCHANGED <<queueVars, jobVars, workerVars, permit, runVars, cancelVars,
                 feedVars, late>>

-----------------------------------------------------------------------------
(* submit_final, entered under the controller's mutex *)

\* Partials take sequence numbers too; only the order of the finals matters.
\* TranscriptController records the final in the subtitle router, then
\* cancel_older_than takes its snapshot of older queued and active sequences.
SubmitFinal(k) ==
  /\ submit.pc = "idle"
  /\ ~stopped
  /\ next_job_id < MaxJobs
  /\ LET s == last_sequence + 1
     IN /\ last_sequence' = s
        /\ relevant' = relevant \union {s}
        /\ submit' = [IdleSubmit EXCEPT
             !.pc = "judge", !.seq = s, !.key = k,
             !.todo = {sequence_of[j] : j \in {i \in queue \union active_tasks : sequence_of[i] < s}}]
  /\ UNCHANGED <<queueVars, jobVars, workerVars, permit, runVars, cancelVars, late>>

\* One relevance query of cancel_older_than, outside the lock.
JudgeOlder(s) ==
  /\ submit.pc = "judge"
  /\ s \in submit.todo
  /\ submit' = [submit EXCEPT !.todo = @ \ {s},
                              !.doomed = IF s \in relevant THEN @ ELSE @ \union {s}]
  /\ UNCHANGED <<queueVars, jobVars, workerVars, permit, runVars, cancelVars,
                 relevant, last_sequence, late>>

Doomed(j) == sequence_of[j] \in submit.doomed

\* The second critical section of cancel_older_than and its notify_waiters.
CancelOlder ==
  /\ submit.pc = "judge"
  /\ submit.todo = {}
  /\ LET removed == {j \in active_tasks : Doomed(j)}
         unqueued == {j \in queue : Doomed(j)}
     IN /\ queue' = queue \ unqueued
        /\ active_tasks' = active_tasks \ removed
        /\ active_jobs' = SaturatingSub(active_jobs, Cardinality(removed))
        /\ RaiseFlags(removed)
        /\ handles' = handles \ removed
        /\ phase' = [j \in Jobs |-> IF j \in unqueued THEN "dropped" ELSE phase[j]]
        /\ IF removed = {} THEN UNCHANGED <<worker, permit>> ELSE NotifyWaiters
  /\ submit' = [submit EXCEPT !.pc = "admit", !.doomed = {}]
  /\ UNCHANGED <<stopped, jobVars, in_hand, line, current, last_sequence,
                 relevant, late>>

\* The job gets its id and, with a lineage key, a new generation of that key.
AdmitJob ==
  /\ submit.pc = "admit"
  /\ LET j == next_job_id + 1
         k == submit.key
     IN /\ next_job_id' = j
        /\ sequence_of' = [sequence_of EXCEPT ![j] = submit.seq]
        /\ key_of' = [key_of EXCEPT ![j] = k]
        /\ IF k \in Keys
           THEN /\ preview_lineage' = [preview_lineage EXCEPT ![k] = @ + 1]
                /\ generation_of' = [generation_of EXCEPT ![j] = preview_lineage[k] + 1]
           ELSE UNCHANGED <<preview_lineage, generation_of>>
        /\ submit' = [submit EXCEPT !.pc = "enqueue", !.job = j]
  /\ UNCHANGED <<queueVars, workerVars, permit, runVars, cancelVars, last_sequence,
                 relevant, late>>

EnqueueJob ==
  /\ submit.pc = "enqueue"
  /\ Cardinality(queue) < QueueMax
  /\ queue' = queue \union {submit.job}
  /\ phase' = [phase EXCEPT ![submit.job] = Queued]
  /\ submit' = [submit EXCEPT !.pc = "wake"]
  /\ UNCHANGED <<active_jobs, active_tasks, handles, stopped, jobVars, workerVars,
                 permit, line, current, cancelVars, relevant, last_sequence, late>>

\* A full queue loses its first irrelevant job, or its oldest one.
IsOverflowVictim(j) ==
  LET stale == {i \in queue : sequence_of[i] \notin relevant}
  IN Oldest(j, IF stale = {} THEN queue ELSE stale)

DropOverflow(j) ==
  /\ submit.pc = "enqueue"
  /\ Cardinality(queue) >= QueueMax
  /\ IsOverflowVictim(j)
  /\ queue' = queue \ {j}
  /\ phase' = [phase EXCEPT ![j] = "dropped"]
  /\ UNCHANGED <<active_jobs, active_tasks, handles, stopped, jobVars, workerVars,
                 permit, line, current, cancelVars, feedVars, relevant, late>>

\* ensure_worker_locked finds the worker that start spawned; then notify_one.
WakeWorker ==
  /\ submit.pc = "wake"
  /\ submit' = IdleSubmit
  /\ NotifyOne
  /\ UNCHANGED <<queueVars, jobVars, in_hand, runVars, cancelVars, last_sequence,
                 relevant, late>>

-----------------------------------------------------------------------------
(* worker_loop *)

WorkerPop(j) ==
  /\ worker = "check"
  /\ ~stopped
  /\ active_jobs < MaxConcurrent
  /\ Oldest(j, queue)
  /\ active_jobs' = active_jobs + 1
  /\ in_hand' = j
  /\ queue' = queue \ {j}
  /\ worker' = "popped"
  /\ phase' = [phase EXCEPT ![j] = "popped"]
  /\ UNCHANGED <<active_tasks, handles, stopped, jobVars, permit, line, current,
                 cancelVars, feedVars, relevant, late>>

\* No free slot or no job: the lock is released, the wait not yet registered.
WorkerDecideWait ==
  /\ worker = "check"
  /\ ~stopped
  /\ active_jobs >= MaxConcurrent \/ queue = {}
  /\ worker' = "deciding"
  /\ UNCHANGED <<queueVars, jobVars, in_hand, permit, runVars, cancelVars, feedVars,
                 relevant, late>>

\* notified().await: a stored permit is consumed at once.
WorkerWait ==
  /\ worker = "deciding"
  /\ worker' = IF permit THEN "check" ELSE "waiting"
  /\ permit' = FALSE
  /\ UNCHANGED <<queueVars, jobVars, in_hand, runVars, cancelVars, feedVars, relevant,
                 late>>

\* The job is listed as active, and its task spawned.
WorkerList ==
  /\ worker = "popped"
  /\ active_tasks' = active_tasks \union {in_hand}
  /\ phase' = [phase EXCEPT ![in_hand] = "gates"]
  /\ worker' = "listed"
  /\ UNCHANGED <<queue, active_jobs, handles, stopped, jobVars, in_hand, permit, line,
                 current, cancelVars, feedVars, relevant, late>>

\* The handle is stored if the job is still listed; otherwise the task detaches.
WorkerStoreHandleUnlisted ==
  /\ worker = "listed"
  /\ handles' = handles \union {in_hand}
  /\ in_hand' = NoJob
  /\ worker' = "check"
  /\ UNCHANGED <<queue, active_jobs, active_tasks, stopped, jobVars, permit, runVars,
                 cancelVars, feedVars, relevant, late>>
WorkerStoreHandle ==
  /\ worker = "listed"
  /\ handles' = handles \union ({in_hand} \intersect active_tasks)
  /\ in_hand' = NoJob
  /\ worker' = "check"
  /\ UNCHANGED <<queue, active_jobs, active_tasks, stopped, jobVars, permit, runVars,
                 cancelVars, feedVars, relevant, late>>

\* After stop the worker returns at its check or dies at an await.
WorkerGone ==
  /\ stopped
  /\ worker # "gone"
  /\ worker' = "gone"
  /\ in_hand' = NoJob
  /\ phase' = [j \in Jobs |-> IF worker = "popped" /\ j = in_hand THEN "dropped"
                              ELSE phase[j]]
  /\ UNCHANGED <<queueVars, jobVars, permit, line, current, cancelVars, feedVars,
                 relevant, late>>

-----------------------------------------------------------------------------
(* run_job, one task per job, and translate_one_line, one task per line *)

\* Translation disabled, a failed preparation, or no enabled line.
JobSkip(j) ==
  /\ phase[j] = "gates"
  /\ Goto(j, "epilogue")
  /\ UNCHANGED <<queueVars, jobVars, workerVars, permit, cancelVars, feedVars,
                 relevant, late>>

\* The relevance and the lineage question, in one step since no answer can turn
\* in favour of the job in between; then one task per line is spawned.
JobGates(j) ==
  /\ phase[j] = "gates"
  /\ IF Fresh(j)
     THEN /\ phase' = [phase EXCEPT ![j] = "lines"]
          /\ line' = [line EXCEPT ![j] = [l \in Lines |-> "gate"]]
          /\ UNCHANGED current
     ELSE Goto(j, "epilogue")
  /\ UNCHANGED <<queueVars, jobVars, workerVars, permit, cancelVars, feedVars,
                 relevant, late>>

SetLine(j, l, state) == line' = [line EXCEPT ![j][l] = state]

\* translate_one_line asks both gates again before it calls the provider.
LineGate(j, l) ==
  /\ line[j][l] = "gate"
  /\ SetLine(j, l, IF Fresh(j) THEN "call" ELSE "skip")
  /\ UNCHANGED <<queueVars, jobVars, workerVars, permit, phase, current, cancelVars,
                 feedVars, relevant, late>>

\* Done, Error or Timeout: each yields an item that run_job handles alike.
LineFinish(j, l) ==
  /\ line[j][l] = "call"
  /\ SetLine(j, l, "result")
  /\ UNCHANGED <<queueVars, jobVars, workerVars, permit, phase, current, cancelVars,
                 feedVars, relevant, late>>

\* A line task that panics joins as an error and is passed over.
LinePanic(j, l) ==
  /\ line[j][l] = "call"
  /\ SetLine(j, l, "skip")
  /\ UNCHANGED <<queueVars, jobVars, workerVars, permit, phase, current, cancelVars,
                 feedVars, relevant, late>>

\* run_job joins a line.  Its three questions (stopped, relevant, superseded)
\* are again one step.  A line that ends before the next 5 ms poll of the
\* cancel flag is still joined.
JobTake(j, l) ==
  /\ phase[j] = "lines"
  /\ line[j][l] \in {"result", "skip"}
  /\ IF line[j][l] = "result" /\ stopped
     THEN LeaveRun(j, "epilogue")
     ELSE IF line[j][l] = "result" /\ Fresh(j)
     THEN /\ phase' = [phase EXCEPT ![j] = "publish"]
          /\ current' = [current EXCEPT ![j] = l]
          /\ UNCHANGED line
     ELSE SetLine(j, l, "taken") /\ UNCHANGED <<phase, current>>
  /\ UNCHANGED <<queueVars, jobVars, workerVars, permit, cancelVars, feedVars,
                 relevant, late>>

\* The publish closure hands the event to the subtitle router, which may show
\* the block again; events after stop or supersession are counted.
HandOver(j) ==
  /\ relevant' \in {relevant, relevant \union {sequence_of[j]}}
  /\ late' = [late EXCEPT ![j] = IF stopped \/ Superseded(j) THEN @ + 1 ELSE @]

JobPublish(j) ==
  /\ phase[j] = "publish"
  /\ HandOver(j)
  /\ phase' = [phase EXCEPT ![j] = "lines"]
  /\ SetLine(j, current[j], "taken")
  /\ current' = [current EXCEPT ![j] = NoLine]
  /\ UNCHANGED <<queueVars, jobVars, workerVars, permit, cancelVars, feedVars>>

\* No line is left: the completion event has the same three questions to pass.
JobCompletionUnchecked(j) ==
  /\ phase[j] = "lines"
  /\ j \notin cancelled
  /\ \A l \in Lines : line[j][l] = "taken"
  /\ LeaveRun(j, "complete")
  /\ UNCHANGED <<queueVars, jobVars, workerVars, permit, cancelVars, feedVars,
                 relevant, late>>
JobCompletion(j) ==
  /\ phase[j] = "lines"
  /\ j \notin cancelled
  /\ \A l \in Lines : line[j][l] = "taken"
  /\ LeaveRun(j, IF Void(j) THEN "epilogue" ELSE "complete")
  /\ UNCHANGED <<queueVars, jobVars, workerVars, permit, cancelVars, feedVars,
                 relevant, late>>

JobPublishComplete(j) ==
  /\ phase[j] = "complete"
  /\ HandOver(j)
  /\ Goto(j, "epilogue")
  /\ UNCHANGED <<queueVars, jobVars, workerVars, permit, cancelVars, feedVars>>

\* The biased select sees the cancel flag first while run_job waits for lines.
JobCancelled(j) ==
  /\ phase[j] = "lines"
  /\ j \in cancelled
  /\ LeaveRun(j, "epilogue")
  /\ UNCHANGED <<queueVars, jobVars, workerVars, permit, cancelVars, feedVars,
                 relevant, late>>

\* The task frees its slot, unless a cancellation freed it already.
JobEpilogue(j) ==
  /\ phase[j] = "epilogue"
  /\ LeaveRun(j, "ended")
  /\ FreeSlot(j)
  /\ NotifyOne
  /\ UNCHANGED <<queue, stopped, jobVars, in_hand, cancelVars, feedVars, relevant, late>>

\* An aborted task dies at an await: its epilogue never runs.
JobKilled(j) ==
  /\ j \in aborted
  /\ phase[j] \in LivePhases
  /\ LeaveRun(j, "ended")
  /\ UNCHANGED <<queueVars, jobVars, workerVars, permit, cancelVars, feedVars,
                 relevant, late>>

-----------------------------------------------------------------------------
(* stop, under the controller's mutex *)

Stop ==
  /\ submit.pc = "idle"
  /\ ~stopped
  /\ stopped' = TRUE
  /\ queue' = {}
  /\ phase' = [j \in Jobs |-> IF phase[j] = Queued THEN "dropped" ELSE phase[j]]
  /\ RaiseFlags(active_tasks)
  /\ active_jobs' = SaturatingSub(active_jobs, Cardinality(active_tasks))
  /\ active_tasks' = {}
  /\ handles' = {}
  /\ NotifyWaiters
  /\ UNCHANGED <<jobVars, in_hand, line, current, feedVars, relevant, late>>

\* A stopped dispatcher whose tasks have all ended does nothing more.
Halted ==
  /\ worker = "gone"
  /\ relevant = {}
  /\ \A j \in Jobs : phase[j] \notin LivePhases
  /\ UNCHANGED vars

-----------------------------------------------------------------------------
SubmitStep ==
  \/ \E s \in Sequences : JudgeOlder(s)
  \/ CancelOlder
  \/ AdmitJob
  \/ EnqueueJob
  \/ \E j \in Jobs : DropOverflow(j)
  \/ WakeWorker

WorkerStep ==
  \/ \E j \in Jobs : WorkerPop(j)
  \/ WorkerDecideWait \/ WorkerWait \/ WorkerList \/ WorkerStoreHandle \/ WorkerGone

LineStep(j, l) == LineGate(j, l) \/ LineFinish(j, l) \/ LinePanic(j, l)

JobStep(j) ==
  \/ JobSkip(j) \/ JobGates(j)
  \/ \E l \in Lines : JobTake(j, l)
  \/ JobPublish(j) \/ JobCompletion(j) \/ JobPublishComplete(j)
  \/ JobCancelled(j) \/ JobEpilogue(j) \/ JobKilled(j)

Next ==
  \/ \E k \in Keys \union {NoKey} : SubmitFinal(k)
  \/ \E s \in Sequences : Forget(s)
  \/ SubmitStep
  \/ WorkerStep
  \/ \E j \in Jobs : JobStep(j) \/ \E l \in Lines : LineStep(j, l)
  \/ Stop
  \/ Halted

Spec == Init /\ [][Next]_vars

\* tokio polls every runnable task again; a line ends at its timeout at the
\* latest.  Nothing obliges the session to submit, forget or stop.
Fairness ==
  /\ WF_vars(SubmitStep)
  /\ WF_vars(WorkerStep)
  /\ \A j \in Jobs : WF_vars(JobStep(j))
  /\ \A j \in Jobs, l \in Lines : WF_vars(LineStep(j, l))

FairSpec == Spec /\ Fairness

-----------------------------------------------------------------------------
(* Properties *)

\* Every variable keeps its type.
TypeOK ==
  /\ queue \in SUBSET Jobs
  /\ active_jobs \in Nat
  /\ active_tasks \in SUBSET Jobs
  /\ handles \in SUBSET active_tasks
  /\ stopped \in BOOLEAN
  /\ next_job_id \in 0..MaxJobs
  /\ preview_lineage \in [Keys -> Nat]
  /\ worker \in WorkerStates
  /\ in_hand \in Jobs \union {NoJob}
  /\ permit \in BOOLEAN
  /\ sequence_of \in [Jobs -> Sequences \union {0}]
  /\ key_of \in [Jobs -> Keys \union {NoKey}]
  /\ generation_of \in [Jobs -> Nat]
  /\ phase \in [Jobs -> Phases]
  /\ line \in [Jobs -> [Lines -> LineStates]]
  /\ current \in [Jobs -> Lines \union {NoLine}]
  /\ cancelled \in SUBSET Jobs
  /\ aborted \in SUBSET Jobs
  /\ submit \in [pc : SubmitStates, seq : Sequences \union {0},
                  key : Keys \union {NoKey}, job : Jobs \union {NoJob},
                  todo : SUBSET Sequences, doomed : SUBSET Sequences]
  /\ last_sequence \in Sequences \union {0}
  /\ relevant \in SUBSET Sequences
  /\ late \in [Jobs -> Nat]

PoppedJobs == IF worker = "popped" THEN {in_hand} ELSE {}

\* Until stop, the counter worker_loop compares with the limit equals the jobs
\* really listed, plus the one popped but not yet listed: a cancellation and
\* the epilogue of the same job never both free its slot, and none leaks.
SlotAccounting ==
  ~stopped => active_jobs = Cardinality(active_tasks) + Cardinality(PoppedJobs)

Running(j) == phase[j] \in LivePhases /\ j \notin cancelled

\* No more jobs run uncancelled than max_concurrent_jobs, whatever is cancelled
\* or stopped between the worker's three critical sections.
NoOverrun == Cardinality({j \in Jobs : Running(j)} \union PoppedJobs) <= MaxConcurrent

\* A job that runs uncancelled is listed, so cancel_older_than and stop can
\* reach it.
NoOrphan == \A j \in Jobs : Running(j) => j \in active_tasks

\* At most one job, popped but not listed when stop came, outlives stop
\* without a cancel flag.
StopReachesAll == stopped => Cardinality({j \in Jobs : Running(j)}) <= 1

\* However cancellations, epilogues, stop and the worker's critical sections fall
\* between each other: the slots are counted right, the limit holds, and
\* every job is within reach of a cancellation, but for the one stop may miss.
JobsAccounted == SlotAccounting /\ NoOverrun /\ NoOrphan /\ StopReachesAll

\* The worker never sleeps on a job it could start unless the submit_final in
\* progress has its notify_one still to come: the wake-ups of notify_waiters,
\* which leave no permit, are never the only ones.
NoLostWakeup ==
  /\ ~stopped
  /\ queue # {}
  /\ active_jobs < MaxConcurrent
  /\ worker = "waiting" \/ (worker = "deciding" /\ ~permit)
  => submit.pc \in {"admit", "enqueue", "wake"}

\* Once the dispatcher stopped or the job's preview was superseded, at most the
\* one event already on its way is still published.
LateBound == \A j \in Jobs : late[j] <= 1

\* A queued job is started, dropped or cancelled in the end: the worker does
\* not stall while a slot can become free.
QueuedJobSettles ==
  \A j \in Jobs : phase[j] = Queued ~> phase[j] \in {"ended", "dropped"}

\* The dispatcher implements a pool whose running jobs are the listed ones and
\* the popped one: FIFO starts, both bounds, and no start after stop.
LastQueued == IF submit.pc = "enqueue" THEN next_job_id - 1 ELSE next_job_id
Pool == INSTANCE JobPool WITH
  Capacity <- QueueMax, Limit <- MaxConcurrent, waiting <- queue,
  running <- active_tasks \union PoppedJobs, newest <- LastQueued, closed <- stopped
ImplementsPool == Pool!PoolSpec

=============================================================================
