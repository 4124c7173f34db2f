----------------------------- MODULE ImagenSession -----------------------------
(***************************************************************************)
(* The Application Session of packages/application/src/session/session.ts: *)
(* the FIFO queue, the drain that starts entries under the global cap and  *)
(* the lane caps, the dispatch coroutine of every entry, the terminal      *)
(* coroutine that projects and persists the Task, Retry, removal and       *)
(* dispose -- together with what it drives: the Core Job life cycle        *)
(* (core-engine runWorkflow and store) and the durable Task store.         *)
(*                                                                         *)
(* JavaScript runs one callback at a time, so an action is the code that   *)
(* runs between two awaits (or timers), and the coroutines of different    *)
(* entries interleave at those points.  The one exception is the drain,    *)
(* whose loop is several actions here: while `draining` holds, no other    *)
(* action is enabled.                                                      *)
(*                                                                         *)
(* A queue entry and the Job it creates share one number: an entry calls   *)
(* executeJob at most once.  Numbers are handed out when the entry is      *)
(* pushed, and the code only appends to and filters the queue array, so    *)
(* the array is the set `queue` in increasing order.                       *)
(***************************************************************************)
EXTENDS Naturals, FiniteSets

CONSTANTS
  Tasks,        \* the stable Task ids a caller submits
  NoTask,       \* no Task: what an entry number that is not in use names
  Lanes,        \* the concurrency lanes the backends admit into
  NoLane,       \* what LaneOf gives for an admission without a lane
  LaneOf,       \* the lane a backend admits each Task into
  LaneCap,      \* lane.maxConcurrency (2 for a provider, 1 for ComfyUI)
  MaxRunning,   \* MAX_RUNNING_TASKS_GLOBAL
  MaxEntries    \* BOUND: how many entries are ever pushed

ASSUME SessionAssumption ==
  /\ IsFiniteSet(Tasks)
  /\ NoTask \notin Tasks
  /\ NoLane \notin Lanes
  /\ LaneOf \in [Tasks -> Lanes \cup {NoLane}]
  /\ LaneCap \in [Lanes -> Nat \ {0}]
  /\ MaxRunning \in Nat \ {0}
  /\ MaxEntries \in Nat

Entries == 1 .. MaxEntries
NoEntry == 0

VARIABLES
  task,         \* entry -> admitted.taskId, NoTask until the entry is pushed
  origin,       \* entry -> originJobId, NoEntry for a first attempt
  pc,           \* entry -> where its dispatch coroutine stands
  queue,        \* the entries in the queue array
  active,       \* the Map active: Task -> entry, NoEntry where it has no key
  skipped,      \* the entries whose skipThroughEpoch a drain has yet to pass
  drainTimer,   \* drainTimer # undefined
  draining,     \* drainRunning
  disposed,
  job,          \* entry -> status of its Job in the Core store
  correlated,   \* the entries whose Job has a key in correlations
  terminal,     \* entry -> where finalizeTerminal stands; "none" = not in terminalOnce
  projected,    \* entry -> the terminal Task status about to be persisted
  record,       \* the durable Task store: Task -> status and latestJobId
  published,    \* entry -> the Job status in the Session snapshot
  retryable,    \* the entries whose snapshot Job has canRetry
  known,        \* knownTaskIds
  submitting,   \* the Tasks with an admission in flight (inFlightSubmit)
  retrying      \* failed Job -> where its retryJob stands ("none" = not in inFlightRetry)

entryVars == <<task, origin>>
schedVars == <<queue, active, skipped, drainTimer>>
jobVars == <<job, correlated, terminal, projected>>
viewVars == <<published, retryable>>
clientVars == <<known, submitting, retrying>>
vars == <<entryVars, pc, schedVars, draining, disposed, jobVars, record, viewVars, clientVars>>

Dispatch == {"free", "queued", "readiness", "persisting", "executing",
             "flushing", "failing", "done"}
JobStatus == {"none", "created", "running", "completed", "failed"}
JobTerminal == {"completed", "failed"}
TaskStatus == {"absent", "running", "completed", "failed"}
Finalize == {"none", "projecting", "persisting", "following", "settled"}

TypeOK ==
  /\ task \in [Entries -> Tasks \cup {NoTask}]
  /\ origin \in [Entries -> Entries \cup {NoEntry}]
  /\ pc \in [Entries -> Dispatch]
  /\ queue \subseteq Entries
  /\ active \in [Tasks -> Entries \cup {NoEntry}]
  /\ skipped \subseteq Entries
  /\ drainTimer \in BOOLEAN
  /\ draining \in BOOLEAN
  /\ disposed \in BOOLEAN
  /\ job \in [Entries -> JobStatus]
  /\ correlated \subseteq Entries
  /\ terminal \in [Entries -> Finalize]
  /\ projected \in [Entries -> {"none"} \cup JobTerminal]
  /\ record \in [Tasks -> [status : TaskStatus, job : Entries \cup {NoEntry}]]
  /\ published \in [Entries -> JobStatus]
  /\ retryable \subseteq Entries
  /\ known \subseteq Tasks
  /\ submitting \subseteq Tasks
  /\ retrying \in [Entries -> {"none", "reading", "admitting", "queued"}]

Init ==
  /\ task = [e \in Entries |-> NoTask]
  /\ origin = [e \in Entries |-> NoEntry]
  /\ pc = [e \in Entries |-> "free"]
  /\ queue = {}
  /\ active = [t \in Tasks |-> NoEntry]
  /\ skipped = {}
  /\ drainTimer = FALSE
  /\ draining = FALSE
  /\ disposed = FALSE
  /\ job = [e \in Entries |-> "none"]
  /\ correlated = {}
  /\ terminal = [e \in Entries |-> "none"]
  /\ projected = [e \in Entries |-> "none"]
  /\ record = [t \in Tasks |-> [status |-> "absent", job |-> NoEntry]]
  /\ published = [e \in Entries |-> "none"]
  /\ retryable = {}
  /\ known = {}
  /\ submitting = {}
  /\ retrying = [e \in Entries |-> "none"]

--------------------------------------------------------------------------------
(* What several handlers do. *)

ActiveTasks == {t \in Tasks : active[t] # NoEntry}

\* MUTANT of RequestDrain: a drain is requested only while nothing runs.
RequestDrainIdle == drainTimer' = (drainTimer \/ (~disposed /\ ActiveTasks = {}))

\* requestDrain(): nothing once disposed, nothing while a timer is armed.
RequestDrain == drainTimer' = (drainTimer \/ ~disposed)

\* active.delete(taskId), only where the slot still holds this entry.
ReleaseSlot(e) ==
  active' = IF active[task[e]] = e THEN [active EXCEPT ![task[e]] = NoEntry] ELSE active

\* An entry that is in the queue or holds the slot of its Task.
HoldsSlot(e) == \E t \in Tasks : active[t] = e
Live(e) == e \in queue \/ HoldsSlot(e)

\* MUTANT of Settle: an entry that has not been started is not settled.
SettleStarted(e) ==
  retrying' = IF origin[e] # NoEntry /\ HoldsSlot(e)
                THEN [retrying EXCEPT ![origin[e]] = "none"] ELSE retrying

\* settle(entry, ...): resolves the promise retryJob is waiting on, whose
\* finally deletes the inFlightRetry key.  A first attempt has no settle, and
\* an entry that is no longer live has been settled: a promise resolves once.
Settle(e) ==
  retrying' = IF origin[e] # NoEntry /\ Live(e)
                THEN [retrying EXCEPT ![origin[e]] = "none"] ELSE retrying

\* MUTANT of Forget: a Retry that is dropped makes its Task unknown.
ForgetAlways(e) == known' = known \ {task[e]}

\* A first attempt that ends before its Job exists may be submitted again.
Forget(e) == known' = IF origin[e] = NoEntry THEN known \ {task[e]} ELSE known

\* syncJob / syncDispatchFailure for the Job of e; publish() is void once disposed.
Publish(e, status, canRetry) ==
  IF disposed
    THEN UNCHANGED viewVars
    ELSE /\ published' = [published EXCEPT ![e] = status]
         /\ retryable' = IF canRetry THEN retryable \cup {e} ELSE retryable \ {e}

\* MUTANT of Put: the write is not awaited, and may be lost.
PutLossy(e, status) ==
  record' \in {record, [record EXCEPT ![task[e]] = [status |-> status, job |-> e]]}

\* putTaskRecord resolved.
Put(e, status) == record' = [record EXCEPT ![task[e]] = [status |-> status, job |-> e]]

\* putTaskRecord rejected: the store may have kept the record or lost it.
PutRejected(e, status) == Put(e, status) \/ UNCHANGED record

\* The backend lane of an entry and how many other entries hold a slot in it.
Lane(e) == LaneOf[task[e]]
LaneRunningCount(e) ==
  Cardinality({t \in ActiveTasks : active[t] # e /\ LaneOf[t] = Lane(e)})

\* MUTANT of Eligible: the lane is not looked at.
EligibleAnyLane(e) == e \in queue /\ pc[e] = "queued" /\ e \notin skipped

Eligible(e) ==
  /\ e \in queue
  /\ pc[e] = "queued"
  /\ e \notin skipped
  /\ Lane(e) # NoLane => LaneRunningCount(e) < LaneCap[Lane(e)]

\* MUTANT of EarliestEligible: the queue is a stack.
LatestEligible(e) == Eligible(e) /\ \A d \in queue : Eligible(d) => e >= d

EarliestEligible(e) == Eligible(e) /\ \A d \in queue : Eligible(d) => e <= d

\* BOUND: an admission may start only when a number is left for its entry.
Free == {e \in Entries : pc[e] = "free"}
Admitting == {j \in Entries : retrying[j] \in {"reading", "admitting"}}
RoomForEntry == Cardinality(Free) > Cardinality(submitting) + Cardinality(Admitting)

\* queue = [...queue, entry]; publishQueue(); requestDrain()
Push(e, t, o) ==
  /\ e \in Free
  /\ \A d \in Free : e <= d
  /\ task' = [task EXCEPT ![e] = t]
  /\ origin' = [origin EXCEPT ![e] = o]
  /\ pc' = [pc EXCEPT ![e] = "queued"]
  /\ queue' = queue \cup {e}
  /\ RequestDrain

\* rejectBeforeJob(), and failStartedEntry() without a correlation: the entry
\* leaves the queue and its slot, and no Job or Task was created.
RejectBeforeJob(e) ==
  /\ pc' = [pc EXCEPT ![e] = "done"]
  /\ queue' = queue \ {e}
  /\ ReleaseSlot(e)
  /\ Forget(e)
  /\ Settle(e)
  /\ RequestDrain
  /\ UNCHANGED <<entryVars, skipped, draining, disposed, jobVars, record, viewVars, submitting>>

--------------------------------------------------------------------------------
(* submitJob *)

\* submitJob up to `await admitGeneration`.  A disposed Session, a known Task
\* and an admission in flight return without a state change.
SubmitJob(t) ==
  /\ ~draining /\ ~disposed
  /\ t \notin known /\ t \notin submitting
  /\ RoomForEntry
  /\ submitting' = submitting \cup {t}
  /\ UNCHANGED <<entryVars, pc, schedVars, draining, disposed, jobVars, record, viewVars,
                 known, retrying>>

\* The admission resolves on a live Session that does not know the Task yet.
Admitted(t) ==
  /\ ~draining /\ ~disposed
  /\ t \in submitting /\ t \notin known
  /\ submitting' = submitting \ {t}
  /\ known' = known \cup {t}
  /\ \E e \in Entries : Push(e, t, NoEntry)
  /\ UNCHANGED <<active, skipped, draining, disposed, jobVars, record, viewVars, retrying>>

\* The admission rejects, or resolves after dispose() or for a known Task.
NotAdmitted(t) ==
  /\ ~draining
  /\ t \in submitting
  /\ submitting' = submitting \ {t}
  /\ UNCHANGED <<entryVars, pc, schedVars, draining, disposed, jobVars, record, viewVars,
                 known, retrying>>

--------------------------------------------------------------------------------
(* The drain: a timer callback whose loop starts entries until none fits. *)

\* The timer fires: drainTimer = undefined, drainRunning = true, ++drainEpoch.
DrainBegin ==
  /\ drainTimer /\ ~draining
  /\ drainTimer' = FALSE
  /\ draining' = TRUE
  /\ skipped' = {}
  /\ UNCHANGED <<entryVars, pc, queue, active, disposed, jobVars, record, viewVars, clientVars>>

\* One turn of the loop: the entry takes a slot and its dispatch runs up to
\* `await backend.checkReadiness`.
DrainStart(e) ==
  /\ draining /\ ~disposed
  /\ Cardinality(ActiveTasks) < MaxRunning
  /\ EarliestEligible(e)
  /\ pc' = [pc EXCEPT ![e] = "readiness"]
  /\ active' = [active EXCEPT ![task[e]] = e]
  /\ UNCHANGED <<entryVars, queue, skipped, drainTimer, draining, disposed, jobVars, record,
                 viewVars, clientVars>>

DrainEnd ==
  /\ draining
  /\ \/ disposed
     \/ Cardinality(ActiveTasks) >= MaxRunning
     \/ \A e \in queue : ~Eligible(e)
  /\ draining' = FALSE
  /\ UNCHANGED <<entryVars, pc, schedVars, disposed, jobVars, record, viewVars, clientVars>>

--------------------------------------------------------------------------------
(* dispatch: checkReadiness has answered. *)

\* The Session was disposed (or the slot lost) meanwhile: return.
ReadinessDropped(e) ==
  /\ ~draining
  /\ pc[e] = "readiness"
  /\ disposed \/ ~HoldsSlot(e)
  /\ pc' = [pc EXCEPT ![e] = "done"]
  /\ UNCHANGED <<entryVars, schedVars, draining, disposed, jobVars, record, viewVars, clientVars>>

\* status "wait": back in the queue, skipped for the rest of this epoch.
ReadinessWait(e) ==
  /\ ~draining
  /\ pc[e] = "readiness"
  /\ ~disposed /\ HoldsSlot(e)
  /\ pc' = [pc EXCEPT ![e] = "queued"]
  /\ skipped' = skipped \cup {e}
  /\ active' = [active EXCEPT ![task[e]] = NoEntry]
  /\ RequestDrain
  /\ UNCHANGED <<entryVars, queue, draining, disposed, jobVars, record, viewVars, clientVars>>

\* status "reject", or executeJob fails before onJobCreated has linked a Job.
ReadinessReject(e) ==
  /\ ~draining
  /\ pc[e] = "readiness"
  /\ ~disposed /\ HoldsSlot(e)
  /\ RejectBeforeJob(e)

\* checkReadiness throws: the catch does not look at `disposed` or the slot.
ReadinessThrows(e) ==
  /\ ~draining
  /\ pc[e] = "readiness"
  /\ RejectBeforeJob(e)

\* MUTANT of ReadinessReady: no second look at the Session and the slot after the await.
ReadinessReadyStale(e) ==
  /\ ~draining
  /\ pc[e] = "readiness"
  /\ pc' = [pc EXCEPT ![e] = "persisting"]
  /\ job' = [job EXCEPT ![e] = "created"]
  /\ correlated' = correlated \cup {e}
  /\ queue' = queue \ {e}
  /\ Publish(e, "created", FALSE)
  /\ UNCHANGED <<entryVars, active, skipped, drainTimer, draining, disposed, terminal, projected,
                 record, clientVars>>

\* status "ready": executeJob, Core submitJob, the "created" event (not yet
\* correlated) and onJobCreated run without an await up to putTaskRecord.
ReadinessReady(e) ==
  /\ ~draining
  /\ pc[e] = "readiness"
  /\ ~disposed /\ HoldsSlot(e)
  /\ pc' = [pc EXCEPT ![e] = "persisting"]
  /\ job' = [job EXCEPT ![e] = "created"]
  /\ correlated' = correlated \cup {e}
  /\ queue' = queue \ {e}
  /\ Publish(e, "created", FALSE)
  /\ UNCHANGED <<entryVars, active, skipped, drainTimer, draining, disposed, terminal, projected,
                 record, clientVars>>

--------------------------------------------------------------------------------
(* dispatch: the running Task, the execution and the Job history. *)

\* onJobCreated resolves: executeWorkflow marks the Job running and dispatches.
RunningPersisted(e) ==
  /\ ~draining
  /\ pc[e] = "persisting"
  /\ Put(e, "running")
  /\ pc' = [pc EXCEPT ![e] = "executing"]
  /\ job' = [job EXCEPT ![e] = "running"]
  /\ UNCHANGED <<entryVars, schedVars, draining, disposed, correlated, terminal, projected,
                 viewVars, clientVars>>

\* onJobCreated rejects: the Job stays "created", failStartedEntry starts and
\* persistFailedStart awaits its own putTaskRecord.
RunningPersistFails(e) ==
  /\ ~draining
  /\ pc[e] = "persisting"
  /\ PutRejected(e, "running")
  /\ pc' = [pc EXCEPT ![e] = "failing"]
  /\ UNCHANGED <<entryVars, schedVars, draining, disposed, jobVars, viewVars, clientVars>>

\* persistFailedStart swallows its error; failStartedEntry cleans up.
FailedStartEnds(e) ==
  /\ ~draining
  /\ pc[e] = "failing"
  /\ PutRejected(e, "failed")
  /\ pc' = [pc EXCEPT ![e] = "done"]
  /\ correlated' = correlated \ {e}
  /\ queue' = queue \ {e}
  /\ ReleaseSlot(e)
  /\ Publish(e, "failed", FALSE)
  /\ Settle(e)
  /\ RequestDrain
  /\ UNCHANGED <<entryVars, skipped, draining, disposed, job, terminal, projected, known, submitting>>

\* MUTANTS of Finalized: terminalOnce is not consulted; a failed Job is not finalized;
\* the Task is persisted without its projection.
FinalizedAgain(e) ==
  IF e \in correlated THEN [terminal EXCEPT ![e] = "projecting"] ELSE terminal
FinalizedCompleted(e) ==
  IF terminal[e] = "none" /\ e \in correlated /\ job[e] = "completed"
    THEN [terminal EXCEPT ![e] = "projecting"] ELSE terminal
FinalizedUnprojected(e) ==
  IF terminal[e] = "none" /\ e \in correlated
    THEN [terminal EXCEPT ![e] = "persisting"] ELSE terminal

\* finalizeTerminal(job): once per Job, only while it is correlated.
Finalized(e) ==
  IF terminal[e] = "none" /\ e \in correlated
    THEN [terminal EXCEPT ![e] = "projecting"]
    ELSE terminal

\* markCompleted / markFailed, then the terminal event: the subscriber of a
\* live Session starts finalizeTerminal; executeJob goes on to flush history.
ExecutionEnds(e, s) ==
  /\ ~draining
  /\ pc[e] = "executing"
  /\ s \in JobTerminal
  /\ job' = [job EXCEPT ![e] = s]
  /\ terminal' = IF disposed THEN terminal ELSE Finalized(e)
  /\ pc' = [pc EXCEPT ![e] = "flushing"]
  /\ UNCHANGED <<entryVars, schedVars, draining, disposed, correlated, projected, record,
                 viewVars, clientVars>>

\* flushJobHistoryForTerminalJob settles, either way: dispatch sees a terminal
\* Job and calls finalizeTerminal itself (joining the one in flight).
FlushEnds(e) ==
  /\ ~draining
  /\ pc[e] = "flushing"
  /\ terminal' = Finalized(e)
  /\ pc' = [pc EXCEPT ![e] = "done"]
  /\ UNCHANGED <<entryVars, schedVars, draining, disposed, job, correlated, projected, record,
                 viewVars, clientVars>>

--------------------------------------------------------------------------------
(* finalizeTerminal *)

\* projectTerminal settles; a throw or an inconsistent Task becomes the bounded
\* failed Task, and a failed Job can only become a failed Task.
TerminalProjected(e, s) ==
  /\ ~draining
  /\ terminal[e] = "projecting"
  /\ s \in JobTerminal
  /\ job[e] = "failed" => s = "failed"
  /\ projected' = [projected EXCEPT ![e] = s]
  /\ terminal' = [terminal EXCEPT ![e] = "persisting"]
  /\ UNCHANGED <<entryVars, pc, schedVars, draining, disposed, job, correlated, record, viewVars,
                 clientVars>>

\* MUTANT of ReleaseCorrelation: the slot is not given back.
ReleaseKeepsSlot(e) ==
  /\ correlated' = correlated \ {e}
  /\ RequestDrain
  /\ UNCHANGED active

\* releaseCorrelation, in the finally of finalizeTerminal.
ReleaseCorrelation(e) ==
  /\ correlated' = correlated \ {e}
  /\ ReleaseSlot(e)
  /\ RequestDrain

\* The terminal Task is durable: only now the terminal Job is published.
TerminalPersisted(e, canRetry) ==
  /\ ~draining
  /\ terminal[e] = "persisting"
  /\ canRetry => job[e] = "failed"
  /\ Put(e, projected[e])
  /\ Publish(e, job[e], canRetry)
  /\ terminal' = [terminal EXCEPT ![e] = "following"]
  /\ UNCHANGED <<entryVars, pc, schedVars, draining, disposed, job, correlated, projected, clientVars>>

\* The terminal Task was rejected by the store: publish a failure without Retry.
TerminalPersistFails(e) ==
  /\ ~draining
  /\ terminal[e] = "persisting"
  /\ PutRejected(e, projected[e])
  /\ Publish(e, "failed", FALSE)
  /\ Settle(e)
  /\ ReleaseCorrelation(e)
  /\ terminal' = [terminal EXCEPT ![e] = "settled"]
  /\ UNCHANGED <<entryVars, pc, queue, skipped, draining, disposed, job, projected, known, submitting>>

\* afterTerminal settles, either way.
FollowUpEnds(e) ==
  /\ ~draining
  /\ terminal[e] = "following"
  /\ Settle(e)
  /\ ReleaseCorrelation(e)
  /\ terminal' = [terminal EXCEPT ![e] = "settled"]
  /\ UNCHANGED <<entryVars, pc, queue, skipped, draining, disposed, job, projected, record, viewVars,
                 known, submitting>>

--------------------------------------------------------------------------------
(* removeQueuedTask, retryJob, dispose *)

RemoveQueuedTask(e) ==
  /\ ~draining
  /\ e \in queue
  /\ pc[e] = "queued"
  /\ pc' = [pc EXCEPT ![e] = "done"]
  /\ queue' = queue \ {e}
  /\ Forget(e)
  /\ Settle(e)
  /\ RequestDrain
  /\ UNCHANGED <<entryVars, active, skipped, draining, disposed, jobVars, record, viewVars, submitting>>

\* retryJob up to `await getTaskRecord`: no look at `disposed`.
RetryJob(j) ==
  /\ ~draining
  /\ retrying[j] = "none"
  /\ job[j] = "failed"
  /\ published[j] # "none" /\ j \in retryable
  /\ active[task[j]] = NoEntry
  /\ \A e \in queue : task[e] # task[j]
  /\ RoomForEntry
  /\ retrying' = [retrying EXCEPT ![j] = "reading"]
  /\ UNCHANGED <<entryVars, pc, schedVars, draining, disposed, jobVars, record, viewVars,
                 known, submitting>>

\* MUTANT of RetryTaskRead: the Task record is not compared with the Job.
RetryTaskReadUnchecked(j) ==
  /\ ~draining
  /\ retrying[j] = "reading"
  /\ retrying' = [retrying EXCEPT ![j] = "admitting"]
  /\ UNCHANGED <<entryVars, pc, schedVars, draining, disposed, jobVars, record, viewVars,
                 known, submitting>>

\* getTaskRecord resolves with the failed Task of this very Job.
RetryTaskRead(j) ==
  /\ ~draining
  /\ retrying[j] = "reading"
  /\ record[task[j]] = [status |-> "failed", job |-> j]
  /\ retrying' = [retrying EXCEPT ![j] = "admitting"]
  /\ UNCHANGED <<entryVars, pc, schedVars, draining, disposed, jobVars, record, viewVars,
                 known, submitting>>

\* The Task is not retryable, or getTaskRecord or backend.retry reject.
RetryRefused(j) ==
  /\ ~draining
  /\ retrying[j] \in {"reading", "admitting"}
  /\ retrying' = [retrying EXCEPT ![j] = "none"]
  /\ UNCHANGED <<entryVars, pc, schedVars, draining, disposed, jobVars, record, viewVars,
                 known, submitting>>

\* backend.retry resolves: the entry is pushed, with no second look at the
\* queue, at the active slots or at `disposed`.
RetryAdmitted(j) ==
  /\ ~draining
  /\ retrying[j] = "admitting"
  /\ retrying' = [retrying EXCEPT ![j] = "queued"]
  /\ \E e \in Entries : Push(e, task[j], j)
  /\ UNCHANGED <<active, skipped, draining, disposed, jobVars, record, viewVars, known, submitting>>

\* dispose(), which may be called again: every entry still in the queue has no
\* Job, and is dropped; a dispatch suspended in checkReadiness stays suspended.
Dispose ==
  /\ ~draining
  /\ disposed' = TRUE
  /\ drainTimer' = FALSE
  /\ queue' = {}
  /\ pc' = [e \in Entries |-> IF e \in queue /\ pc[e] = "queued" THEN "done" ELSE pc[e]]
  /\ active' = [t \in Tasks |-> IF active[t] \in queue THEN NoEntry ELSE active[t]]
  /\ known' = known \ {task[e] : e \in {d \in queue : origin[d] = NoEntry}}
  /\ retrying' = [j \in Entries |-> IF \E e \in queue : origin[e] = j THEN "none" ELSE retrying[j]]
  /\ UNCHANGED <<entryVars, skipped, draining, jobVars, record, viewVars, submitting>>

--------------------------------------------------------------------------------

Submission == \E t \in Tasks : SubmitJob(t) \/ Admitted(t) \/ NotAdmitted(t)
Drain == DrainBegin \/ (\E e \in Entries : DrainStart(e)) \/ DrainEnd
Readiness(e) ==
  \/ ReadinessDropped(e) \/ ReadinessWait(e) \/ ReadinessReject(e) \/ ReadinessThrows(e)
  \/ ReadinessReady(e)
Execution(e) ==
  \/ RunningPersisted(e) \/ RunningPersistFails(e) \/ FailedStartEnds(e)
  \/ (\E s \in JobTerminal : ExecutionEnds(e, s)) \/ FlushEnds(e)
Terminal(e) ==
  \/ \E s \in JobTerminal : TerminalProjected(e, s)
  \/ \E c \in BOOLEAN : TerminalPersisted(e, c)
  \/ TerminalPersistFails(e) \/ FollowUpEnds(e)
Retry(j) == RetryJob(j) \/ RetryTaskRead(j) \/ RetryRefused(j) \/ RetryAdmitted(j)

Next ==
  \/ Submission
  \/ Drain
  \/ \E e \in Entries : Readiness(e) \/ Execution(e) \/ Terminal(e) \/ RemoveQueuedTask(e) \/ Retry(e)
  \/ Dispose

Spec == Init /\ [][Next]_vars

--------------------------------------------------------------------------------
(* Fairness: the event loop runs every armed timer, and every promise a        *)
(* coroutine awaits settles.  A backend may answer "wait" again and again, but *)
(* not for ever (SF); nothing is assumed of the user.                          *)

Answered(e) == ReadinessReady(e) \/ ReadinessReject(e) \/ ReadinessThrows(e) \/ ReadinessDropped(e)

Fairness ==
  /\ WF_vars(Drain)
  /\ \A e \in Entries :
       /\ SF_vars(Answered(e)) /\ WF_vars(Execution(e)) /\ WF_vars(Terminal(e))
       /\ WF_vars(RetryTaskRead(e) \/ RetryRefused(e) \/ RetryAdmitted(e))

FairSpec == Spec /\ Fairness

--------------------------------------------------------------------------------
(* Safety *)

\* The Jobs whose execution is on its way to, or inside, a backend.
OnBackend == {e \in Entries : pc[e] \in {"persisting", "executing"}}

\* At most MAX_RUNNING_TASKS_GLOBAL Jobs run at once, across dispose, Retry and
\* every failure path that gives a slot back.
GlobalCap == Cardinality(OnBackend) <= MaxRunning

\* At most lane.maxConcurrency Jobs of one lane run at once, although the drain
\* counts slots and a slot outlives its execution.
LaneCapHolds ==
  \A l \in Lanes : Cardinality({e \in OnBackend : Lane(e) = l}) <= LaneCap[l]

\* Both caps hold.
CapsHold == GlobalCap /\ LaneCapHolds

\* A Task never has two live attempts: submitJob and retryJob decide before an
\* await and push after it.
OneLiveAttempt ==
  \A d, e \in Entries : Live(d) /\ Live(e) /\ task[d] = task[e] => d = e

\* No slot leaks: whatever holds one is a coroutine that will give it back.
SlotHasOwner ==
  \A t \in Tasks : active[t] # NoEntry =>
    LET e == active[t] IN
    /\ task[e] = t
    /\ \/ pc[e] \in {"readiness", "persisting", "executing", "failing"}
       \/ pc[e] = "flushing" /\ e \in correlated
       \/ terminal[e] \in {"projecting", "persisting", "following"}

\* No lost wakeup: while an entry could start and none is being started, a drain
\* is armed -- every path that frees a slot or pushes an entry requests one.
NoLostWakeup ==
  ~disposed /\ ~draining /\ Cardinality(ActiveTasks) < MaxRunning
    => \A e \in queue :
         pc[e] = "queued" /\ (Lane(e) # NoLane => LaneRunningCount(e) < LaneCap[Lane(e)])
           => drainTimer

\* The durable Task comes first: a Job shown as completed, or offered for Retry,
\* has its terminal Task in the store, unless a newer attempt has replaced it.
DurableBeforePublished ==
  \A e \in Entries : published[e] = "completed" \/ e \in retryable =>
    LET r == record[task[e]] IN
    \/ r.job > e
    \/ r.job = e /\ r.status \in JobTerminal /\ (e \in retryable => r.status = "failed")

\* While the Session lives, a pending retryJob promise has the live entry that
\* will settle it, so the inFlightRetry lock of the Job is not lost.
RetryPromiseOwned ==
  ~disposed => \A j \in Entries : retrying[j] = "queued" =>
                 \E e \in Entries : Live(e) /\ origin[e] = j

\* A Task that is queued, running or has run is known, so that submitting it again
\* is acknowledged and starts nothing.
KnownTasks ==
  \A e \in Entries : Live(e) \/ job[e] # "none" => task[e] \in known

\* A Task is submitted once and attempted once at a time.
OneAttempt == OneLiveAttempt /\ KnownTasks

--------------------------------------------------------------------------------
(* Action properties *)

\* FIFO: an entry is started only when every earlier queued entry is held back by
\* its own lane.
FifoStart ==
  [][\A e \in Entries : pc[e] = "queued" /\ pc'[e] = "readiness" =>
       \A d \in queue : d < e /\ pc[d] = "queued" =>
         /\ Lane(d) # NoLane
         /\ Cardinality({x \in Entries : HoldsSlot(x) /\ Lane(x) = Lane(d)}) >= LaneCap[Lane(d)]]_vars

\* dispose() fences everything before the Job: no Job is created afterwards.
NoJobAfterDispose ==
  [][disposed => \A e \in Entries : job[e] = "none" => job'[e] = "none"]_vars

\* What a Job was shown to end with stays: neither a late follow-up, nor dispose,
\* nor a Retry of the same Task rewrites the published result.
PublishedResultStays ==
  [][\A e \in Entries : published[e] \in JobTerminal => published'[e] = published[e]]_vars

--------------------------------------------------------------------------------
(* Liveness *)

\* A queued entry is not stranded behind full lanes, failures or waits.
QueueMoves == \A e \in Entries : e \in queue ~> (e \notin queue \/ disposed)

\* A Job the Session shows as running is one day shown as ended.
JobEndsInView == \A e \in Entries : published[e] = "created" ~> (published[e] \in JobTerminal \/ disposed)

\* A dispatched Job settles its Task even when the Session is disposed meanwhile.
ResultSettles == \A e \in Entries : pc[e] = "executing" ~> terminal[e] = "settled"

\* The inFlightRetry lock of a live Session is released.
RetryEnds == \A j \in Entries : retrying[j] # "none" ~> (retrying[j] = "none" \/ disposed)

\* Whatever is dispatched or retried ends in the view, in its promise and in its lock.
AttemptsSettle == JobEndsInView /\ ResultSettles /\ RetryEnds

--------------------------------------------------------------------------------
(* Refinement, and a documented claim *)

\* Every write the Session makes to the Task store is a step of a Task's life.
Durable == INSTANCE DurableTask WITH Attempts <- Entries
ImplementsDurableTask == Durable!Spec

\* "Session clear/unmount drops queued work": a disposed Session holds none.
DisposeDropsQueue == disposed => queue = {}

=============================================================================
