------------------------- MODULE ImagenSession_proofs --------------------------
(***************************************************************************)
(* IInv is an inductive invariant of ImagenSession, for every set of       *)
(* Tasks, every assignment of lanes, every cap and every number of         *)
(* entries.  One lemma per conjunct, one step per action: the conjuncts    *)
(* are facts of one another's steps, and a step expands those it needs.    *)
(* First the queue, the phases and the views; then the durable records, a  *)
(* Retry over its awaits, the caps and the drain timer; then the theorems:  *)
(* the safety and action properties and the refinement of DurableTask.     *)
(***************************************************************************)
EXTENDS ImagenSessionInductive, FiniteSetTheorems, TLAPS

\* What an action does to single variables is expanded everywhere.
USE SessionAssumption
USE DEF NoEntry, entryVars, schedVars, jobVars, viewVars, clientVars, RequestDrain, ReleaseSlot,
        ReleaseCorrelation, RejectBeforeJob, Forget, Settle, Publish, Put, PutRejected, Finalized

\* A step that touches nothing but the drain, an admission or a Retry in flight.
Quiet == UNCHANGED <<entryVars, pc, queue, active, disposed, jobVars, record, viewVars, known>>

\* The other steps.
Moves ==
  \/ \E t \in Tasks : Admitted(t)
  \/ \E e \in Entries :
       \/ DrainStart(e) \/ Readiness(e) \/ Execution(e) \/ Terminal(e)
       \/ RemoveQueuedTask(e) \/ RetryAdmitted(e)
  \/ Dispose

\* Every step of the Session is one or the other.
LEMMA QuietSteps == ASSUME [Next]_vars PROVE Quiet \/ Moves
<1>1. ASSUME NEW t \in Tasks, SubmitJob(t) \/ NotAdmitted(t) PROVE Quiet
  BY <1>1 DEF Quiet, SubmitJob, NotAdmitted
<1>2. CASE DrainBegin \/ DrainEnd
  BY <1>2 DEF Quiet, DrainBegin, DrainEnd
<1>3. ASSUME NEW j \in Entries, RetryJob(j) \/ RetryTaskRead(j) \/ RetryRefused(j) PROVE Quiet
  BY <1>3 DEF Quiet, RetryJob, RetryTaskRead, RetryRefused
<1>4. CASE UNCHANGED vars
  BY <1>4 DEF Quiet, vars
<1> QED
  BY <1>1, <1>2, <1>3, <1>4 DEF Next, Submission, Drain, Retry, Moves

--------------------------------------------------------------------------------
(* Two facts about writes and pushes. *)

\* putTaskRecord keeps the type of the store.
LEMMA PutType ==
  ASSUME TypeOK, NEW e \in Entries, NEW s \in TaskStatus, PutRejected(e, s)
  PROVE  record' \in [Tasks -> [status : TaskStatus, job : Entries \cup {NoEntry}]]
<1>1. [status |-> s, job |-> e] \in [status : TaskStatus, job : Entries \cup {NoEntry}]
  OBVIOUS
<1> QED
  BY <1>1 DEF TypeOK

\* A pushed entry has a number that nothing in the Session refers to, above all others.
LEMMA PushEffect ==
  ASSUME TypeOK, Numbering, DispatchPhases, TerminalPhases,
         NEW e \in Entries, NEW t \in Tasks, NEW o \in Entries \cup {NoEntry}, Push(e, t, o)
  PROVE  /\ pc[e] = "free" /\ e \notin queue /\ e \notin correlated
         /\ job[e] = "none" /\ terminal[e] = "none"
         /\ \A d \in Entries : pc[d] # "free" <=> d < e
         /\ \A d \in Entries : d # e =>
              pc'[d] = pc[d] /\ task'[d] = task[d] /\ origin'[d] = origin[d]
         /\ pc'[e] = "queued" /\ task'[e] = t /\ origin'[e] = o
         /\ queue' = queue \cup {e}
<1>1. pc[e] = "free" /\ \A d \in Entries : pc[d] # "free" <=> d < e
  BY DEF Push, Free, Numbering, Entries
<1> QED
  BY <1>1 DEF TypeOK, DispatchPhases, TerminalPhases, Push, Finalizing

\* Every action keeps the types.  A terminal Task is written with a projected status.
LEMMA TypeNext == ASSUME IInv, [Next]_vars PROVE TypeOK'
<1> USE DEF IInv
<1>1. ASSUME NEW t \in Tasks, SubmitJob(t) PROVE TypeOK'
  BY <1>1 DEF TypeOK, Projections, Dispatch, JobStatus, JobTerminal, TaskStatus, Finalize, Free,
       SubmitJob
<1>2. ASSUME NEW t \in Tasks, NotAdmitted(t) PROVE TypeOK'
  BY <1>2 DEF TypeOK, Projections, Dispatch, JobStatus, JobTerminal, TaskStatus, Finalize, Free,
       NotAdmitted
<1>3. CASE DrainBegin
  BY <1>3 DEF TypeOK, Projections, Dispatch, JobStatus, JobTerminal, TaskStatus, Finalize, Free,
       DrainBegin
<1>4. CASE DrainEnd
  BY <1>4 DEF TypeOK, Projections, Dispatch, JobStatus, JobTerminal, TaskStatus, Finalize, Free,
       DrainEnd
<1>5. ASSUME NEW j \in Entries, RetryJob(j) PROVE TypeOK'
  BY <1>5 DEF TypeOK, Projections, Dispatch, JobStatus, JobTerminal, TaskStatus, Finalize, Free,
       RetryJob
<1>6. ASSUME NEW j \in Entries, RetryTaskRead(j) PROVE TypeOK'
  BY <1>6 DEF TypeOK, Projections, Dispatch, JobStatus, JobTerminal, TaskStatus, Finalize, Free,
       RetryTaskRead
<1>7. ASSUME NEW j \in Entries, RetryRefused(j) PROVE TypeOK'
  BY <1>7 DEF TypeOK, Projections, Dispatch, JobStatus, JobTerminal, TaskStatus, Finalize, Free,
       RetryRefused
<1>8. ASSUME NEW t \in Tasks, Admitted(t) PROVE TypeOK'
  BY <1>8 DEF TypeOK, Projections, Dispatch, JobStatus, JobTerminal, TaskStatus, Finalize, Free,
       Admitted, Push
<1>9. ASSUME NEW e \in Entries, DrainStart(e) PROVE TypeOK'
  BY <1>9 DEF TypeOK, Projections, Dispatch, JobStatus, JobTerminal, TaskStatus, Finalize, Free,
       DrainStart
<1>10. ASSUME NEW e \in Entries, ReadinessDropped(e) PROVE TypeOK'
  BY <1>10 DEF TypeOK, Projections, Dispatch, JobStatus, JobTerminal, TaskStatus, Finalize,
       Free, ReadinessDropped
<1>11. ASSUME NEW e \in Entries, ReadinessWait(e) PROVE TypeOK'
  BY <1>11 DEF TypeOK, Projections, Dispatch, JobStatus, JobTerminal, TaskStatus, Finalize,
       Free, ReadinessWait
<1>12. ASSUME NEW e \in Entries, ReadinessReject(e) PROVE TypeOK'
  BY <1>12 DEF TypeOK, Projections, Dispatch, JobStatus, JobTerminal, TaskStatus, Finalize,
       Free, ReadinessReject
<1>13. ASSUME NEW e \in Entries, ReadinessThrows(e) PROVE TypeOK'
  BY <1>13 DEF TypeOK, Projections, Dispatch, JobStatus, JobTerminal, TaskStatus, Finalize,
       Free, ReadinessThrows
<1>14. ASSUME NEW e \in Entries, ReadinessReady(e) PROVE TypeOK'
  BY <1>14 DEF TypeOK, Projections, Dispatch, JobStatus, JobTerminal, TaskStatus, Finalize,
       Free, ReadinessReady
<1>15. ASSUME NEW e \in Entries, RunningPersisted(e) PROVE TypeOK'
  BY <1>15 DEF TypeOK, Projections, Dispatch, JobStatus, JobTerminal, TaskStatus, Finalize,
       Free, RunningPersisted
<1>16. ASSUME NEW e \in Entries, RunningPersistFails(e) PROVE TypeOK'
  <2>1. record' \in [Tasks -> [status : TaskStatus, job : Entries \cup {NoEntry}]]
    BY <1>16, PutType DEF RunningPersistFails, TaskStatus
  <2> QED
    BY <1>16, <2>1 DEF TypeOK, Dispatch, JobStatus, JobTerminal, TaskStatus, Finalize,
        RunningPersistFails
<1>17. ASSUME NEW e \in Entries, FailedStartEnds(e) PROVE TypeOK'
  <2>1. record' \in [Tasks -> [status : TaskStatus, job : Entries \cup {NoEntry}]]
    BY <1>17, PutType DEF FailedStartEnds, TaskStatus
  <2> QED
    BY <1>17, <2>1, ZenonT(40) DEF TypeOK, Dispatch, JobStatus, JobTerminal, TaskStatus, Finalize,
        FailedStartEnds
<1>18. ASSUME NEW e \in Entries, NEW s \in JobTerminal, ExecutionEnds(e, s) PROVE TypeOK'
  BY <1>18 DEF TypeOK, Projections, Dispatch, JobStatus, JobTerminal, TaskStatus, Finalize,
       Free, ExecutionEnds
<1>19. ASSUME NEW e \in Entries, FlushEnds(e) PROVE TypeOK'
  BY <1>19 DEF TypeOK, Projections, Dispatch, JobStatus, JobTerminal, TaskStatus, Finalize,
       Free, FlushEnds
<1>20. ASSUME NEW e \in Entries, NEW s \in JobTerminal, TerminalProjected(e, s) PROVE TypeOK'
  BY <1>20 DEF TypeOK, Projections, Dispatch, JobStatus, JobTerminal, TaskStatus, Finalize,
       Free, TerminalProjected
<1>21. ASSUME NEW e \in Entries, NEW c \in BOOLEAN, TerminalPersisted(e, c) PROVE TypeOK'
  <2>1. record' \in [Tasks -> [status : TaskStatus, job : Entries \cup {NoEntry}]]
    BY <1>21, PutType DEF TerminalPersisted, TaskStatus, Projections, JobTerminal
  <2> QED
    BY <1>21, <2>1 DEF TypeOK, Dispatch, JobStatus, JobTerminal, TaskStatus, Finalize,
        TerminalPersisted
<1>22. ASSUME NEW e \in Entries, TerminalPersistFails(e) PROVE TypeOK'
  <2>1. record' \in [Tasks -> [status : TaskStatus, job : Entries \cup {NoEntry}]]
    BY <1>22, PutType DEF TerminalPersistFails, TaskStatus, Projections, JobTerminal
  <2> QED
    BY <1>22, <2>1, ZenonT(40) DEF TypeOK, Dispatch, JobStatus, JobTerminal, TaskStatus, Finalize,
        TerminalPersistFails
<1>23. ASSUME NEW e \in Entries, FollowUpEnds(e) PROVE TypeOK'
  BY <1>23 DEF TypeOK, Projections, Dispatch, JobStatus, JobTerminal, TaskStatus, Finalize,
       Free, FollowUpEnds
<1>24. ASSUME NEW e \in Entries, RemoveQueuedTask(e) PROVE TypeOK'
  BY <1>24 DEF TypeOK, Projections, Dispatch, JobStatus, JobTerminal, TaskStatus, Finalize,
       Free, RemoveQueuedTask
<1>25. ASSUME NEW j \in Entries, RetryAdmitted(j) PROVE TypeOK'
  BY <1>25 DEF TypeOK, Projections, Dispatch, JobStatus, JobTerminal, TaskStatus, Finalize,
       Free, RetryAdmitted, Push
<1>26. CASE Dispose
  BY <1>26 DEF TypeOK, Projections, Dispatch, JobStatus, JobTerminal, TaskStatus, Finalize,
       Free, Dispose
<1>27. CASE UNCHANGED vars
  BY <1>27 DEF TypeOK, TypeOK, vars
<1> QED
  BY <1>1, <1>2, <1>3, <1>4, <1>5, <1>6, <1>7, <1>8, <1>9, <1>10, <1>11, <1>12, <1>13, <1>14,
       <1>15, <1>16, <1>17, <1>18, <1>19, <1>20, <1>21, <1>22, <1>23, <1>24, <1>25, <1>26, <1>27
     DEF Next, Submission, Drain, Readiness, Execution, Terminal, Retry

\* projectTerminal is behind every terminal Task that is written.
LEMMA ProjectionsNext == ASSUME IInv, [Next]_vars PROVE Projections'
<1> USE DEF IInv
<1>1. CASE Quiet
  BY <1>1 DEF Projections, Quiet
<1>2. ASSUME NEW t \in Tasks, Admitted(t) PROVE Projections'
  BY <1>2 DEF Projections, TypeOK, JobTerminal, Admitted, Push
<1>3. ASSUME NEW e \in Entries, DrainStart(e) PROVE Projections'
  BY <1>3 DEF Projections, TypeOK, JobTerminal, DrainStart
<1>4. ASSUME NEW e \in Entries, ReadinessDropped(e) PROVE Projections'
  BY <1>4 DEF Projections, TypeOK, JobTerminal, ReadinessDropped
<1>5. ASSUME NEW e \in Entries, ReadinessWait(e) PROVE Projections'
  BY <1>5 DEF Projections, TypeOK, JobTerminal, ReadinessWait
<1>6. ASSUME NEW e \in Entries, ReadinessReject(e) PROVE Projections'
  BY <1>6 DEF Projections, TypeOK, JobTerminal, ReadinessReject
<1>7. ASSUME NEW e \in Entries, ReadinessThrows(e) PROVE Projections'
  BY <1>7 DEF Projections, TypeOK, JobTerminal, ReadinessThrows
<1>8. ASSUME NEW e \in Entries, ReadinessReady(e) PROVE Projections'
  BY <1>8 DEF Projections, TypeOK, JobTerminal, ReadinessReady
<1>9. ASSUME NEW e \in Entries, RunningPersisted(e) PROVE Projections'
  BY <1>9 DEF Projections, TypeOK, JobTerminal, RunningPersisted
<1>10. ASSUME NEW e \in Entries, RunningPersistFails(e) PROVE Projections'
  BY <1>10 DEF Projections, TypeOK, JobTerminal, RunningPersistFails
<1>11. ASSUME NEW e \in Entries, FailedStartEnds(e) PROVE Projections'
  BY <1>11 DEF Projections, TypeOK, JobTerminal, FailedStartEnds
<1>12. ASSUME NEW e \in Entries, NEW s \in JobTerminal, ExecutionEnds(e, s) PROVE Projections'
  BY <1>12 DEF Projections, TypeOK, TerminalPhases, ExecutionEnds
<1>13. ASSUME NEW e \in Entries, FlushEnds(e) PROVE Projections'
  BY <1>13 DEF Projections, TypeOK, JobTerminal, FlushEnds
<1>14. ASSUME NEW e \in Entries, NEW s \in JobTerminal, TerminalProjected(e, s) PROVE Projections'
  BY <1>14 DEF Projections, TypeOK, JobTerminal, TerminalProjected
<1>15. ASSUME NEW e \in Entries, NEW c \in BOOLEAN, TerminalPersisted(e, c) PROVE Projections'
  BY <1>15 DEF Projections, TypeOK, JobTerminal, TerminalPersisted
<1>16. ASSUME NEW e \in Entries, TerminalPersistFails(e) PROVE Projections'
  BY <1>16 DEF Projections, TypeOK, JobTerminal, TerminalPersistFails
<1>17. ASSUME NEW e \in Entries, FollowUpEnds(e) PROVE Projections'
  BY <1>17 DEF Projections, TypeOK, JobTerminal, FollowUpEnds
<1>18. ASSUME NEW e \in Entries, RemoveQueuedTask(e) PROVE Projections'
  BY <1>18 DEF Projections, TypeOK, JobTerminal, RemoveQueuedTask
<1>19. ASSUME NEW j \in Entries, RetryAdmitted(j) PROVE Projections'
  BY <1>19 DEF Projections, TypeOK, JobTerminal, RetryAdmitted, Push
<1>20. CASE Dispose
  BY <1>20 DEF Projections, TypeOK, JobTerminal, Dispose
<1> QED
  BY QuietSteps, <1>1, <1>2, <1>3, <1>4, <1>5, <1>6, <1>7, <1>8, <1>9, <1>10, <1>11, <1>12,
       <1>13, <1>14, <1>15, <1>16, <1>17, <1>18, <1>19, <1>20
     DEF Moves, Readiness, Execution, Terminal

--------------------------------------------------------------------------------
(* A push: submitJob and retryJob, when their admission has resolved. *)

\* For a Task that has no pending attempt, a push keeps what relates entries, slots and Jobs.
LEMMA PushKeeps ==
  ASSUME TypeOK, Numbering, DispatchPhases, TerminalPhases, Slots, Attempts, Views,
         NEW e \in Entries, NEW t \in Tasks, NEW o \in Entries \cup {NoEntry}, Push(e, t, o),
         \A d \in Pending : task[d] # t,
         UNCHANGED <<active, jobVars, disposed, viewVars>>
  PROVE  /\ Numbering' /\ DispatchPhases' /\ TerminalPhases' /\ Slots' /\ Attempts' /\ Views'
<1>1. Numbering'
  BY PushEffect DEF Numbering, Entries
<1>2. DispatchPhases'
  BY PushEffect DEF DispatchPhases
<1>3. TerminalPhases'
  BY PushEffect DEF TerminalPhases, Finalizing
<1>4. Slots'
  <2>1. \A u \in Tasks : active[u] # NoEntry => active[u] \in Entries /\ active[u] # e
    BY PushEffect DEF TypeOK, Slots
  <2>2. correlated \subseteq Entries /\ queue \subseteq Entries
    BY DEF TypeOK
  <2> QED
    BY PushEffect, <2>1, <2>2 DEF Slots
<1>5. Attempts'
  <2>1. Pending' = Pending \cup {e}
    BY PushEffect DEF Pending
  <2>2. \A d \in Pending : d \in Entries /\ d # e /\ pc[d] # "free" /\ task'[d] = task[d]
    BY PushEffect DEF Pending, TypeOK, DispatchPhases, TerminalPhases, Finalizing
  <2>3. ASSUME NEW d \in Entries, NEW f \in Pending', pc'[d] # "free", task'[d] = task'[f]
        PROVE  d <= f
    BY PushEffect, <2>1, <2>2, <2>3 DEF Attempts, Entries
  <2>4. ASSUME NEW d \in Pending', NEW f \in Pending', task'[d] = task'[f]
        PROVE  d = f
    BY PushEffect, <2>1, <2>2, <2>4 DEF Attempts
  <2> QED
    BY <2>3, <2>4 DEF Attempts
<1>6. Views'
  BY PushEffect DEF Views
<1> QED
  BY <1>1, <1>2, <1>3, <1>4, <1>5, <1>6

\* An admission resolves for a Task the Session has forgotten, or never knew.
LEMMA AdmittedFresh ==
  ASSUME TypeOK, DispatchPhases, TerminalPhases, Known, NEW t \in Tasks, Admitted(t)
  PROVE  /\ \A d \in Pending : task[d] # t
         /\ \A d \in Entries : task[d] = t => pc[d] \in {"free", "done"} /\ job[d] = "none"
<1>1. \A d \in Entries : d \in queue \/ job[d] # "none" => task[d] # t
  BY DEF Known, Admitted
<1>2. \A d \in Pending : d \in Entries /\ (d \in queue \/ job[d] # "none")
  BY DEF Pending, DispatchPhases, TerminalPhases, Finalizing, TypeOK, JobTerminal
<1>3. ASSUME NEW d \in Entries, d \notin queue, job[d] = "none"
      PROVE  pc[d] \in {"free", "done"}
  BY <1>3 DEF Admitted, DispatchPhases, TypeOK, Dispatch, JobTerminal
<1> QED
  BY <1>1, <1>2, <1>3

\* A Retry is admitted for a Task whose record still is the failed attempt it read.
LEMMA RetryFresh ==
  ASSUME DispatchPhases, Retries, NEW j \in Entries, RetryAdmitted(j)
  PROVE  /\ job[j] = "failed" /\ task[j] \in Tasks /\ j # NoEntry
         /\ record[task[j]].status = "failed"
         /\ \A d \in Pending : task[d] # task[j]
<1>1. job[j] = "failed" /\ pc[j] # "free"
  BY DEF RetryAdmitted, Retries, DispatchPhases
<1> QED
  BY <1>1 DEF RetryAdmitted, Retries, DispatchPhases, Entries

\* Both pushes keep what relates entries, slots and Jobs.
LEMMA PushesKeep ==
  ASSUME IInv, (\E t \in Tasks : Admitted(t)) \/ (\E j \in Entries : RetryAdmitted(j))
  PROVE  /\ Numbering' /\ DispatchPhases' /\ TerminalPhases' /\ Slots' /\ Attempts' /\ Views'
<1> USE DEF IInv
<1>1. ASSUME NEW t \in Tasks, Admitted(t)
      PROVE  \E e \in Entries, u \in Tasks, o \in Entries \cup {NoEntry} :
               Push(e, u, o) /\ \A d \in Pending : task[d] # u
  BY <1>1, AdmittedFresh DEF Admitted
<1>2. ASSUME NEW j \in Entries, RetryAdmitted(j)
      PROVE  \E e \in Entries, u \in Tasks, o \in Entries \cup {NoEntry} :
               Push(e, u, o) /\ \A d \in Pending : task[d] # u
  BY <1>2, RetryFresh DEF RetryAdmitted
<1>3. PICK e \in Entries, u \in Tasks, o \in Entries \cup {NoEntry} :
        Push(e, u, o) /\ \A d \in Pending : task[d] # u
  BY <1>1, <1>2
<1>4. UNCHANGED <<active, jobVars, disposed, viewVars>>
  BY DEF Admitted, RetryAdmitted
<1> QED
  BY <1>3, <1>4, PushKeeps

--------------------------------------------------------------------------------
(* Entries, coroutines and slots. *)

\* An entry that gives its slot back, and is neither correlated nor starting any more,
\* leaves the slots of all others as they are.
LEMMA SlotReleased ==
  ASSUME TypeOK, DispatchPhases, TerminalPhases, Slots, NEW e \in Entries,
         ReleaseSlot(e), task' = task, task[e] \in Tasks,
         correlated' = correlated \ {e}, queue' \in {queue, queue \ {e}},
         e \in queue' => pc'[e] # "readiness",
         \A d \in Entries : d # e => pc'[d] = pc[d]
  PROVE  Slots'
<1>1. ASSUME NEW t \in Tasks, active'[t] # NoEntry
      PROVE  active'[t] = active[t] /\ active[t] \in Entries \ {e}
  <2>1. active'[t] = active[t] /\ active[t] \in Entries
    BY <1>1 DEF TypeOK
  <2>2. CASE active[t] = e
    BY <1>1, <2>1, <2>2 DEF Slots, TypeOK
  <2> QED
    BY <2>1, <2>2
<1>2. ASSUME NEW d \in Entries, d # e, task[d] \in Tasks, active[task[d]] = d
      PROVE  active'[task[d]] = d
  BY <1>2 DEF TypeOK
<1>3. \A d \in correlated \cup queue : d \in Entries /\ task[d] \in Tasks
  BY DEF TypeOK, DispatchPhases, TerminalPhases, Finalizing
<1> QED
  BY <1>1, <1>2, <1>3 DEF Slots

\* Numbers are given in order and never taken back.
LEMMA NumberingNext == ASSUME IInv, [Next]_vars PROVE Numbering'
<1> USE DEF IInv
<1>1. CASE Quiet
  BY <1>1 DEF Numbering, Quiet
<1>2. ASSUME NEW t \in Tasks, Admitted(t) PROVE Numbering'
  BY <1>2, PushesKeep
<1>3. ASSUME NEW e \in Entries, DrainStart(e) PROVE Numbering'
  BY <1>3 DEF Numbering, TypeOK, EarliestEligible, Eligible, DrainStart
<1>4. ASSUME NEW e \in Entries, ReadinessDropped(e) PROVE Numbering'
  BY <1>4 DEF Numbering, TypeOK, ReadinessDropped
<1>5. ASSUME NEW e \in Entries, ReadinessWait(e) PROVE Numbering'
  BY <1>5 DEF Numbering, TypeOK, ReadinessWait
<1>6. ASSUME NEW e \in Entries, ReadinessReject(e) PROVE Numbering'
  BY <1>6 DEF Numbering, TypeOK, ReadinessReject
<1>7. ASSUME NEW e \in Entries, ReadinessThrows(e) PROVE Numbering'
  BY <1>7 DEF Numbering, TypeOK, ReadinessThrows
<1>8. ASSUME NEW e \in Entries, ReadinessReady(e) PROVE Numbering'
  BY <1>8 DEF Numbering, TypeOK, ReadinessReady
<1>9. ASSUME NEW e \in Entries, RunningPersisted(e) PROVE Numbering'
  BY <1>9 DEF Numbering, TypeOK, RunningPersisted
<1>10. ASSUME NEW e \in Entries, RunningPersistFails(e) PROVE Numbering'
  BY <1>10 DEF Numbering, TypeOK, RunningPersistFails
<1>11. ASSUME NEW e \in Entries, FailedStartEnds(e) PROVE Numbering'
  BY <1>11 DEF Numbering, TypeOK, FailedStartEnds
<1>12. ASSUME NEW e \in Entries, NEW s \in JobTerminal, ExecutionEnds(e, s) PROVE Numbering'
  BY <1>12 DEF Numbering, TypeOK, ExecutionEnds
<1>13. ASSUME NEW e \in Entries, FlushEnds(e) PROVE Numbering'
  BY <1>13 DEF Numbering, TypeOK, FlushEnds
<1>14. ASSUME NEW e \in Entries, NEW s \in JobTerminal, TerminalProjected(e, s) PROVE Numbering'
  BY <1>14 DEF Numbering, TypeOK, TerminalProjected
<1>15. ASSUME NEW e \in Entries, NEW c \in BOOLEAN, TerminalPersisted(e, c) PROVE Numbering'
  BY <1>15 DEF Numbering, TypeOK, TerminalPersisted
<1>16. ASSUME NEW e \in Entries, TerminalPersistFails(e) PROVE Numbering'
  BY <1>16 DEF Numbering, TypeOK, TerminalPersistFails
<1>17. ASSUME NEW e \in Entries, FollowUpEnds(e) PROVE Numbering'
  BY <1>17 DEF Numbering, TypeOK, FollowUpEnds
<1>18. ASSUME NEW e \in Entries, RemoveQueuedTask(e) PROVE Numbering'
  BY <1>18 DEF Numbering, TypeOK, RemoveQueuedTask
<1>19. ASSUME NEW j \in Entries, RetryAdmitted(j) PROVE Numbering'
  BY <1>19, PushesKeep
<1>20. CASE Dispose
  BY <1>20 DEF Numbering, TypeOK, Dispose
<1> QED
  BY QuietSteps, <1>1, <1>2, <1>3, <1>4, <1>5, <1>6, <1>7, <1>8, <1>9, <1>10, <1>11, <1>12,
       <1>13, <1>14, <1>15, <1>16, <1>17, <1>18, <1>19, <1>20
     DEF Moves, Readiness, Execution, Terminal

\* Every action leaves the dispatch coroutine where it says it is.
LEMMA DispatchPhasesNext == ASSUME IInv, [Next]_vars PROVE DispatchPhases'
<1> USE DEF IInv
<1>1. CASE Quiet
  BY <1>1 DEF DispatchPhases, Quiet
<1>2. ASSUME NEW t \in Tasks, Admitted(t) PROVE DispatchPhases'
  BY <1>2, PushesKeep
<1>3. ASSUME NEW e \in Entries, DrainStart(e) PROVE DispatchPhases'
  BY <1>3 DEF DispatchPhases, TypeOK, Slots, HoldsSlot, Eligible, EarliestEligible, DrainStart
<1>4. ASSUME NEW e \in Entries, ReadinessDropped(e) PROVE DispatchPhases'
  BY <1>4 DEF DispatchPhases, TypeOK, Slots, HoldsSlot, Eligible, EarliestEligible,
       ReadinessDropped
<1>5. ASSUME NEW e \in Entries, ReadinessWait(e) PROVE DispatchPhases'
  BY <1>5 DEF DispatchPhases, TypeOK, ReadinessWait
<1>6. ASSUME NEW e \in Entries, ReadinessReject(e) PROVE DispatchPhases'
  BY <1>6 DEF DispatchPhases, TypeOK, ReadinessReject
<1>7. ASSUME NEW e \in Entries, ReadinessThrows(e) PROVE DispatchPhases'
  BY <1>7 DEF DispatchPhases, TypeOK, ReadinessThrows
<1>8. ASSUME NEW e \in Entries, ReadinessReady(e) PROVE DispatchPhases'
  BY <1>8 DEF DispatchPhases, TypeOK, ReadinessReady
<1>9. ASSUME NEW e \in Entries, RunningPersisted(e) PROVE DispatchPhases'
  BY <1>9 DEF DispatchPhases, TypeOK, RunningPersisted
<1>10. ASSUME NEW e \in Entries, RunningPersistFails(e) PROVE DispatchPhases'
  BY <1>10 DEF DispatchPhases, TypeOK, RunningPersistFails
<1>11. ASSUME NEW e \in Entries, FailedStartEnds(e) PROVE DispatchPhases'
  BY <1>11 DEF DispatchPhases, TypeOK, FailedStartEnds
<1>12. ASSUME NEW e \in Entries, NEW s \in JobTerminal, ExecutionEnds(e, s) PROVE DispatchPhases'
  BY <1>12 DEF DispatchPhases, TypeOK, ExecutionEnds
<1>13. ASSUME NEW e \in Entries, FlushEnds(e) PROVE DispatchPhases'
  BY <1>13 DEF DispatchPhases, TypeOK, FlushEnds
<1>14. ASSUME NEW e \in Entries, NEW s \in JobTerminal, TerminalProjected(e, s)
       PROVE  DispatchPhases'
  BY <1>14 DEF DispatchPhases, TypeOK, TerminalProjected
<1>15. ASSUME NEW e \in Entries, NEW c \in BOOLEAN, TerminalPersisted(e, c) PROVE DispatchPhases'
  BY <1>15 DEF DispatchPhases, TypeOK, TerminalPersisted
<1>16. ASSUME NEW e \in Entries, TerminalPersistFails(e) PROVE DispatchPhases'
  BY <1>16 DEF DispatchPhases, TypeOK, TerminalPersistFails
<1>17. ASSUME NEW e \in Entries, FollowUpEnds(e) PROVE DispatchPhases'
  BY <1>17 DEF DispatchPhases, TypeOK, FollowUpEnds
<1>18. ASSUME NEW e \in Entries, RemoveQueuedTask(e) PROVE DispatchPhases'
  BY <1>18 DEF DispatchPhases, TypeOK, RemoveQueuedTask
<1>19. ASSUME NEW j \in Entries, RetryAdmitted(j) PROVE DispatchPhases'
  BY <1>19, PushesKeep
<1>20. CASE Dispose
  BY <1>20 DEF DispatchPhases, TypeOK, Dispose
<1> QED
  BY QuietSteps, <1>1, <1>2, <1>3, <1>4, <1>5, <1>6, <1>7, <1>8, <1>9, <1>10, <1>11, <1>12,
       <1>13, <1>14, <1>15, <1>16, <1>17, <1>18, <1>19, <1>20
     DEF Moves, Readiness, Execution, Terminal

\* Every action leaves the terminal coroutine, and the correlation, where it says it is.
LEMMA TerminalPhasesNext == ASSUME IInv, [Next]_vars PROVE TerminalPhases'
<1> USE DEF IInv
<1>1. CASE Quiet
  BY <1>1 DEF TerminalPhases, Quiet
<1>2. ASSUME NEW t \in Tasks, Admitted(t) PROVE TerminalPhases'
  BY <1>2, PushesKeep
<1>3. ASSUME NEW e \in Entries, DrainStart(e) PROVE TerminalPhases'
  BY <1>3 DEF TerminalPhases, TypeOK, Finalizing, JobTerminal, EarliestEligible, Eligible,
       DrainStart
<1>4. ASSUME NEW e \in Entries, ReadinessDropped(e) PROVE TerminalPhases'
  BY <1>4 DEF TerminalPhases, TypeOK, ReadinessDropped
<1>5. ASSUME NEW e \in Entries, ReadinessWait(e) PROVE TerminalPhases'
  BY <1>5 DEF TerminalPhases, TypeOK, ReadinessWait
<1>6. ASSUME NEW e \in Entries, ReadinessReject(e) PROVE TerminalPhases'
  BY <1>6 DEF TerminalPhases, TypeOK, ReadinessReject
<1>7. ASSUME NEW e \in Entries, ReadinessThrows(e) PROVE TerminalPhases'
  BY <1>7 DEF TerminalPhases, TypeOK, ReadinessThrows
<1>8. ASSUME NEW e \in Entries, ReadinessReady(e) PROVE TerminalPhases'
  BY <1>8 DEF TerminalPhases, TypeOK, ReadinessReady
<1>9. ASSUME NEW e \in Entries, RunningPersisted(e) PROVE TerminalPhases'
  BY <1>9 DEF TerminalPhases, TypeOK, RunningPersisted
<1>10. ASSUME NEW e \in Entries, RunningPersistFails(e) PROVE TerminalPhases'
  BY <1>10 DEF TerminalPhases, TypeOK, RunningPersistFails
<1>11. ASSUME NEW e \in Entries, FailedStartEnds(e) PROVE TerminalPhases'
  BY <1>11 DEF TerminalPhases, TypeOK, JobTerminal, Finalizing, DispatchPhases, FailedStartEnds
<1>12. ASSUME NEW e \in Entries, NEW s \in JobTerminal, ExecutionEnds(e, s) PROVE TerminalPhases'
  BY <1>12 DEF TerminalPhases, TypeOK, JobTerminal, Finalizing, DispatchPhases, ExecutionEnds
<1>13. ASSUME NEW e \in Entries, FlushEnds(e) PROVE TerminalPhases'
  BY <1>13 DEF TerminalPhases, TypeOK, JobTerminal, Finalizing, DispatchPhases, FlushEnds
<1>14. ASSUME NEW e \in Entries, NEW s \in JobTerminal, TerminalProjected(e, s)
       PROVE  TerminalPhases'
  BY <1>14 DEF TerminalPhases, TypeOK, JobTerminal, Finalizing, DispatchPhases,
       TerminalProjected
<1>15. ASSUME NEW e \in Entries, NEW c \in BOOLEAN, TerminalPersisted(e, c) PROVE TerminalPhases'
  BY <1>15 DEF TerminalPhases, TypeOK, JobTerminal, Finalizing, DispatchPhases,
       TerminalPersisted
<1>16. ASSUME NEW e \in Entries, TerminalPersistFails(e) PROVE TerminalPhases'
  BY <1>16 DEF TerminalPhases, TypeOK, JobTerminal, Finalizing, DispatchPhases,
       TerminalPersistFails
<1>17. ASSUME NEW e \in Entries, FollowUpEnds(e) PROVE TerminalPhases'
  BY <1>17 DEF TerminalPhases, TypeOK, JobTerminal, Finalizing, DispatchPhases, FollowUpEnds
<1>18. ASSUME NEW e \in Entries, RemoveQueuedTask(e) PROVE TerminalPhases'
  BY <1>18 DEF TerminalPhases, TypeOK, RemoveQueuedTask
<1>19. ASSUME NEW j \in Entries, RetryAdmitted(j) PROVE TerminalPhases'
  BY <1>19, PushesKeep
<1>20. CASE Dispose
  BY <1>20 DEF TerminalPhases, TypeOK, Dispose
<1> QED
  BY QuietSteps, <1>1, <1>2, <1>3, <1>4, <1>5, <1>6, <1>7, <1>8, <1>9, <1>10, <1>11, <1>12,
       <1>13, <1>14, <1>15, <1>16, <1>17, <1>18, <1>19, <1>20
     DEF Moves, Readiness, Execution, Terminal

\* A slot changes hands only through the drain and the coroutine that holds it.
LEMMA SlotsNext == ASSUME IInv, [Next]_vars PROVE Slots'
<1> USE DEF IInv
<1>1. CASE Quiet
  BY <1>1 DEF Slots, Quiet
<1>2. ASSUME NEW t \in Tasks, Admitted(t) PROVE Slots'
  BY <1>2, PushesKeep
<1>3. ASSUME NEW e \in Entries, DrainStart(e) PROVE Slots'
  BY <1>3 DEF Slots, TypeOK, DispatchPhases, TerminalPhases, Attempts, Finalizing, Pending,
       EarliestEligible, Eligible, DrainStart
<1>4. ASSUME NEW e \in Entries, ReadinessDropped(e) PROVE Slots'
  BY <1>4 DEF Slots, TypeOK, DispatchPhases, HoldsSlot, ReadinessDropped
<1>5. ASSUME NEW e \in Entries, ReadinessWait(e) PROVE Slots'
  <2>1. task[e] \in Tasks /\ e \notin correlated /\ active[task[e]] = e
    BY <1>5 DEF ReadinessWait, DispatchPhases, TerminalPhases, Finalizing, JobTerminal, Slots,
         HoldsSlot
  <2>2. correlated' = correlated \ {e} /\ ReleaseSlot(e)
    BY <1>5, <2>1 DEF ReadinessWait
  <2> QED
    BY <1>5, <2>1, <2>2, SlotReleased DEF ReadinessWait, TypeOK
<1>6. ASSUME NEW e \in Entries, ReadinessReject(e) PROVE Slots'
  <2>1. task[e] \in Tasks /\ e \notin correlated
    BY <1>6 DEF ReadinessReject, DispatchPhases, TerminalPhases, Finalizing, JobTerminal
  <2>2. correlated' = correlated \ {e} /\ ReleaseSlot(e)
    BY <1>6, <2>1 DEF ReadinessReject
  <2> QED
    BY <1>6, <2>1, <2>2, SlotReleased DEF ReadinessReject, TypeOK
<1>7. ASSUME NEW e \in Entries, ReadinessThrows(e) PROVE Slots'
  <2>1. task[e] \in Tasks /\ e \notin correlated
    BY <1>7 DEF ReadinessThrows, DispatchPhases, TerminalPhases, Finalizing, JobTerminal
  <2>2. correlated' = correlated \ {e} /\ ReleaseSlot(e)
    BY <1>7, <2>1 DEF ReadinessThrows
  <2> QED
    BY <1>7, <2>1, <2>2, SlotReleased DEF ReadinessThrows, TypeOK
<1>8. ASSUME NEW e \in Entries, ReadinessReady(e) PROVE Slots'
  BY <1>8 DEF Slots, TypeOK, DispatchPhases, ReadinessReady
<1>9. ASSUME NEW e \in Entries, RunningPersisted(e) PROVE Slots'
  BY <1>9 DEF Slots, TypeOK, RunningPersisted
<1>10. ASSUME NEW e \in Entries, RunningPersistFails(e) PROVE Slots'
  BY <1>10 DEF Slots, TypeOK, RunningPersistFails
<1>11. ASSUME NEW e \in Entries, FailedStartEnds(e) PROVE Slots'
  <2>1. task[e] \in Tasks /\ (e \in correlated => e \notin queue)
    BY <1>11 DEF FailedStartEnds, DispatchPhases, TerminalPhases, Finalizing, JobTerminal
  <2> QED
    BY <1>11, <2>1, SlotReleased DEF FailedStartEnds, DispatchPhases, TerminalPhases,
         Finalizing, TypeOK
<1>12. ASSUME NEW e \in Entries, NEW s \in JobTerminal, ExecutionEnds(e, s) PROVE Slots'
  BY <1>12 DEF Slots, TypeOK, ExecutionEnds
<1>13. ASSUME NEW e \in Entries, FlushEnds(e) PROVE Slots'
  BY <1>13 DEF Slots, TypeOK, FlushEnds
<1>14. ASSUME NEW e \in Entries, NEW s \in JobTerminal, TerminalProjected(e, s) PROVE Slots'
  BY <1>14 DEF Slots, TypeOK, TerminalProjected
<1>15. ASSUME NEW e \in Entries, NEW c \in BOOLEAN, TerminalPersisted(e, c) PROVE Slots'
  BY <1>15 DEF Slots, TypeOK, TerminalPersisted
<1>16. ASSUME NEW e \in Entries, TerminalPersistFails(e) PROVE Slots'
  <2>1. task[e] \in Tasks /\ (e \in correlated => e \notin queue)
    BY <1>16 DEF TerminalPersistFails, DispatchPhases, TerminalPhases, Finalizing, JobTerminal
  <2> QED
    BY <1>16, <2>1, SlotReleased DEF TerminalPersistFails, DispatchPhases, TerminalPhases,
         Finalizing, TypeOK
<1>17. ASSUME NEW e \in Entries, FollowUpEnds(e) PROVE Slots'
  <2>1. task[e] \in Tasks /\ (e \in correlated => e \notin queue)
    BY <1>17 DEF FollowUpEnds, DispatchPhases, TerminalPhases, Finalizing, JobTerminal
  <2> QED
    BY <1>17, <2>1, SlotReleased DEF FollowUpEnds, DispatchPhases, TerminalPhases, Finalizing,
         TypeOK
<1>18. ASSUME NEW e \in Entries, RemoveQueuedTask(e) PROVE Slots'
  BY <1>18 DEF Slots, TypeOK, RemoveQueuedTask
<1>19. ASSUME NEW j \in Entries, RetryAdmitted(j) PROVE Slots'
  BY <1>19, PushesKeep
<1>20. CASE Dispose
  <2>1. \A t \in Tasks : active[t] # NoEntry /\ active[t] \notin queue => active[t] \in correlated
    BY DEF Slots
  <2>2. \A e \in correlated : e \notin queue
    BY DEF DispatchPhases, TerminalPhases, Finalizing, JobTerminal, TypeOK
  <2>3. \A t \in Tasks : active'[t] = IF active[t] \in queue THEN NoEntry ELSE active[t]
    BY <1>20 DEF Dispose
  <2>4. \A e \in correlated : task[e] \in Tasks /\ active[task[e]] = e
    BY DEF Slots, DispatchPhases, TerminalPhases, Finalizing, TypeOK
  <2> QED
    BY <1>20, <2>1, <2>2, <2>3, <2>4 DEF Slots, Dispose, TypeOK, Entries
<1> QED
  BY QuietSteps, <1>1, <1>2, <1>3, <1>4, <1>5, <1>6, <1>7, <1>8, <1>9, <1>10, <1>11, <1>12,
       <1>13, <1>14, <1>15, <1>16, <1>17, <1>18, <1>19, <1>20
     DEF Moves, Readiness, Execution, Terminal

\* Only a push adds a pending entry, and it adds the newest of its Task.
LEMMA AttemptsNext == ASSUME IInv, [Next]_vars PROVE Attempts'
<1> USE DEF IInv
<1>1. CASE Quiet
  BY <1>1 DEF Attempts, Quiet, Pending
<1>2. ASSUME NEW t \in Tasks, Admitted(t) PROVE Attempts'
  BY <1>2, PushesKeep
<1>3. ASSUME NEW e \in Entries, DrainStart(e) PROVE Attempts'
  BY <1>3 DEF Attempts, TypeOK, Pending, EarliestEligible, Eligible, DrainStart
<1>4. ASSUME NEW e \in Entries, ReadinessDropped(e) PROVE Attempts'
  BY <1>4 DEF Attempts, TypeOK, Pending, ReadinessDropped
<1>5. ASSUME NEW e \in Entries, ReadinessWait(e) PROVE Attempts'
  BY <1>5 DEF Attempts, TypeOK, Pending, ReadinessWait
<1>6. ASSUME NEW e \in Entries, ReadinessReject(e) PROVE Attempts'
  BY <1>6 DEF Attempts, TypeOK, Pending, ReadinessReject
<1>7. ASSUME NEW e \in Entries, ReadinessThrows(e) PROVE Attempts'
  BY <1>7 DEF Attempts, TypeOK, Pending, ReadinessThrows
<1>8. ASSUME NEW e \in Entries, ReadinessReady(e) PROVE Attempts'
  BY <1>8 DEF Attempts, TypeOK, Pending, DispatchPhases, ReadinessReady
<1>9. ASSUME NEW e \in Entries, RunningPersisted(e) PROVE Attempts'
  BY <1>9 DEF Attempts, TypeOK, Pending, RunningPersisted
<1>10. ASSUME NEW e \in Entries, RunningPersistFails(e) PROVE Attempts'
  BY <1>10 DEF Attempts, TypeOK, Pending, RunningPersistFails
<1>11. ASSUME NEW e \in Entries, FailedStartEnds(e) PROVE Attempts'
  BY <1>11 DEF Attempts, TypeOK, Pending, FailedStartEnds
<1>12. ASSUME NEW e \in Entries, NEW s \in JobTerminal, ExecutionEnds(e, s) PROVE Attempts'
  BY <1>12 DEF Attempts, TypeOK, Pending, ExecutionEnds
<1>13. ASSUME NEW e \in Entries, FlushEnds(e) PROVE Attempts'
  BY <1>13 DEF Attempts, TypeOK, Pending, FlushEnds
<1>14. ASSUME NEW e \in Entries, NEW s \in JobTerminal, TerminalProjected(e, s) PROVE Attempts'
  BY <1>14 DEF Attempts, TypeOK, Pending, TerminalProjected
<1>15. ASSUME NEW e \in Entries, NEW c \in BOOLEAN, TerminalPersisted(e, c) PROVE Attempts'
  BY <1>15 DEF Attempts, TypeOK, Pending, TerminalPersisted
<1>16. ASSUME NEW e \in Entries, TerminalPersistFails(e) PROVE Attempts'
  BY <1>16 DEF Attempts, TypeOK, Pending, TerminalPersistFails
<1>17. ASSUME NEW e \in Entries, FollowUpEnds(e) PROVE Attempts'
  BY <1>17 DEF Attempts, TypeOK, Pending, FollowUpEnds
<1>18. ASSUME NEW e \in Entries, RemoveQueuedTask(e) PROVE Attempts'
  BY <1>18 DEF Attempts, TypeOK, Pending, RemoveQueuedTask
<1>19. ASSUME NEW j \in Entries, RetryAdmitted(j) PROVE Attempts'
  BY <1>19, PushesKeep
<1>20. CASE Dispose
  BY <1>20 DEF Attempts, TypeOK, Pending, Dispose
<1> QED
  BY QuietSteps, <1>1, <1>2, <1>3, <1>4, <1>5, <1>6, <1>7, <1>8, <1>9, <1>10, <1>11, <1>12,
       <1>13, <1>14, <1>15, <1>16, <1>17, <1>18, <1>19, <1>20
     DEF Moves, Readiness, Execution, Terminal

\* While a first attempt has no Job, no other attempt of its Task has one.
LEMMA FirstAttemptsNext == ASSUME IInv, [Next]_vars PROVE FirstAttempts'
<1> USE DEF IInv
<1>1. CASE Quiet
  BY <1>1 DEF FirstAttempts, Quiet
<1>2. ASSUME NEW t \in Tasks, Admitted(t) PROVE FirstAttempts'
  <2>1. PICK e \in Entries : Push(e, t, NoEntry)
    BY <1>2 DEF Admitted
  <2> QED
    BY <1>2, <2>1, AdmittedFresh, PushEffect DEF FirstAttempts, Admitted
<1>3. ASSUME NEW e \in Entries, DrainStart(e) PROVE FirstAttempts'
  BY <1>3 DEF FirstAttempts, TypeOK, DispatchPhases, Eligible, EarliestEligible, DrainStart
<1>4. ASSUME NEW e \in Entries, ReadinessDropped(e) PROVE FirstAttempts'
  BY <1>4 DEF FirstAttempts, TypeOK, ReadinessDropped
<1>5. ASSUME NEW e \in Entries, ReadinessWait(e) PROVE FirstAttempts'
  BY <1>5 DEF FirstAttempts, TypeOK, ReadinessWait
<1>6. ASSUME NEW e \in Entries, ReadinessReject(e) PROVE FirstAttempts'
  BY <1>6 DEF FirstAttempts, TypeOK, ReadinessReject
<1>7. ASSUME NEW e \in Entries, ReadinessThrows(e) PROVE FirstAttempts'
  BY <1>7 DEF FirstAttempts, TypeOK, ReadinessThrows
<1>8. ASSUME NEW e \in Entries, ReadinessReady(e) PROVE FirstAttempts'
  BY <1>8 DEF FirstAttempts, TypeOK, ReadinessReady
<1>9. ASSUME NEW e \in Entries, RunningPersisted(e) PROVE FirstAttempts'
  BY <1>9 DEF FirstAttempts, TypeOK, RunningPersisted
<1>10. ASSUME NEW e \in Entries, RunningPersistFails(e) PROVE FirstAttempts'
  BY <1>10 DEF FirstAttempts, TypeOK, RunningPersistFails
<1>11. ASSUME NEW e \in Entries, FailedStartEnds(e) PROVE FirstAttempts'
  BY <1>11 DEF FirstAttempts, TypeOK, FailedStartEnds
<1>12. ASSUME NEW e \in Entries, NEW s \in JobTerminal, ExecutionEnds(e, s) PROVE FirstAttempts'
  BY <1>12 DEF FirstAttempts, TypeOK, ExecutionEnds
<1>13. ASSUME NEW e \in Entries, FlushEnds(e) PROVE FirstAttempts'
  BY <1>13 DEF FirstAttempts, TypeOK, FlushEnds
<1>14. ASSUME NEW e \in Entries, NEW s \in JobTerminal, TerminalProjected(e, s)
       PROVE  FirstAttempts'
  BY <1>14 DEF FirstAttempts, TypeOK, TerminalProjected
<1>15. ASSUME NEW e \in Entries, NEW c \in BOOLEAN, TerminalPersisted(e, c) PROVE FirstAttempts'
  BY <1>15 DEF FirstAttempts, TypeOK, TerminalPersisted
<1>16. ASSUME NEW e \in Entries, TerminalPersistFails(e) PROVE FirstAttempts'
  BY <1>16 DEF FirstAttempts, TypeOK, TerminalPersistFails
<1>17. ASSUME NEW e \in Entries, FollowUpEnds(e) PROVE FirstAttempts'
  BY <1>17 DEF FirstAttempts, TypeOK, FollowUpEnds
<1>18. ASSUME NEW e \in Entries, RemoveQueuedTask(e) PROVE FirstAttempts'
  BY <1>18 DEF FirstAttempts, TypeOK, RemoveQueuedTask
<1>19. ASSUME NEW j \in Entries, RetryAdmitted(j) PROVE FirstAttempts'
  <2>1. PICK e \in Entries : Push(e, task[j], j)
    BY <1>19 DEF RetryAdmitted
  <2>2. job[j] = "failed" /\ task[j] \in Tasks /\ j # NoEntry
    BY <1>19, RetryFresh
  <2> QED
    BY <1>19, <2>1, <2>2, PushEffect DEF FirstAttempts, RetryAdmitted, DispatchPhases
<1>20. CASE Dispose
  BY <1>20 DEF FirstAttempts, TypeOK, Dispose
<1> QED
  BY QuietSteps, <1>1, <1>2, <1>3, <1>4, <1>5, <1>6, <1>7, <1>8, <1>9, <1>10, <1>11, <1>12,
       <1>13, <1>14, <1>15, <1>16, <1>17, <1>18, <1>19, <1>20
     DEF Moves, Readiness, Execution, Terminal

\* A Task is forgotten only with a first attempt that has no Job.
LEMMA KnownNext == ASSUME IInv, [Next]_vars PROVE Known'
<1> USE DEF IInv
<1>1. CASE Quiet
  BY <1>1 DEF Known, Quiet
<1>2. ASSUME NEW t \in Tasks, Admitted(t) PROVE Known'
  BY <1>2 DEF Known, TypeOK, Admitted, Push
<1>3. ASSUME NEW e \in Entries, DrainStart(e) PROVE Known'
  BY <1>3 DEF Known, TypeOK, DrainStart
<1>4. ASSUME NEW e \in Entries, ReadinessDropped(e) PROVE Known'
  BY <1>4 DEF Known, TypeOK, ReadinessDropped
<1>5. ASSUME NEW e \in Entries, ReadinessWait(e) PROVE Known'
  BY <1>5 DEF Known, TypeOK, ReadinessWait
<1>6. ASSUME NEW e \in Entries, ReadinessReject(e) PROVE Known'
  BY <1>6 DEF Known, TypeOK, DispatchPhases, FirstAttempts, ReadinessReject
<1>7. ASSUME NEW e \in Entries, ReadinessThrows(e) PROVE Known'
  BY <1>7 DEF Known, TypeOK, DispatchPhases, FirstAttempts, ReadinessThrows
<1>8. ASSUME NEW e \in Entries, ReadinessReady(e) PROVE Known'
  BY <1>8 DEF Known, TypeOK, DispatchPhases, FirstAttempts, ReadinessReady
<1>9. ASSUME NEW e \in Entries, RunningPersisted(e) PROVE Known'
  BY <1>9 DEF Known, TypeOK, DispatchPhases, FirstAttempts, RunningPersisted
<1>10. ASSUME NEW e \in Entries, RunningPersistFails(e) PROVE Known'
  BY <1>10 DEF Known, TypeOK, RunningPersistFails
<1>11. ASSUME NEW e \in Entries, FailedStartEnds(e) PROVE Known'
  BY <1>11 DEF Known, TypeOK, FailedStartEnds
<1>12. ASSUME NEW e \in Entries, NEW s \in JobTerminal, ExecutionEnds(e, s) PROVE Known'
  BY <1>12 DEF Known, TypeOK, DispatchPhases, FirstAttempts, ExecutionEnds
<1>13. ASSUME NEW e \in Entries, FlushEnds(e) PROVE Known'
  BY <1>13 DEF Known, TypeOK, FlushEnds
<1>14. ASSUME NEW e \in Entries, NEW s \in JobTerminal, TerminalProjected(e, s) PROVE Known'
  BY <1>14 DEF Known, TypeOK, TerminalProjected
<1>15. ASSUME NEW e \in Entries, NEW c \in BOOLEAN, TerminalPersisted(e, c) PROVE Known'
  BY <1>15 DEF Known, TypeOK, TerminalPersisted
<1>16. ASSUME NEW e \in Entries, TerminalPersistFails(e) PROVE Known'
  BY <1>16 DEF Known, TypeOK, TerminalPersistFails
<1>17. ASSUME NEW e \in Entries, FollowUpEnds(e) PROVE Known'
  BY <1>17 DEF Known, TypeOK, FollowUpEnds
<1>18. ASSUME NEW e \in Entries, RemoveQueuedTask(e) PROVE Known'
  BY <1>18 DEF Known, TypeOK, DispatchPhases, FirstAttempts, RemoveQueuedTask
<1>19. ASSUME NEW j \in Entries, RetryAdmitted(j) PROVE Known'
  <2>1. PICK e \in Entries : Push(e, task[j], j)
    BY <1>19 DEF RetryAdmitted
  <2>2. job[j] = "failed" /\ task[j] \in Tasks
    BY <1>19, RetryFresh
  <2> QED
    BY <1>19, <2>1, <2>2, PushEffect DEF Known, RetryAdmitted
<1>20. CASE Dispose
  BY <1>20 DEF Known, TypeOK, DispatchPhases, FirstAttempts, Dispose
<1> QED
  BY QuietSteps, <1>1, <1>2, <1>3, <1>4, <1>5, <1>6, <1>7, <1>8, <1>9, <1>10, <1>11, <1>12,
       <1>13, <1>14, <1>15, <1>16, <1>17, <1>18, <1>19, <1>20
     DEF Moves, Readiness, Execution, Terminal

\* A Job is published as ended only by the coroutine that has passed its last write.
LEMMA ViewsNext == ASSUME IInv, [Next]_vars PROVE Views'
<1> USE DEF IInv
<1>1. CASE Quiet
  BY <1>1 DEF Views, Quiet
<1>2. ASSUME NEW t \in Tasks, Admitted(t) PROVE Views'
  BY <1>2, PushesKeep
<1>3. ASSUME NEW e \in Entries, DrainStart(e) PROVE Views'
  BY <1>3 DEF Views, TypeOK, EarliestEligible, Eligible, DrainStart
<1>4. ASSUME NEW e \in Entries, ReadinessDropped(e) PROVE Views'
  BY <1>4 DEF Views, TypeOK, ReadinessDropped
<1>5. ASSUME NEW e \in Entries, ReadinessWait(e) PROVE Views'
  BY <1>5 DEF Views, TypeOK, ReadinessWait
<1>6. ASSUME NEW e \in Entries, ReadinessReject(e) PROVE Views'
  BY <1>6 DEF Views, TypeOK, ReadinessReject
<1>7. ASSUME NEW e \in Entries, ReadinessThrows(e) PROVE Views'
  BY <1>7 DEF Views, TypeOK, ReadinessThrows
<1>8. ASSUME NEW e \in Entries, ReadinessReady(e) PROVE Views'
  BY <1>8 DEF Views, TypeOK, DispatchPhases, TerminalPhases, JobTerminal, ReadinessReady
<1>9. ASSUME NEW e \in Entries, RunningPersisted(e) PROVE Views'
  BY <1>9 DEF Views, TypeOK, RunningPersisted
<1>10. ASSUME NEW e \in Entries, RunningPersistFails(e) PROVE Views'
  BY <1>10 DEF Views, TypeOK, DispatchPhases, TerminalPhases, JobTerminal, RunningPersistFails
<1>11. ASSUME NEW e \in Entries, FailedStartEnds(e) PROVE Views'
  BY <1>11 DEF Views, TypeOK, DispatchPhases, TerminalPhases, JobTerminal, FailedStartEnds
<1>12. ASSUME NEW e \in Entries, NEW s \in JobTerminal, ExecutionEnds(e, s) PROVE Views'
  BY <1>12 DEF Views, TypeOK, DispatchPhases, TerminalPhases, JobTerminal, ExecutionEnds
<1>13. ASSUME NEW e \in Entries, FlushEnds(e) PROVE Views'
  BY <1>13 DEF Views, TypeOK, DispatchPhases, TerminalPhases, JobTerminal, FlushEnds
<1>14. ASSUME NEW e \in Entries, NEW s \in JobTerminal, TerminalProjected(e, s) PROVE Views'
  BY <1>14 DEF Views, TypeOK, TerminalProjected
<1>15. ASSUME NEW e \in Entries, NEW c \in BOOLEAN, TerminalPersisted(e, c) PROVE Views'
  BY <1>15 DEF Views, TypeOK, DispatchPhases, TerminalPhases, JobTerminal, TerminalPersisted
<1>16. ASSUME NEW e \in Entries, TerminalPersistFails(e) PROVE Views'
  BY <1>16 DEF Views, TypeOK, DispatchPhases, TerminalPhases, JobTerminal, TerminalPersistFails
<1>17. ASSUME NEW e \in Entries, FollowUpEnds(e) PROVE Views'
  BY <1>17 DEF Views, TypeOK, FollowUpEnds
<1>18. ASSUME NEW e \in Entries, RemoveQueuedTask(e) PROVE Views'
  BY <1>18 DEF Views, TypeOK, RemoveQueuedTask
<1>19. ASSUME NEW j \in Entries, RetryAdmitted(j) PROVE Views'
  BY <1>19, PushesKeep
<1>20. CASE Dispose
  BY <1>20 DEF Views, TypeOK, Dispose
<1> QED
  BY QuietSteps, <1>1, <1>2, <1>3, <1>4, <1>5, <1>6, <1>7, <1>8, <1>9, <1>10, <1>11, <1>12,
       <1>13, <1>14, <1>15, <1>16, <1>17, <1>18, <1>19, <1>20
     DEF Moves, Readiness, Execution, Terminal

--------------------------------------------------------------------------------
(* The pushes *)

\* What the two pushes have in common.
LEMMA PushOf ==
  ASSUME IInv, (\E t \in Tasks : Admitted(t)) \/ (\E j \in Entries : RetryAdmitted(j))
  PROVE  /\ \E e \in Entries, t \in Tasks, o \in Entries \cup {NoEntry} :
              Push(e, t, o) /\ record[t].status \in {"absent", "failed"}
         /\ UNCHANGED <<record, jobVars, viewVars>>
<1> USE DEF IInv
<1>1. ASSUME NEW t \in Tasks, Admitted(t)
      PROVE  \E e \in Entries : Push(e, t, NoEntry) /\ record[t].status \in {"absent", "failed"}
  <2>1. PICK e \in Entries : Push(e, t, NoEntry)
    BY <1>1 DEF Admitted
  <2>2. record[t].status = "absent" \/ record[t].job \in Entries
    BY DEF Records, TypeOK
  <2>3. record[t].status = "absent"
    BY <1>1, <2>2 DEF Admitted, Records, Known, Entries
  <2> QED
    BY <2>1, <2>3
<1>2. ASSUME NEW j \in Entries, RetryAdmitted(j)
      PROVE  \E e \in Entries :
               Push(e, task[j], j) /\ task[j] \in Tasks /\ record[task[j]].status = "failed"
  BY <1>2, RetryFresh DEF RetryAdmitted
<1>3. UNCHANGED <<record, jobVars, viewVars>>
  BY DEF Admitted, RetryAdmitted
<1> QED
  BY <1>1, <1>2, <1>3

--------------------------------------------------------------------------------
(* The durable records *)

\* A write by a correlated entry leaves every record about a Job of its Task.
LEMMA PutKeepsRecords ==
  ASSUME TypeOK, DispatchPhases, TerminalPhases, Records, NEW e \in Entries,
         NEW s \in TaskStatus \ {"absent"}, PutRejected(e, s),
         e \in correlated, task' = task,
         \A d \in Entries : job[d] # "none" => job'[d] # "none"
  PROVE  Records'
<1>1. task[e] \in Tasks /\ e # NoEntry /\ job[e] # "none" /\ s # "absent"
  BY DEF DispatchPhases, TerminalPhases, Finalizing, Entries, JobTerminal
<1>2. ASSUME NEW t \in Tasks
      PROVE  record'[t] = record[t] \/ (t = task[e] /\ record'[t] = [status |-> s, job |-> e])
  BY DEF TypeOK
<1>3. \A t \in Tasks : record[t].job \in Entries \cup {NoEntry}
  BY DEF TypeOK
<1> QED
  BY <1>1, <1>2, <1>3 DEF Records

\* Every write of the store names the Job of a correlated entry.
LEMMA RecordsNext == ASSUME IInv, [Next]_vars PROVE Records'
<1> USE DEF IInv
<1>1. CASE Quiet
  BY <1>1 DEF Records, Quiet
<1>2. ASSUME NEW t \in Tasks, Admitted(t) PROVE Records'
  <2>1. PICK e \in Entries, u \in Tasks, o \in Entries \cup {NoEntry} :
          Push(e, u, o) /\ record[u].status \in {"absent", "failed"}
    BY <1>2, PushOf
  <2>2. UNCHANGED <<record, jobVars, viewVars>>
    BY <1>2, PushOf
  <2>3. \A s \in Tasks : record[s].job \in Entries \cup {NoEntry}
    BY DEF TypeOK
  <2>4. \A s \in Tasks : record[s].job # e
    BY <2>1, PushEffect DEF Records, Entries
  <2> QED
    BY <2>1, <2>2, <2>3, <2>4, PushEffect DEF Records
<1>3. ASSUME NEW e \in Entries, DrainStart(e) PROVE Records'
  BY <1>3 DEF Records, TypeOK, DrainStart
<1>4. ASSUME NEW e \in Entries, ReadinessDropped(e) PROVE Records'
  BY <1>4 DEF Records, TypeOK, ReadinessDropped
<1>5. ASSUME NEW e \in Entries, ReadinessWait(e) PROVE Records'
  BY <1>5 DEF Records, TypeOK, ReadinessWait
<1>6. ASSUME NEW e \in Entries, ReadinessReject(e) PROVE Records'
  BY <1>6 DEF Records, TypeOK, DispatchPhases, FirstAttempts, ReadinessReject
<1>7. ASSUME NEW e \in Entries, ReadinessThrows(e) PROVE Records'
  BY <1>7 DEF Records, TypeOK, DispatchPhases, FirstAttempts, ReadinessThrows
<1>8. ASSUME NEW e \in Entries, ReadinessReady(e) PROVE Records'
  BY <1>8 DEF Records, TypeOK, ReadinessReady
<1>9. ASSUME NEW e \in Entries, RunningPersisted(e) PROVE Records'
  <2>1. e \in correlated
    BY <1>9 DEF TerminalPhases, RunningPersisted
  <2>2. PutRejected(e, "running") /\ task' = task
    BY <1>9 DEF RunningPersisted
  <2>3. \A d \in Entries : job[d] # "none" => job'[d] # "none"
    BY <1>9 DEF RunningPersisted, TypeOK
  <2> QED
    BY <2>1, <2>2, <2>3, PutKeepsRecords DEF TaskStatus
<1>10. ASSUME NEW e \in Entries, RunningPersistFails(e) PROVE Records'
  <2>1. e \in correlated
    BY <1>10 DEF TerminalPhases, Finalizing, RunningPersistFails
  <2> QED
    BY <1>10, <2>1, PutKeepsRecords DEF RunningPersistFails, TaskStatus, JobTerminal, TypeOK,
         Records
<1>11. ASSUME NEW e \in Entries, FailedStartEnds(e) PROVE Records'
  <2>1. e \in correlated
    BY <1>11 DEF TerminalPhases, Finalizing, FailedStartEnds
  <2> QED
    BY <1>11, <2>1, PutKeepsRecords DEF FailedStartEnds, TaskStatus, JobTerminal, TypeOK, Records
<1>12. ASSUME NEW e \in Entries, NEW s \in JobTerminal, ExecutionEnds(e, s) PROVE Records'
  BY <1>12 DEF Records, TypeOK, JobTerminal, ExecutionEnds
<1>13. ASSUME NEW e \in Entries, FlushEnds(e) PROVE Records'
  BY <1>13 DEF Records, TypeOK, FlushEnds
<1>14. ASSUME NEW e \in Entries, NEW s \in JobTerminal, TerminalProjected(e, s) PROVE Records'
  BY <1>14 DEF Records, TypeOK, TerminalProjected
<1>15. ASSUME NEW e \in Entries, NEW c \in BOOLEAN, TerminalPersisted(e, c) PROVE Records'
  <2>1. e \in correlated
    BY <1>15 DEF TerminalPhases, Finalizing, TerminalPersisted
  <2> QED
    BY <1>15, <2>1, PutKeepsRecords DEF TerminalPersisted, Projections, TaskStatus,
         JobTerminal, TypeOK, Records
<1>16. ASSUME NEW e \in Entries, TerminalPersistFails(e) PROVE Records'
  <2>1. e \in correlated
    BY <1>16 DEF TerminalPhases, Finalizing, TerminalPersistFails
  <2> QED
    BY <1>16, <2>1, PutKeepsRecords DEF TerminalPersistFails, Projections, TaskStatus,
         JobTerminal, TypeOK, Records
<1>17. ASSUME NEW e \in Entries, FollowUpEnds(e) PROVE Records'
  BY <1>17 DEF Records, TypeOK, FollowUpEnds
<1>18. ASSUME NEW e \in Entries, RemoveQueuedTask(e) PROVE Records'
  BY <1>18 DEF Records, TypeOK, DispatchPhases, FirstAttempts, RemoveQueuedTask
<1>19. ASSUME NEW j \in Entries, RetryAdmitted(j) PROVE Records'
  <2>1. PICK e \in Entries, u \in Tasks, o \in Entries \cup {NoEntry} :
          Push(e, u, o) /\ record[u].status \in {"absent", "failed"}
    BY <1>19, PushOf
  <2>2. UNCHANGED <<record, jobVars, viewVars>>
    BY <1>19, PushOf
  <2>3. \A t \in Tasks : record[t].job \in Entries \cup {NoEntry}
    BY DEF TypeOK
  <2>4. \A t \in Tasks : record[t].job # e
    BY <2>1, PushEffect DEF Records, Entries
  <2> QED
    BY <2>1, <2>2, <2>3, <2>4, PushEffect DEF Records
<1>20. CASE Dispose
  BY <1>20 DEF Records, TypeOK, Dispose
<1> QED
  BY QuietSteps, <1>1, <1>2, <1>3, <1>4, <1>5, <1>6, <1>7, <1>8, <1>9, <1>10, <1>11, <1>12,
       <1>13, <1>14, <1>15, <1>16, <1>17, <1>18, <1>19, <1>20
     DEF Moves, Readiness, Execution, Terminal

\* Between two writes of one coroutine no other coroutine writes the record.
LEMMA WritesNext == ASSUME IInv, [Next]_vars PROVE Writes'
<1> USE DEF IInv
<1>1. CASE Quiet
  BY <1>1 DEF Writes, Quiet, Underway, Pending
<1>2. ASSUME NEW t \in Tasks, Admitted(t) PROVE Writes'
  <2>1. PICK e \in Entries, u \in Tasks, o \in Entries \cup {NoEntry} :
          Push(e, u, o) /\ record[u].status \in {"absent", "failed"}
    BY <1>2, PushOf
  <2>2. UNCHANGED <<record, jobVars, viewVars>>
    BY <1>2, PushOf
  <2>3. \A d \in Pending : d \in Entries /\ d # e /\ task'[d] = task[d]
    BY <2>1, PushEffect DEF Pending, TypeOK
  <2>4. Pending' = Pending \cup {e}
    BY <2>1, <2>2, PushEffect DEF Pending
  <2>5. ASSUME NEW d \in Entries, d # e PROVE Writes!(d)'
    BY <2>1, <2>2, <2>3, <2>4, <2>5, PushEffect DEF Writes, Underway
  <2>6. Writes!(e)'
    BY <2>1, <2>2, PushEffect DEF Underway
  <2> QED
    BY <2>5, <2>6 DEF Writes
<1>3. ASSUME NEW e \in Entries, DrainStart(e) PROVE Writes'
  BY <1>3 DEF Writes, TypeOK, Underway, Pending, DrainStart
<1>4. ASSUME NEW e \in Entries, ReadinessDropped(e) PROVE Writes'
  BY <1>4 DEF Writes, TypeOK, Underway, Pending, ReadinessDropped
<1>5. ASSUME NEW e \in Entries, ReadinessWait(e) PROVE Writes'
  BY <1>5 DEF Writes, TypeOK, Underway, Pending, ReadinessWait
<1>6. ASSUME NEW e \in Entries, ReadinessReject(e) PROVE Writes'
  BY <1>6 DEF Writes, TypeOK, Underway, Pending, ReadinessReject
<1>7. ASSUME NEW e \in Entries, ReadinessThrows(e) PROVE Writes'
  BY <1>7 DEF Writes, TypeOK, Underway, Pending, ReadinessThrows
<1>8. ASSUME NEW e \in Entries, ReadinessReady(e) PROVE Writes'
  <2>1. record[task[e]].job # e
    BY <1>8 DEF Records, ReadinessReady, DispatchPhases, Entries
  <2>2. Pending' = Pending /\ e \in Pending
    BY <1>8 DEF ReadinessReady, Pending, DispatchPhases
  <2>3. ASSUME NEW d \in Entries PROVE Writes!(d)'
    BY <1>8, <2>1, <2>2 DEF Writes, Underway, ReadinessReady, TypeOK
  <2> QED
    BY <2>3 DEF Writes
<1>9. ASSUME NEW e \in Entries, RunningPersisted(e) PROVE Writes'
  BY <1>9 DEF Writes, TypeOK, Underway, Pending, DispatchPhases, TerminalPhases, Finalizing,
       Attempts, RunningPersisted
<1>10. ASSUME NEW e \in Entries, RunningPersistFails(e) PROVE Writes'
  BY <1>10 DEF Writes, TypeOK, Underway, Pending, DispatchPhases, TerminalPhases, Finalizing,
       Attempts, RunningPersistFails
<1>11. ASSUME NEW e \in Entries, FailedStartEnds(e) PROVE Writes'
  BY <1>11 DEF Writes, TypeOK, Underway, Pending, DispatchPhases, TerminalPhases, Finalizing,
       Attempts, FailedStartEnds
<1>12. ASSUME NEW e \in Entries, NEW s \in JobTerminal, ExecutionEnds(e, s) PROVE Writes'
  BY <1>12 DEF Writes, TypeOK, Underway, Pending, ExecutionEnds
<1>13. ASSUME NEW e \in Entries, FlushEnds(e) PROVE Writes'
  BY <1>13 DEF Writes, TypeOK, Underway, Pending, FlushEnds
<1>14. ASSUME NEW e \in Entries, NEW s \in JobTerminal, TerminalProjected(e, s) PROVE Writes'
  BY <1>14 DEF Writes, TypeOK, Underway, Pending, TerminalProjected
<1>15. ASSUME NEW e \in Entries, NEW c \in BOOLEAN, TerminalPersisted(e, c) PROVE Writes'
  BY <1>15 DEF Writes, TypeOK, Underway, Pending, DispatchPhases, TerminalPhases,
       TerminalPersisted
<1>16. ASSUME NEW e \in Entries, TerminalPersistFails(e) PROVE Writes'
  BY <1>16 DEF Writes, TypeOK, Underway, Pending, DispatchPhases, TerminalPhases, Finalizing,
       Attempts, TerminalPersistFails
<1>17. ASSUME NEW e \in Entries, FollowUpEnds(e) PROVE Writes'
  BY <1>17 DEF Writes, TypeOK, Underway, Pending, FollowUpEnds
<1>18. ASSUME NEW e \in Entries, RemoveQueuedTask(e) PROVE Writes'
  BY <1>18 DEF Writes, TypeOK, Underway, Pending, RemoveQueuedTask
<1>19. ASSUME NEW j \in Entries, RetryAdmitted(j) PROVE Writes'
  <2>1. PICK e \in Entries, u \in Tasks, o \in Entries \cup {NoEntry} :
          Push(e, u, o) /\ record[u].status \in {"absent", "failed"}
    BY <1>19, PushOf
  <2>2. UNCHANGED <<record, jobVars, viewVars>>
    BY <1>19, PushOf
  <2>3. \A d \in Pending : d \in Entries /\ d # e /\ task'[d] = task[d]
    BY <2>1, PushEffect DEF Pending, TypeOK
  <2>4. Pending' = Pending \cup {e}
    BY <2>1, <2>2, PushEffect DEF Pending
  <2>5. ASSUME NEW d \in Entries, d # e PROVE Writes!(d)'
    BY <2>1, <2>2, <2>3, <2>4, <2>5, PushEffect DEF Writes, Underway
  <2>6. Writes!(e)'
    BY <2>1, <2>2, PushEffect DEF Underway
  <2> QED
    BY <2>5, <2>6 DEF Writes
<1>20. CASE Dispose
  BY <1>20 DEF Writes, TypeOK, Underway, Pending, Dispose
<1> QED
  BY QuietSteps, <1>1, <1>2, <1>3, <1>4, <1>5, <1>6, <1>7, <1>8, <1>9, <1>10, <1>11, <1>12,
       <1>13, <1>14, <1>15, <1>16, <1>17, <1>18, <1>19, <1>20
     DEF Moves, Readiness, Execution, Terminal

--------------------------------------------------------------------------------
(* Retry *)

\* What a Retry has read stays true over its awaits: no other attempt of the Task can start.
LEMMA RetriesNext == ASSUME IInv, [Next]_vars PROVE Retries'
<1> USE DEF IInv
<1>1. ASSUME NEW t \in Tasks, SubmitJob(t) PROVE Retries'
  BY <1>1 DEF Retries, TypeOK, Pending, SubmitJob
<1>2. ASSUME NEW t \in Tasks, NotAdmitted(t) PROVE Retries'
  BY <1>2 DEF Retries, TypeOK, Pending, NotAdmitted
<1>3. CASE DrainBegin
  BY <1>3 DEF Retries, TypeOK, Pending, DrainBegin
<1>4. CASE DrainEnd
  BY <1>4 DEF Retries, TypeOK, Pending, DrainEnd
<1>5. ASSUME NEW j \in Entries, RetryJob(j) PROVE Retries'
  <2>1. Pending' = Pending
    BY <1>5 DEF Pending, RetryJob
  <2>2. task[j] \in Tasks
    BY <1>5 DEF RetryJob, DispatchPhases
  <2>3. \A d \in Pending : task[d] # task[j]
    BY <1>5, <2>2 DEF RetryJob, Pending, Slots, Entries, TypeOK
  <2> QED
    BY <1>5, <2>1, <2>3 DEF Retries, RetryJob, TypeOK
<1>6. ASSUME NEW j \in Entries, RetryTaskRead(j) PROVE Retries'
  BY <1>6 DEF Retries, TypeOK, Pending, RetryTaskRead
<1>7. ASSUME NEW j \in Entries, RetryRefused(j) PROVE Retries'
  BY <1>7 DEF Retries, TypeOK, Pending, RetryRefused
<1>8. ASSUME NEW t \in Tasks, Admitted(t) PROVE Retries'
  BY <1>8 DEF Retries, TypeOK, Pending, Records, Known, DispatchPhases, Slots, Free, Admitted,
       Push
<1>9. ASSUME NEW e \in Entries, DrainStart(e) PROVE Retries'
  BY <1>9 DEF Retries, TypeOK, Pending, DrainStart
<1>10. ASSUME NEW e \in Entries, ReadinessDropped(e) PROVE Retries'
  BY <1>10 DEF Retries, TypeOK, Pending, ReadinessDropped
<1>11. ASSUME NEW e \in Entries, ReadinessWait(e) PROVE Retries'
  BY <1>11 DEF Retries, TypeOK, Pending, ReadinessWait
<1>12. ASSUME NEW e \in Entries, ReadinessReject(e) PROVE Retries'
  BY <1>12 DEF Retries, TypeOK, Pending, ReadinessReject
<1>13. ASSUME NEW e \in Entries, ReadinessThrows(e) PROVE Retries'
  BY <1>13 DEF Retries, TypeOK, Pending, ReadinessThrows
<1>14. ASSUME NEW e \in Entries, ReadinessReady(e) PROVE Retries'
  BY <1>14 DEF Retries, TypeOK, Pending, DispatchPhases, ReadinessReady
<1>15. ASSUME NEW e \in Entries, RunningPersisted(e) PROVE Retries'
  BY <1>15 DEF Retries, TypeOK, Pending, DispatchPhases, TerminalPhases, Finalizing,
       RunningPersisted
<1>16. ASSUME NEW e \in Entries, RunningPersistFails(e) PROVE Retries'
  BY <1>16 DEF Retries, TypeOK, Pending, DispatchPhases, TerminalPhases, Finalizing,
       RunningPersistFails
<1>17. ASSUME NEW e \in Entries, FailedStartEnds(e) PROVE Retries'
  BY <1>17 DEF Retries, TypeOK, Pending, DispatchPhases, TerminalPhases, Finalizing,
       FailedStartEnds
<1>18. ASSUME NEW e \in Entries, NEW s \in JobTerminal, ExecutionEnds(e, s) PROVE Retries'
  BY <1>18 DEF Retries, TypeOK, Pending, DispatchPhases, ExecutionEnds
<1>19. ASSUME NEW e \in Entries, FlushEnds(e) PROVE Retries'
  BY <1>19 DEF Retries, TypeOK, Pending, FlushEnds
<1>20. ASSUME NEW e \in Entries, NEW s \in JobTerminal, TerminalProjected(e, s) PROVE Retries'
  BY <1>20 DEF Retries, TypeOK, Pending, TerminalProjected
<1>21. ASSUME NEW e \in Entries, NEW c \in BOOLEAN, TerminalPersisted(e, c) PROVE Retries'
  BY <1>21 DEF Retries, TypeOK, Pending, DispatchPhases, TerminalPhases, Finalizing,
       TerminalPersisted
<1>22. ASSUME NEW e \in Entries, TerminalPersistFails(e) PROVE Retries'
  BY <1>22, SMTT(30) DEF Retries, TypeOK, Pending, DispatchPhases, TerminalPhases, Finalizing,
       TerminalPersistFails
<1>23. ASSUME NEW e \in Entries, FollowUpEnds(e) PROVE Retries'
  BY <1>23 DEF Retries, TypeOK, Pending, FollowUpEnds
<1>24. ASSUME NEW e \in Entries, RemoveQueuedTask(e) PROVE Retries'
  BY <1>24 DEF Retries, TypeOK, Pending, RemoveQueuedTask
<1>25. ASSUME NEW j \in Entries, RetryAdmitted(j) PROVE Retries'
  BY <1>25 DEF Retries, TypeOK, Pending, Records, Known, DispatchPhases, Slots, Free,
       RetryAdmitted, Push
<1>26. CASE Dispose
  BY <1>26 DEF Retries, TypeOK, Pending, Dispose
<1>27. CASE UNCHANGED vars
  BY <1>27 DEF Retries, Pending, vars
<1> QED
  BY <1>1, <1>2, <1>3, <1>4, <1>5, <1>6, <1>7, <1>8, <1>9, <1>10, <1>11, <1>12, <1>13, <1>14,
       <1>15, <1>16, <1>17, <1>18, <1>19, <1>20, <1>21, <1>22, <1>23, <1>24, <1>25, <1>26, <1>27
     DEF Next, Submission, Drain, Readiness, Execution, Terminal, Retry

\* A pending entry is live: it is in the queue or holds the slot of its Task.
LEMMA PendingLive ==
  ASSUME TypeOK, DispatchPhases, TerminalPhases, Slots, NEW e \in Pending
  PROVE  e \in Entries /\ Live(e)
<1>1. CASE e \in queue
  BY <1>1 DEF Live, TypeOK
<1>2. CASE e \in correlated
  <2>1. e \in Entries /\ task[e] \in Tasks /\ active[task[e]] = e
    BY <1>2 DEF TypeOK, Slots, DispatchPhases, TerminalPhases, Finalizing
  <2> QED
    BY <2>1 DEF Live, HoldsSlot
<1> QED
  BY <1>1, <1>2 DEF Pending

\* An entry may go once its Retry is settled.
LEMMA PromiseSettled ==
  ASSUME TypeOK, DispatchPhases, TerminalPhases, Slots, Promises, NEW e \in Entries, Settle(e),
         origin' = origin, disposed' = disposed, Pending \ {e} \subseteq Pending'
  PROVE  Promises'
<1> SUFFICES ASSUME ~disposed, NEW j \in Entries, retrying'[j] = "queued"
             PROVE  \E d \in Pending' : origin[d] = j
  BY DEF Promises
<1>1. retrying[j] = "queued"
  BY DEF TypeOK
<1>2. PICK d \in Pending : origin[d] = j
  BY <1>1 DEF Promises
<1>3. d # e
  BY <1>2, PendingLive DEF Entries, TypeOK
<1> QED
  BY <1>2, <1>3

\* An entry that goes settles its Retry.
LEMMA PromisesNext == ASSUME IInv, [Next]_vars PROVE Promises'
<1> USE DEF IInv
<1>1. ASSUME NEW t \in Tasks, SubmitJob(t) PROVE Promises'
  BY <1>1 DEF Promises, TypeOK, Pending, SubmitJob
<1>2. ASSUME NEW t \in Tasks, NotAdmitted(t) PROVE Promises'
  BY <1>2 DEF Promises, TypeOK, Pending, NotAdmitted
<1>3. CASE DrainBegin
  BY <1>3 DEF Promises, TypeOK, Pending, DrainBegin
<1>4. CASE DrainEnd
  BY <1>4 DEF Promises, TypeOK, Pending, DrainEnd
<1>5. ASSUME NEW j \in Entries, RetryJob(j) PROVE Promises'
  BY <1>5 DEF Promises, TypeOK, Pending, RetryJob
<1>6. ASSUME NEW j \in Entries, RetryTaskRead(j) PROVE Promises'
  BY <1>6 DEF Promises, TypeOK, Pending, RetryTaskRead
<1>7. ASSUME NEW j \in Entries, RetryRefused(j) PROVE Promises'
  BY <1>7 DEF Promises, TypeOK, Pending, RetryRefused
<1>8. ASSUME NEW t \in Tasks, Admitted(t) PROVE Promises'
  <2>1. PICK e \in Entries : Push(e, t, NoEntry)
    BY <1>8 DEF Admitted
  <2>2. Pending' = Pending \cup {e} /\ \A d \in Pending : origin'[d] = origin[d]
    BY <1>8, <2>1, PushEffect DEF Pending, TypeOK, Admitted
  <2> QED
    BY <1>8, <2>2 DEF Promises, Admitted
<1>9. ASSUME NEW e \in Entries, DrainStart(e) PROVE Promises'
  BY <1>9 DEF Promises, TypeOK, Pending, DrainStart
<1>10. ASSUME NEW e \in Entries, ReadinessDropped(e) PROVE Promises'
  BY <1>10 DEF Promises, TypeOK, Pending, ReadinessDropped
<1>11. ASSUME NEW e \in Entries, ReadinessWait(e) PROVE Promises'
  BY <1>11 DEF Promises, TypeOK, Pending, ReadinessWait
<1>12. ASSUME NEW e \in Entries, ReadinessReject(e) PROVE Promises'
  BY <1>12, PromiseSettled DEF ReadinessReject, Pending
<1>13. ASSUME NEW e \in Entries, ReadinessThrows(e) PROVE Promises'
  BY <1>13, PromiseSettled DEF ReadinessThrows, Pending
<1>14. ASSUME NEW e \in Entries, ReadinessReady(e) PROVE Promises'
  BY <1>14 DEF Promises, TypeOK, Pending, ReadinessReady
<1>15. ASSUME NEW e \in Entries, RunningPersisted(e) PROVE Promises'
  BY <1>15 DEF Promises, TypeOK, Pending, RunningPersisted
<1>16. ASSUME NEW e \in Entries, RunningPersistFails(e) PROVE Promises'
  BY <1>16 DEF Promises, TypeOK, Pending, RunningPersistFails
<1>17. ASSUME NEW e \in Entries, FailedStartEnds(e) PROVE Promises'
  BY <1>17, PromiseSettled DEF FailedStartEnds, Pending
<1>18. ASSUME NEW e \in Entries, NEW s \in JobTerminal, ExecutionEnds(e, s) PROVE Promises'
  BY <1>18 DEF Promises, TypeOK, Pending, ExecutionEnds
<1>19. ASSUME NEW e \in Entries, FlushEnds(e) PROVE Promises'
  BY <1>19 DEF Promises, TypeOK, Pending, FlushEnds
<1>20. ASSUME NEW e \in Entries, NEW s \in JobTerminal, TerminalProjected(e, s) PROVE Promises'
  BY <1>20 DEF Promises, TypeOK, Pending, TerminalProjected
<1>21. ASSUME NEW e \in Entries, NEW c \in BOOLEAN, TerminalPersisted(e, c) PROVE Promises'
  BY <1>21 DEF Promises, TypeOK, Pending, TerminalPersisted
<1>22. ASSUME NEW e \in Entries, TerminalPersistFails(e) PROVE Promises'
  BY <1>22, PromiseSettled DEF TerminalPersistFails, Pending
<1>23. ASSUME NEW e \in Entries, FollowUpEnds(e) PROVE Promises'
  BY <1>23, PromiseSettled DEF FollowUpEnds, Pending
<1>24. ASSUME NEW e \in Entries, RemoveQueuedTask(e) PROVE Promises'
  BY <1>24, PromiseSettled DEF RemoveQueuedTask, Pending
<1>25. ASSUME NEW j \in Entries, RetryAdmitted(j) PROVE Promises'
  <2>1. PICK e \in Entries : Push(e, task[j], j)
    BY <1>25 DEF RetryAdmitted
  <2>2. task[j] \in Tasks
    BY <1>25, RetryFresh
  <2>3. Pending' = Pending \cup {e} /\ origin'[e] = j
    BY <1>25, <2>1, <2>2, PushEffect DEF Pending, RetryAdmitted
  <2>4. \A d \in Pending : origin'[d] = origin[d]
    BY <1>25, <2>1, <2>2, PushEffect DEF Pending, TypeOK
  <2> QED
    BY <1>25, <2>3, <2>4 DEF Promises, RetryAdmitted, TypeOK
<1>26. CASE Dispose
  BY <1>26 DEF Promises, TypeOK, Pending, Dispose
<1>27. CASE UNCHANGED vars
  BY <1>27 DEF Promises, Pending, vars
<1> QED
  BY <1>1, <1>2, <1>3, <1>4, <1>5, <1>6, <1>7, <1>8, <1>9, <1>10, <1>11, <1>12, <1>13, <1>14,
       <1>15, <1>16, <1>17, <1>18, <1>19, <1>20, <1>21, <1>22, <1>23, <1>24, <1>25, <1>26, <1>27
     DEF Next, Submission, Drain, Readiness, Execution, Terminal, Retry

--------------------------------------------------------------------------------
(* What is published *)

\* The attempt whose terminal Task is being written is the newest of its Task.
LEMMA NewestWrites ==
  ASSUME TypeOK, DispatchPhases, TerminalPhases, Attempts, Views,
         NEW e \in Entries, terminal[e] = "persisting"
  PROVE  /\ task[e] \in Tasks
         /\ \A d \in Entries : published[d] = "completed" \/ d \in retryable =>
              d # e /\ (task[d] = task[e] => e > d)
<1>1. e \in Pending /\ task[e] \in Tasks
  BY DEF TerminalPhases, Finalizing, Pending, DispatchPhases
<1>2. \A d \in Entries : pc[d] # "free" /\ task[d] = task[e] /\ d # e => e > d
  BY <1>1 DEF Attempts, Entries
<1>3. \A d \in Entries : published[d] = "completed" \/ d \in retryable => pc[d] # "free" /\ d # e
  BY DEF Views, DispatchPhases, JobTerminal
<1> QED
  BY <1>1, <1>2, <1>3

\* Once its terminal Task is written, or lost, what was published of other Jobs still has
\* its record.
LEMMA OthersDurable ==
  ASSUME TypeOK, DispatchPhases, TerminalPhases, Attempts, Views, DurableBeforePublished,
         NEW e \in Entries, terminal[e] = "persisting", PutRejected(e, projected[e]), task' = task,
         NEW d \in Entries, d # e, published'[d] = "completed" \/ d \in retryable',
         published'[d] = published[d], d \in retryable' => d \in retryable
  PROVE  DurableBeforePublished!(d)'
<1>1. published[d] = "completed" \/ d \in retryable
  OBVIOUS
<1>2. task[d] \in Tasks /\ task[e] \in Tasks
  BY <1>1, NewestWrites DEF Views, DispatchPhases
<1>3. \/ record'[task[d]] = record[task[d]]
      \/ task[d] = task[e] /\ record'[task[d]] = [status |-> projected[e], job |-> e]
  BY <1>2 DEF TypeOK
<1>4. CASE record'[task[d]] = record[task[d]]
  BY <1>1, <1>4 DEF DurableBeforePublished
<1>5. CASE task[d] = task[e] /\ record'[task[d]] = [status |-> projected[e], job |-> e]
  BY <1>1, <1>5, NewestWrites
<1> QED
  BY <1>3, <1>4, <1>5

\* A terminal Job is published by the step that follows its durable Task.
LEMMA DurableBeforePublishedNext == ASSUME IInv, [Next]_vars PROVE DurableBeforePublished'
<1> USE DEF IInv
<1>1. CASE Quiet
  BY <1>1 DEF DurableBeforePublished, Quiet
<1>2. ASSUME NEW t \in Tasks, Admitted(t) PROVE DurableBeforePublished'
  <2>1. PICK e \in Entries, u \in Tasks, o \in Entries \cup {NoEntry} :
          Push(e, u, o) /\ record[u].status \in {"absent", "failed"}
    BY <1>2, PushOf
  <2>2. UNCHANGED <<record, jobVars, viewVars>>
    BY <1>2, PushOf
  <2>3. published[e] = "none" /\ e \notin retryable
    BY <2>1, PushEffect DEF Views, TypeOK, JobStatus
  <2> QED
    BY <2>1, <2>2, <2>3, PushEffect DEF DurableBeforePublished
<1>3. ASSUME NEW e \in Entries, DrainStart(e) PROVE DurableBeforePublished'
  BY <1>3 DEF DurableBeforePublished, TypeOK, DrainStart
<1>4. ASSUME NEW e \in Entries, ReadinessDropped(e) PROVE DurableBeforePublished'
  BY <1>4 DEF DurableBeforePublished, TypeOK, ReadinessDropped
<1>5. ASSUME NEW e \in Entries, ReadinessWait(e) PROVE DurableBeforePublished'
  BY <1>5 DEF DurableBeforePublished, TypeOK, ReadinessWait
<1>6. ASSUME NEW e \in Entries, ReadinessReject(e) PROVE DurableBeforePublished'
  BY <1>6 DEF DurableBeforePublished, TypeOK, ReadinessReject
<1>7. ASSUME NEW e \in Entries, ReadinessThrows(e) PROVE DurableBeforePublished'
  BY <1>7 DEF DurableBeforePublished, TypeOK, ReadinessThrows
<1>8. ASSUME NEW e \in Entries, ReadinessReady(e) PROVE DurableBeforePublished'
  BY <1>8 DEF DurableBeforePublished, TypeOK, ReadinessReady
<1>9. ASSUME NEW e \in Entries, RunningPersisted(e) PROVE DurableBeforePublished'
  BY <1>9 DEF DurableBeforePublished, TypeOK, Views, DispatchPhases, TerminalPhases,
       JobTerminal, Finalizing, Attempts, Pending, Writes, Records, Projections, Entries,
       RunningPersisted
<1>10. ASSUME NEW e \in Entries, RunningPersistFails(e) PROVE DurableBeforePublished'
  BY <1>10 DEF DurableBeforePublished, TypeOK, Views, DispatchPhases, TerminalPhases,
       JobTerminal, Finalizing, Attempts, Pending, Writes, Records, Projections, Entries,
       RunningPersistFails
<1>11. ASSUME NEW e \in Entries, FailedStartEnds(e) PROVE DurableBeforePublished'
  BY <1>11 DEF DurableBeforePublished, TypeOK, Views, DispatchPhases, TerminalPhases,
       JobTerminal, Finalizing, Attempts, Pending, Writes, Records, Projections, Entries,
       FailedStartEnds
<1>12. ASSUME NEW e \in Entries, NEW s \in JobTerminal, ExecutionEnds(e, s)
       PROVE  DurableBeforePublished'
  BY <1>12 DEF DurableBeforePublished, TypeOK, ExecutionEnds
<1>13. ASSUME NEW e \in Entries, FlushEnds(e) PROVE DurableBeforePublished'
  BY <1>13 DEF DurableBeforePublished, TypeOK, FlushEnds
<1>14. ASSUME NEW e \in Entries, NEW s \in JobTerminal, TerminalProjected(e, s)
       PROVE  DurableBeforePublished'
  BY <1>14 DEF DurableBeforePublished, TypeOK, TerminalProjected
<1>15. ASSUME NEW e \in Entries, NEW c \in BOOLEAN, TerminalPersisted(e, c)
       PROVE  DurableBeforePublished'
  <2>1. terminal[e] = "persisting" /\ projected[e] \in JobTerminal /\ task[e] \in Tasks
    BY <1>15, NewestWrites DEF TerminalPersisted, Projections
  <2>2. DurableBeforePublished!(e)'
    <3>1. record'[task[e]] = [status |-> projected[e], job |-> e]
      BY <1>15, <2>1 DEF TerminalPersisted, TypeOK
    <3>2. e \in retryable' => projected[e] = "failed"
      BY <1>15, <2>1, NewestWrites DEF TerminalPersisted, Projections, TypeOK
    <3> QED
      BY <1>15, <2>1, <3>1, <3>2 DEF TerminalPersisted
  <2>3. ASSUME NEW d \in Entries, d # e, published'[d] = "completed" \/ d \in retryable'
        PROVE  DurableBeforePublished!(d)'
    <3>1. published'[d] = published[d] /\ (d \in retryable' => d \in retryable)
      BY <1>15, <2>3 DEF TerminalPersisted, TypeOK
    <3>2. PutRejected(e, projected[e]) /\ task' = task
      BY <1>15 DEF TerminalPersisted
    <3> QED
      BY <2>1, <2>3, <3>1, <3>2, OthersDurable
  <2> QED
    BY <2>2, <2>3 DEF DurableBeforePublished
<1>16. ASSUME NEW e \in Entries, TerminalPersistFails(e) PROVE DurableBeforePublished'
  <2>1. terminal[e] = "persisting" /\ projected[e] \in JobTerminal /\ task[e] \in Tasks
    BY <1>16, NewestWrites DEF TerminalPersistFails, Projections
  <2>2. e \notin retryable' /\ published'[e] # "completed"
    BY <1>16, <2>1, NewestWrites DEF TerminalPersistFails, TypeOK
  <2>3. ASSUME NEW d \in Entries, d # e, published'[d] = "completed" \/ d \in retryable'
        PROVE  DurableBeforePublished!(d)'
    <3>1. published'[d] = published[d] /\ (d \in retryable' => d \in retryable)
      BY <1>16, <2>3 DEF TerminalPersistFails, TypeOK
    <3>2. PutRejected(e, projected[e]) /\ task' = task
      BY <1>16 DEF TerminalPersistFails
    <3> QED
      BY <2>1, <2>3, <3>1, <3>2, OthersDurable
  <2> QED
    BY <2>2, <2>3 DEF DurableBeforePublished
<1>17. ASSUME NEW e \in Entries, FollowUpEnds(e) PROVE DurableBeforePublished'
  BY <1>17 DEF DurableBeforePublished, TypeOK, FollowUpEnds
<1>18. ASSUME NEW e \in Entries, RemoveQueuedTask(e) PROVE DurableBeforePublished'
  BY <1>18 DEF DurableBeforePublished, TypeOK, RemoveQueuedTask
<1>19. ASSUME NEW j \in Entries, RetryAdmitted(j) PROVE DurableBeforePublished'
  <2>1. PICK e \in Entries, u \in Tasks, o \in Entries \cup {NoEntry} :
          Push(e, u, o) /\ record[u].status \in {"absent", "failed"}
    BY <1>19, PushOf
  <2>2. UNCHANGED <<record, jobVars, viewVars>>
    BY <1>19, PushOf
  <2>3. published[e] = "none" /\ e \notin retryable
    BY <2>1, PushEffect DEF Views, TypeOK, JobStatus
  <2> QED
    BY <2>1, <2>2, <2>3, PushEffect DEF DurableBeforePublished
<1>20. CASE Dispose
  BY <1>20 DEF DurableBeforePublished, TypeOK, Dispose
<1> QED
  BY QuietSteps, <1>1, <1>2, <1>3, <1>4, <1>5, <1>6, <1>7, <1>8, <1>9, <1>10, <1>11, <1>12,
       <1>13, <1>14, <1>15, <1>16, <1>17, <1>18, <1>19, <1>20
     DEF Moves, Readiness, Execution, Terminal

--------------------------------------------------------------------------------
(* The caps and the drain timer *)

\* There are finitely many Tasks, so that a set of them can be counted.
LEMMA CountTasks ==
  ASSUME NEW S \in SUBSET Tasks
  PROVE  IsFiniteSet(S) /\ Cardinality(S) \in Nat
BY FS_Subset, FS_CardinalityType DEF SessionAssumption

\* Giving slots back keeps the caps.
LEMMA FewerSlots ==
  ASSUME Caps, ActiveTasks' \subseteq ActiveTasks, draining' => skipped' = {}
  PROVE  Caps'
<1>1. ActiveTasks \subseteq Tasks
  BY DEF ActiveTasks
<1>2. Cardinality(ActiveTasks') <= Cardinality(ActiveTasks)
  BY <1>1, CountTasks, FS_Subset
<1>3. ASSUME NEW l \in Lanes
      PROVE  Cardinality({t \in ActiveTasks' : LaneOf[t] = l}) <= LaneCap[l]
  <2> DEFINE A == {t \in ActiveTasks : LaneOf[t] = l}
             B == {t \in ActiveTasks' : LaneOf[t] = l}
  <2>1. A \in SUBSET Tasks /\ B \in SUBSET A
    BY <1>1
  <2>2. Cardinality(B) <= Cardinality(A)
    BY <2>1, CountTasks, FS_Subset
  <2>3. Cardinality(A) \in Nat /\ Cardinality(B) \in Nat /\ LaneCap[l] \in Nat
    BY <2>1, CountTasks
  <2>4. Cardinality(A) <= LaneCap[l]
    BY DEF Caps
  <2> QED
    BY <2>2, <2>3, <2>4
<1>4. Cardinality(ActiveTasks) \in Nat /\ Cardinality(ActiveTasks') \in Nat /\ MaxRunning \in Nat
  BY <1>1, CountTasks DEF SessionAssumption
<1> QED
  BY <1>2, <1>3, <1>4 DEF Caps

\* The drain takes a slot for an entry that has none, below both caps.
LEMMA StartKeepsCaps ==
  ASSUME TypeOK, DispatchPhases, TerminalPhases, Slots, Caps, NEW e \in Entries, DrainStart(e)
  PROVE  Caps'
<1>1. e \in queue /\ pc[e] = "queued" /\ task[e] \in Tasks /\ e # 0
  BY DEF DrainStart, EarliestEligible, Eligible, DispatchPhases, Entries
<1>2. ActiveTasks' = ActiveTasks \cup {task[e]}
  BY <1>1 DEF ActiveTasks, DrainStart, TypeOK
<1>3. ActiveTasks \subseteq Tasks
  BY DEF ActiveTasks
<1>4. Cardinality(ActiveTasks') <= MaxRunning
  <2>1. IsFiniteSet(ActiveTasks) /\ Cardinality(ActiveTasks) \in Nat
    BY <1>3, CountTasks
  <2>2. Cardinality(ActiveTasks') \in {Cardinality(ActiveTasks), Cardinality(ActiveTasks) + 1}
    BY <1>2, <2>1, FS_AddElement
  <2> QED
    BY <2>1, <2>2 DEF DrainStart, SessionAssumption
<1>5. ASSUME NEW l \in Lanes PROVE Cardinality({t \in ActiveTasks' : LaneOf[t] = l}) <= LaneCap[l]
  <2> DEFINE A == {t \in ActiveTasks : LaneOf[t] = l}
             B == {t \in ActiveTasks' : LaneOf[t] = l}
  <2>0. A \subseteq Tasks
    BY <1>3
  <2>1. CASE Lane(e) # l
    <3>1. B = A
      BY <1>2, <2>1 DEF Lane
    <3> QED
      BY <3>1 DEF Caps
  <2>2. CASE Lane(e) = l
    <3>1. \A t \in Tasks : active[t] # e
      BY <1>1 DEF Slots, DispatchPhases, TerminalPhases, Finalizing, JobTerminal
    <3>2. LaneRunningCount(e) = Cardinality(A)
      BY <3>1, <1>3, <2>2 DEF LaneRunningCount
    <3>3. B = A \cup {task[e]}
      BY <1>2, <2>2 DEF Lane
    <3>4. LaneRunningCount(e) < LaneCap[l] /\ LaneCap[l] \in Nat
      BY <2>2 DEF DrainStart, EarliestEligible, Eligible, SessionAssumption
    <3>5. IsFiniteSet(A) /\ Cardinality(A) \in Nat
      BY <2>0, CountTasks
    <3>6. Cardinality(B) = Cardinality(A) \/ Cardinality(B) = Cardinality(A) + 1
      BY <3>3, <3>5, FS_AddElement
    <3> QED
      BY <3>2, <3>4, <3>5, <3>6
  <2> QED
    BY <2>1, <2>2
<1> QED
  BY <1>4, <1>5 DEF Caps, DrainStart

\* A drain that ends leaves nothing that could start.
LEMMA DrainEndKeepsWakeup ==
  ASSUME TypeOK, Caps, DrainEnd
  PROVE NoLostWakeup'
<1>0. ActiveTasks' = ActiveTasks /\ ActiveTasks \subseteq Tasks
  BY DEF ActiveTasks, DrainEnd
<1>1. Cardinality(ActiveTasks) \in Nat /\ MaxRunning \in Nat
  BY <1>0, CountTasks DEF ActiveTasks, SessionAssumption
<1>2. CASE disposed
  BY <1>2 DEF NoLostWakeup, DrainEnd
<1>3. CASE Cardinality(ActiveTasks) >= MaxRunning
  BY <1>0, <1>1, <1>3 DEF NoLostWakeup
<1>4. CASE \A e \in queue : ~Eligible(e)
  <2>1. skipped = {}
    BY DEF Caps, DrainEnd
  <2> QED
    BY <2>1, <1>0, <1>4 DEF NoLostWakeup, DrainEnd, Eligible, Lane, LaneRunningCount
<1> QED
  BY <1>2, <1>3, <1>4 DEF DrainEnd

\* Only the drain takes a slot, and it counts before it does.
LEMMA CapsNext == ASSUME IInv, [Next]_vars PROVE Caps'
<1> USE DEF IInv
<1>1. ASSUME NEW t \in Tasks, SubmitJob(t) PROVE Caps'
  <2>1. ActiveTasks' \subseteq ActiveTasks /\ (draining' => skipped' = {})
    BY <1>1 DEF ActiveTasks, SubmitJob, TypeOK, Caps
  <2> QED
    BY <2>1, FewerSlots
<1>2. ASSUME NEW t \in Tasks, NotAdmitted(t) PROVE Caps'
  <2>1. ActiveTasks' \subseteq ActiveTasks /\ (draining' => skipped' = {})
    BY <1>2 DEF ActiveTasks, NotAdmitted, TypeOK, Caps
  <2> QED
    BY <2>1, FewerSlots
<1>3. CASE DrainBegin
  <2>1. ActiveTasks' \subseteq ActiveTasks /\ (draining' => skipped' = {})
    BY <1>3 DEF ActiveTasks, DrainBegin, TypeOK, Caps
  <2> QED
    BY <2>1, FewerSlots
<1>4. CASE DrainEnd
  <2>1. ActiveTasks' \subseteq ActiveTasks /\ (draining' => skipped' = {})
    BY <1>4 DEF ActiveTasks, DrainEnd, TypeOK, Caps
  <2> QED
    BY <2>1, FewerSlots
<1>5. ASSUME NEW j \in Entries, RetryJob(j) PROVE Caps'
  <2>1. ActiveTasks' \subseteq ActiveTasks /\ (draining' => skipped' = {})
    BY <1>5 DEF ActiveTasks, RetryJob, TypeOK, Caps
  <2> QED
    BY <2>1, FewerSlots
<1>6. ASSUME NEW j \in Entries, RetryTaskRead(j) PROVE Caps'
  <2>1. ActiveTasks' \subseteq ActiveTasks /\ (draining' => skipped' = {})
    BY <1>6 DEF ActiveTasks, RetryTaskRead, TypeOK, Caps
  <2> QED
    BY <2>1, FewerSlots
<1>7. ASSUME NEW j \in Entries, RetryRefused(j) PROVE Caps'
  <2>1. ActiveTasks' \subseteq ActiveTasks /\ (draining' => skipped' = {})
    BY <1>7 DEF ActiveTasks, RetryRefused, TypeOK, Caps
  <2> QED
    BY <2>1, FewerSlots
<1>8. ASSUME NEW t \in Tasks, Admitted(t) PROVE Caps'
  <2>1. ActiveTasks' \subseteq ActiveTasks /\ (draining' => skipped' = {})
    BY <1>8 DEF ActiveTasks, Admitted, TypeOK, Caps, Push
  <2> QED
    BY <2>1, FewerSlots
<1>9. ASSUME NEW e \in Entries, DrainStart(e) PROVE Caps'
  BY <1>9, StartKeepsCaps
<1>10. ASSUME NEW e \in Entries, ReadinessDropped(e) PROVE Caps'
  <2>1. ActiveTasks' \subseteq ActiveTasks /\ (draining' => skipped' = {})
    BY <1>10 DEF ActiveTasks, ReadinessDropped, TypeOK, Caps
  <2> QED
    BY <2>1, FewerSlots
<1>11. ASSUME NEW e \in Entries, ReadinessWait(e) PROVE Caps'
  <2>1. ActiveTasks' \subseteq ActiveTasks /\ (draining' => skipped' = {})
    BY <1>11 DEF ActiveTasks, ReadinessWait, TypeOK, Caps
  <2> QED
    BY <2>1, FewerSlots
<1>12. ASSUME NEW e \in Entries, ReadinessReject(e) PROVE Caps'
  <2>1. ActiveTasks' \subseteq ActiveTasks /\ (draining' => skipped' = {})
    BY <1>12 DEF ActiveTasks, ReadinessReject, TypeOK, Caps
  <2> QED
    BY <2>1, FewerSlots
<1>13. ASSUME NEW e \in Entries, ReadinessThrows(e) PROVE Caps'
  <2>1. ActiveTasks' \subseteq ActiveTasks /\ (draining' => skipped' = {})
    BY <1>13 DEF ActiveTasks, ReadinessThrows, TypeOK, Caps
  <2> QED
    BY <2>1, FewerSlots
<1>14. ASSUME NEW e \in Entries, ReadinessReady(e) PROVE Caps'
  <2>1. ActiveTasks' \subseteq ActiveTasks /\ (draining' => skipped' = {})
    BY <1>14 DEF ActiveTasks, ReadinessReady, TypeOK, Caps
  <2> QED
    BY <2>1, FewerSlots
<1>15. ASSUME NEW e \in Entries, RunningPersisted(e) PROVE Caps'
  <2>1. ActiveTasks' \subseteq ActiveTasks /\ (draining' => skipped' = {})
    BY <1>15 DEF ActiveTasks, RunningPersisted, TypeOK, Caps
  <2> QED
    BY <2>1, FewerSlots
<1>16. ASSUME NEW e \in Entries, RunningPersistFails(e) PROVE Caps'
  <2>1. ActiveTasks' \subseteq ActiveTasks /\ (draining' => skipped' = {})
    BY <1>16 DEF ActiveTasks, RunningPersistFails, TypeOK, Caps
  <2> QED
    BY <2>1, FewerSlots
<1>17. ASSUME NEW e \in Entries, FailedStartEnds(e) PROVE Caps'
  <2>1. ActiveTasks' \subseteq ActiveTasks /\ (draining' => skipped' = {})
    BY <1>17 DEF ActiveTasks, FailedStartEnds, TypeOK, Caps
  <2> QED
    BY <2>1, FewerSlots
<1>18. ASSUME NEW e \in Entries, NEW s \in JobTerminal, ExecutionEnds(e, s) PROVE Caps'
  <2>1. ActiveTasks' \subseteq ActiveTasks /\ (draining' => skipped' = {})
    BY <1>18 DEF ActiveTasks, ExecutionEnds, TypeOK, Caps
  <2> QED
    BY <2>1, FewerSlots
<1>19. ASSUME NEW e \in Entries, FlushEnds(e) PROVE Caps'
  <2>1. ActiveTasks' \subseteq ActiveTasks /\ (draining' => skipped' = {})
    BY <1>19 DEF ActiveTasks, FlushEnds, TypeOK, Caps
  <2> QED
    BY <2>1, FewerSlots
<1>20. ASSUME NEW e \in Entries, NEW s \in JobTerminal, TerminalProjected(e, s) PROVE Caps'
  <2>1. ActiveTasks' \subseteq ActiveTasks /\ (draining' => skipped' = {})
    BY <1>20 DEF ActiveTasks, TerminalProjected, TypeOK, Caps
  <2> QED
    BY <2>1, FewerSlots
<1>21. ASSUME NEW e \in Entries, NEW c \in BOOLEAN, TerminalPersisted(e, c) PROVE Caps'
  <2>1. ActiveTasks' \subseteq ActiveTasks /\ (draining' => skipped' = {})
    BY <1>21 DEF ActiveTasks, TerminalPersisted, TypeOK, Caps
  <2> QED
    BY <2>1, FewerSlots
<1>22. ASSUME NEW e \in Entries, TerminalPersistFails(e) PROVE Caps'
  <2>1. ActiveTasks' \subseteq ActiveTasks /\ (draining' => skipped' = {})
    BY <1>22 DEF ActiveTasks, TerminalPersistFails, TypeOK, Caps
  <2> QED
    BY <2>1, FewerSlots
<1>23. ASSUME NEW e \in Entries, FollowUpEnds(e) PROVE Caps'
  <2>1. ActiveTasks' \subseteq ActiveTasks /\ (draining' => skipped' = {})
    BY <1>23 DEF ActiveTasks, FollowUpEnds, TypeOK, Caps
  <2> QED
    BY <2>1, FewerSlots
<1>24. ASSUME NEW e \in Entries, RemoveQueuedTask(e) PROVE Caps'
  <2>1. ActiveTasks' \subseteq ActiveTasks /\ (draining' => skipped' = {})
    BY <1>24 DEF ActiveTasks, RemoveQueuedTask, TypeOK, Caps
  <2> QED
    BY <2>1, FewerSlots
<1>25. ASSUME NEW j \in Entries, RetryAdmitted(j) PROVE Caps'
  <2>1. ActiveTasks' \subseteq ActiveTasks /\ (draining' => skipped' = {})
    BY <1>25 DEF ActiveTasks, RetryAdmitted, TypeOK, Caps, Push
  <2> QED
    BY <2>1, FewerSlots
<1>26. CASE Dispose
  <2>1. ActiveTasks' \subseteq ActiveTasks /\ (draining' => skipped' = {})
    BY <1>26 DEF ActiveTasks, Dispose, TypeOK, Caps
  <2> QED
    BY <2>1, FewerSlots
<1>27. CASE UNCHANGED vars
  BY <1>27 DEF Caps, ActiveTasks, vars
<1> QED
  BY <1>1, <1>2, <1>3, <1>4, <1>5, <1>6, <1>7, <1>8, <1>9, <1>10, <1>11, <1>12, <1>13, <1>14,
       <1>15, <1>16, <1>17, <1>18, <1>19, <1>20, <1>21, <1>22, <1>23, <1>24, <1>25, <1>26, <1>27
     DEF Next, Submission, Drain, Readiness, Execution, Terminal, Retry

\* A step that frees a slot or queues an entry arms the timer; a drain ends with nothing to start.
LEMMA NoLostWakeupNext == ASSUME IInv, [Next]_vars PROVE NoLostWakeup'
<1> USE DEF IInv
<1>1. ASSUME NEW t \in Tasks, SubmitJob(t) PROVE NoLostWakeup'
  BY <1>1 DEF NoLostWakeup, TypeOK, Lane, LaneRunningCount, ActiveTasks, SubmitJob
<1>2. ASSUME NEW t \in Tasks, NotAdmitted(t) PROVE NoLostWakeup'
  BY <1>2 DEF NoLostWakeup, TypeOK, Lane, LaneRunningCount, ActiveTasks, NotAdmitted
<1>3. CASE DrainBegin
  BY <1>3 DEF NoLostWakeup, TypeOK, Lane, LaneRunningCount, ActiveTasks, DrainBegin
<1>4. CASE DrainEnd
  BY <1>4, DrainEndKeepsWakeup
<1>5. ASSUME NEW j \in Entries, RetryJob(j) PROVE NoLostWakeup'
  BY <1>5 DEF NoLostWakeup, TypeOK, Lane, LaneRunningCount, ActiveTasks, RetryJob
<1>6. ASSUME NEW j \in Entries, RetryTaskRead(j) PROVE NoLostWakeup'
  BY <1>6 DEF NoLostWakeup, TypeOK, Lane, LaneRunningCount, ActiveTasks, RetryTaskRead
<1>7. ASSUME NEW j \in Entries, RetryRefused(j) PROVE NoLostWakeup'
  BY <1>7 DEF NoLostWakeup, TypeOK, Lane, LaneRunningCount, ActiveTasks, RetryRefused
<1>8. ASSUME NEW t \in Tasks, Admitted(t) PROVE NoLostWakeup'
  BY <1>8 DEF NoLostWakeup, TypeOK, Lane, LaneRunningCount, ActiveTasks, Admitted, Push
<1>9. ASSUME NEW e \in Entries, DrainStart(e) PROVE NoLostWakeup'
  BY <1>9 DEF NoLostWakeup, TypeOK, Lane, LaneRunningCount, ActiveTasks, DrainStart
<1>10. ASSUME NEW e \in Entries, ReadinessDropped(e) PROVE NoLostWakeup'
  BY <1>10 DEF NoLostWakeup, TypeOK, Lane, LaneRunningCount, ActiveTasks, ReadinessDropped
<1>11. ASSUME NEW e \in Entries, ReadinessWait(e) PROVE NoLostWakeup'
  BY <1>11 DEF NoLostWakeup, TypeOK, Lane, LaneRunningCount, ActiveTasks, ReadinessWait
<1>12. ASSUME NEW e \in Entries, ReadinessReject(e) PROVE NoLostWakeup'
  BY <1>12 DEF NoLostWakeup, TypeOK, Lane, LaneRunningCount, ActiveTasks, ReadinessReject
<1>13. ASSUME NEW e \in Entries, ReadinessThrows(e) PROVE NoLostWakeup'
  BY <1>13 DEF NoLostWakeup, TypeOK, Lane, LaneRunningCount, ActiveTasks, ReadinessThrows
<1>14. ASSUME NEW e \in Entries, ReadinessReady(e) PROVE NoLostWakeup'
  BY <1>14 DEF NoLostWakeup, TypeOK, Lane, LaneRunningCount, ActiveTasks, ReadinessReady
<1>15. ASSUME NEW e \in Entries, RunningPersisted(e) PROVE NoLostWakeup'
  BY <1>15 DEF NoLostWakeup, TypeOK, Lane, LaneRunningCount, ActiveTasks, RunningPersisted
<1>16. ASSUME NEW e \in Entries, RunningPersistFails(e) PROVE NoLostWakeup'
  BY <1>16 DEF NoLostWakeup, TypeOK, Lane, LaneRunningCount, ActiveTasks, RunningPersistFails
<1>17. ASSUME NEW e \in Entries, FailedStartEnds(e) PROVE NoLostWakeup'
  BY <1>17 DEF NoLostWakeup, TypeOK, Lane, LaneRunningCount, ActiveTasks, FailedStartEnds
<1>18. ASSUME NEW e \in Entries, NEW s \in JobTerminal, ExecutionEnds(e, s) PROVE NoLostWakeup'
  BY <1>18 DEF NoLostWakeup, TypeOK, Lane, LaneRunningCount, ActiveTasks, ExecutionEnds
<1>19. ASSUME NEW e \in Entries, FlushEnds(e) PROVE NoLostWakeup'
  BY <1>19 DEF NoLostWakeup, TypeOK, Lane, LaneRunningCount, ActiveTasks, FlushEnds
<1>20. ASSUME NEW e \in Entries, NEW s \in JobTerminal, TerminalProjected(e, s)
       PROVE  NoLostWakeup'
  BY <1>20 DEF NoLostWakeup, TypeOK, Lane, LaneRunningCount, ActiveTasks, TerminalProjected
<1>21. ASSUME NEW e \in Entries, NEW c \in BOOLEAN, TerminalPersisted(e, c) PROVE NoLostWakeup'
  BY <1>21 DEF NoLostWakeup, TypeOK, Lane, LaneRunningCount, ActiveTasks, TerminalPersisted
<1>22. ASSUME NEW e \in Entries, TerminalPersistFails(e) PROVE NoLostWakeup'
  BY <1>22 DEF NoLostWakeup, TypeOK, Lane, LaneRunningCount, ActiveTasks, TerminalPersistFails
<1>23. ASSUME NEW e \in Entries, FollowUpEnds(e) PROVE NoLostWakeup'
  BY <1>23 DEF NoLostWakeup, TypeOK, Lane, LaneRunningCount, ActiveTasks, FollowUpEnds
<1>24. ASSUME NEW e \in Entries, RemoveQueuedTask(e) PROVE NoLostWakeup'
  BY <1>24 DEF NoLostWakeup, TypeOK, Lane, LaneRunningCount, ActiveTasks, RemoveQueuedTask
<1>25. ASSUME NEW j \in Entries, RetryAdmitted(j) PROVE NoLostWakeup'
  BY <1>25 DEF NoLostWakeup, TypeOK, Lane, LaneRunningCount, ActiveTasks, RetryAdmitted, Push
<1>26. CASE Dispose
  BY <1>26 DEF NoLostWakeup, TypeOK, Lane, LaneRunningCount, ActiveTasks, Dispose
<1>27. CASE UNCHANGED vars
  BY <1>27 DEF NoLostWakeup, Lane, LaneRunningCount, ActiveTasks, vars
<1> QED
  BY <1>1, <1>2, <1>3, <1>4, <1>5, <1>6, <1>7, <1>8, <1>9, <1>10, <1>11, <1>12, <1>13, <1>14,
       <1>15, <1>16, <1>17, <1>18, <1>19, <1>20, <1>21, <1>22, <1>23, <1>24, <1>25, <1>26, <1>27
     DEF Next, Submission, Drain, Readiness, Execution, Terminal, Retry

--------------------------------------------------------------------------------
(* The inductive invariant *)

\* The Session starts in it.
LEMMA InitIInv == Init => IInv
<1> SUFFICES ASSUME Init PROVE IInv
  OBVIOUS
<1> USE DEF Init
<1>1. TypeOK
  BY DEF TypeOK, Dispatch, JobStatus, JobTerminal, TaskStatus, Finalize
<1>2. Projections /\ Numbering /\ DispatchPhases /\ TerminalPhases
  BY DEF Projections, Numbering, DispatchPhases, TerminalPhases, Finalizing, JobTerminal
<1>3. Slots /\ Attempts /\ FirstAttempts
  BY DEF Slots, Attempts, FirstAttempts, Pending
<1>4. Records /\ Writes /\ Retries /\ Promises /\ Known
  BY DEF Records, Writes, Retries, Promises, Known, Pending, Underway
<1>5. Views /\ DurableBeforePublished
  BY DEF Views, DurableBeforePublished, JobTerminal
<1>6. Caps /\ NoLostWakeup
  <2>1. ActiveTasks = {}
    BY DEF ActiveTasks
  <2>2. \A l \in Lanes : {t \in ActiveTasks : LaneOf[t] = l} = {}
    BY <2>1
  <2>3. MaxRunning \in Nat /\ \A l \in Lanes : LaneCap[l] \in Nat
    OBVIOUS
  <2> QED
    BY <2>1, <2>2, <2>3, FS_EmptySet DEF Caps, NoLostWakeup
<1> QED
  BY <1>1, <1>2, <1>3, <1>4, <1>5, <1>6 DEF IInv

\* Every step stays in it.
LEMMA NextIInv == IInv /\ [Next]_vars => IInv'
BY TypeNext, ProjectionsNext, NumberingNext, DispatchPhasesNext, TerminalPhasesNext, SlotsNext,
   AttemptsNext, FirstAttemptsNext, RecordsNext, WritesNext, RetriesNext, PromisesNext, KnownNext,
   ViewsNext, DurableBeforePublishedNext, CapsNext, NoLostWakeupNext
   DEF IInv

\* The inductive invariant holds of every state of the Session.
THEOREM Inductive == Spec => []IInv
BY InitIInv, NextIInv, PTL DEF Spec

--------------------------------------------------------------------------------
(* From here on an action is expanded where a step says so. *)

HIDE DEF entryVars, schedVars, jobVars, viewVars, clientVars, RequestDrain, ReleaseSlot,
         ReleaseCorrelation, RejectBeforeJob, Forget, Settle, Publish, Put, PutRejected, Finalized

(* Safety *)

\* Every variable of the Session keeps its type.
THEOREM TypeCorrect == Spec => []TypeOK
<1>1. IInv => TypeOK
  BY DEF IInv
<1> QED
  BY <1>1, Inductive, PTL

\* A live entry is pending, so that Attempts speaks of it.
LEMMA LivePending ==
  ASSUME IInv, NEW e \in Entries, Live(e)
  PROVE  e \in Pending /\ (e \in queue \/ job[e] # "none")
<1> USE DEF IInv
<1>1. CASE e \in queue
  BY <1>1 DEF Pending
<1>2. CASE HoldsSlot(e)
  <2>1. e \in queue \/ e \in correlated
    BY <1>2 DEF HoldsSlot, Slots, Entries
  <2>2. e \in correlated => job[e] # "none"
    BY DEF TerminalPhases, DispatchPhases, Finalizing, JobTerminal, TypeOK
  <2> QED
    BY <2>1, <2>2 DEF Pending
<1> QED
  BY <1>1, <1>2 DEF Live

\* However submissions, admissions, retries and dispose interleave, a Task never has two
\* live attempts.
THEOREM OneAttemptPerTask == Spec => []OneLiveAttempt
<1>1. IInv => OneLiveAttempt
  BY LivePending DEF OneLiveAttempt, IInv, Attempts
<1> QED
  BY <1>1, Inductive, PTL

\* A Task that is queued, running or has run is never submitted a second time.
THEOREM TasksStayKnown == Spec => []KnownTasks
<1>1. IInv => KnownTasks
  BY LivePending DEF KnownTasks, IInv, Known
<1> QED
  BY <1>1, Inductive, PTL

\* A Task is submitted once and attempted once at a time.
THEOREM OneAttemptAlways == Spec => []OneAttempt
  BY OneAttemptPerTask, TasksStayKnown, PTL DEF OneAttempt

\* Every taken slot has a coroutine that will give it back.
THEOREM SlotsAreOwned == Spec => []SlotHasOwner
<1>1. IInv => SlotHasOwner
  <2> SUFFICES ASSUME IInv, NEW t \in Tasks, active[t] # NoEntry
               PROVE  LET e == active[t] IN
                      /\ task[e] = t
                      /\ \/ pc[e] \in {"readiness", "persisting", "executing", "failing"}
                         \/ pc[e] = "flushing" /\ e \in correlated
                         \/ terminal[e] \in {"projecting", "persisting", "following"}
    BY DEF SlotHasOwner
  <2>1. active[t] \in Entries /\ task[active[t]] = t
    BY DEF IInv, TypeOK, Slots
  <2> QED
    BY <2>1 DEF IInv, Slots, TerminalPhases, Finalizing
<1> QED
  BY <1>1, Inductive, PTL

\* While a Session lives, a pending Retry has a live entry that will settle it.
THEOREM RetriesAreOwned == Spec => []RetryPromiseOwned
<1>1. IInv => RetryPromiseOwned
  BY PendingLive DEF RetryPromiseOwned, IInv, Promises
<1> QED
  BY <1>1, Inductive, PTL

\* An entry that could start never waits without an armed drain timer.
THEOREM WakeupsAreKept == Spec => []NoLostWakeup
<1>1. IInv => NoLostWakeup
  BY DEF IInv
<1> QED
  BY <1>1, Inductive, PTL

\* A Job shown as completed, or offered for Retry, has its terminal Task in the store.
THEOREM DurableFirst == Spec => []DurableBeforePublished
<1>1. IInv => DurableBeforePublished
  BY DEF IInv
<1> QED
  BY <1>1, Inductive, PTL

\* The Jobs on a backend are the entries of different taken slots.
LEMMA SlotPerJob ==
  ASSUME IInv, NEW S \in SUBSET OnBackend, NEW T \in SUBSET ActiveTasks,
         \A e \in S : task[e] \in ActiveTasks => task[e] \in T
  PROVE  Cardinality(S) <= Cardinality(T) /\ Cardinality(S) \in Nat
<1> USE DEF IInv
<1> DEFINE f == [e \in S |-> task[e]]
<1>1. \A e \in S : e \in Entries /\ e \in correlated /\ task[e] \in Tasks
  BY DEF OnBackend, TerminalPhases, DispatchPhases
<1>2. \A e \in S : active[task[e]] = e /\ task[e] \in T
  BY <1>1 DEF Slots, ActiveTasks, Entries
<1>3. f \in Injection(S, T)
  BY <1>2 DEF Injection, IsInjective
<1>4. IsFiniteSet(T)
  BY CountTasks DEF ActiveTasks
<1>5. IsFiniteSet(S) /\ Cardinality(S) <= Cardinality(T)
  BY <1>3, <1>4, FS_Injection
<1> QED
  BY <1>5, FS_CardinalityType

\* At most MaxRunning Jobs run at once.
THEOREM GlobalCapHolds == Spec => []GlobalCap
<1>1. ASSUME IInv PROVE GlobalCap
  <2>1. Cardinality(OnBackend) <= Cardinality(ActiveTasks) /\ Cardinality(OnBackend) \in Nat
    BY <1>1, SlotPerJob
  <2>2. Cardinality(ActiveTasks) <= MaxRunning
    BY <1>1 DEF IInv, Caps
  <2>3. Cardinality(ActiveTasks) \in Nat /\ MaxRunning \in Nat
    BY CountTasks DEF ActiveTasks
  <2> QED
    BY <2>1, <2>2, <2>3 DEF GlobalCap
<1> QED
  BY <1>1, Inductive, PTL

\* At most LaneCap[l] Jobs of the lane l run at once.
THEOREM LaneCaps == Spec => []LaneCapHolds
<1>1. ASSUME IInv, NEW l \in Lanes
      PROVE  Cardinality({e \in OnBackend : Lane(e) = l}) <= LaneCap[l]
  <2> DEFINE S == {e \in OnBackend : Lane(e) = l}
             T == {t \in ActiveTasks : LaneOf[t] = l}
  <2>1. Cardinality(S) <= Cardinality(T) /\ Cardinality(S) \in Nat
    BY <1>1, SlotPerJob DEF Lane
  <2>2. Cardinality(T) <= LaneCap[l]
    BY <1>1 DEF IInv, Caps
  <2>3. Cardinality(T) \in Nat /\ LaneCap[l] \in Nat
    BY CountTasks DEF ActiveTasks
  <2> QED
    BY <2>1, <2>2, <2>3
<1>2. IInv => LaneCapHolds
  BY <1>1 DEF LaneCapHolds
<1> QED
  BY <1>2, Inductive, PTL

\* No more Jobs run than both caps allow.
THEOREM CapsHoldAlways == Spec => []CapsHold
  BY GlobalCapHolds, LaneCaps, PTL DEF CapsHold

--------------------------------------------------------------------------------
(* Action properties *)

\* After dispose() no dispatch creates a Job.
THEOREM DisposeFencesJobs == Spec => NoJobAfterDispose
<1>1. ASSUME IInv, [Next]_vars, disposed, NEW e \in Entries, job[e] = "none"
      PROVE  job'[e] = "none"
  <2>1. ASSUME NEW d \in Entries, RunningPersisted(d) PROVE job'[e] = "none"
    BY <1>1, <2>1 DEF RunningPersisted, IInv, TypeOK, DispatchPhases
  <2>2. ASSUME NEW d \in Entries, NEW s \in JobTerminal, ExecutionEnds(d, s)
        PROVE  job'[e] = "none"
    BY <1>1, <2>2 DEF ExecutionEnds, IInv, TypeOK, DispatchPhases
  <2>3. ASSUME NEW d \in Entries, Readiness(d) PROVE job' = job
    BY <1>1, <2>3 DEF Readiness, ReadinessDropped, ReadinessWait, ReadinessReject,
         ReadinessThrows,
                      ReadinessReady, RejectBeforeJob, jobVars
  <2>4. ASSUME NEW d \in Entries, RunningPersistFails(d) \/ FailedStartEnds(d) \/ FlushEnds(d)
        PROVE  job' = job
    BY <2>4 DEF RunningPersistFails, FailedStartEnds, FlushEnds, jobVars
  <2>5. ASSUME NEW d \in Entries, Terminal(d) PROVE job' = job
    BY <2>5 DEF Terminal, TerminalProjected, TerminalPersisted, TerminalPersistFails, FollowUpEnds
  <2>6. ASSUME NEW d \in Entries, DrainStart(d) \/ RemoveQueuedTask(d) \/ RetryAdmitted(d)
        PROVE  job' = job
    BY <2>6 DEF DrainStart, RemoveQueuedTask, RetryAdmitted, jobVars
  <2>7. ASSUME NEW t \in Tasks, Admitted(t) PROVE job' = job
    BY <2>7 DEF Admitted, jobVars
  <2>8. CASE Quiet \/ Dispose
    BY <1>1, <2>8 DEF Quiet, Dispose, jobVars
  <2> QED
    BY <1>1, QuietSteps, <2>1, <2>2, <2>3, <2>4, <2>5, <2>6, <2>7, <2>8 DEF Moves, Execution
<1>2. IInv /\ [Next]_vars =>
        [disposed => \A e \in Entries : job[e] = "none" => job'[e] = "none"]_vars
  BY <1>1
<1> QED
  BY <1>2, Inductive, PTL DEF Spec, NoJobAfterDispose

\* Only the coroutines of a Job that is not shown as ended publish it.
THEOREM ResultsStay == Spec => PublishedResultStays
<1>1. ASSUME IInv, [Next]_vars, NEW e \in Entries, published[e] \in JobTerminal
      PROVE  published'[e] = published[e]
  <2> USE <1>1 DEF IInv, viewVars, Publish
  <2>1. ASSUME NEW d \in Entries, ReadinessReady(d) PROVE published'[e] = published[e]
    BY <2>1 DEF ReadinessReady, TypeOK, DispatchPhases, Views, JobTerminal
  <2>2. ASSUME NEW d \in Entries, FailedStartEnds(d) PROVE published'[e] = published[e]
    BY <2>2 DEF FailedStartEnds, TypeOK, Views
  <2>3. ASSUME NEW d \in Entries, NEW c \in BOOLEAN, TerminalPersisted(d, c)
        PROVE  published'[e] = published[e]
    BY <2>3 DEF TerminalPersisted, TypeOK, Views
  <2>4. ASSUME NEW d \in Entries, TerminalPersistFails(d) PROVE published'[e] = published[e]
    BY <2>4 DEF TerminalPersistFails, TypeOK, Views
  <2>5. ASSUME NEW d \in Entries,
               \/ ReadinessDropped(d) \/ ReadinessWait(d) \/ ReadinessReject(d) \/ ReadinessThrows(d)
        PROVE  published' = published
    BY <2>5 DEF ReadinessDropped, ReadinessWait, ReadinessReject, ReadinessThrows, RejectBeforeJob
  <2>6. ASSUME NEW d \in Entries, RunningPersisted(d) \/ RunningPersistFails(d) \/ FlushEnds(d)
        PROVE  published' = published
    BY <2>6 DEF RunningPersisted, RunningPersistFails, FlushEnds
  <2>7. ASSUME NEW d \in Entries, NEW s \in JobTerminal, ExecutionEnds(d, s) \/ TerminalProjected(d, s)
        PROVE  published' = published
    BY <2>7 DEF ExecutionEnds, TerminalProjected
  <2>8. ASSUME NEW d \in Entries,
               FollowUpEnds(d) \/ DrainStart(d) \/ RemoveQueuedTask(d) \/ RetryAdmitted(d)
        PROVE  published' = published
    BY <2>8 DEF FollowUpEnds, DrainStart, RemoveQueuedTask, RetryAdmitted
  <2>9. ASSUME NEW t \in Tasks, Admitted(t) PROVE published' = published
    BY <2>9 DEF Admitted
  <2>10. CASE Quiet \/ Dispose
    BY <2>10 DEF Quiet, Dispose
  <2> QED
    BY QuietSteps, <2>1, <2>2, <2>3, <2>4, <2>5, <2>6, <2>7, <2>8, <2>9, <2>10
       DEF Moves, Readiness, Execution, Terminal
<1>2. IInv /\ [Next]_vars =>
        [\A e \in Entries : published[e] \in JobTerminal => published'[e] = published[e]]_vars
  BY <1>1
<1> QED
  BY <1>2, Inductive, PTL DEF Spec, PublishedResultStays

\* The slots of a lane are held by as many entries.
LEMMA SlotHolders ==
  ASSUME IInv, NEW d \in Entries

  PROVE   /\ Cardinality({x \in Entries : HoldsSlot(x) /\ Lane(x) = Lane(d)}) >= LaneRunningCount(d)
<1> DEFINE T == {t \in ActiveTasks : active[t] # d /\ LaneOf[t] = Lane(d)}
           X == {x \in Entries : HoldsSlot(x) /\ Lane(x) = Lane(d)}
           f == [t \in T |-> active[t]]
<1>1. \A t \in T : active[t] \in X /\ task[active[t]] = t
  BY DEF IInv, TypeOK, Slots, ActiveTasks, HoldsSlot, Lane
<1>2. f \in Injection(T, X)
  BY <1>1 DEF Injection, IsInjective
<1>3. IsFiniteSet(X)
  <2>1. MaxEntries \in Int /\ IsFiniteSet(Entries)
    BY FS_Interval DEF Entries
  <2> QED
    BY <2>1, FS_Subset
<1>4. Cardinality(T) <= Cardinality(X) /\ Cardinality(X) \in Nat /\ Cardinality(T) \in Nat
  BY <1>2, <1>3, FS_Injection, FS_CardinalityType
<1> QED
  BY <1>4 DEF LaneRunningCount

\* An entry is started ahead of an earlier one only when that one's lane is full.
THEOREM StartsInOrder == Spec => FifoStart
<1>1. ASSUME IInv, NEW e \in Entries, DrainStart(e), NEW d \in queue, d < e, pc[d] = "queued"
      PROVE  /\ Lane(d) # NoLane
             /\ Cardinality({x \in Entries : HoldsSlot(x) /\ Lane(x) = Lane(d)}) >= LaneCap[Lane(d)]
  <2>1. d \in Entries /\ skipped = {}
    BY <1>1 DEF IInv, TypeOK, Caps, DrainStart
  <2>2. ~Eligible(d)
    BY <1>1, <2>1 DEF DrainStart, EarliestEligible, Entries
  <2>3. Lane(d) # NoLane /\ ~(LaneRunningCount(d) < LaneCap[Lane(d)])
    BY <1>1, <2>1, <2>2 DEF Eligible
  <2> DEFINE X == {x \in Entries : HoldsSlot(x) /\ Lane(x) = Lane(d)}
  <2>4. Cardinality(X) >= LaneRunningCount(d)
    BY <1>1, <2>1, SlotHolders
  <2>5. LaneRunningCount(d) \in Nat
    BY CountTasks DEF LaneRunningCount, ActiveTasks
  <2>6. Cardinality(X) \in Nat
    <3>1. IsFiniteSet(Entries)
      BY FS_Interval DEF Entries
    <3> QED
      BY <3>1, FS_Subset, FS_CardinalityType
  <2>7. LaneCap[Lane(d)] \in Nat
    <3>1. task[d] \in Tasks
      BY <1>1, <2>1 DEF IInv, DispatchPhases
    <3> QED
      BY <3>1, <2>3 DEF Lane
  <2> QED
    BY <2>3, <2>4, <2>5, <2>6, <2>7
<1>2. ASSUME IInv, [Next]_vars, NEW e \in Entries, pc[e] = "queued", pc'[e] = "readiness"
      PROVE  DrainStart(e)
  <2> USE <1>2 DEF IInv
  <2>1. ASSUME NEW d \in Entries, DrainStart(d) PROVE DrainStart(e)
    BY <2>1 DEF DrainStart, TypeOK
  <2>2. CASE Quiet
    BY <2>2 DEF Quiet
  <2>3. ASSUME NEW t \in Tasks, Admitted(t) PROVE FALSE
    BY <2>3 DEF Admitted, Push, TypeOK
  <2>4. ASSUME NEW d \in Entries, Readiness(d) PROVE FALSE
    BY <2>4 DEF Readiness, ReadinessDropped, ReadinessWait, ReadinessReject, ReadinessThrows,
                ReadinessReady, RejectBeforeJob, TypeOK
  <2>5. ASSUME NEW d \in Entries, Execution(d) PROVE FALSE
    BY <2>5 DEF Execution, RunningPersisted, RunningPersistFails, FailedStartEnds, ExecutionEnds,
                FlushEnds, TypeOK
  <2>6. ASSUME NEW d \in Entries, Terminal(d) PROVE FALSE
    BY <2>6 DEF Terminal, TerminalProjected, TerminalPersisted, TerminalPersistFails, FollowUpEnds
  <2>7. ASSUME NEW d \in Entries, RemoveQueuedTask(d) \/ RetryAdmitted(d) PROVE FALSE
    BY <2>7 DEF RemoveQueuedTask, RetryAdmitted, Push, TypeOK
  <2>8. CASE Dispose
    BY <2>8 DEF Dispose
  <2> QED
    BY QuietSteps, <2>1, <2>2, <2>3, <2>4, <2>5, <2>6, <2>7, <2>8 DEF Moves
<1>3. IInv /\ [Next]_vars =>
        [\A e \in Entries : pc[e] = "queued" /\ pc'[e] = "readiness" =>
           \A d \in queue : d < e /\ pc[d] = "queued" =>
             /\ Lane(d) # NoLane
             /\ Cardinality({x \in Entries : HoldsSlot(x) /\ Lane(x) = Lane(d)}) >= LaneCap[Lane(d)]]_vars
  BY <1>1, <1>2
<1> QED
  BY <1>3, Inductive, PTL DEF Spec, FifoStart

--------------------------------------------------------------------------------
(* Refinement: each write of the Session to the Task store is a step of DurableTask. *)

\* The attempts of a Task that are not free are behind the pending one.
LEMMA NewestAttempt ==
  ASSUME IInv, NEW e \in Pending, record[task[e]].job # e
  PROVE  /\ e \in Entries /\ task[e] \in Tasks
         /\ Durable!MayStart(task[e], e)
<1> USE DEF IInv
<1>1. e \in Entries /\ task[e] \in Tasks
  BY DEF Pending, TypeOK, DispatchPhases, TerminalPhases, Finalizing
<1>2. record[task[e]].status \in {"absent", "failed"}
  BY <1>1 DEF Writes
<1>3. record[task[e]].job \in Entries \cup {0}
  BY <1>1 DEF TypeOK
<1>4. CASE record[task[e]].job \in Entries
  <2>1. task[record[task[e]].job] = task[e] /\ job[record[task[e]].job] # "none"
    BY <1>1, <1>4 DEF Records, Entries
  <2>2. record[task[e]].job <= e
    BY <2>1, <1>4 DEF Attempts, DispatchPhases
  <2> QED
    BY <1>1, <1>2, <1>4, <2>2 DEF Durable!MayStart, Entries
<1>5. CASE record[task[e]].job = 0
  BY <1>1, <1>2, <1>5 DEF Durable!MayStart, Entries
<1> QED
  BY <1>1, <1>3, <1>4, <1>5

\* The initial store.
LEMMA DurableInit == Init => Durable!Init
BY DEF Init, Durable!Init, Durable!NoAttempt

\* A terminal write ends the attempt the record is about.
LEMMA TerminalWrite ==
  ASSUME IInv, NEW e \in Entries, terminal[e] = "persisting", PutRejected(e, projected[e])
  PROVE  [Durable!Next]_record
<1> USE DEF IInv
<1>1. task[e] \in Tasks /\ projected[e] \in JobTerminal
  BY DEF TerminalPhases, DispatchPhases, Projections
<1>2. record[task[e]].status = "running" /\ record[task[e]].job = e
  BY DEF Writes, Underway
<1>3. record[task[e]] \in [status : TaskStatus, job : Entries \cup {0}]
  BY <1>1 DEF TypeOK
<1>4. [record[task[e]] EXCEPT !.status = projected[e]] = [status |-> projected[e], job |-> e]
  BY <1>2, <1>3
<1>5. Put(e, projected[e]) => Durable!Finish(task[e], projected[e])
  BY <1>2, <1>4 DEF Put, Durable!Finish
<1> QED
  BY <1>1, <1>5 DEF PutRejected, Durable!Next, Durable!Ended, JobTerminal

\* Every step maps to a step or a stutter.
LEMMA DurableNext == ASSUME IInv, [Next]_vars PROVE [Durable!Next]_record
<1> USE DEF IInv
<1>1. ASSUME NEW e \in Entries, pc[e] = "persisting", PutRejected(e, "running")
      PROVE  [Durable!Next]_record
  <2>1. e \in Pending /\ record[task[e]].job # e
    BY <1>1 DEF Pending, TerminalPhases, Writes
  <2>2. Put(e, "running") => Durable!Start(task[e], e)
    BY <2>1, NewestAttempt DEF Put, Durable!Start
  <2> QED
    BY <1>1, <2>1, <2>2, NewestAttempt DEF PutRejected, Durable!Next
<1>2. ASSUME NEW e \in Entries, pc[e] = "failing", PutRejected(e, "failed")
      PROVE  [Durable!Next]_record
  <2>1. e \in Pending /\ task[e] \in Tasks
    BY <1>2 DEF Pending, TerminalPhases, DispatchPhases
  <2>2. CASE record[task[e]].job # e
    BY <1>2, <2>1, <2>2, NewestAttempt DEF PutRejected, Put, Durable!FailToStart, Durable!Next
  <2>3. CASE record[task[e]].job = e
    <3>1. record[task[e]].status = "running"
      BY <1>2, <2>3 DEF Writes
    <3>2. record[task[e]] \in [status : TaskStatus, job : Entries \cup {0}]
      BY <2>1 DEF TypeOK
    <3>3. [record[task[e]] EXCEPT !.status = "failed"] = [status |-> "failed", job |-> e]
      BY <2>3, <3>2
    <3>4. Put(e, "failed") => Durable!Finish(task[e], "failed")
      BY <3>1, <3>3 DEF Put, Durable!Finish
    <3> QED
      BY <1>2, <2>1, <3>4 DEF PutRejected, Durable!Next, Durable!Ended
  <2> QED
    BY <2>2, <2>3
<1>3. ASSUME NEW e \in Entries, Execution(e) PROVE [Durable!Next]_record
  <2>1. CASE RunningPersisted(e)
    BY <1>1, <2>1 DEF RunningPersisted, PutRejected
  <2>2. CASE RunningPersistFails(e)
    BY <1>1, <2>2 DEF RunningPersistFails
  <2>3. CASE FailedStartEnds(e)
    BY <1>2, <2>3 DEF FailedStartEnds
  <2>4. ASSUME NEW s \in JobTerminal, ExecutionEnds(e, s) PROVE record' = record
    BY <2>4 DEF ExecutionEnds
  <2>5. CASE FlushEnds(e)
    BY <2>5 DEF FlushEnds
  <2> QED
    BY <1>3, <2>1, <2>2, <2>3, <2>4, <2>5 DEF Execution
<1>4. ASSUME NEW e \in Entries, Terminal(e) PROVE [Durable!Next]_record
  <2>1. ASSUME NEW s \in JobTerminal, TerminalProjected(e, s) PROVE record' = record
    BY <2>1 DEF TerminalProjected
  <2>2. ASSUME NEW c \in BOOLEAN, TerminalPersisted(e, c) PROVE [Durable!Next]_record
    BY <2>2, TerminalWrite DEF TerminalPersisted, PutRejected
  <2>3. CASE TerminalPersistFails(e)
    BY <2>3, TerminalWrite DEF TerminalPersistFails
  <2>4. CASE FollowUpEnds(e)
    BY <2>4 DEF FollowUpEnds
  <2> QED
    BY <1>4, <2>1, <2>2, <2>3, <2>4 DEF Terminal
<1>5. ASSUME NEW e \in Entries,
             DrainStart(e) \/ Readiness(e) \/ RemoveQueuedTask(e) \/ RetryAdmitted(e)
      PROVE  record' = record
  BY <1>5 DEF DrainStart, Readiness, ReadinessDropped, ReadinessWait, ReadinessReject,
              ReadinessThrows, ReadinessReady, RejectBeforeJob, RemoveQueuedTask, RetryAdmitted
<1>6. CASE Quiet \/ Dispose \/ \E t \in Tasks : Admitted(t)
  BY <1>6 DEF Quiet, Dispose, Admitted
<1> QED
  BY QuietSteps, <1>3, <1>4, <1>5, <1>6 DEF Moves

\* The Session implements DurableTask: whatever a reader of the Task store sees is the life
\* of a Task, one attempt after the other.
THEOREM Refinement == Spec => ImplementsDurableTask
<1>1. Durable!Spec <=> Durable!Init /\ [][Durable!Next]_record
  BY DEF Durable!Spec
<1>2. IInv /\ [Next]_vars => [Durable!Next]_record
  BY DurableNext
<1> QED
  BY <1>1, <1>2, DurableInit, Inductive, PTL DEF Spec, ImplementsDurableTask

================================================================================
