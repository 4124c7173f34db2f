---------------------------- MODULE GrsaiExecution ----------------------------
(***************************************************************************)
(* GRSAI generations: the asynchronous lifecycle of                         *)
(* providers/grsai/provider.ts under the execution manager.  Its submit     *)
(* reads the balance of the account, then posts the Task; its poll asks for *)
(* the Task and, when it succeeded, reads the balance again and reports the *)
(* difference as the usage of this Task, unless other Tasks overlapped.     *)
(* The server charges a Task, if at all, before its POST ends or times out. *)
(*                                                                         *)
(* A remote reference is identified with its Job.  A balance reading is the *)
(* set of Jobs charged so far, so the decrease between two readings is the  *)
(* set of Jobs it stands for.                                              *)
(***************************************************************************)
EXTENDS ProviderAsyncExecution

CONSTANT NoReading  \* the balance could not be read

VARIABLES
  step,        \* Job -> the await of submit or poll it is in, or "idle"
  pending,     \* pendingSubmissions
  concurrent,  \* the Jobs whose wasConcurrent is true
  active,      \* activeRemoteRefs
  ambiguous,   \* ambiguousRemoteRefs
  before,      \* Job -> its balanceBefore
  charged,     \* the Jobs the server has charged
  usage,       \* Job -> the Jobs its reported usage pays for
  opened,      \* history: Job -> what was charged when its submit began
  closed       \* history: Job -> what was charged when its submit had answered

history == <<opened, closed>>
grsaiVars == <<step, pending, concurrent, active, ambiguous, before, charged, usage, history>>
vars == <<managerVars, grsaiVars>>

TypeOK ==
  /\ ManagerTypeOK
  /\ step \in [Jobs -> {"idle", "before", "post", "get", "after"}]
  /\ \A j \in Jobs : /\ step[j] \in {"before", "post"} <=> pc[j] = "submitting"
                     /\ step[j] \in {"get", "after"} <=> pc[j] = "polling"
  /\ pending = Cardinality({j \in Jobs : pc[j] = "submitting"})
  /\ concurrent \subseteq Jobs /\ active \subseteq Jobs /\ ambiguous \subseteq active
  /\ before \in [Jobs -> (SUBSET Jobs) \cup {NoReading}]
  /\ charged \subseteq Jobs /\ usage \in [Jobs -> SUBSET Jobs]
  /\ opened \in [Jobs -> SUBSET Jobs] /\ closed \in [Jobs -> SUBSET Jobs]

Init ==
  /\ ManagerInit
  /\ step = [j \in Jobs |-> "idle"]
  /\ pending = 0 /\ concurrent = {} /\ active = {} /\ ambiguous = {}
  /\ before = [j \in Jobs |-> NoReading]
  /\ charged = {} /\ usage = [j \in Jobs |-> {}]
  /\ opened = [j \in Jobs |-> {}] /\ closed = [j \in Jobs |-> {}]

At(j, s) == step' = [step EXCEPT ![j] = s]
Accounting == <<pending, concurrent, active, ambiguous, before, charged, usage, history>>

\* readBalanceValue: it never throws; a failure, the timeout of 5 s or an
\* abort gives no reading.
Readings(j) == {NoReading} \cup (IF j \in aborted THEN {} ELSE {charged})

\* MUTANT of Submit: the Tasks already active are not marked.
SubmitUnmarked(j) ==
  /\ Execute(j)
  /\ At(j, "before")
  /\ concurrent' = IF active # {} \/ pending > 0 THEN concurrent \cup {j} ELSE concurrent
  /\ pending' = pending + 1
  /\ opened' = [opened EXCEPT ![j] = charged]
  /\ UNCHANGED <<active, ambiguous, before, charged, usage, closed>>

Submit(j) ==
  /\ Execute(j)
  /\ At(j, "before")
  /\ concurrent' = IF active # {} \/ pending > 0 THEN concurrent \cup {j} ELSE concurrent
  /\ ambiguous' = ambiguous \cup active
  /\ pending' = pending + 1
  /\ opened' = [opened EXCEPT ![j] = charged]
  /\ UNCHANGED <<active, before, charged, usage, closed>>

Refused(j) == ExecuteAborted(j) /\ UNCHANGED grsaiVars

BalanceRead(j) ==
  /\ step[j] = "before" /\ At(j, "post")
  /\ \E reading \in Readings(j) : before' = [before EXCEPT ![j] = reading]
  /\ UNCHANGED <<managerVars, pending, concurrent, active, ambiguous, charged, usage, history>>

Overlaps(j) == j \in concurrent \/ active # {} \/ pending' > 0

Posted(j) ==
  /\ step[j] = "post" /\ At(j, "idle")
  /\ \E time \in ClockAfter(j) : SubmitPending(j, time, MinPollDelay)
  /\ pending' = pending - 1
  /\ ambiguous' = IF Overlaps(j) THEN ambiguous \cup active \cup {j} ELSE ambiguous
  /\ active' = active \cup {j}
  /\ charged' = charged \cup {j}
  /\ closed' = [closed EXCEPT ![j] = charged']
  /\ UNCHANGED <<concurrent, before, usage, opened>>

\* The POST fails; the server may have accepted and charged the Task.
PostFails(j) ==
  /\ step[j] = "post" /\ At(j, "idle")
  /\ SubmitFails(j)
  /\ pending' = pending - 1
  /\ charged' \in {charged, charged \cup {j}}
  /\ UNCHANGED <<concurrent, active, ambiguous, before, usage, history>>

Poll(j) == PollStarts(j) /\ At(j, "get") /\ UNCHANGED Accounting

Forget(j) ==
  /\ active' = active \ {j} /\ ambiguous' = ambiguous \ {j}
  /\ before' = [before EXCEPT ![j] = NoReading]
  /\ UNCHANGED <<pending, concurrent, charged, history>>

TaskRunning(j) ==
  /\ step[j] = "get" /\ At(j, "idle")
  /\ \E time \in ClockAfter(j) : PollPending(j, time, MinPollDelay)
  /\ UNCHANGED Accounting

\* The GET throws: the execution fails, the reference stays active.
PollThrows(j) == step[j] = "get" /\ At(j, "idle") /\ PollFails(j) /\ UNCHANGED Accounting

TaskFailed(j) ==
  step[j] = "get" /\ At(j, "idle") /\ PollFails(j) /\ Forget(j) /\ UNCHANGED usage

TaskSucceeded(j) ==
  step[j] = "get" /\ At(j, "after") /\ UNCHANGED <<managerVars, Accounting>>

Decrease(j, reading) ==
  IF j \in ambiguous \/ NoReading \in {before[j], reading} THEN {} ELSE reading \ before[j]

BalanceReadAgain(j) ==
  /\ step[j] = "after" /\ At(j, "idle")
  /\ \E reading \in Readings(j) :
       \/ PollCompletes(j) /\ usage' = [usage EXCEPT ![j] = Decrease(j, reading)]
       \/ PollFails(j) /\ UNCHANGED usage  \* no safe result URL
  /\ Forget(j)

Abort(j) == AbortJob(j) /\ UNCHANGED grsaiVars
Dispose == DisposeManager /\ UNCHANGED grsaiVars

Answers(j) ==
  \/ BalanceRead(j) \/ Posted(j) \/ PostFails(j)
  \/ TaskRunning(j) \/ PollThrows(j) \/ TaskFailed(j) \/ TaskSucceeded(j) \/ BalanceReadAgain(j)

Next ==
  \/ \E j \in Jobs : Submit(j) \/ Refused(j) \/ Answers(j) \/ Poll(j) \/ Abort(j)
  \/ Dispose

\* Every HTTP call of the lifecycle has a timeout and a sleep is a timer.
Fairness == \A j \in Jobs : WF_vars(Answers(j) \/ Poll(j))

Spec == Init /\ [][Next]_vars /\ Fairness

\* An execution that was started ends: no wait of submit, sleep or poll, and no
\* number of pending answers, keeps its Job for ever
\* (provider-async-execution-manager.ts:121-146).
ExecutionEnds == \A j \in Jobs : j \in InFlight ~> Ended(j)

\* A reported usage pays for nothing that was charged before its own submit
\* began or after it had answered, whatever overlapped it and whichever balance
\* readings were lost (grsai/provider.ts:119-140, 162-173).
UsageWithinSubmit == \A j \in Jobs : usage[j] \subseteq closed[j] \ opened[j]

\* One submission for each Job, and its polls within the budget.
WithinBudget == SubmitOnce /\ PollBudget
=============================================================================
