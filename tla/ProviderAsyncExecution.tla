------------------------ MODULE ProviderAsyncExecution ------------------------
(***************************************************************************)
(* The execution manager of asynchronous Providers (application/generation/ *)
(* provider-async-execution-manager.ts): one paid submission per Job, then  *)
(* a loop of sleep and poll until the remote Task ends or the budget of     *)
(* polls or of elapsed time is spent.                                       *)
(*                                                                         *)
(* Time is counted in units and saturates at MaxElapsed, above which the    *)
(* code tells no two values apart.  A second execute of a Job in flight     *)
(* returns the same promise and one of a started Job is refused: both are   *)
(* steps that change nothing, so they are left out.  The remote outputs     *)
(* hook has no caller in the Application.                                   *)
(***************************************************************************)
EXTENDS Naturals, FiniteSetsExt

CONSTANTS
  Jobs,
  MaxPolls,      \* policy.asyncTask.maxPolls
  MaxElapsed,    \* policy.asyncTask.timeoutMs
  MinPollDelay,  \* policy.asyncTask.pollIntervalMs
  MaxPollDelay

VARIABLES
  pc,        \* Job -> "new", "submitting", "sleeping", "polling", "completed" or "failed"
  started,   \* startedJobIds
  aborted,   \* the Jobs whose controller, or invoke signal, is aborted
  disposed,
  submits,   \* Job -> calls of lifecycle.submit
  polls,     \* Job -> polls
  elapsed,   \* Job -> now() - startedAt, at most MaxElapsed
  delay      \* Job -> nextDelayMs

managerVars == <<pc, started, aborted, disposed, submits, polls, elapsed, delay>>

InFlight == {j \in Jobs : pc[j] \in {"submitting", "sleeping", "polling"}}
Ended(j) == pc[j] \in {"completed", "failed"}

ManagerTypeOK ==
  /\ pc \in [Jobs -> {"new", "submitting", "sleeping", "polling", "completed", "failed"}]
  /\ started \subseteq Jobs /\ aborted \subseteq Jobs /\ disposed \in BOOLEAN
  /\ submits \in [Jobs -> Nat] /\ polls \in [Jobs -> Nat]
  /\ elapsed \in [Jobs -> 0 .. MaxElapsed] /\ delay \in [Jobs -> Nat]

ManagerInit ==
  /\ pc = [j \in Jobs |-> "new"]
  /\ started = {} /\ aborted = {} /\ disposed = FALSE
  /\ submits = [j \in Jobs |-> 0] /\ polls = [j \in Jobs |-> 0]
  /\ elapsed = [j \in Jobs |-> 0] /\ delay = [j \in Jobs |-> 0]

\* delayFor: nextPollAfterMs clamped, MinPollDelay when the lifecycle suggests none.
DelayFor(suggested) == Max({MinPollDelay, Min({MaxPollDelay, suggested})})

\* The clock after a wait of `spent` units, and after a call of any length.
Later(j, spent) == Min({MaxElapsed, elapsed[j] + spent})
ClockAfter(j) == elapsed[j] .. MaxElapsed

(***************************************************************************)
(* The loop: budget check, then sleep, which rejects at once when aborted.  *)
(* Its locals are reset when it ends.                                       *)
(***************************************************************************)
\* MUTANT of OutOfBudget: one poll more than maxPolls.
OutOfBudgetLate(j, time) == polls[j] > MaxPolls \/ time >= MaxElapsed
OutOfBudget(j, time) == polls[j] >= MaxPolls \/ time >= MaxElapsed

Ends(j, outcome) ==
  /\ pc' = [pc EXCEPT ![j] = outcome]
  /\ elapsed' = [elapsed EXCEPT ![j] = 0] /\ delay' = [delay EXCEPT ![j] = 0]
  /\ UNCHANGED <<started, aborted, disposed, submits, polls>>

Sleeps(j, time, suggested) ==
  /\ pc' = [pc EXCEPT ![j] = "sleeping"]
  /\ elapsed' = [elapsed EXCEPT ![j] = time]
  /\ delay' = [delay EXCEPT ![j] = DelayFor(suggested)]
  /\ UNCHANGED <<started, aborted, disposed, submits, polls>>

\* MUTANT of Waits: the counters are reset in every round.
WaitsAfresh(j, time, suggested) ==
  /\ elapsed' = [elapsed EXCEPT ![j] = 0] /\ polls' = [polls EXCEPT ![j] = 0]
  /\ pc' = [pc EXCEPT ![j] = IF j \in aborted THEN "failed" ELSE "sleeping"]
  /\ delay' = [delay EXCEPT ![j] = DelayFor(suggested)]
  /\ UNCHANGED <<started, aborted, disposed, submits>>

Waits(j, time, suggested) ==
  IF OutOfBudget(j, time) \/ j \in aborted THEN Ends(j, "failed")
  ELSE Sleeps(j, time, suggested)

(***************************************************************************)
(* The steps of one execution.                                             *)
(***************************************************************************)
Executable(j) == ~disposed /\ j \notin started

Execute(j) ==
  /\ Executable(j) /\ j \notin aborted
  /\ started' = started \cup {j}
  /\ pc' = [pc EXCEPT ![j] = "submitting"]
  /\ submits' = [submits EXCEPT ![j] = @ + 1]
  /\ UNCHANGED <<aborted, disposed, polls, elapsed, delay>>

\* execute with a signal that is already aborted: nothing is submitted.
ExecuteAborted(j) ==
  /\ Executable(j) /\ j \in aborted
  /\ started' = started \cup {j}
  /\ pc' = [pc EXCEPT ![j] = "failed"]
  /\ UNCHANGED <<aborted, disposed, submits, polls, elapsed, delay>>

SubmitPending(j, time, suggested) ==
  pc[j] = "submitting" /\ time \in ClockAfter(j) /\ Waits(j, time, suggested)

SubmitFails(j) == pc[j] = "submitting" /\ Ends(j, "failed")

\* sleep resolves, no earlier than its delay, and the remote Task is polled.
PollStarts(j) ==
  /\ pc[j] = "sleeping"
  /\ pc' = [pc EXCEPT ![j] = "polling"]
  /\ polls' = [polls EXCEPT ![j] = @ + 1]
  /\ elapsed' = [elapsed EXCEPT ![j] = Later(j, delay[j])]
  /\ UNCHANGED <<started, aborted, disposed, submits, delay>>

PollPending(j, time, suggested) ==
  pc[j] = "polling" /\ time \in ClockAfter(j) /\ Waits(j, time, suggested)

PollCompletes(j) == pc[j] = "polling" /\ Ends(j, "completed")
PollFails(j) == pc[j] = "polling" /\ Ends(j, "failed")

Stopped(js) == [j \in Jobs |-> IF j \in js /\ pc[j] = "sleeping" THEN "failed" ELSE pc[j]]

\* The signal of the invocation: it ends a sleep, an await only if its port listens.
AbortJob(j) ==
  /\ j \notin aborted /\ ~Ended(j)
  /\ aborted' = aborted \cup {j} /\ pc' = Stopped({j})
  /\ UNCHANGED <<started, disposed, submits, polls, elapsed, delay>>

DisposeManager ==
  /\ ~disposed
  /\ disposed' = TRUE
  /\ aborted' = aborted \cup InFlight /\ pc' = Stopped(InFlight)
  /\ started' = {}
  /\ UNCHANGED <<submits, polls, elapsed, delay>>

(***************************************************************************)
(* Properties.                                                             *)
(***************************************************************************)

\* The paid submission of a Job happens at most once, whatever is aborted,
\* disposed or executed again (provider-async-execution-manager.ts:98-106).
SubmitOnce == \A j \in Jobs : submits[j] <= 1

\* The polls of a Job stay within both budgets: the last one began before the
\* elapsed time ran out, each after at least the minimal delay (lines 122-126).
PollBudget ==
  \A j \in Jobs : polls[j] > 0 =>
    polls[j] <= MaxPolls /\ (polls[j] - 1) * MinPollDelay < MaxElapsed
=============================================================================
