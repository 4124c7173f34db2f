------------------------- MODULE GrsaiExecution_proofs -------------------------
(***************************************************************************)
(* WithinBudget for any Jobs and any budgets and delays.  The elapsed time  *)
(* is not the number of polls times the minimal delay, but never less while *)
(* the execution sleeps: that, and that whatever was executed is started or *)
(* the manager is disposed, is what makes the two budgets inductive.        *)
(***************************************************************************)
EXTENDS GrsaiExecution, FiniteSetTheorems, TLAPS

Budgets == {MaxPolls, MaxElapsed, MinPollDelay, MaxPollDelay} \subseteq Nat

Typed ==
  /\ Budgets
  /\ pc \in [Jobs -> {"new", "submitting", "sleeping", "polling", "completed", "failed"}]
  /\ submits \in [Jobs -> Nat] /\ polls \in [Jobs -> Nat]
  /\ elapsed \in [Jobs -> 0 .. MaxElapsed] /\ delay \in [Jobs -> Nat]

\* What was executed is not executed again.
Started(j) ==
  /\ submits[j] \in {0, 1}
  /\ submits[j] = 1 => pc[j] # "new"
  /\ pc[j] # "new" => j \in started \/ disposed

\* Polls and elapsed time of an execution, by the await it is in.
Polled(j) ==
  /\ pc[j] \in {"new", "submitting"} => polls[j] = 0
  /\ pc[j] = "sleeping" =>
       /\ polls[j] < MaxPolls /\ elapsed[j] < MaxElapsed
       /\ polls[j] * MinPollDelay <= elapsed[j] /\ MinPollDelay <= delay[j]
  /\ pc[j] = "polling" =>
       elapsed[j] = MaxElapsed \/ polls[j] * MinPollDelay <= elapsed[j]
  /\ polls[j] > 0 => polls[j] <= MaxPolls /\ (polls[j] - 1) * MinPollDelay < MaxElapsed

IInv == Typed /\ \A j \in Jobs : Started(j) /\ Polled(j)

-----------------------------------------------------------------------------
(* The manager's part of a step. *)

Awaiting(j) == pc[j] \in {"submitting", "polling"}

ExecutionSteps(j) ==
  \/ Execute(j) \/ ExecuteAborted(j) \/ PollStarts(j) \/ AbortJob(j)
  \/ Awaiting(j) /\ \E outcome \in {"completed", "failed"} : Ends(j, outcome)
  \/ Awaiting(j) /\ \E time \in ClockAfter(j) : Sleeps(j, time, MinPollDelay)
                                                /\ ~OutOfBudget(j, time)

LEMMA ManagerSteps ==
  ASSUME [Next]_vars
  PROVE  (\E j \in Jobs : ExecutionSteps(j)) \/ DisposeManager \/ UNCHANGED managerVars
<1>1. ASSUME NEW j \in Jobs, NEW time \in ClockAfter(j), Awaiting(j), Waits(j, time, MinPollDelay)
      PROVE  ExecutionSteps(j)
  BY <1>1 DEF Waits, ExecutionSteps
<1>2. ASSUME NEW j \in Jobs, Posted(j) \/ TaskRunning(j)
      PROVE  ExecutionSteps(j)
  BY <1>1, <1>2 DEF Posted, TaskRunning, SubmitPending, PollPending, Awaiting
<1>3. ASSUME NEW j \in Jobs,
             \/ PostFails(j) \/ PollThrows(j) \/ TaskFailed(j) \/ BalanceReadAgain(j)
      PROVE  ExecutionSteps(j)
  BY <1>3 DEF PostFails, PollThrows, TaskFailed, BalanceReadAgain, SubmitFails, PollFails,
     PollCompletes, Awaiting, ExecutionSteps
<1>4. ASSUME NEW j \in Jobs, Submit(j) \/ Refused(j) \/ Poll(j) \/ Abort(j)
      PROVE  ExecutionSteps(j)
  BY <1>4 DEF Submit, Refused, Poll, Abort, ExecutionSteps
<1>5. ASSUME NEW j \in Jobs, BalanceRead(j) \/ TaskSucceeded(j)
      PROVE  UNCHANGED managerVars
  BY <1>5 DEF BalanceRead, TaskSucceeded
<1>6. CASE Dispose \/ UNCHANGED vars
  BY <1>6 DEF Dispose, vars
<1> QED
  BY <1>2, <1>3, <1>4, <1>5, <1>6 DEF Next, Answers

\* The larger and the smaller of two numbers.
LEMMA Larger ==
  ASSUME NEW m \in Nat, NEW n \in Nat
  PROVE  Max({m, n}) \in {m, n} /\ Max({m, n}) >= m
<1>1. \E x \in {m, n} : \A y \in {m, n} : x >= y
  OBVIOUS
<1>2. Max({m, n}) \in {m, n} /\ \A y \in {m, n} : Max({m, n}) >= y
  BY <1>1 DEF Max
<1> QED
  BY <1>2

LEMMA Smaller ==
  ASSUME NEW m \in Nat, NEW n \in Nat
  PROVE  Min({m, n}) \in {m, n} /\ Min({m, n}) <= m
<1>1. \E x \in {m, n} : \A y \in {m, n} : x =< y
  OBVIOUS
<1>2. Min({m, n}) \in {m, n} /\ \A y \in {m, n} : Min({m, n}) =< y
  BY <1>1 DEF Min
<1> QED
  BY <1>2

\* A sleep lasts at least the minimal delay.
LEMMA DelayAtLeast ==
  ASSUME Budgets
  PROVE  DelayFor(MinPollDelay) \in Nat /\ MinPollDelay <= DelayFor(MinPollDelay)
  BY Larger, Smaller DEF Budgets, DelayFor

-----------------------------------------------------------------------------
LEMMA InitKeeps ==
  ASSUME Budgets, Init
  PROVE  IInv
<1>1. \A n \in Nat : n * 0 = 0 /\ 0 * n = 0
  OBVIOUS
<1> QED
  BY <1>1 DEF Init, ManagerInit, IInv, Typed, Started, Polled, Budgets

\* A poll begins: it is within both budgets because its sleep was.
LEMMA PollStartsKeeps ==
  ASSUME Typed, NEW j \in Jobs, Polled(j), PollStarts(j)
  PROVE  /\ polls'[j] <= MaxPolls /\ (polls'[j] - 1) * MinPollDelay < MaxElapsed
         /\ elapsed' \in [Jobs -> 0 .. MaxElapsed]
         /\ elapsed'[j] = MaxElapsed \/ polls'[j] * MinPollDelay <= elapsed'[j]
<1> DEFINE p == polls[j]
           e == elapsed[j]
           d == delay[j]
           later == Later(j, delay[j])
<1>1. p \in Nat /\ e \in 0 .. MaxElapsed /\ d \in Nat /\ MaxElapsed \in Nat /\ MinPollDelay \in Nat
  BY DEF Typed, Budgets
<1>2. p < MaxPolls /\ e < MaxElapsed /\ p * MinPollDelay <= e /\ MinPollDelay <= d
  BY DEF Polled, PollStarts
<1>3. later \in {MaxElapsed, e + d} /\ later <= MaxElapsed
  BY <1>1, Smaller DEF Later
<1>4. polls'[j] = p + 1 /\ elapsed' = [elapsed EXCEPT ![j] = later]
  BY DEF Typed, PollStarts
<1>5. (p + 1) * MinPollDelay = p * MinPollDelay + MinPollDelay
  BY <1>1
<1>6. p * MinPollDelay \in Nat
  BY <1>1
<1>7. later = MaxElapsed \/ (p + 1) * MinPollDelay <= later
  <2> HIDE DEF p, e, d, later
  <2> QED
    BY <1>1, <1>2, <1>3, <1>5, <1>6
<1>8. later \in 0 .. MaxElapsed
  <2> HIDE DEF p, e, d, later
  <2> QED
    BY <1>1, <1>3
<1>9. polls'[j] <= MaxPolls /\ polls'[j] - 1 = p
  BY <1>1, <1>2, <1>4 DEF Typed, Budgets
<1>10. elapsed'[j] = later
  BY <1>4 DEF Typed
<1>11. p * MinPollDelay < MaxElapsed
  <2> HIDE DEF p, e
  <2> QED
    BY <1>1, <1>2, <1>6
<1>12. elapsed' \in [Jobs -> 0 .. MaxElapsed]
  <2> HIDE DEF later
  <2> QED
    BY <1>4, <1>8 DEF Typed
<1> QED
  BY <1>4, <1>7, <1>9, <1>10, <1>11, <1>12

\* The execution goes to sleep: its time has not run out.
LEMMA SleepsKeeps ==
  ASSUME Typed, NEW j \in Jobs, Polled(j), Awaiting(j), NEW time \in ClockAfter(j),
         ~OutOfBudget(j, time)
  PROVE  /\ time \in 0 .. MaxElapsed /\ time < MaxElapsed /\ polls[j] < MaxPolls
         /\ polls[j] * MinPollDelay <= time
<1> DEFINE product == polls[j] * MinPollDelay
<1>1. /\ elapsed[j] \in 0 .. MaxElapsed /\ polls[j] \in Nat
      /\ MaxElapsed \in Nat /\ MinPollDelay \in Nat /\ MaxPolls \in Nat
  BY DEF Typed, Budgets
<1>2. time \in 0 .. MaxElapsed /\ elapsed[j] <= time /\ time < MaxElapsed /\ polls[j] < MaxPolls
  BY <1>1 DEF ClockAfter, OutOfBudget
<1>3. product \in Nat
  BY <1>1
<1>4. CASE pc[j] = "submitting"
  <2>1. polls[j] = 0
    BY <1>4 DEF Polled
  <2>2. 0 * MinPollDelay = 0
    BY <1>1
  <2> QED
    BY <1>2, <2>1, <2>2
<1>5. CASE pc[j] = "polling"
  <2>1. elapsed[j] = MaxElapsed \/ product <= elapsed[j]
    BY <1>5 DEF Polled
  <2> HIDE DEF product
  <2>2. product <= time
    BY <1>1, <1>2, <1>3, <2>1
  <2> QED
    BY <1>2, <2>2 DEF product
<1> QED
  BY <1>4, <1>5 DEF Awaiting

LEMMA ExecutionKeeps ==
  ASSUME IInv, NEW j \in Jobs, ExecutionSteps(j)
  PROVE  IInv'
<1>1. Typed /\ Started(j) /\ Polled(j)
  BY DEF IInv
<1>2. ASSUME Typed', Started(j)', Polled(j)', started \subseteq started', disposed' = disposed,
             \A k \in Jobs : k # j =>
               /\ pc'[k] = pc[k] /\ submits'[k] = submits[k] /\ polls'[k] = polls[k]
               /\ elapsed'[k] = elapsed[k] /\ delay'[k] = delay[k]
      PROVE  IInv'
  BY <1>2 DEF IInv, Started, Polled
<1>3. CASE Execute(j) \/ ExecuteAborted(j)
  <2>1. pc[j] = "new" /\ polls[j] = 0 /\ submits[j] = 0
    BY <1>1, <1>3 DEF Execute, ExecuteAborted, Executable, Started, Polled
  <2>2. Typed' /\ \A k \in Jobs : k # j => pc'[k] = pc[k] /\ submits'[k] = submits[k]
    BY <1>1, <1>3 DEF Typed, Execute, ExecuteAborted
  <2>3. Started(j)'
    BY <1>1, <1>3, <2>1 DEF Typed, Execute, ExecuteAborted, Started
  <2>4. Polled(j)'
    BY <1>1, <1>3, <2>1 DEF Typed, Execute, ExecuteAborted, Polled
  <2> QED
    BY <1>2, <1>3, <2>2, <2>3, <2>4 DEF Execute, ExecuteAborted
<1>4. CASE PollStarts(j)
  <2>1. /\ pc[j] = "sleeping" /\ pc'[j] = "polling"
        /\ \A k \in Jobs : k # j =>
             pc'[k] = pc[k] /\ polls'[k] = polls[k] /\ elapsed'[k] = elapsed[k]
    BY <1>1, <1>4 DEF Typed, PollStarts
  <2>2. Typed'
    <3>1. elapsed' \in [Jobs -> 0 .. MaxElapsed]
      BY <1>1, <1>4, PollStartsKeeps
    <3>2. /\ pc' \in [Jobs -> {"new", "submitting", "sleeping", "polling", "completed", "failed"}]
          /\ submits' = submits /\ delay' = delay /\ polls' \in [Jobs -> Nat]
      BY <1>1, <1>4 DEF Typed, PollStarts
    <3> QED
      BY <1>1, <3>1, <3>2 DEF Typed
  <2>3. Started(j)' /\ Polled(j)'
    BY <1>1, <1>4, <2>1, PollStartsKeeps DEF Started, Polled, PollStarts
  <2> QED
    BY <1>2, <1>4, <2>1, <2>2, <2>3 DEF PollStarts
<1>5. CASE AbortJob(j)
  <2>1. \A k \in Jobs : pc'[k] = pc[k] \/ (pc[k] = "sleeping" /\ pc'[k] = "failed")
    BY <1>5 DEF AbortJob, Stopped
  <2>2. /\ Typed' /\ started' = started /\ disposed' = disposed
        /\ UNCHANGED <<submits, polls, elapsed, delay>>
    BY <1>1, <1>5 DEF Typed, AbortJob, Stopped
  <2> QED
    BY <2>1, <2>2 DEF IInv, Started, Polled
<1>6. CASE Awaiting(j) /\ \E outcome \in {"completed", "failed"} : Ends(j, outcome)
  <2>1. /\ Typed' /\ pc'[j] \in {"completed", "failed"}
        /\ \A k \in Jobs : k # j =>
             pc'[k] = pc[k] /\ elapsed'[k] = elapsed[k] /\ delay'[k] = delay[k]
    BY <1>1, <1>6 DEF Typed, Ends, Budgets
  <2>2. UNCHANGED <<started, disposed, submits, polls>>
    BY <1>6 DEF Ends
  <2>3. Started(j)' /\ Polled(j)'
    BY <1>1, <1>6, <2>1, <2>2 DEF Started, Polled, Awaiting
  <2> QED
    BY <1>2, <2>1, <2>2, <2>3
<1>7. ASSUME Awaiting(j), NEW time \in ClockAfter(j), ~OutOfBudget(j, time),
             Sleeps(j, time, MinPollDelay)
      PROVE  IInv'
  <2> DEFINE chosen == DelayFor(MinPollDelay)
  <2>1. chosen \in Nat /\ MinPollDelay <= chosen
    BY <1>1, DelayAtLeast DEF Typed
  <2>2. /\ pc' = [pc EXCEPT ![j] = "sleeping"] /\ elapsed' = [elapsed EXCEPT ![j] = time]
        /\ delay' = [delay EXCEPT ![j] = chosen] /\ UNCHANGED <<started, disposed, submits, polls>>
    BY <1>7 DEF Sleeps
  <2> HIDE DEF chosen
  <2>3. time \in 0 .. MaxElapsed /\ time < MaxElapsed /\ polls[j] < MaxPolls
    BY <1>1, <1>7, SleepsKeeps
  <2>4. polls[j] * MinPollDelay <= time
    BY <1>1, <1>7, SleepsKeeps
  <2>5. /\ Typed' /\ pc'[j] = "sleeping" /\ elapsed'[j] = time /\ delay'[j] = chosen
        /\ \A k \in Jobs : k # j =>
             pc'[k] = pc[k] /\ elapsed'[k] = elapsed[k] /\ delay'[k] = delay[k]
    BY <1>1, <2>1, <2>2, <2>3 DEF Typed
  <2>6. Started(j)'
    BY <1>1, <1>7, <2>2, <2>5 DEF Started, Awaiting
  <2>7. Polled(j)'
    BY <1>1, <2>1, <2>2, <2>3, <2>4, <2>5 DEF Polled
  <2> QED
    BY <1>2, <2>2, <2>5, <2>6, <2>7
<1> QED
  BY <1>3, <1>4, <1>5, <1>6, <1>7 DEF ExecutionSteps

LEMMA NextKeeps ==
  ASSUME IInv, [Next]_vars
  PROVE  IInv'
<1>1. CASE DisposeManager
  <2>1. \A k \in Jobs : pc'[k] = pc[k] \/ (pc[k] = "sleeping" /\ pc'[k] = "failed")
    BY <1>1 DEF DisposeManager, Stopped
  <2>2. Typed' /\ disposed' /\ UNCHANGED <<submits, polls, elapsed, delay>>
    BY <1>1 DEF IInv, Typed, DisposeManager, Stopped
  <2> QED
    BY <2>1, <2>2 DEF IInv, Started, Polled
<1>2. CASE UNCHANGED managerVars
  BY <1>2 DEF managerVars, IInv, Typed, Started, Polled
<1> QED
  BY <1>1, <1>2, ManagerSteps, ExecutionKeeps

LEMMA IInvWithinBudget ==
  ASSUME IInv
  PROVE  WithinBudget
<1> SUFFICES ASSUME NEW j \in Jobs
             PROVE  /\ submits[j] <= 1
                    /\ polls[j] > 0 =>
                         polls[j] <= MaxPolls /\ (polls[j] - 1) * MinPollDelay < MaxElapsed
  BY DEF WithinBudget, SubmitOnce, PollBudget
<1> QED
  BY DEF IInv, Started, Polled

\* A Job is submitted at most once and polled within both budgets, whatever is aborted,
\* disposed or executed again: for all budgets and delays.
THEOREM WithinBudgetAlways ==
  ASSUME Budgets
  PROVE  Spec => []WithinBudget
<1>1. Init => IInv
  BY InitKeeps
<1>2. IInv /\ [Next]_vars => IInv'
  BY NextKeeps
<1>3. IInv => WithinBudget
  BY IInvWithinBudget
<1> QED
  BY <1>1, <1>2, <1>3, PTL DEF Spec

-----------------------------------------------------------------------------
(* What a reported usage pays for.  A Task that no other has overlapped is   *)
(* the last that was charged, and its first reading is newer than its call.  *)

Submitting == {j \in Jobs : pc[j] = "submitting"}

Accounted(j) ==
  /\ pc[j] = "new" => before[j] = NoReading
  /\ pc[j] \in {"new", "submitting"} => usage[j] = {}
  /\ pc[j] \in {"sleeping", "polling"} => j \in active
  /\ opened[j] \subseteq charged
  /\ before[j] # NoReading => opened[j] \subseteq before[j]
  /\ j \in active \ ambiguous => charged \subseteq closed[j] /\ pending = 0
  /\ usage[j] \subseteq closed[j] \ opened[j]

Books == IInv /\ TypeOK /\ IsFiniteSet(Submitting) /\ \A j \in Jobs : Accounted(j)

\* Only the Job of the step changes its place, and only it can enter or leave a submit.
PlaceOf(j, s) ==
  /\ step' = [step EXCEPT ![j] = s]
  /\ \A k \in Jobs : k # j => pc'[k] = pc[k] /\ step'[k] = step[k]

LEMMA Entered ==
  ASSUME TypeOK, IsFiniteSet(Submitting), NEW j \in Jobs, pc[j] # "submitting",
         pc'[j] = "submitting", \A k \in Jobs : k # j => pc'[k] = pc[k]
  PROVE  /\ IsFiniteSet(Submitting')
         /\ Cardinality(Submitting') = Cardinality(Submitting) + 1
<1>1. Submitting' = Submitting \cup {j} /\ j \notin Submitting
  BY DEF Submitting
<1> QED
  BY <1>1, FS_AddElement

LEMMA Left ==
  ASSUME TypeOK, IsFiniteSet(Submitting), NEW j \in Jobs, pc[j] = "submitting",
         pc'[j] # "submitting", \A k \in Jobs : k # j => pc'[k] = pc[k]
  PROVE  /\ IsFiniteSet(Submitting')
         /\ Cardinality(Submitting') = Cardinality(Submitting) - 1
<1>1. Submitting' = Submitting \ {j} /\ j \in Submitting
  BY DEF Submitting
<1> QED
  BY <1>1, FS_RemoveElement

\* While a Job is being submitted, there is a submission pending.
LEMMA PendingPositive ==
  ASSUME TypeOK, IsFiniteSet(Submitting), NEW j \in Jobs, pc[j] = "submitting"
  PROVE  pending \in Nat \ {0}
<1>1. j \in Submitting /\ pending = Cardinality(Submitting)
  BY DEF Submitting, TypeOK
<1> QED
  BY <1>1, FS_CardinalityType, FS_EmptySet

LEMMA ManagerTyped ==
  ASSUME Books, [Next]_vars
  PROVE  IInv' /\ ManagerTypeOK'
<1>1. IInv'
  BY NextKeeps DEF Books
<1>2. started' \subseteq Jobs /\ aborted' \subseteq Jobs /\ disposed' \in BOOLEAN
  <2>1. ASSUME NEW j \in Jobs, ExecutionSteps(j)
        PROVE  started' \subseteq Jobs /\ aborted' \subseteq Jobs /\ disposed' \in BOOLEAN
    BY <2>1 DEF Books, TypeOK, ManagerTypeOK, ExecutionSteps, Execute, ExecuteAborted, PollStarts,
       AbortJob, Ends, Sleeps
  <2> QED
    BY <2>1, ManagerSteps DEF Books, TypeOK, ManagerTypeOK, DisposeManager, InFlight, managerVars
<1> QED
  BY <1>1, <1>2 DEF IInv, Typed, ManagerTypeOK

\* The submissions: the balance is read, then the Task posted.
LEMMA SubmitKeeps ==
  ASSUME Books, NEW j \in Jobs, Submit(j), ManagerTypeOK', IInv'
  PROVE  Books'
<1>1. pc[j] = "new" /\ pc'[j] = "submitting" /\ PlaceOf(j, "before") /\ UNCHANGED <<before, usage>>
  BY DEF Books, IInv, Started, TypeOK, ManagerTypeOK, Submit, Execute, Executable, At, PlaceOf
<1>2. IsFiniteSet(Submitting)' /\ pending' = Cardinality(Submitting')
  <2>1. pending = Cardinality(Submitting) /\ pending' = pending + 1
    BY DEF Books, TypeOK, Submitting, Submit
  <2> QED
    BY <1>1, <2>1, Entered DEF Books, PlaceOf
<1>3. TypeOK'
  <2>1. step' \in [Jobs -> {"idle", "before", "post", "get", "after"}]
    BY <1>1 DEF Books, TypeOK, PlaceOf
  <2>2. \A k \in Jobs : /\ step'[k] \in {"before", "post"} <=> pc'[k] = "submitting"
                        /\ step'[k] \in {"get", "after"} <=> pc'[k] = "polling"
    BY <1>1 DEF Books, TypeOK, PlaceOf
  <2> QED
    BY <1>2, <2>1, <2>2 DEF Books, TypeOK, Submit, Submitting
<1>4. \A k \in Jobs : opened'[k] \in {opened[k], charged} /\ closed'[k] = closed[k] /\ (k # j => opened'[k] = opened[k])
  BY DEF Books, TypeOK, Submit
<1>5. charged' = charged /\ active' = active /\ ambiguous' = ambiguous \cup active
  BY DEF Submit
<1> QED
  BY <1>1, <1>2, <1>3, <1>4, <1>5 DEF Books, Accounted, PlaceOf

LEMMA BalanceReadKeeps ==
  ASSUME Books, NEW j \in Jobs, BalanceRead(j), ManagerTypeOK', IInv'
  PROVE  Books'
<1>1. /\ pc' = pc /\ pc[j] = "submitting" /\ PlaceOf(j, "post")
      /\ UNCHANGED <<pending, concurrent, active, ambiguous, charged, usage, opened, closed>>
  <2>1. pc' = pc /\ step[j] = "before" /\ step' = [step EXCEPT ![j] = "post"]
    BY DEF BalanceRead, At, managerVars
  <2>2. pc[j] = "submitting" /\ \A k \in Jobs : k # j => step'[k] = step[k]
    BY <2>1 DEF Books, TypeOK
  <2> QED
    BY <2>1, <2>2 DEF BalanceRead, PlaceOf, history
<1>2. /\ before' \in [Jobs -> (SUBSET Jobs) \cup {NoReading}]
      /\ before'[j] \in {NoReading, charged} /\ \A k \in Jobs : k # j => before'[k] = before[k]
  BY DEF Books, TypeOK, BalanceRead, Readings
<1>3. TypeOK' /\ IsFiniteSet(Submitting)'
  BY <1>1, <1>2, ZenonT(30) DEF Books, TypeOK, PlaceOf, Submitting
<1> QED
  BY <1>1, <1>2, <1>3 DEF Books, Accounted

LEMMA PostedKeeps ==
  ASSUME Books, NEW j \in Jobs, Posted(j) \/ PostFails(j), ManagerTypeOK', IInv'
  PROVE  Books'
<1>1. /\ pc[j] = "submitting" /\ PlaceOf(j, "idle")
      /\ pc'[j] \in (IF Posted(j) THEN {"sleeping", "failed"} ELSE {"failed"})
      /\ UNCHANGED <<before, usage, concurrent, opened>>
  BY DEF Books, TypeOK, ManagerTypeOK, Posted, PostFails, SubmitPending, SubmitFails, Waits, Ends,
     Sleeps, At, PlaceOf, history
<1>2. /\ IsFiniteSet(Submitting)' /\ pending' = Cardinality(Submitting')
      /\ pending \in Nat \ {0} /\ pending' \in Nat
  <2>1. pending = Cardinality(Submitting) /\ pending' = pending - 1
    BY DEF Books, TypeOK, Submitting, Posted, PostFails
  <2>2. /\ IsFiniteSet(Submitting') /\ Cardinality(Submitting') = Cardinality(Submitting) - 1
    BY <1>1, Left DEF Books, PlaceOf
  <2> QED
    BY <1>1, <2>1, <2>2, PendingPositive, FS_CardinalityType DEF Books
<1>3. \A k \in active : k \in ambiguous
  BY <1>2 DEF Books, TypeOK, Accounted
<1>4. /\ charged' \in {charged, charged \cup {j}} /\ ambiguous \subseteq ambiguous'
      /\ \A k \in Jobs : k # j => closed'[k] = closed[k]
      /\ \/ active' = active /\ PostFails(j) /\ ambiguous' = ambiguous /\ closed'[j] = closed[j]
         \/ active' = active \cup {j} /\ closed'[j] = charged'
            /\ (j \notin ambiguous' => pending' = 0)
      /\ ambiguous' \subseteq active'
  <2>1. CASE Posted(j)
    BY <2>1, <1>2 DEF Books, TypeOK, Posted, Overlaps
  <2>2. CASE PostFails(j)
    BY <2>2 DEF Books, TypeOK, PostFails, history
  <2> QED
    BY <2>1, <2>2
<1>5. TypeOK'
  <2>1. step' \in [Jobs -> {"idle", "before", "post", "get", "after"}]
    BY <1>1 DEF Books, TypeOK, PlaceOf
  <2>2. \A k \in Jobs : /\ step'[k] \in {"before", "post"} <=> pc'[k] = "submitting"
                        /\ step'[k] \in {"get", "after"} <=> pc'[k] = "polling"
    BY <1>1 DEF Books, TypeOK, PlaceOf
  <2>3. closed' \in [Jobs -> SUBSET Jobs]
    BY <1>4 DEF Books, TypeOK, Posted, PostFails, history
  <2>4. active' \subseteq Jobs /\ charged' \subseteq Jobs
    BY <1>4 DEF Books, TypeOK
  <2>5. pending' = Cardinality({k \in Jobs : pc'[k] = "submitting"})
    BY <1>2 DEF Submitting
  <2>6. /\ before' \in [Jobs -> (SUBSET Jobs) \cup {NoReading}] /\ usage' \in [Jobs -> SUBSET Jobs]
        /\ opened' \in [Jobs -> SUBSET Jobs] /\ concurrent' \subseteq Jobs
    BY <1>1 DEF Books, TypeOK
  <2> QED
    BY <1>4, <2>1, <2>2, <2>3, <2>4, <2>5, <2>6 DEF TypeOK
<1>6. ASSUME NEW k \in Jobs
      PROVE  Accounted(k)'
  <2>1. CASE k = j
    <3>1. /\ before'[j] # NoReading => opened'[j] \subseteq before'[j]
          /\ opened'[j] \subseteq charged' /\ usage'[j] = {} /\ pc'[j] \notin {"new", "polling"}
      BY <1>1, <1>4 DEF Books, Accounted
    <3>2. pc'[j] = "sleeping" => j \in active'
      BY <1>1, <1>4 DEF Posted
    <3>3. j \in active' \ ambiguous' => charged' \subseteq closed'[j] /\ pending' = 0
      BY <1>3, <1>4
    <3> QED
      BY <2>1, <3>1, <3>2, <3>3 DEF Accounted
  <2>2. CASE k # j
    BY <1>1, <1>3, <1>4, <2>2 DEF Books, Accounted, PlaceOf
  <2> QED
    BY <2>1, <2>2
<1> QED
  BY <1>2, <1>5, <1>6 DEF Books

\* A step that submits nothing keeps the Tasks submitted and charged as they are.
LEMMA PollingKeeps ==
  ASSUME Books, ManagerTypeOK', IInv', step' \in [Jobs -> {"idle", "before", "post", "get", "after"}],
         \A k \in Jobs : /\ step'[k] \in {"before", "post"} <=> pc'[k] = "submitting"
                         /\ step'[k] \in {"get", "after"} <=> pc'[k] = "polling"
                         /\ pc[k] = "submitting" <=> pc'[k] = "submitting"
                         /\ pc'[k] = "new" => pc[k] = "new"
                         /\ pc'[k] \in {"sleeping", "polling"} => k \in active',
         usage' \in [Jobs -> SUBSET Jobs], before' \in [Jobs -> (SUBSET Jobs) \cup {NoReading}],
         \A k \in Jobs : /\ before'[k] \in {before[k], NoReading}
                         /\ usage'[k] # usage[k] => pc'[k] \notin {"new", "submitting"}
                         /\ usage'[k] \subseteq usage[k] \cup (closed[k] \ opened[k]),
         UNCHANGED <<pending, concurrent, charged, opened, closed>>,
         active' \subseteq active, ambiguous' = ambiguous \cap active'
  PROVE  Books'
<1>1. Submitting' = Submitting
  BY DEF Submitting
<1>2. TypeOK'
  BY <1>1 DEF Books, TypeOK, Submitting
<1> QED
  BY <1>1, <1>2 DEF Books, Accounted

LEMMA PollKeeps ==
  ASSUME Books, NEW j \in Jobs, ManagerTypeOK', IInv',
         Refused(j) \/ Poll(j) \/ TaskRunning(j) \/ PollThrows(j) \/ TaskSucceeded(j) \/ Abort(j)
  PROVE  Books'
<1>1. UNCHANGED <<pending, concurrent, active, ambiguous, before, charged, usage, opened, closed>>
  BY DEF Refused, Poll, TaskRunning, PollThrows, TaskSucceeded, Abort, Accounting, grsaiVars, history
<1>2. CASE Poll(j) \/ TaskRunning(j) \/ PollThrows(j) \/ TaskSucceeded(j)
  <2>1. PICK s \in {"idle", "get", "after"} : PlaceOf(j, s) /\ (s = "idle" <=> pc'[j] # "polling")
    BY <1>2 DEF Books, TypeOK, ManagerTypeOK, Poll, PollStarts, TaskRunning, PollPending, PollThrows,
       PollFails, TaskSucceeded, Waits, Ends, Sleeps, At, PlaceOf, managerVars
  <2>2. pc[j] \in {"sleeping", "polling"} /\ pc'[j] \in {"sleeping", "polling", "failed"}
    BY <1>2 DEF Books, TypeOK, ManagerTypeOK, Poll, PollStarts, TaskRunning, PollPending, PollThrows,
       PollFails, TaskSucceeded, Waits, Ends, Sleeps, managerVars
  <2>3. step' \in [Jobs -> {"idle", "before", "post", "get", "after"}]
    BY <2>1 DEF Books, TypeOK, PlaceOf
  <2>4. \A k \in Jobs : /\ step'[k] \in {"before", "post"} <=> pc'[k] = "submitting"
                        /\ step'[k] \in {"get", "after"} <=> pc'[k] = "polling"
                        /\ pc[k] = "submitting" <=> pc'[k] = "submitting"
                        /\ pc'[k] = "new" => pc[k] = "new"
                        /\ pc'[k] \in {"sleeping", "polling"} => pc[k] \in {"sleeping", "polling"}
    BY <2>1, <2>2 DEF Books, TypeOK, PlaceOf
  <2> QED
    BY <1>1, <2>3, <2>4, PollingKeeps DEF Books, TypeOK, Accounted
<1>3. CASE Refused(j) \/ Abort(j)
  <2>1. step' = step /\ \A k \in Jobs : pc'[k] = pc[k] \/ (pc'[k] = "failed" /\ pc[k] \in {"new", "sleeping"})
    BY <1>3 DEF Books, IInv, Started, TypeOK, ManagerTypeOK, Refused, ExecuteAborted, Executable,
       Abort, AbortJob, Stopped, grsaiVars
  <2> QED
    BY <1>1, <2>1, PollingKeeps DEF Books, TypeOK, Accounted
<1> QED
  BY <1>2, <1>3

\* The last poll: the reference is forgotten, and its usage reported.
LEMMA LastPollKeeps ==
  ASSUME Books, NEW j \in Jobs, ManagerTypeOK', IInv', TaskFailed(j) \/ BalanceReadAgain(j)
  PROVE  Books'
<1>1. /\ PlaceOf(j, "idle") /\ pc[j] = "polling" /\ pc'[j] \in {"completed", "failed"}
      /\ Forget(j)
  BY DEF Books, TypeOK, ManagerTypeOK, TaskFailed, BalanceReadAgain, PollCompletes, PollFails, Ends,
     At, PlaceOf
<1>2. /\ step' \in [Jobs -> {"idle", "before", "post", "get", "after"}]
      /\ before' \in [Jobs -> (SUBSET Jobs) \cup {NoReading}]
      /\ \A k \in Jobs : before'[k] \in {before[k], NoReading}
      /\ active' = active \ {j} /\ ambiguous' = ambiguous \cap active'
      /\ UNCHANGED <<pending, concurrent, charged, opened, closed>>
  BY <1>1 DEF Books, TypeOK, PlaceOf, Forget, history
<1>3. \A k \in Jobs : /\ step'[k] \in {"before", "post"} <=> pc'[k] = "submitting"
                      /\ step'[k] \in {"get", "after"} <=> pc'[k] = "polling"
                      /\ pc[k] = "submitting" <=> pc'[k] = "submitting"
                      /\ pc'[k] = "new" => pc[k] = "new"
                      /\ pc'[k] \in {"sleeping", "polling"} => k \in active'
  BY <1>1, <1>2 DEF Books, TypeOK, PlaceOf, Accounted
<1>4. /\ usage' \in [Jobs -> SUBSET Jobs] /\ \A k \in Jobs : k # j => usage'[k] = usage[k]
      /\ usage'[j] \subseteq usage[j] \cup (closed[j] \ opened[j])
  <2>1. CASE UNCHANGED usage
    BY <2>1 DEF Books, TypeOK
  <2>2. ASSUME NEW reading \in Readings(j), usage' = [usage EXCEPT ![j] = Decrease(j, reading)]
        PROVE  /\ usage' \in [Jobs -> SUBSET Jobs] /\ \A k \in Jobs : k # j => usage'[k] = usage[k]
               /\ usage'[j] \subseteq usage[j] \cup (closed[j] \ opened[j])
    <3>1. Decrease(j, reading) \subseteq closed[j] \ opened[j]
      BY <1>1 DEF Books, Accounted, Readings, Decrease
    <3>2. Decrease(j, reading) \subseteq Jobs
      BY <3>1 DEF Books, TypeOK
    <3> QED
      BY <2>2, <3>1, <3>2 DEF Books, TypeOK
  <2> QED
    BY <2>1, <2>2 DEF TaskFailed, BalanceReadAgain
<1> QED
  BY <1>1, <1>2, <1>3, <1>4, PollingKeeps

LEMMA BooksNext ==
  ASSUME Books, [Next]_vars
  PROVE  Books'
<1>1. ManagerTypeOK' /\ IInv'
  BY ManagerTyped
<1>2. CASE Dispose \/ UNCHANGED vars
  <2>1. /\ UNCHANGED grsaiVars
        /\ \A k \in Jobs : pc'[k] = pc[k] \/ (pc'[k] = "failed" /\ pc[k] = "sleeping")
    BY <1>2 DEF Dispose, DisposeManager, Stopped, vars, managerVars
  <2> QED
    BY <1>1, <2>1, PollingKeeps DEF Books, TypeOK, Accounted, grsaiVars, history
<1> QED
  BY <1>1, <1>2, SubmitKeeps, BalanceReadKeeps, PostedKeeps, PollKeeps, LastPollKeeps DEF Next, Answers

LEMMA BooksInit ==
  ASSUME Budgets, Init
  PROVE  Books
<1>1. Submitting = {} /\ {j \in Jobs : pc[j] = "submitting"} = {}
  BY DEF Init, ManagerInit, Submitting
<1>2. TypeOK
  <2>1. pending = Cardinality({j \in Jobs : pc[j] = "submitting"})
    BY <1>1, FS_EmptySet DEF Init
  <2>2. ManagerTypeOK
    BY InitKeeps DEF IInv, Typed, Init, ManagerInit, ManagerTypeOK
  <2>3. \A j \in Jobs : step[j] = "idle" /\ pc[j] = "new"
    BY DEF Init, ManagerInit
  <2>4. /\ step \in [Jobs -> {"idle", "before", "post", "get", "after"}]
        /\ concurrent = {} /\ active = {} /\ ambiguous = {} /\ charged = {}
    BY DEF Init
  <2>5. before \in [Jobs -> (SUBSET Jobs) \cup {NoReading}]
    <3>1. NoReading \in (SUBSET Jobs) \cup {NoReading}
      OBVIOUS
    <3> QED
      BY <3>1 DEF Init
  <2>6. /\ usage \in [Jobs -> SUBSET Jobs]
        /\ opened \in [Jobs -> SUBSET Jobs] /\ closed \in [Jobs -> SUBSET Jobs]
    BY DEF Init
  <2> QED
    BY <2>1, <2>2, <2>3, <2>4, <2>5, <2>6 DEF TypeOK
<1> QED
  BY <1>1, <1>2, InitKeeps, FS_EmptySet DEF Init, ManagerInit, Books, Accounted

\* A reported usage pays for nothing that was charged before its own submit began or after
\* it had answered: for any Jobs, whatever overlaps and whichever readings are lost.
THEOREM UsageWithinSubmitAlways ==
  ASSUME Budgets
  PROVE  Spec => []UsageWithinSubmit
<1>1. Init => Books
  BY BooksInit
<1>2. Books /\ [Next]_vars => Books'
  BY BooksNext
<1>3. Books => UsageWithinSubmit
  BY DEF Books, Accounted, UsageWithinSubmit
<1> QED
  BY <1>1, <1>2, <1>3, PTL DEF Spec
=============================================================================
