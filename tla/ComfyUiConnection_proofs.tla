----------------------- MODULE ComfyUiConnection_proofs -----------------------
(***************************************************************************)
(* The properties of the connection coordinator for any number of attempts, *)
(* servers and workflows.  What makes them hold is not in any one check of  *)
(* the code: an attempt passes load only while it has the turn and only     *)
(* after the writes before it, so one that is past load and was not told    *)
(* otherwise still has the turn, and nobody else has written since.         *)
(* At the end, the properties of the workflow runtime beside it: what is    *)
(* proved of ComfyUiWorkflows, for the composition that the runs check.     *)
(***************************************************************************)
EXTENDS MCComfyUiManagement, TLAPS

NotStarted == Waiting \cup {"none"}
PastLoad == {"cas", "writing", "moving", "replaced"}
Writing == {"writing", "moving", "replaced"}

\* Attempts leave the initialize() promise in the order of the calls.
Order ==
  /\ \A a \in Attempts : pc[a] = "none" <=> a > calls
  /\ \A a, b \in Attempts : a < b /\ pc[b] \notin NotStarted => pc[a] \notin NotStarted
  /\ \A a \in Attempts : pc[a] \in Waiting /\ persist[a] => target[a] \in Targets
  /\ initialized # "done" =>
       active = None /\ \A a \in Attempts : pc[a] \notin Executing \cup {"initialized"}

\* Whose turn it is: the newest attempt that executes, over an older connection.
Turn ==
  /\ current # None =>
       /\ pc[current] \in Executing /\ disposition[current] = "current" /\ ~disposed
       /\ \A b \in Attempts : b > current => pc[b] \notin Executing
  /\ active # None => pc[active] = "done" /\ ~disposed
  /\ active # None /\ current # None => active < current
  /\ \A a \in Attempts : pc[a] \in NotStarted =>
       disposition[a] = "current" /\ generation[a] = "none"

\* The turn of an attempt past load was not taken without a notice.
KeepsTurn ==
  \A a \in Attempts : pc[a] \in PastLoad /\ disposition[a] = "current" => current = a

\* Nothing that is older is in the write lane once an attempt is past load.
LaneOrder ==
  \A a, b \in Attempts : pc[a] \in PastLoad /\ b < a => pc[b] \notin Writing

\* What the file holds while an attempt writes, and what the snapshot says otherwise.
Saved ==
  /\ \A a \in Attempts : pc[a] \in {"writing", "moving"} => file = expected[a]
  /\ \A a \in Attempts : pc[a] = "replaced" => file.baseUrl = target[a]
  /\ initialized = "done" /\ ~disposed /\ (\A a \in Attempts : pc[a] # "replaced") =>
       committed = file.baseUrl
  /\ current # None /\ ~persist[current] => target[current] = committed
  /\ active # None => target[active] = committed

IInv ==
  TypeOK /\ Order /\ Turn /\ KeepsTurn /\ LaneOrder /\ Saved /\ GenerationOwned

-----------------------------------------------------------------------------
(* The steps, as far as the invariant tells them apart. *)

Fail(a) ==
  /\ pc[a] \in Executing
  /\ pc[a] = "replaced" => disposed
  /\ \E result \in {"failed", "superseded", "aborted"} : CompleteFailure(a, result)

Advance(a) ==
  /\ EnsureCurrent(a)
  /\ UNCHANGED <<outcome, callVars, ownerAborted, disposition, calls, current, active,
                 initialized, snapshotVars, disposed, file>>
  /\ \/ /\ Moves(a, "api", "frontend") /\ UNCHANGED expected
        /\ generation' = [generation EXCEPT ![a] = "open"]
     \/ /\ Moves(a, "frontend", "bridge") \/ Moves(a, "bridge", "load")
        /\ UNCHANGED <<generation, expected>>
     \/ /\ Moves(a, "load", "cas") /\ UNCHANGED generation
        /\ expected' = [expected EXCEPT ![a] = file]
        /\ \A b \in Attempts : b < a => pc[b] \notin Writing

Write(a) ==
  /\ disposition[a] = "current"
  /\ UNCHANGED <<outcome, attemptVars, disposition, generation, calls, current, active,
                 initialized, snapshotVars, disposed, file>>
  /\ \/ Moves(a, "cas", "writing") /\ file = expected[a] /\ LaneFree
     \/ Moves(a, "writing", "moving")

Promotion(a) ==
  /\ \/ pc[a] = "replaced" /\ ~disposed
     \/ pc[a] = "bridge" /\ ~persist[a] /\ EnsureCurrent(a)
  /\ \E disposes \in BOOLEAN : Promote(a, disposes)

AttemptSteps ==
  \E a \in Attempts :
    \/ Connect(a) \/ RecoverCommitted(a) \/ OwnerAbort(a)
    \/ CallRefused(a) \/ Start(a) \/ FailInitialization(a)
    \/ Fail(a) \/ Advance(a) \/ Write(a) \/ FileReplaced(a) \/ Promotion(a)

OtherSteps ==
  SupersedeCurrentAttempt \/ Dispose \/ SelectWorkflow \/ Initialized \/ InitializeFails

\* A lost turn has a reason.
LEMMA LostTurn ==
  ASSUME TypeOK, NEW a \in Attempts, ~EnsureCurrent(a)
  PROVE  CurrentDisposition(a) \in {"superseded", "aborted"}
  BY DEF TypeOK, EnsureCurrent, CurrentDisposition

LEMMA AnswersAre ==
  ASSUME TypeOK, NEW a \in Attempts, PortAnswers(a)
  PROVE  Fail(a) \/ Advance(a) \/ Write(a) \/ FileReplaced(a) \/ Promotion(a)
<1> USE DEF Executing
<1>1. ASSUME pc[a] \in Executing \ {"replaced"}, FailControl(a) \/ Fails(a)
      PROVE  Fail(a)
  BY <1>1, LostTurn DEF FailControl, Fails, Fail
<1>2. CASE ApiValidated(a)
  BY <1>1, <1>2 DEF ApiValidated, Proceeds, Advance, attemptVars
<1>3. CASE FrontendResolved(a)
  BY <1>1, <1>3 DEF FrontendResolved, Proceeds, Advance, attemptVars
<1>4. CASE BridgeValidated(a)
  BY <1>1, <1>4 DEF BridgeValidated, Proceeds, Advance, Promotion, attemptVars
<1>5. CASE LoadAnswers(a)
  BY <1>1, <1>5 DEF LoadAnswers, StateLoaded, Proceeds, Advance, callVars, Writing
<1>6. CASE PortFails(a) \/ CompareFails(a) \/ WriteAborted(a)
  BY <1>1, <1>6 DEF PortFails, CompareFails, WriteAborted, LaneTurn
<1>7. CASE CompareMatches(a) \/ Staged(a)
  BY <1>7 DEF CompareMatches, Staged, LaneTurn, Write
<1>8. CASE Committed(a)
  <2>1. CASE disposed
    <3>1. CurrentDisposition(a) \in {"superseded", "aborted"}
      BY <2>1 DEF TypeOK, CurrentDisposition
    <3> QED
      BY <1>8, <2>1, <3>1 DEF Committed, Fail
  <2>2. CASE ~disposed
    BY <1>8, <2>2 DEF Committed, Promotion
  <2> QED
    BY <2>1, <2>2
<1> QED
  BY <1>2, <1>3, <1>4, <1>5, <1>6, <1>7, <1>8 DEF PortAnswers

LEMMA Steps ==
  ASSUME TypeOK, [Next]_vars
  PROVE  AttemptSteps \/ OtherSteps \/ UNCHANGED vars
  BY AnswersAre DEF Next, UserEvent, Resume, AttemptSteps, OtherSteps

-----------------------------------------------------------------------------
(* Type correctness. *)

\* An attempt is a positive number, and the numbers of the calls are bounded.
LEMMA AttemptNumbers ==
  /\ MaxAttempts \in Nat
  /\ \A a \in Attempts : a \in Nat /\ a # None
  BY ConnectionAssumption DEF Attempts, None

LEMMA FileStates ==
  /\ NoState \in FileState
  /\ \A f \in FileState : f.baseUrl \in Targets \cup {NoTarget}
                          /\ f.selected \in Workflows \cup {NoTarget}
  BY DEF FileState, NoState

LEMMA InitTypeOK ==
  ASSUME Init
  PROVE  TypeOK
<1>1. /\ pc \in [Attempts -> {"none", "done"} \cup Waiting \cup Executing]
      /\ \A a \in Attempts : pc[a] \notin Executing
  BY DEF Init, Executing
<1>2. expected \in [Attempts -> FileState] /\ file \in FileState
  BY FileStates DEF Init
<1>3. calls \in 0 .. MaxAttempts
  BY AttemptNumbers DEF Init
<1> QED
  BY <1>1, <1>2, <1>3 DEF Init, TypeOK

\* The end of an attempt keeps the types of what it resets.
LEMMA EndsTypes ==
  ASSUME TypeOK, NEW a \in Attempts, NEW result, Ends(a, result),
         result \in {"ok", "failed", "superseded", "aborted", "nothing"}
  PROVE  /\ pc' \in [Attempts -> {"none", "done"} \cup Waiting \cup Executing]
         /\ outcome' \in
              [Attempts -> {"pending", "ok", "failed", "superseded", "aborted", "nothing"}]
         /\ expected' \in [Attempts -> FileState]
         /\ ownerAborted' \in [Attempts -> BOOLEAN]
         /\ pc'[a] = "done" /\ \A b \in Attempts : b # a => pc'[b] = pc[b]
  BY FileStates DEF TypeOK, Ends

LEMMA ProvisionalDisposedTypes ==
  ASSUME TypeOK, NEW a
  PROVE  ProvisionalDisposed(a) \in [Attempts -> {"none", "open", "retired", "disposed"}]
  BY DEF TypeOK, ProvisionalDisposed

LEMMA AttemptTypes ==
  ASSUME TypeOK, Order, NEW a \in Attempts,
         \/ Connect(a) \/ RecoverCommitted(a) \/ OwnerAbort(a)
         \/ CallRefused(a) \/ Start(a) \/ FailInitialization(a)
  PROVE  TypeOK'
<1>1. CASE Connect(a) \/ RecoverCommitted(a)
  <2>1. PICK t \in Targets \cup {NoTarget}, saves \in BOOLEAN : Call(a, t, saves)
    BY <1>1 DEF Connect, RecoverCommitted
  <2>2. pc' \in [Attempts -> {"none", "done"} \cup Waiting \cup Executing]
    BY <2>1 DEF TypeOK, Call, Moves, Waiting
  <2>3. \A b \in Attempts : pc'[b] \in Executing => pc[b] \in Executing /\ b # a
    BY <2>1 DEF TypeOK, Call, Moves, Executing
  <2>4. target' \in [Attempts -> Targets \cup {NoTarget}] /\ persist' \in [Attempts -> BOOLEAN]
    BY <2>1 DEF TypeOK, Call
  <2>5. calls' \in 0 .. MaxAttempts /\ initialized' \in {"none", "loading", "done"}
    BY <2>1, AttemptNumbers DEF TypeOK, Call, Attempts
  <2>6. \A b \in Attempts : b # a => target'[b] = target[b]
    BY <2>1 DEF TypeOK, Call
  <2> QED
    BY <2>1, <2>2, <2>3, <2>4, <2>5, <2>6 DEF TypeOK, Call, snapshotVars
<1>2. CASE OwnerAbort(a)
  BY <1>2, ProvisionalDisposedTypes DEF TypeOK, OwnerAbort, TurnTaken
<1>3. CASE CallRefused(a)
  <2>1. PICK result \in {"nothing", "aborted", "failed"} : Ends(a, result)
    BY <1>3 DEF CallRefused
  <2> QED
    BY <1>3, <2>1, EndsTypes DEF TypeOK, CallRefused, callVars, snapshotVars, Executing
<1>4. CASE Start(a)
  <2>1. pc' \in [Attempts -> {"none", "done"} \cup Waiting \cup Executing]
    BY <1>4 DEF TypeOK, Start, Moves, Executing
  <2>2. /\ target' \in [Attempts -> Targets \cup {NoTarget}]
        /\ \A b \in Attempts : b # a => target'[b] = target[b]
    BY <1>4 DEF TypeOK, Start
  <2>3. target'[a] # NoTarget
    BY <1>4, ConnectionAssumption DEF TypeOK, Order, Start, Resumes, Waiting
  <2>4. \A b \in Attempts : b # a => pc'[b] = pc[b]
    BY <1>4 DEF TypeOK, Start, Moves
  <2>5. disposition' \in [Attempts -> {"current", "superseded", "aborted"}]
    BY <1>4 DEF TypeOK, Start
  <2> QED
    BY <1>4, <2>1, <2>2, <2>3, <2>4, <2>5, ProvisionalDisposedTypes DEF TypeOK, Start
<1>5. CASE FailInitialization(a)
  <2>1. Ends(a, "failed")
    BY <1>5 DEF FailInitialization
  <2> QED
    BY <1>5, <2>1, EndsTypes, ProvisionalDisposedTypes
    DEF TypeOK, FailInitialization, TurnTaken, callVars, Executing
<1> QED
  BY <1>1, <1>2, <1>3, <1>4, <1>5

LEMMA ExecutionTypes ==
  ASSUME TypeOK, NEW a \in Attempts,
         Fail(a) \/ Advance(a) \/ Write(a) \/ FileReplaced(a) \/ Promotion(a)
  PROVE  TypeOK'
<1>1. CASE Fail(a)
  <2>1. PICK result \in {"failed", "superseded", "aborted"} : CompleteFailure(a, result)
    BY <1>1 DEF Fail
  <2> QED
    BY <2>1, EndsTypes, ProvisionalDisposedTypes DEF TypeOK, CompleteFailure, callVars, Executing
<1>2. CASE Advance(a)
  <2>1. pc' \in [Attempts -> {"none", "done"} \cup Waiting \cup Executing]
    BY <1>2 DEF TypeOK, Advance, Moves, Executing
  <2>2. \A b \in Attempts : pc'[b] \in Executing => pc[b] \in Executing
    BY <1>2 DEF TypeOK, Advance, Moves, Executing
  <2>3. /\ generation' \in [Attempts -> {"none", "open", "retired", "disposed"}]
        /\ expected' \in [Attempts -> FileState]
    BY <1>2 DEF TypeOK, Advance
  <2> QED
    BY <1>2, <2>1, <2>2, <2>3 DEF TypeOK, Advance, callVars, snapshotVars
<1>3. CASE Write(a)
  <2>1. /\ pc' \in [Attempts -> {"none", "done"} \cup Waiting \cup Executing]
        /\ \A b \in Attempts : pc'[b] \in Executing => pc[b] \in Executing
    BY <1>3 DEF TypeOK, Write, Moves, Executing
  <2> QED
    BY <1>3, <2>1 DEF TypeOK, Write, attemptVars, callVars, snapshotVars
<1>4. CASE FileReplaced(a)
  <2>1. /\ pc' \in [Attempts -> {"none", "done"} \cup Waiting \cup Executing]
        /\ \A b \in Attempts : pc'[b] \in Executing => pc[b] \in Executing
    BY <1>4 DEF TypeOK, FileReplaced, Moves, Executing
  <2>2. target[a] \in Targets
    BY <1>4 DEF TypeOK, FileReplaced, Moves, Executing
  <2>3. file' \in FileState
    BY <1>4, <2>2, FileStates DEF TypeOK, FileReplaced, FileState
  <2> QED
    BY <1>4, <2>1, <2>3 DEF TypeOK, FileReplaced, attemptVars, callVars, snapshotVars
<1>5. CASE Promotion(a)
  <2>1. PICK disposes \in BOOLEAN : Promote(a, disposes)
    BY <1>5 DEF Promotion
  <2>2. Ends(a, "ok")
    BY <2>1 DEF Promote
  <2>3. generation' \in [Attempts -> {"none", "open", "retired", "disposed"}]
    BY <2>1 DEF TypeOK, Promote
  <2> QED
    BY <2>1, <2>2, <2>3, EndsTypes DEF TypeOK, Promote, callVars, Executing
<1> QED
  BY <1>1, <1>2, <1>3, <1>4, <1>5

LEMMA OtherTypes ==
  ASSUME TypeOK, OtherSteps
  PROVE  TypeOK'
<1>1. CASE SupersedeCurrentAttempt
  BY <1>1, ProvisionalDisposedTypes
  DEF TypeOK, SupersedeCurrentAttempt, TurnTaken, attemptVars, callVars
<1>2. CASE Dispose
  <2>1. /\ disposition' \in [Attempts -> {"current", "superseded", "aborted"}]
        /\ generation' \in [Attempts -> {"none", "open", "retired", "disposed"}]
    BY <1>2 DEF TypeOK, Dispose
  <2> QED
    BY <1>2, <2>1 DEF TypeOK, Dispose, attemptVars, callVars
<1>3. CASE SelectWorkflow
  <2>1. file' \in FileState
    BY <1>3 DEF TypeOK, SelectWorkflow, FileState, NoState
  <2> QED
    BY <1>3, <2>1 DEF TypeOK, SelectWorkflow, attemptVars, callVars, snapshotVars
<1>4. CASE Initialized \/ InitializeFails
  <2>1. PICK to \in {"initialized", "initFailed"} : InitializeAnswers(to)
    BY <1>4 DEF Initialized, InitializeFails
  <2>2. /\ pc' \in [Attempts -> {"none", "done"} \cup Waiting \cup Executing]
        /\ \A b \in Attempts : pc'[b] \in Executing => pc[b] \in Executing
    BY <2>1 DEF TypeOK, InitializeAnswers, Waiting, Executing
  <2> QED
    BY <1>4, <2>1, <2>2, FileStates
    DEF TypeOK, InitializeAnswers, Initialized, InitializeFails, attemptVars, callVars
<1> QED
  BY <1>1, <1>2, <1>3, <1>4 DEF OtherSteps

LEMMA TypeOKNext ==
  ASSUME TypeOK, Order, [Next]_vars
  PROVE  TypeOK'
<1>1. CASE UNCHANGED vars
  BY <1>1 DEF TypeOK, vars
<1> QED
  BY <1>1, Steps, AttemptTypes, ExecutionTypes, OtherTypes DEF AttemptSteps

-----------------------------------------------------------------------------
(* What the steps do to the place of an attempt. *)

\* A step of execute moves one attempt that executes, and calls nothing.
LEMMA OneExecutes ==
  ASSUME TypeOK, NEW a \in Attempts,
         Fail(a) \/ Advance(a) \/ Write(a) \/ FileReplaced(a) \/ Promotion(a)
  PROVE  /\ pc[a] \in Executing /\ pc'[a] \in Executing \cup {"done"}
         /\ \A b \in Attempts : b # a => pc'[b] = pc[b]
         /\ UNCHANGED <<calls, initialized, callVars, disposition>>
<1>1. CASE Fail(a)
  BY <1>1, EndsTypes DEF Fail, CompleteFailure
<1>2. CASE Advance(a) \/ Write(a) \/ FileReplaced(a)
  BY <1>2 DEF TypeOK, Advance, Write, FileReplaced, Moves, Executing, attemptVars
<1>3. CASE Promotion(a)
  BY <1>3, EndsTypes DEF Promotion, Promote, Executing
<1> QED
  BY <1>1, <1>2, <1>3

\* The calls that end before they execute, and the one that starts.
LEMMA OneResumes ==
  ASSUME TypeOK, NEW a \in Attempts, CallRefused(a) \/ Start(a) \/ FailInitialization(a)
  PROVE  /\ pc[a] \in {"initialized", "initFailed"}
         /\ \A b \in Attempts : b < a => pc[b] \notin Waiting
         /\ \A b \in Attempts : b # a => pc'[b] = pc[b]
         /\ UNCHANGED <<calls, initialized>>
         /\ IF Start(a) THEN pc[a] = "initialized" /\ pc'[a] = "api" ELSE pc'[a] = "done"
<1>1. CASE CallRefused(a)
  BY <1>1, EndsTypes DEF CallRefused, Resumes, Start, Moves, Ends
<1>2. CASE Start(a)
  BY <1>2 DEF TypeOK, Start, Resumes, Moves
<1>3. CASE FailInitialization(a)
  BY <1>3, EndsTypes DEF FailInitialization, Resumes, Start, Moves
<1> QED
  BY <1>1, <1>2, <1>3

LEMMA InitIInv ==
  ASSUME Init
  PROVE  IInv
<1>1. TypeOK
  BY InitTypeOK
<1>2. Order
  <2>1. calls = 0 /\ active = None /\ \A a \in Attempts : pc[a] = "none"
    BY DEF Init
  <2>2. \A a \in Attempts : a > 0
    BY AttemptNumbers DEF None
  <2> QED
    BY <2>1, <2>2 DEF Order, NotStarted, Waiting, Executing
<1>3. Turn /\ Saved
  BY DEF Init, Turn, Saved
<1>4. KeepsTurn /\ LaneOrder /\ GenerationOwned
  BY DEF Init, KeepsTurn, LaneOrder, GenerationOwned, PastLoad
<1> QED
  BY <1>1, <1>2, <1>3, <1>4 DEF IInv

LEMMA OrderNext ==
  ASSUME TypeOK, Order, Turn, [Next]_vars
  PROVE  Order'
<1>1. CASE UNCHANGED vars
  BY <1>1 DEF Order, vars, callVars
<1>2. CASE OtherSteps
  <2>1. CASE SupersedeCurrentAttempt \/ Dispose \/ SelectWorkflow
    BY <2>1 DEF Order, SupersedeCurrentAttempt, Dispose, SelectWorkflow, attemptVars, callVars
  <2>2. CASE Initialized \/ InitializeFails
    <3>1. PICK to \in {"initialized", "initFailed"} :
            /\ InitializeAnswers(to)
            /\ initialized' = IF to = "initialized" THEN "done" ELSE "none"
      BY <2>2 DEF Initialized, InitializeFails
    <3>2. \A a \in Attempts : pc'[a] = IF pc[a] = "initializing" THEN to ELSE pc[a]
      BY <3>1 DEF InitializeAnswers
    <3> QED
      BY <3>1, <3>2 DEF Order, InitializeAnswers, attemptVars, callVars, NotStarted, Waiting,
         Executing
  <2> QED
    BY <1>2, <2>1, <2>2 DEF OtherSteps
<1>3. ASSUME NEW a \in Attempts, Connect(a) \/ RecoverCommitted(a)
      PROVE  Order'
  <2>1. PICK t \in Targets \cup {NoTarget}, saves \in BOOLEAN :
          Call(a, t, saves) /\ (saves => t \in Targets)
    BY <1>3 DEF Connect, RecoverCommitted
  <2>2. /\ pc[a] = "none" /\ pc'[a] \in {"initialized", "initializing"}
        /\ pc'[a] = "initialized" => initialized = "done"
        /\ \A b \in Attempts : b # a => pc'[b] = pc[b]
    BY <2>1 DEF TypeOK, Call, Moves
  <2>3. \A b \in Attempts : IF b = a THEN target'[b] = t /\ persist'[b] = saves
                                     ELSE target'[b] = target[b] /\ persist'[b] = persist[b]
    BY <2>1 DEF TypeOK, Call
  <2>4. calls' = a /\ a = calls + 1
    BY <2>1 DEF Call
  <2>5. /\ \A b \in Attempts : pc'[b] = "none" <=> b > calls'
        /\ \A b, c \in Attempts : b < c /\ pc'[c] \notin NotStarted => pc'[b] \notin NotStarted
    BY <2>2, <2>4, AttemptNumbers DEF TypeOK, Order, NotStarted, Waiting
  <2>6. initialized' # "done" => initialized # "done" /\ active' = active
    BY <2>1 DEF Call
  <2> QED
    BY <2>1, <2>2, <2>3, <2>5, <2>6 DEF Order, Waiting, Executing
<1>4. ASSUME NEW a \in Attempts, OwnerAbort(a)
      PROVE  Order'
  BY <1>4 DEF Order, OwnerAbort
<1>5. ASSUME NEW a \in Attempts, CallRefused(a) \/ Start(a) \/ FailInitialization(a)
      PROVE  Order'
  <2>1. /\ UNCHANGED <<persist, active>>
        /\ \A b \in Attempts : b # a => target'[b] = target[b]
    BY <1>5 DEF TypeOK, CallRefused, Start, FailInitialization, callVars
  <2>2. pc'[a] \in {"api", "done"} /\ pc[a] \in Waiting /\ (pc'[a] = "api" => initialized = "done")
    BY <1>5, OneResumes DEF Order, Waiting
  <2>3. \A b, c \in Attempts : b < c /\ pc'[c] \notin NotStarted => pc'[b] \notin NotStarted
    <3> SUFFICES ASSUME NEW b \in Attempts, NEW c \in Attempts, b < c, pc'[c] \notin NotStarted
                 PROVE  pc'[b] \notin NotStarted
      OBVIOUS
    <3>1. CASE c = a
      <4>1. pc[b] # "none"
        BY <2>2, <3>1, AttemptNumbers DEF TypeOK, Order, Waiting
      <4> QED
        BY <1>5, <3>1, <4>1, OneResumes, AttemptNumbers DEF NotStarted
    <3>2. CASE c # a
      BY <1>5, <2>2, <3>2, OneResumes DEF Order, NotStarted, Waiting
    <3> QED
      BY <3>1, <3>2
  <2> QED
    BY <1>5, <2>1, <2>2, <2>3, OneResumes DEF Order, Waiting, Executing
<1>6. ASSUME NEW a \in Attempts,
             Fail(a) \/ Advance(a) \/ Write(a) \/ FileReplaced(a) \/ Promotion(a)
      PROVE  Order'
  <2>1. initialized = "done"
    BY <1>6, OneExecutes DEF TypeOK, Order
  <2> QED
    BY <1>6, <2>1, OneExecutes DEF Order, NotStarted, Waiting, Executing, callVars
<1> QED
  BY <1>1, <1>2, <1>3, <1>4, <1>5, <1>6, Steps DEF AttemptSteps

\* An attempt that is about to start is newer than all that have started.
LEMMA StartsNewest ==
  ASSUME Order, NEW a \in Attempts, pc[a] \in NotStarted, NEW b \in Attempts,
         pc[b] \notin NotStarted
  PROVE  b < a
  BY AttemptNumbers DEF Order

\* Taking the turn changes nothing of the attempts that have not started.
LEMMA TurnTakenEffect ==
  ASSUME TypeOK, Turn, NEW how, TurnTaken(how), NEW a \in Attempts, a # current
  PROVE  disposition'[a] = disposition[a] /\ generation'[a] = generation[a]
  BY DEF TypeOK, TurnTaken, ProvisionalDisposed

LEMMA TurnNext ==
  ASSUME TypeOK, Order, Turn, [Next]_vars
  PROVE  Turn'
<1> USE DEF NotStarted
<1>1. CASE UNCHANGED vars
  BY <1>1 DEF Turn, vars
<1>2. CASE OtherSteps
  <2>1. CASE SupersedeCurrentAttempt
    <3>1. current' = None /\ UNCHANGED <<pc, active, disposed>>
      BY <2>1 DEF SupersedeCurrentAttempt
    <3>2. \A a \in Attempts : pc[a] \in NotStarted => a # current
      BY <2>1 DEF SupersedeCurrentAttempt, Turn, Waiting, Executing
    <3> QED
      BY <2>1, <3>1, <3>2, TurnTakenEffect DEF SupersedeCurrentAttempt, Turn
  <2>2. CASE Dispose
    <3>1. current' = None /\ active' = None /\ pc' = pc
      BY <2>2 DEF Dispose
    <3>2. \A a \in Attempts : pc[a] \in NotStarted => a # current
      BY AttemptNumbers DEF Turn, Waiting, Executing
    <3>3. \A a \in Attempts : pc[a] \in NotStarted =>
            disposition'[a] = disposition[a] /\ generation'[a] = generation[a]
      BY <2>2, <3>2 DEF Dispose, Turn
    <3> QED
      BY <3>1, <3>3 DEF Turn
  <2>3. CASE SelectWorkflow
    BY <2>3 DEF Turn, SelectWorkflow
  <2>4. CASE Initialized \/ InitializeFails
    <3>1. PICK to \in {"initialized", "initFailed"} : InitializeAnswers(to)
      BY <2>4 DEF Initialized, InitializeFails
    <3>2. \A a \in Attempts : pc'[a] = IF pc[a] = "initializing" THEN to ELSE pc[a]
      BY <3>1 DEF InitializeAnswers
    <3> QED
      BY <3>1, <3>2 DEF TypeOK, Turn, InitializeAnswers, Waiting, Executing
  <2> QED
    BY <1>2, <2>1, <2>2, <2>3, <2>4 DEF OtherSteps
<1>3. ASSUME NEW a \in Attempts, Connect(a) \/ RecoverCommitted(a)
      PROVE  Turn'
  <2>1. PICK t \in Targets \cup {NoTarget}, saves \in BOOLEAN : Call(a, t, saves)
    BY <1>3 DEF Connect, RecoverCommitted
  <2>2. /\ pc[a] = "none" /\ pc'[a] \in Waiting
        /\ \A b \in Attempts : b # a => pc'[b] = pc[b]
    BY <2>1 DEF TypeOK, Call, Moves, Waiting
  <2>3. UNCHANGED <<disposition, generation, current, active, disposed>>
    BY <2>1 DEF Call
  <2>4. \A b \in Attempts :
          (pc'[b] = pc[b]) \/ (pc[b] = "none" /\ pc'[b] \in Waiting)
    BY <2>2
  <2>5. /\ {current, active} \subseteq Attempts \cup {None}
        /\ \A b \in Attempts : pc'[b] \in Executing => pc[b] \in Executing
        /\ \A b \in Attempts : pc[b] \in Executing \cup {"done"} => pc'[b] = pc[b]
        /\ \A b \in Attempts : pc'[b] \in NotStarted => pc[b] \in NotStarted
    BY <2>4 DEF TypeOK, Waiting, Executing
  <2> QED
    BY <2>3, <2>5 DEF Turn
<1>4. ASSUME NEW a \in Attempts, OwnerAbort(a)
      PROVE  Turn'
  <2>1. CASE current = a
    <3>1. \A b \in Attempts : pc[b] \in NotStarted => b # current
      BY <2>1, AttemptNumbers DEF Turn, Waiting, Executing
    <3> QED
      BY <1>4, <2>1, <3>1, TurnTakenEffect DEF OwnerAbort, Turn
  <2>2. CASE current # a
    BY <1>4, <2>2 DEF OwnerAbort, Turn
  <2> QED
    BY <2>1, <2>2
<1>5. ASSUME NEW a \in Attempts, CallRefused(a)
      PROVE  Turn'
  <2>1. ~Start(a)
    BY <1>5 DEF CallRefused, Start, Moves, Ends, TypeOK
  <2>2. /\ UNCHANGED <<disposition, generation, current, active, disposed>>
        /\ pc[a] \in Waiting /\ pc'[a] = "done" /\ \A b \in Attempts : b # a => pc'[b] = pc[b]
    BY <1>5, <2>1, OneResumes DEF CallRefused, Waiting
  <2> QED
    BY <2>2 DEF TypeOK, Turn, Waiting, Executing
<1>6. ASSUME NEW a \in Attempts, Start(a)
      PROVE  Turn'
  <2>1. /\ pc[a] = "initialized" /\ pc'[a] = "api" /\ a # current
        /\ \A b \in Attempts : b # a => pc'[b] = pc[b]
    BY <1>6, OneResumes DEF Turn, Executing, None, Attempts
  <2>2. \A b \in Attempts : b > a => pc[b] \in NotStarted
    BY <2>1, StartsNewest, AttemptNumbers DEF Waiting
  <2>3. active # None => active < a
    BY <2>1, StartsNewest DEF TypeOK, Turn, Waiting
  <2>4. ~ownerAborted[a] => disposition'[a] = "current"
    BY <1>6, <2>1 DEF Start, Turn, Waiting
  <2>5. \A b \in Attempts : pc'[b] \in NotStarted =>
          disposition'[b] = disposition[b] /\ generation'[b] = generation[b]
    <3> SUFFICES ASSUME NEW b \in Attempts, pc'[b] \in NotStarted
                 PROVE  disposition'[b] = disposition[b] /\ generation'[b] = generation[b]
      OBVIOUS
    <3>1. b # a /\ b # current
      BY <2>1, AttemptNumbers DEF Turn, Waiting, Executing
    <3> QED
      BY <1>6, <3>1 DEF Start, ProvisionalDisposed
  <2>6. ~disposed' /\ active' = active /\ current' = IF ownerAborted[a] THEN None ELSE a
    BY <1>6 DEF Start
  <2>7. current' # None =>
          /\ pc'[current'] \in Executing /\ disposition'[current'] = "current"
          /\ \A b \in Attempts : b > current' => pc'[b] \notin Executing
    BY <2>1, <2>2, <2>4, <2>6, AttemptNumbers DEF Waiting, Executing
  <2>8. active' # None => pc'[active'] = "done"
    BY <2>1, <2>6 DEF TypeOK, Turn
  <2>9. \A b \in Attempts : pc'[b] \in NotStarted => pc[b] \in NotStarted
    BY <2>1 DEF Waiting
  <2> QED
    BY <2>3, <2>5, <2>6, <2>7, <2>8, <2>9 DEF Turn
<1>7. ASSUME NEW a \in Attempts, FailInitialization(a)
      PROVE  Turn'
  <2>1. /\ pc[a] = "initFailed" /\ pc'[a] = "done"
        /\ \A b \in Attempts : b # a => pc'[b] = pc[b]
    BY <1>7, EndsTypes DEF FailInitialization, Resumes
  <2>2. current' = None /\ UNCHANGED <<active, disposed>>
    BY <1>7 DEF FailInitialization
  <2>3. \A b \in Attempts : pc[b] \in NotStarted => b # current
    BY AttemptNumbers DEF Turn, Waiting, Executing
  <2>4. \A b \in Attempts : pc[b] \in NotStarted =>
          disposition'[b] = disposition[b] /\ generation'[b] = generation[b]
    BY <1>7, <2>3, TurnTakenEffect DEF FailInitialization
  <2> QED
    BY <2>1, <2>2, <2>4 DEF TypeOK, Turn, Waiting
<1>8. ASSUME NEW a \in Attempts, Fail(a)
      PROVE  Turn'
  <2>1. PICK result : CompleteFailure(a, result)
    BY <1>8 DEF Fail
  <2>2. \A b \in Attempts : b # a => generation'[b] = generation[b]
    BY <2>1 DEF CompleteFailure, ProvisionalDisposed
  <2>3. pc[a] \in Executing /\ pc'[a] = "done" /\ \A b \in Attempts : b # a => pc'[b] = pc[b]
    BY <1>8, EndsTypes DEF Fail, CompleteFailure
  <2>4. /\ UNCHANGED <<active, disposed, disposition>>
        /\ current' = IF current = a THEN None ELSE current
    BY <2>1 DEF CompleteFailure
  <2> QED
    BY <2>2, <2>3, <2>4 DEF TypeOK, Turn, Waiting, Executing
<1>9. ASSUME NEW a \in Attempts, Advance(a) \/ Write(a) \/ FileReplaced(a)
      PROVE  Turn'
  <2>1. pc[a] \in Executing /\ pc'[a] \in Executing
    BY <1>9 DEF TypeOK, Advance, Write, FileReplaced, Moves, Executing
  <2>2. /\ UNCHANGED <<active, current, disposed, disposition>>
        /\ \A b \in Attempts : b # a => generation'[b] = generation[b]
    BY <1>9 DEF TypeOK, Advance, Write, FileReplaced
  <2> QED
    BY <1>9, <2>1, <2>2, OneExecutes DEF TypeOK, Turn, Waiting, Executing
<1>10. ASSUME NEW a \in Attempts, Promotion(a)
       PROVE  Turn'
  <2>1. PICK disposes \in BOOLEAN : Promote(a, disposes)
    BY <1>10 DEF Promotion
  <2>2. pc[a] \in Executing /\ pc'[a] = "done" /\ \A b \in Attempts : b # a => pc'[b] = pc[b]
    BY <1>10, <2>1, EndsTypes DEF Promotion, Promote, Executing
  <2>3. /\ current' = None /\ active' = (IF disposes THEN None ELSE a) /\ disposed' = disposes
        /\ disposition' = disposition
    BY <2>1 DEF Promote
  <2>4. \A b \in Attempts : generation[b] = "none" => generation'[b] = "none"
    BY <2>1 DEF Promote
  <2> QED
    BY <2>2, <2>3, <2>4 DEF TypeOK, Turn, Waiting, Executing
<1> QED
  BY <1>1, <1>2, <1>3, <1>4, <1>5, <1>6, <1>7, <1>8, <1>9, <1>10, Steps DEF AttemptSteps

\* Only an answer of load takes an attempt past load, and only the write lane
\* moves it on from there.
LEMMA OthersStay ==
  ASSUME TypeOK,
         \/ OtherSteps
         \/ \E a \in Attempts : \/ Connect(a) \/ RecoverCommitted(a) \/ OwnerAbort(a)
                                \/ CallRefused(a) \/ Start(a) \/ FailInitialization(a)
                                \/ Fail(a) \/ Promotion(a)
  PROVE  \A b \in Attempts : pc'[b] \in PastLoad => pc'[b] = pc[b]
<1> USE DEF PastLoad
<1>1. CASE OtherSteps
  BY <1>1 DEF TypeOK, OtherSteps, SupersedeCurrentAttempt, Dispose, SelectWorkflow, Initialized,
     InitializeFails, InitializeAnswers
<1>2. ASSUME NEW a \in Attempts, Connect(a) \/ RecoverCommitted(a) \/ OwnerAbort(a)
      PROVE  \A b \in Attempts : pc'[b] \in PastLoad => pc'[b] = pc[b]
  BY <1>2 DEF TypeOK, Connect, RecoverCommitted, OwnerAbort, Call, Moves
<1>3. ASSUME NEW a \in Attempts, CallRefused(a) \/ Start(a) \/ FailInitialization(a)
      PROVE  \A b \in Attempts : pc'[b] \in PastLoad => pc'[b] = pc[b]
  BY <1>3, OneResumes
<1>4. ASSUME NEW a \in Attempts, Fail(a) \/ Promotion(a)
      PROVE  \A b \in Attempts : pc'[b] \in PastLoad => pc'[b] = pc[b]
  BY <1>4, EndsTypes DEF Fail, CompleteFailure, Promotion, Promote
<1> QED
  BY <1>1, <1>2, <1>3, <1>4

-----------------------------------------------------------------------------
(* Bridge generations. *)

LEMMA GenerationOwnedNext ==
  ASSUME TypeOK, GenerationOwned, [Next]_vars
  PROVE  GenerationOwned'
<1>1. CASE UNCHANGED vars
  BY <1>1 DEF GenerationOwned, vars
<1>2. CASE OtherSteps
  <2>1. CASE SupersedeCurrentAttempt
    BY <2>1 DEF GenerationOwned, SupersedeCurrentAttempt, TurnTaken, ProvisionalDisposed
  <2>2. CASE Dispose
    BY <2>2 DEF GenerationOwned, Dispose
  <2>3. CASE SelectWorkflow
    BY <2>3 DEF GenerationOwned, SelectWorkflow
  <2>4. CASE Initialized \/ InitializeFails
    BY <2>4 DEF GenerationOwned, Initialized, InitializeFails, InitializeAnswers, Executing
  <2> QED
    BY <1>2, <2>1, <2>2, <2>3, <2>4 DEF OtherSteps
<1>3. ASSUME NEW a \in Attempts, Connect(a) \/ RecoverCommitted(a)
      PROVE  GenerationOwned'
  <2>1. PICK t \in Targets \cup {NoTarget}, saves \in BOOLEAN : Call(a, t, saves)
    BY <1>3 DEF Connect, RecoverCommitted
  <2> QED
    BY <2>1 DEF TypeOK, GenerationOwned, Call, Moves, Executing
<1>4. ASSUME NEW a \in Attempts, OwnerAbort(a)
      PROVE  GenerationOwned'
  BY <1>4 DEF GenerationOwned, OwnerAbort, TurnTaken, ProvisionalDisposed
<1>5. ASSUME NEW a \in Attempts, CallRefused(a) \/ Start(a) \/ FailInitialization(a)
      PROVE  GenerationOwned'
  <2>1. pc[a] \notin Executing /\ \A b \in Attempts : b # a => pc'[b] = pc[b]
    BY <1>5, OneResumes DEF Executing
  <2>2. /\ active' = active
        /\ \A b \in Attempts : generation'[b] = "open" => generation[b] = "open"
    BY <1>5 DEF CallRefused, Start, FailInitialization, TurnTaken, ProvisionalDisposed
  <2> QED
    BY <2>1, <2>2 DEF GenerationOwned
<1>6. ASSUME NEW a \in Attempts, Fail(a)
      PROVE  GenerationOwned'
  BY <1>6, OneExecutes DEF GenerationOwned, Fail, CompleteFailure, ProvisionalDisposed
<1>7. ASSUME NEW a \in Attempts, Advance(a) \/ Write(a) \/ FileReplaced(a)
      PROVE  GenerationOwned'
  <2>1. pc'[a] \in Executing
    BY <1>7 DEF TypeOK, Advance, Write, FileReplaced, Moves, Executing
  <2>2. active' = active /\ \A b \in Attempts : b # a => generation'[b] = generation[b]
    BY <1>7 DEF TypeOK, Advance, Write, FileReplaced
  <2> QED
    BY <1>7, <2>1, <2>2, OneExecutes DEF GenerationOwned
<1>8. ASSUME NEW a \in Attempts, Promotion(a)
      PROVE  GenerationOwned'
  <2>1. PICK disposes \in BOOLEAN : Promote(a, disposes)
    BY <1>8 DEF Promotion
  <2>2. \A b \in Attempts : generation'[b] = "open" =>
          (generation[b] = "open" /\ b # active) \/ b = active'
    BY <2>1 DEF Promote
  <2>3. generation'[a] = "open" => a = active'
    BY <2>1 DEF Promote
  <2> QED
    BY <1>8, <2>2, <2>3, OneExecutes DEF GenerationOwned
<1> QED
  BY <1>1, <1>2, <1>3, <1>4, <1>5, <1>6, <1>7, <1>8, Steps DEF AttemptSteps

-----------------------------------------------------------------------------
(* The turn of an attempt past load, and the order of the write lane. *)

LEMMA KeepsTurnNext ==
  ASSUME TypeOK, Turn, KeepsTurn, LaneOrder, [Next]_vars
  PROVE  KeepsTurn'
<1> SUFFICES ASSUME NEW b \in Attempts, pc'[b] \in PastLoad, disposition'[b] = "current"
             PROVE  current' = b
  BY DEF KeepsTurn
<1>1. ASSUME pc'[b] = pc[b], disposition[b] = "current"
      PROVE  current = b
  BY <1>1 DEF KeepsTurn
<1>2. CASE UNCHANGED vars
  BY <1>1, <1>2 DEF vars
<1>3. CASE OtherSteps
  <2>1. pc'[b] = pc[b]
    BY <1>3, OthersStay
  <2>2. CASE SupersedeCurrentAttempt
    BY <1>1, <2>1, <2>2 DEF SupersedeCurrentAttempt, TurnTaken
  <2>3. CASE Dispose
    BY <1>1, <2>1, <2>3 DEF Dispose
  <2>4. CASE SelectWorkflow \/ Initialized \/ InitializeFails
    BY <1>1, <2>1, <2>4 DEF SelectWorkflow, Initialized, InitializeFails, InitializeAnswers
  <2> QED
    BY <1>3, <2>2, <2>3, <2>4 DEF OtherSteps
<1>4. ASSUME NEW a \in Attempts,
             \/ Connect(a) \/ RecoverCommitted(a) \/ OwnerAbort(a)
             \/ CallRefused(a) \/ Start(a) \/ FailInitialization(a)
      PROVE  current' = b
  <2>1. pc'[b] = pc[b]
    BY <1>4, OthersStay
  <2>2. CASE Connect(a) \/ RecoverCommitted(a) \/ CallRefused(a)
    BY <1>1, <2>1, <2>2 DEF Connect, RecoverCommitted, Call, CallRefused
  <2>3. CASE OwnerAbort(a)
    BY <1>1, <2>1, <2>3 DEF OwnerAbort, TurnTaken
  <2>4. CASE FailInitialization(a)
    BY <1>1, <2>1, <2>4 DEF FailInitialization, TurnTaken
  <2>5. CASE Start(a)
    <3>1. b # a
      BY <2>1, <2>5, OneResumes DEF PastLoad
    <3> QED
      BY <1>1, <2>1, <2>5, <3>1 DEF Start
  <2> QED
    BY <1>4, <2>2, <2>3, <2>4, <2>5
<1>5. ASSUME NEW a \in Attempts, Fail(a)
      PROVE  current' = b
  <2>1. b # a /\ pc'[b] = pc[b] /\ disposition[b] = "current"
    BY <1>5, OthersStay, OneExecutes, EndsTypes DEF Fail, CompleteFailure, PastLoad
  <2> QED
    BY <1>1, <1>5, <2>1 DEF Fail, CompleteFailure
<1>6. ASSUME NEW a \in Attempts, Advance(a)
      PROVE  current' = b
  <2>1. CASE b = a
    BY <1>6, <2>1 DEF Advance, EnsureCurrent, CurrentDisposition
  <2>2. CASE b # a
    BY <1>1, <1>6, <2>2, OneExecutes DEF Advance
  <2> QED
    BY <2>1, <2>2
<1>7. ASSUME NEW a \in Attempts, Write(a) \/ FileReplaced(a)
      PROVE  current' = b
  <2>1. pc[b] \in PastLoad
    BY <1>7, OneExecutes DEF Write, FileReplaced, Moves, PastLoad
  <2> QED
    BY <1>7, <2>1 DEF KeepsTurn, Write, FileReplaced
<1>8. ASSUME NEW a \in Attempts, Promotion(a)
      PROVE  current' = b
  <2>1. b # a /\ pc'[b] = pc[b] /\ current = b
    BY <1>1, <1>8, OthersStay, OneExecutes, EndsTypes DEF Promotion, Promote, PastLoad
  <2>2. pc[a] = "replaced"
    BY <1>8, <2>1 DEF Promotion, EnsureCurrent, CurrentDisposition
  <2>3. a > b \/ a < b
    BY <2>1, AttemptNumbers
  <2>4. ~(a > b)
    BY <2>1, <2>2, AttemptNumbers DEF Turn, Executing
  <2>5. ~(a < b)
    BY <2>1, <2>2 DEF LaneOrder, Writing
  <2> QED
    BY <2>3, <2>4, <2>5
<1> QED
  BY <1>2, <1>3, <1>4, <1>5, <1>6, <1>7, <1>8, Steps DEF AttemptSteps

LEMMA LaneOrderNext ==
  ASSUME TypeOK, Turn, KeepsTurn, LaneOrder, [Next]_vars
  PROVE  LaneOrder'
<1> SUFFICES ASSUME NEW a \in Attempts, NEW b \in Attempts, pc'[a] \in PastLoad, b < a
             PROVE  pc'[b] \notin Writing
  BY DEF LaneOrder
<1>1. ASSUME pc'[a] = pc[a], pc'[b] \in Writing => pc'[b] = pc[b]
      PROVE  pc'[b] \notin Writing
  BY <1>1 DEF LaneOrder
<1>2. a # b
  BY AttemptNumbers
<1>3. ASSUME NEW x \in Attempts, Advance(x)
      PROVE  pc'[b] \notin Writing
  <2>1. CASE x = a
    <3>1. pc'[b] = pc[b] /\ pc[a] \notin PastLoad
      BY <1>2, <1>3, <2>1, OneExecutes DEF Advance, Moves, PastLoad
    <3> QED
      BY <1>3, <2>1, <3>1 DEF TypeOK, Advance, Moves, PastLoad
  <2>2. CASE x # a
    <3>1. x = b => pc'[b] \notin Writing
      BY <1>3 DEF TypeOK, Advance, Moves, Writing
    <3> QED
      BY <1>1, <1>3, <2>2, <3>1, OneExecutes
  <2> QED
    BY <2>1, <2>2
<1>4. ASSUME NEW x \in Attempts, Write(x) \/ FileReplaced(x)
      PROVE  pc'[b] \notin Writing
  <2>1. pc[a] \in PastLoad
    BY <1>4, OneExecutes DEF Write, FileReplaced, Moves, PastLoad
  <2>2. pc[b] \notin Writing
    BY <2>1 DEF LaneOrder
  <2>3. x = b => pc[b] = "cas" /\ disposition[b] = "current"
    BY <1>4, <2>2 DEF Write, FileReplaced, Moves, Writing
  <2>4. x # b
    BY <2>1, <2>3, AttemptNumbers DEF KeepsTurn, Turn, PastLoad, Executing
  <2> QED
    BY <1>4, <2>2, <2>4, OneExecutes
<1>5. CASE \/ UNCHANGED vars
           \/ \A c \in Attempts : pc'[c] \in PastLoad => pc'[c] = pc[c]
  BY <1>1, <1>5 DEF vars, PastLoad, Writing
<1> QED
  BY <1>3, <1>4, <1>5, Steps, OthersStay DEF AttemptSteps

-----------------------------------------------------------------------------
(* What is saved. *)

LEMMA SavedNext ==
  ASSUME TypeOK, Order, Turn, KeepsTurn, LaneOrder, Saved, [Next]_vars
  PROVE  Saved'
<1> USE DEF Writing
<1>1. CASE UNCHANGED vars
  BY <1>1 DEF Saved, vars, callVars
<1>2. CASE SupersedeCurrentAttempt \/ Dispose
  BY <1>2 DEF Saved, SupersedeCurrentAttempt, Dispose, attemptVars, callVars
<1>3. CASE SelectWorkflow
  <2>1. \A a \in Attempts : pc'[a] \notin Writing
    BY <1>3 DEF SelectWorkflow, LaneFree
  <2>2. file'.baseUrl = file.baseUrl
    BY <1>3, FileStates DEF TypeOK, SelectWorkflow, FileState, NoState
  <2> QED
    BY <1>3, <2>1, <2>2 DEF Saved, SelectWorkflow, attemptVars, callVars, snapshotVars
<1>4. CASE Initialized \/ InitializeFails
  <2>1. active = None /\ current = None
    BY <1>4 DEF Order, Turn, TypeOK, Initialized, InitializeFails, InitializeAnswers
  <2>2. \A a \in Attempts : pc'[a] \in Writing => pc'[a] = pc[a]
    BY <1>4 DEF TypeOK, Initialized, InitializeFails, InitializeAnswers
  <2>3. /\ active' = None /\ current' = None /\ UNCHANGED <<file, expected, target>>
        /\ initialized' = "done" => committed' = file.baseUrl
    BY <1>4, <2>1 DEF Initialized, InitializeFails, InitializeAnswers, attemptVars, callVars
  <2> QED
    BY <2>2, <2>3 DEF Saved
<1>5. ASSUME NEW a \in Attempts, Connect(a) \/ RecoverCommitted(a)
      PROVE  Saved'
  <2>1. PICK t \in Targets \cup {NoTarget}, saves \in BOOLEAN : Call(a, t, saves)
    BY <1>5 DEF Connect, RecoverCommitted
  <2>2. /\ pc[a] = "none" /\ pc'[a] \notin Writing
        /\ \A b \in Attempts : b # a =>
             pc'[b] = pc[b] /\ target'[b] = target[b] /\ persist'[b] = persist[b]
    BY <2>1 DEF TypeOK, Call, Moves
  <2>3. (current # None => current # a) /\ (active # None => active # a)
    BY <2>2 DEF Turn, Executing
  <2>4. /\ UNCHANGED <<file, expected, committed, current, active, disposed>>
        /\ initialized' = "done" => initialized = "done"
    BY <2>1 DEF Call, snapshotVars
  <2> QED
    BY <2>2, <2>3, <2>4 DEF TypeOK, Saved
<1>6. ASSUME NEW a \in Attempts, OwnerAbort(a)
      PROVE  Saved'
  BY <1>6 DEF Saved, OwnerAbort
<1>7. ASSUME NEW a \in Attempts, CallRefused(a) \/ FailInitialization(a)
      PROVE  Saved'
  <2>1. ~Start(a)
    BY <1>7 DEF TypeOK, CallRefused, FailInitialization, Resumes, Start, Moves, Ends
  <2>2. /\ pc[a] \notin Writing /\ pc'[a] = "done"
        /\ \A b \in Attempts : b # a => pc'[b] = pc[b] /\ expected'[b] = expected[b]
    BY <1>7, <2>1, OneResumes DEF TypeOK, CallRefused, FailInitialization, Ends
  <2>3. /\ UNCHANGED <<file, target, persist, committed, active, disposed, initialized>>
        /\ current' \in {None, current}
    BY <1>7 DEF CallRefused, FailInitialization, callVars, snapshotVars
  <2> QED
    BY <2>2, <2>3 DEF Saved
<1>8. ASSUME NEW a \in Attempts, Start(a)
      PROVE  Saved'
  <2>1. /\ pc[a] = "initialized" /\ pc'[a] = "api"
        /\ \A b \in Attempts : b # a => pc'[b] = pc[b] /\ target'[b] = target[b]
    BY <1>8, OneResumes, ZenonT(30) DEF TypeOK, Start
  <2>2. active # None => active # a
    BY <2>1 DEF Turn
  <2>3. /\ UNCHANGED <<file, expected, persist, committed, active, disposed, initialized>>
        /\ current' \in {None, a}
        /\ ~persist[a] => target'[a] = committed
    BY <1>8 DEF TypeOK, Start
  <2> QED
    BY <2>1, <2>2, <2>3 DEF TypeOK, Saved
<1>9. ASSUME NEW a \in Attempts, Fail(a)
      PROVE  Saved'
  <2>1. /\ pc'[a] = "done"
        /\ \A b \in Attempts : b # a => pc'[b] = pc[b] /\ expected'[b] = expected[b]
    BY <1>9, EndsTypes, ZenonT(30) DEF Fail, CompleteFailure, Ends
  <2>2. /\ UNCHANGED <<file, target, persist, committed, active, disposed, initialized>>
        /\ current' \in {None, current}
    BY <1>9 DEF Fail, CompleteFailure, callVars
  <2>3. pc[a] = "replaced" => disposed
    BY <1>9 DEF Fail
  <2> QED
    BY <2>1, <2>2, <2>3 DEF Saved
<1>10. ASSUME NEW a \in Attempts, Advance(a)
       PROVE  Saved'
  <2>1. /\ pc[a] \notin Writing /\ pc'[a] \notin Writing
        /\ \A b \in Attempts : b # a => pc'[b] = pc[b] /\ expected'[b] = expected[b]
    BY <1>10 DEF TypeOK, Advance, Moves
  <2> QED
    BY <1>10, <2>1 DEF Saved, Advance, callVars, snapshotVars
<1>11. ASSUME NEW a \in Attempts, Write(a)
       PROVE  Saved'
  <2>1. /\ pc'[a] \in {"writing", "moving"} /\ pc[a] # "replaced"
        /\ \A b \in Attempts : b # a => pc'[b] = pc[b]
    BY <1>11 DEF TypeOK, Write, Moves
  <2>2. file = expected[a]
    BY <1>11 DEF Saved, Write, Moves
  <2> QED
    BY <1>11, <2>1, <2>2 DEF Saved, Write, attemptVars, callVars, snapshotVars
<1>12. ASSUME NEW a \in Attempts, FileReplaced(a)
       PROVE  Saved'
  <2>1. /\ pc[a] = "moving" /\ pc'[a] = "replaced" /\ file'.baseUrl = target[a]
        /\ \A b \in Attempts : b # a => pc'[b] = pc[b]
    BY <1>12 DEF TypeOK, FileReplaced, Moves
  <2>2. \A b \in Attempts : b # a => pc[b] \notin Writing
    <3> SUFFICES ASSUME NEW b \in Attempts, b # a, pc[b] \in Writing
                 PROVE  FALSE
      OBVIOUS
    <3>1. a < b \/ b < a
      BY AttemptNumbers
    <3> QED
      BY <2>1, <3>1 DEF LaneOrder, PastLoad
  <2> QED
    BY <1>12, <2>1, <2>2 DEF Saved, FileReplaced, attemptVars, callVars, snapshotVars
<1>13. ASSUME NEW a \in Attempts, Promotion(a)
       PROVE  Saved'
  <2>1. PICK disposes \in BOOLEAN : Promote(a, disposes)
    BY <1>13 DEF Promotion
  <2>2. /\ pc'[a] = "done"
        /\ \A b \in Attempts : b # a => pc'[b] = pc[b] /\ expected'[b] = expected[b]
    BY <2>1, EndsTypes DEF Promote, Ends
  <2>3. /\ UNCHANGED <<file, target, persist, initialized>>
        /\ current' = None /\ active' \in {None, a} /\ committed' = target[a]
    BY <2>1 DEF Promote, callVars
  <2>4. CASE pc[a] = "replaced"
    BY <2>2, <2>3, <2>4 DEF Saved
  <2>5. CASE pc[a] = "bridge" /\ ~persist[a] /\ EnsureCurrent(a)
    <3>1. current = a /\ ~disposed
      BY <2>5 DEF EnsureCurrent, CurrentDisposition
    <3>2. target[a] = committed
      BY <2>5, <3>1, AttemptNumbers DEF Saved
    <3>3. initialized = "done"
      BY <2>5 DEF Order, Executing, TypeOK
    <3> QED
      BY <2>2, <2>3, <2>5, <3>1, <3>2, <3>3 DEF Saved
  <2> QED
    BY <1>13, <2>4, <2>5 DEF Promotion
<1> QED
  BY <1>1, <1>2, <1>3, <1>4, <1>5, <1>6, <1>7, <1>8, <1>9, <1>10, <1>11, <1>12, <1>13, Steps
  DEF AttemptSteps, OtherSteps

LEMMA IInvNext ==
  ASSUME IInv, [Next]_vars
  PROVE  IInv'
  BY TypeOKNext, OrderNext, TurnNext, KeepsTurnNext, LaneOrderNext, SavedNext,
     GenerationOwnedNext DEF IInv

\* The inductive invariant, from which the properties follow.
THEOREM IInvAlways == Spec => []IInv
<1>1. Init => IInv
  BY InitIInv
<1>2. IInv /\ [Next]_vars => IInv'
  BY IInvNext
<1> QED
  BY <1>1, <1>2, PTL DEF Spec

-----------------------------------------------------------------------------
(* The properties of the runs. *)

\* Every variable has its type, and every attempt that executes has a target.
THEOREM TypeOKAlways == Spec => []TypeOK
<1>1. IInv => TypeOK
  BY DEF IInv
<1> QED
  BY <1>1, IInvAlways, PTL

\* An open Bridge generation belongs to the active connection or to a call that executes.
THEOREM GenerationOwnedAlways == Spec => []GenerationOwned
<1>1. IInv => GenerationOwned
  BY DEF IInv
<1> QED
  BY <1>1, IInvAlways, PTL

\* The active connection is the one a restart would recover.
THEOREM ActiveIsDurableAlways == Spec => []ActiveIsDurable
<1>1. IInv => ActiveIsDurable
  <2> SUFFICES ASSUME IInv, active # None, \A a \in Attempts : pc[a] # "replaced"
               PROVE  committed = target[active] /\ file.baseUrl = target[active]
    BY DEF ActiveIsDurable
  <2>1. initialized = "done" /\ ~disposed
    BY DEF IInv, Order, Turn
  <2> QED
    BY <2>1 DEF IInv, Saved
<1> QED
  BY <1>1, IInvAlways, PTL

\* What a step that changes the active connection is.
LEMMA ActiveChanges ==
  ASSUME IInv, [Next]_vars, active' \notin {active, None}
  PROVE  Promotion(active') /\ active' \in Attempts /\ disposition' = disposition
<1>1. ASSUME NEW a \in Attempts, Promotion(a)
      PROVE  active' = a /\ disposition' = disposition
  BY <1>1 DEF Promotion, Promote
<1>2. ASSUME NEW a \in Attempts,
             \/ Connect(a) \/ RecoverCommitted(a) \/ OwnerAbort(a)
             \/ CallRefused(a) \/ Start(a) \/ FailInitialization(a)
             \/ Fail(a) \/ Advance(a) \/ Write(a) \/ FileReplaced(a)
      PROVE  active' = active
  BY <1>2 DEF Connect, RecoverCommitted, Call, OwnerAbort, CallRefused, Start,
     FailInitialization, Fail, CompleteFailure, Advance, Write, FileReplaced
<1>3. CASE OtherSteps \/ UNCHANGED vars
  BY <1>3 DEF OtherSteps, SupersedeCurrentAttempt, Dispose, SelectWorkflow, Initialized,
     InitializeFails, InitializeAnswers, vars
<1> QED
  BY <1>1, <1>2, <1>3, Steps DEF IInv, AttemptSteps

\* Only the newest attempt that executes becomes the active connection, unless it
\* was superseded or aborted after its file was replaced.
THEOREM LatestWinsAlways == Spec => LatestWins
<1>1. IInv /\ [Next]_vars =>
        (active' \notin {active, None} /\ disposition[active'] = "current" =>
           /\ active < active'
           /\ \A b \in Attempts : b > active' => pc[b] \notin Executing)
  <2> SUFFICES ASSUME IInv, [Next]_vars, active' \notin {active, None},
                      disposition[active'] = "current"
               PROVE  /\ active < active'
                      /\ \A b \in Attempts : b > active' => pc[b] \notin Executing
    OBVIOUS
  <2>1. Promotion(active') /\ active' \in Attempts
    BY ActiveChanges
  <2>2. current = active'
    BY <2>1 DEF IInv, KeepsTurn, PastLoad, Promotion, EnsureCurrent, CurrentDisposition
  <2>3. active = None => active < active'
    BY <2>1, AttemptNumbers DEF None, Attempts
  <2> QED
    BY <2>1, <2>2, <2>3 DEF IInv, Turn
<1> QED
  BY <1>1, IInvAlways, PTL DEF Spec, LatestWins

\* What a step that publishes a failure is.
LEMMA FailurePublished ==
  ASSUME IInv, [Next]_vars, failure' \notin {failure, None}
  PROVE  /\ failure' \in Attempts
         /\ (current = failure' /\ Fail(failure')) \/ FailInitialization(failure')
<1>1. ASSUME NEW a \in Attempts, Fail(a)
      PROVE  failure' = a /\ current = a
  BY <1>1 DEF Fail, CompleteFailure
<1>2. ASSUME NEW a \in Attempts, FailInitialization(a)
      PROVE  failure' = a
  BY <1>2 DEF FailInitialization
<1>3. ASSUME NEW a \in Attempts,
             \/ Connect(a) \/ RecoverCommitted(a) \/ OwnerAbort(a) \/ CallRefused(a)
             \/ Start(a) \/ Advance(a) \/ Write(a) \/ FileReplaced(a) \/ Promotion(a)
      PROVE  failure' \in {failure, None}
  BY <1>3 DEF Connect, RecoverCommitted, Call, OwnerAbort, CallRefused, Start, Advance, Write,
     FileReplaced, Promotion, Promote, snapshotVars
<1>4. CASE OtherSteps \/ UNCHANGED vars
  BY <1>4 DEF OtherSteps, SupersedeCurrentAttempt, Dispose, SelectWorkflow, Initialized,
     InitializeFails, InitializeAnswers, snapshotVars, vars
<1> QED
  BY <1>1, <1>2, <1>3, <1>4, Steps DEF IInv, AttemptSteps

\* No failure of an attempt is published once a newer one executes or is active.
THEOREM NoStaleFailureAlways == Spec => NoStaleFailure
<1>1. IInv /\ [Next]_vars =>
        (failure' \notin {failure, None} =>
           /\ active' <= failure'
           /\ \A b \in Attempts : b > failure' => pc'[b] \notin Executing)
  <2> SUFFICES ASSUME IInv, [Next]_vars, NEW a \in Attempts, failure' = a,
                      (current = a /\ Fail(a)) \/ FailInitialization(a)
               PROVE  /\ active' <= a
                      /\ \A b \in Attempts : b > a => pc'[b] \notin Executing
    BY FailurePublished
  <2>1. \A b \in Attempts : b > a => b # a
    BY AttemptNumbers
  <2>2. active' = active /\ (active = None => active <= a)
    BY AttemptNumbers DEF Fail, CompleteFailure, FailInitialization, None, Attempts
  <2>3. CASE current = a /\ Fail(a)
    <3>1. \A b \in Attempts : b > a => pc'[b] \notin Executing
      BY <2>1, <2>3, OneExecutes, AttemptNumbers DEF IInv, Turn
    <3>2. active # None => active <= a
      BY <2>3, AttemptNumbers DEF IInv, TypeOK, Turn
    <3> QED
      BY <2>2, <3>1, <3>2
  <2>4. CASE FailInitialization(a)
    <3>1. pc[a] \in NotStarted
      BY <2>4 DEF FailInitialization, Resumes, NotStarted, Waiting
    <3>2. \A b \in Attempts : pc[b] \notin NotStarted => b < a
      BY <3>1, StartsNewest DEF IInv
    <3>3. active # None => active <= a
      BY <3>2, AttemptNumbers DEF IInv, TypeOK, Turn, NotStarted, Waiting
    <3>4. \A b \in Attempts : b > a => pc'[b] = pc[b] /\ pc[b] \notin Executing
      BY <2>1, <2>4, <3>2, OneResumes, AttemptNumbers DEF IInv, NotStarted, Waiting, Executing
    <3> QED
      BY <2>2, <3>3, <3>4
  <2> QED
    BY <2>3, <2>4
<1> QED
  BY <1>1, IInvAlways, PTL DEF Spec, NoStaleFailure

\* A connection keeps the selection of the file it replaces.
THEOREM SelectionKeptAlways == Spec => SelectionKept
<1>1. IInv /\ [Next]_vars => (file'.baseUrl # file.baseUrl => file'.selected = file.selected)
  <2> SUFFICES ASSUME IInv, [Next]_vars, file'.baseUrl # file.baseUrl
               PROVE  file'.selected = file.selected
    OBVIOUS
  <2>1. ASSUME NEW a \in Attempts, FileReplaced(a)
        PROVE  file'.selected = file.selected
    BY <2>1 DEF IInv, Saved, FileReplaced, Moves
  <2>2. ASSUME NEW a \in Attempts,
               \/ Connect(a) \/ RecoverCommitted(a) \/ OwnerAbort(a)
               \/ CallRefused(a) \/ Start(a) \/ FailInitialization(a)
               \/ Fail(a) \/ Advance(a) \/ Write(a) \/ Promotion(a)
        PROVE  FALSE
    BY <2>2 DEF Connect, RecoverCommitted, Call, OwnerAbort, CallRefused, Start,
       FailInitialization, Fail, CompleteFailure, Advance, Write, Promotion, Promote
  <2>3. CASE SelectWorkflow
    BY <2>3, FileStates DEF IInv, TypeOK, SelectWorkflow, FileState, NoState
  <2>4. CASE SupersedeCurrentAttempt \/ Dispose \/ Initialized \/ InitializeFails \/ UNCHANGED vars
    BY <2>4 DEF SupersedeCurrentAttempt, Dispose, Initialized, InitializeFails, InitializeAnswers,
       vars
  <2> QED
    BY <2>1, <2>2, <2>3, <2>4, Steps DEF IInv, AttemptSteps, OtherSteps
<1> QED
  BY <1>1, IInvAlways, PTL DEF Spec, SelectionKept

-----------------------------------------------------------------------------
(* The composition: a half that moves takes one of its own steps, and the   *)
(* other one rests, so each keeps its own invariant.                         *)

LEMMA RuntimeBounds == Runtime!Finite
  BY ManagementAssumption
  DEF ManagementAssumption, Runtime!Finite, Runtime!Bounds, IsFiniteSet, Runtime!IsFiniteSet

LEMMA ManagementMoves ==
  ASSUME [ManagementNext]_managementVars
  PROVE  /\ focus' = focus
         /\ [Next]_vars /\ [Runtime!Next]_(Runtime!vars)
  BY DEF ManagementNext, ConnectionMoves, RuntimeMoves, managementVars, vars, runtimeVars,
     Runtime!vars, Runtime!runtimeVars, Runtime!selectionVars, Runtime!discoveryVars,
     Runtime!copyVars, Runtime!readVars

ManagementIInv == IInv /\ Runtime!IInv /\ Runtime!Detail

LEMMA ManagementAlways == ManagementSpec => []ManagementIInv
<1>1. ManagementInit => ManagementIInv
  BY InitIInv, RuntimeBounds, Runtime!IInvInit, Runtime!DetailInit
  DEF ManagementInit, ManagementIInv, Runtime!Finite
<1>2. ManagementIInv /\ [ManagementNext]_managementVars => ManagementIInv'
  BY ManagementMoves, IInvNext, Runtime!NextKeeps, Runtime!DetailNext DEF ManagementIInv
<1> QED
  BY <1>1, <1>2, PTL DEF ManagementSpec

\* Beside the runtime, the connection takes the steps of connection.ts and no others: what is
\* proved of its Spec above, action properties included, holds of the composed behaviours.
THEOREM ConnectionImplemented == ManagementSpec => Spec
<1>1. ManagementInit => Init
  BY DEF ManagementInit
<1>2. [ManagementNext]_managementVars => [Next]_vars
  BY ManagementMoves
<1> QED
  BY <1>1, <1>2, PTL DEF ManagementSpec, Spec

\* The runtime of management.ts holds nothing of an old connection, and the newest
\* installed discovery of the active one has made its catalog: what the run checks.
THEOREM NothingStaleHere == ManagementSpec => []NothingStale
<1>1. ManagementIInv => NothingStale
  BY Runtime!Implied DEF ManagementIInv, NothingStale
<1> QED
  BY <1>1, ManagementAlways, PTL

\* The selection that management.ts has answered as the latest one is in the state file,
\* unless it was compared with no state, because the file could not be read, or with the
\* answer of a load that a selection's write had overtaken.
THEOREM SelectionIsDurableHere == ManagementSpec => []SelectionIsDurable
<1>1. ManagementIInv => SelectionIsDurable
  BY Runtime!Implied DEF ManagementIInv, SelectionIsDurable
<1> QED
  BY <1>1, ManagementAlways, PTL

\* Both halves of the management service keep their types, for any finite set of workflows
\* that a server lists and any number of attempts, selections, discoveries and promotions.
THEOREM ManagementTypeOKHere == ManagementSpec => []ManagementTypeOK
<1>1. ManagementIInv => ManagementTypeOK
  BY Runtime!DetailTypes DEF ManagementIInv, IInv, ManagementTypeOK
<1> QED
  BY <1>1, ManagementAlways, PTL
=============================================================================
