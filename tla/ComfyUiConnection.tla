--------------------------- MODULE ComfyUiConnection ---------------------------
(***************************************************************************)
(* The connection transaction coordinator of packages/application/src/     *)
(* comfyui/connection.ts: attempts that validate a target, save it in the  *)
(* durable state and promote their Bridge generation to the active one.    *)
(* A newer attempt, an edit of the draft, the owner's signal or dispose()  *)
(* may take the turn from an attempt at each of its awaits.                *)
(*                                                                         *)
(* Its durable state is the state file of the UXP adapter, whose           *)
(* compareAndSave looks at the abort signal a last time before moveTo:     *)
(* the replacement of the file, and the answer that reports it, come       *)
(* later and each can be overtaken by a user event.                        *)
(*                                                                         *)
(* Attempts are numbered in the order of the calls.  The calls wait for    *)
(* one initialize() promise and leave it in that order, so that is also    *)
(* the order of attempt.id.                                                *)
(***************************************************************************)
EXTENDS Naturals

CONSTANTS
  Targets,      \* the canonical base URLs
  NoTarget,     \* no URL
  Workflows,    \* the workflow ids the selection in the state file ranges over
  MaxAttempts   \* BOUND: how many connect and recoverCommitted calls are made

ASSUME ConnectionAssumption ==
  /\ NoTarget \notin Targets
  /\ MaxAttempts \in Nat

Attempts == 1 .. MaxAttempts
None == 0

\* A PersistedComfyUiState as far as the coordinator tells states apart.
\* NoTarget also stands for a null selection, and NoState for an absent file.
NoState == [baseUrl |-> NoTarget, selected |-> NoTarget]
FileState == [baseUrl : Targets, selected : Workflows \cup {NoTarget}] \cup {NoState}

VARIABLES
  pc,           \* attempt -> the await its call stands at
  outcome,      \* attempt -> what the call resolved to
  target,       \* attempt -> attempt.target
  persist,      \* attempt -> connect (TRUE) or recoverCommitted (FALSE)
  disposition,  \* attempt -> attempt.disposition; its signal is aborted unless "current"
  ownerAborted, \* attempt -> ownerSignal.aborted, until the call resolves
  generation,   \* attempt -> the Bridge generation it created
  expected,     \* attempt -> the state it loaded and will compare with, from its load to its end
  calls,        \* how many calls were made
  current,      \* the attempt in `current`, None when undefined
  active,       \* the attempt the active resolver routes to, None when undefined
  initialized,  \* initializePromise: "none", "loading" or "done"
  committed,    \* snapshot.committedTarget
  provisional,  \* the attempt in snapshot.provisionalAttempt
  failure,      \* the attempt in snapshot.lastFailure
  disposed,     \* disposed, of the coordinator and of the active resolver alike
  file          \* what the state file holds

callVars == <<target, persist>>
attemptVars == <<callVars, ownerAborted, expected>>
snapshotVars == <<committed, provisional, failure>>
vars == <<pc, outcome, target, persist, disposition, ownerAborted, generation, expected,
          calls, current, active, initialized, committed, provisional, failure, disposed, file>>

Waiting == {"initializing", "initialized", "initFailed"}
Executing == {"api", "frontend", "bridge", "load", "cas", "writing", "moving", "replaced"}

TypeOK ==
  /\ pc \in [Attempts -> {"none", "done"} \cup Waiting \cup Executing]
  /\ outcome \in [Attempts -> {"pending", "ok", "failed", "superseded", "aborted", "nothing"}]
  /\ target \in [Attempts -> Targets \cup {NoTarget}]
  /\ \A a \in Attempts : pc[a] \in Executing => target[a] # NoTarget
  /\ persist \in [Attempts -> BOOLEAN]
  /\ disposition \in [Attempts -> {"current", "superseded", "aborted"}]
  /\ ownerAborted \in [Attempts -> BOOLEAN]
  /\ generation \in [Attempts -> {"none", "open", "retired", "disposed"}]
  /\ expected \in [Attempts -> FileState]
  /\ calls \in 0 .. MaxAttempts
  /\ {current, active, provisional, failure} \subseteq Attempts \cup {None}
  /\ initialized \in {"none", "loading", "done"}
  /\ committed \in Targets \cup {NoTarget}
  /\ disposed \in BOOLEAN
  /\ file \in FileState

Init ==
  /\ pc = [a \in Attempts |-> "none"]
  /\ outcome = [a \in Attempts |-> "pending"]
  /\ target = [a \in Attempts |-> NoTarget]
  /\ persist = [a \in Attempts |-> FALSE]
  /\ disposition = [a \in Attempts |-> "current"]
  /\ ownerAborted = [a \in Attempts |-> FALSE]
  /\ generation = [a \in Attempts |-> "none"]
  /\ file \in FileState
  /\ expected = [a \in Attempts |-> NoState]
  /\ calls = 0
  /\ current = None /\ active = None
  /\ initialized = "none"
  /\ committed = NoTarget /\ provisional = None /\ failure = None
  /\ disposed = FALSE

-----------------------------------------------------------------------------
(* Helpers. *)

Moves(a, from, to) == pc[a] = from /\ pc' = [pc EXCEPT ![a] = to]

Ends(a, result) ==
  /\ pc' = [pc EXCEPT ![a] = "done"]
  /\ outcome' = [outcome EXCEPT ![a] = result]
  /\ expected' = [expected EXCEPT ![a] = NoState]
  /\ ownerAborted' = [ownerAborted EXCEPT ![a] = FALSE]

\* currentDisposition: "current" stands for undefined.
CurrentDisposition(a) ==
  IF disposition[a] = "current" /\ disposed THEN "aborted"
  ELSE IF disposition[a] = "current" /\ current # a THEN "superseded"
  ELSE disposition[a]

EnsureCurrent(a) == CurrentDisposition(a) = "current"

\* disposeProvisional; the active generation is no longer its attempt's.
ProvisionalDisposed(a) ==
  [b \in Attempts |->
     IF b = a /\ b # active /\ generation[b] = "open" THEN "disposed" ELSE generation[b]]

\* The attempt in `current` loses the turn and its generation, and is aborted.
TurnTaken(how) ==
  /\ disposition' = [b \in Attempts |-> IF b = current THEN how ELSE disposition[b]]
  /\ generation' = ProvisionalDisposed(current)

\* MUTANT of CompleteFailure: an attempt that has lost its turn returns at once.
CompleteFailureEarlyReturn(a, result) ==
  /\ Ends(a, result)
  /\ generation' = IF current = a THEN ProvisionalDisposed(a) ELSE generation
  /\ current' = IF current = a THEN None ELSE current
  /\ provisional' = IF current = a THEN None ELSE provisional
  /\ failure' = IF current = a /\ result = "failed" THEN a ELSE failure
  /\ UNCHANGED <<callVars, disposition, calls, active, initialized, committed, disposed, file>>

\* MUTANT of CompleteFailure: the failure is published whoever's turn it is.
CompleteFailureAlways(a, result) ==
  /\ Ends(a, result)
  /\ generation' = ProvisionalDisposed(a)
  /\ current' = IF current = a THEN None ELSE current
  /\ provisional' = IF current = a THEN None ELSE provisional
  /\ failure' = a
  /\ UNCHANGED <<callVars, disposition, calls, active, initialized, committed, disposed, file>>

\* completeFailure: only the attempt whose turn it is publishes.
CompleteFailure(a, result) ==
  /\ Ends(a, result)
  /\ generation' = ProvisionalDisposed(a)
  /\ current' = IF current = a THEN None ELSE current
  /\ provisional' = IF current = a THEN None ELSE provisional
  /\ failure' = IF current = a /\ result = "failed" THEN a ELSE failure
  /\ UNCHANGED <<callVars, disposition, calls, active, initialized, committed, disposed, file>>

FailControl(a) == ~EnsureCurrent(a) /\ CompleteFailure(a, CurrentDisposition(a))

\* The catch of execute, and the failures that are answers.
Fails(a) ==
  CompleteFailure(a, IF EnsureCurrent(a) THEN "failed" ELSE CurrentDisposition(a))

\* An await of execute was answered and it is still the attempt's turn.
Proceeds(a, from, to) ==
  /\ Moves(a, from, to)
  /\ EnsureCurrent(a)
  /\ UNCHANGED <<outcome, disposition, calls, current, active, initialized, snapshotVars,
                 disposed, file>>

-----------------------------------------------------------------------------
(* initialize(), connect() and recoverCommitted(). *)

Call(a, t, saves) ==
  /\ a = calls + 1
  /\ calls' = a
  /\ Moves(a, "none", IF initialized = "done" THEN "initialized" ELSE "initializing")
  /\ initialized' = IF initialized = "none" THEN "loading" ELSE initialized
  /\ target' = [target EXCEPT ![a] = t]
  /\ persist' = [persist EXCEPT ![a] = saves]
  /\ UNCHANGED <<outcome, disposition, ownerAborted, generation, expected, current, active,
                 snapshotVars, disposed, file>>

Connect(a) == \E t \in Targets : Call(a, t, TRUE)
RecoverCommitted(a) == Call(a, NoTarget, FALSE)

InitializeAnswers(to) ==
  /\ initialized = "loading"
  /\ pc' = [a \in Attempts |-> IF pc[a] = "initializing" THEN to ELSE pc[a]]
  /\ UNCHANGED <<outcome, attemptVars, disposition, generation, calls, current, active,
                 provisional, failure, disposed, file>>

Initialized ==
  /\ InitializeAnswers("initialized")
  /\ initialized' = "done"
  /\ committed' = file.baseUrl

InitializeFails ==
  /\ InitializeAnswers("initFailed")
  /\ initialized' = "none"
  /\ UNCHANGED committed

\* The calls leave the initialize() promise in the order they were made.
Resumes(a, from) ==
  /\ pc[a] = from
  /\ \A b \in Attempts : b < a => pc[b] \notin Waiting

\* A call that finds the coordinator disposed, or a recovery without a target.
CallRefused(a) ==
  \/ /\ Resumes(a, "initialized")
     /\ IF ~persist[a] /\ committed = NoTarget
        THEN Ends(a, "nothing")
        ELSE disposed /\ Ends(a, "aborted")
     /\ UNCHANGED <<callVars, disposition, generation, calls, current, active, initialized,
                    snapshotVars, disposed, file>>
  \/ /\ Resumes(a, "initFailed")
     /\ IF persist[a] THEN (disposed \/ ownerAborted[a]) /\ Ends(a, "aborted")
                      ELSE Ends(a, "failed")
     /\ UNCHANGED <<callVars, disposition, generation, calls, current, active, initialized,
                    snapshotVars, disposed, file>>

\* MUTANT of Start: the attempt before it is disposed, but its signal not aborted.
StartWithoutAbort(a) ==
  /\ Resumes(a, "initialized")
  /\ Moves(a, "initialized", "api")
  /\ ~disposed
  /\ persist[a] \/ committed # NoTarget
  /\ target' = [target EXCEPT ![a] = IF persist[a] THEN @ ELSE committed]
  /\ disposition' = [disposition EXCEPT ![a] = IF ownerAborted[a] THEN "aborted" ELSE @]
  /\ generation' = ProvisionalDisposed(current)
  /\ current' = IF ownerAborted[a] THEN None ELSE a
  /\ provisional' = current'
  /\ failure' = IF ownerAborted[a] THEN failure ELSE None
  /\ UNCHANGED <<outcome, persist, ownerAborted, expected, calls, active, initialized, committed,
                 disposed, file>>

\* MUTANT of Start: a recovery starts though nothing was ever saved.
StartWithoutTarget(a) ==
  /\ Resumes(a, "initialized")
  /\ Moves(a, "initialized", "api")
  /\ ~disposed
  /\ target' = [target EXCEPT ![a] = IF persist[a] THEN @ ELSE committed]
  /\ disposition' = [b \in Attempts |-> IF b = current THEN "superseded"
                                        ELSE IF b = a /\ ownerAborted[a] THEN "aborted"
                                        ELSE disposition[b]]
  /\ generation' = ProvisionalDisposed(current)
  /\ current' = IF ownerAborted[a] THEN None ELSE a
  /\ provisional' = current'
  /\ failure' = IF ownerAborted[a] THEN failure ELSE None
  /\ UNCHANGED <<outcome, persist, ownerAborted, expected, calls, active, initialized, committed,
                 disposed, file>>

\* start: supersede the current attempt and call validateApi, even under an
\* owner's signal that is already aborted.
Start(a) ==
  /\ Resumes(a, "initialized")
  /\ Moves(a, "initialized", "api")
  /\ ~disposed
  /\ persist[a] \/ committed # NoTarget
  /\ target' = [target EXCEPT ![a] = IF persist[a] THEN @ ELSE committed]
  /\ disposition' = [b \in Attempts |-> IF b = current THEN "superseded"
                                        ELSE IF b = a /\ ownerAborted[a] THEN "aborted"
                                        ELSE disposition[b]]
  /\ generation' = ProvisionalDisposed(current)
  /\ current' = IF ownerAborted[a] THEN None ELSE a
  /\ provisional' = current'
  /\ failure' = IF ownerAborted[a] THEN failure ELSE None
  /\ UNCHANGED <<outcome, persist, ownerAborted, expected, calls, active, initialized, committed,
                 disposed, file>>

FailInitialization(a) ==
  /\ Resumes(a, "initFailed")
  /\ persist[a] /\ ~disposed /\ ~ownerAborted[a]
  /\ Ends(a, "failed")
  /\ TurnTaken("superseded")
  /\ current' = None /\ provisional' = None /\ failure' = a
  /\ UNCHANGED <<callVars, calls, active, initialized, committed, disposed, file>>

-----------------------------------------------------------------------------
(* execute: one action per answer of a port. *)

ApiValidated(a) ==
  \/ /\ Proceeds(a, "api", "frontend")
     /\ generation' = [generation EXCEPT ![a] = "open"]
     /\ UNCHANGED attemptVars
  \/ pc[a] = "api" /\ FailControl(a)

FrontendResolved(a) ==
  \/ Proceeds(a, "frontend", "bridge") /\ UNCHANGED <<generation, attemptVars>>
  \/ pc[a] = "frontend" /\ FailControl(a)

StateLoaded(a) ==
  \/ /\ Proceeds(a, "load", "cas")
     /\ expected' = [expected EXCEPT ![a] = file]
     /\ UNCHANGED <<generation, target, persist, ownerAborted>>
  \/ pc[a] = "load" /\ FailControl(a)

\* load() waits for the writes that were in the lane when it was called: only
\* an older attempt can have one.
LoadAnswers(a) ==
  /\ \A b \in Attempts : b < a => pc[b] \notin {"writing", "moving", "replaced"}
  /\ StateLoaded(a)

\* A port rejects, or resolve answers without a Bridge.
PortFails(a) ==
  /\ pc[a] \in {"api", "frontend", "bridge", "load", "writing", "moving"}
  /\ Fails(a)

(* compareAndSave runs in the write lane, one attempt at a time. *)

LaneFree == \A b \in Attempts : pc[b] \notin {"writing", "moving", "replaced"}

LaneTurn(a) ==
  /\ pc[a] = "cas"
  /\ LaneFree
  /\ \A b \in Attempts : pc[b] = "cas" => a <= b

\* MUTANT of CompareMatches: the file is not compared with what was loaded.
CompareSkipped(a) ==
  /\ LaneTurn(a)
  /\ Moves(a, "cas", "writing")
  /\ disposition[a] = "current"
  /\ UNCHANGED <<outcome, attemptVars, disposition, generation, calls, current, active,
                 initialized, snapshotVars, disposed, file>>

CompareMatches(a) ==
  /\ LaneTurn(a)
  /\ Moves(a, "cas", "writing")
  /\ disposition[a] = "current"
  /\ file = expected[a]
  /\ UNCHANGED <<outcome, attemptVars, disposition, generation, calls, current, active,
                 initialized, snapshotVars, disposed, file>>

\* "aborted", "conflict", or an error of the file system.
CompareFails(a) == LaneTurn(a) /\ Fails(a)

\* The checks before and after the staging file is created and written.
WriteAborted(a) ==
  /\ pc[a] = "writing"
  /\ disposition[a] # "current"
  /\ Fails(a)

\* The last look at the signal: from here on moveTo decides alone.
Staged(a) ==
  /\ Moves(a, "writing", "moving")
  /\ disposition[a] = "current"
  /\ UNCHANGED <<outcome, attemptVars, disposition, generation, calls, current, active,
                 initialized, snapshotVars, disposed, file>>

FileReplaced(a) ==
  /\ Moves(a, "moving", "replaced")
  /\ file' = [baseUrl |-> target[a], selected |-> expected[a].selected]
  /\ UNCHANGED <<outcome, attemptVars, disposition, generation, calls, current, active,
                 initialized, snapshotVars, disposed>>

\* From durableLinearized to the result, in one turn.  A listener the promotion
\* notifies may dispose the coordinator: the promotion ends first.
Promote(a, disposes) ==
  /\ Ends(a, "ok")
  /\ active' = IF disposes THEN None ELSE a
  /\ generation' = [b \in Attempts |->
        IF b \in {a, active} /\ generation[b] = "open"
        THEN IF disposes THEN "disposed" ELSE IF b = a THEN "open" ELSE "retired"
        ELSE generation[b]]
  /\ committed' = target[a]
  /\ current' = None /\ provisional' = None /\ failure' = None
  /\ disposed' = disposes
  /\ UNCHANGED <<callVars, disposition, calls, initialized, file>>

\* MUTANT of BridgeValidated: a connection is promoted before it is saved.
BridgePromotes(a) ==
  \/ /\ pc[a] = "bridge"
     /\ EnsureCurrent(a)
     /\ \E disposes \in BOOLEAN : Promote(a, disposes)
  \/ pc[a] = "bridge" /\ FailControl(a)

\* The Bridge is valid: a connection goes on to save, a recovery is promoted.
BridgeValidated(a) ==
  \/ persist[a] /\ Proceeds(a, "bridge", "load") /\ UNCHANGED <<generation, attemptVars>>
  \/ /\ ~persist[a] /\ pc[a] = "bridge"
     /\ EnsureCurrent(a)
     /\ \E disposes \in BOOLEAN : Promote(a, disposes)
  \/ pc[a] = "bridge" /\ FailControl(a)

\* compareAndSave answered "committed": the turn is not looked at again.  A
\* resolver disposed meanwhile cannot dispose the generation the attempt has
\* lost, and the error ends the attempt as aborted.
Committed(a) ==
  /\ pc[a] = "replaced"
  /\ IF disposed
     THEN CompleteFailure(a, CurrentDisposition(a))
     ELSE \E disposes \in BOOLEAN : Promote(a, disposes)

-----------------------------------------------------------------------------
(* What takes the turn from an attempt, and the other writer of the file. *)

\* The draft was edited to another target, or to something that is none.
SupersedeCurrentAttempt ==
  /\ current # None
  /\ TurnTaken("superseded")
  /\ current' = None /\ provisional' = None /\ failure' = None
  /\ UNCHANGED <<pc, outcome, attemptVars, calls, active, initialized, committed, disposed, file>>

\* abortFromOwner, when the signal fires before the call resolves.
OwnerAbort(a) ==
  /\ pc[a] \in Waiting \cup Executing
  /\ ~ownerAborted[a]
  /\ ownerAborted' = [ownerAborted EXCEPT ![a] = TRUE]
  /\ IF current = a
     THEN TurnTaken("aborted") /\ current' = None /\ provisional' = None
     ELSE UNCHANGED <<disposition, generation, current, provisional>>
  /\ UNCHANGED <<pc, outcome, target, persist, expected, calls, active, initialized, committed,
                 failure, disposed, file>>

\* The resolver disposes the active generation.  An active connection without
\* one makes it throw before dispose() publishes.
Dispose ==
  /\ ~disposed
  /\ disposed' = TRUE
  /\ disposition' = [b \in Attempts |-> IF b = current THEN "aborted" ELSE disposition[b]]
  /\ generation' = [b \in Attempts |->
        IF b \in {current, active} /\ generation[b] = "open" THEN "disposed" ELSE generation[b]]
  /\ current' = None /\ active' = None
  /\ provisional' = IF active # None /\ generation[active] # "open" THEN provisional ELSE None
  /\ UNCHANGED <<pc, outcome, attemptVars, calls, initialized, committed, failure, file>>

\* mutateState of the management service: its load and compareAndSave share the
\* durable write lane with the saves of the attempts.
SelectWorkflow ==
  /\ LaneFree
  /\ file.baseUrl # NoTarget
  /\ \E w \in Workflows \ {file.selected} : file' = [file EXCEPT !.selected = w]
  /\ UNCHANGED <<pc, outcome, attemptVars, disposition, generation, calls, current, active,
                 initialized, snapshotVars, disposed>>

-----------------------------------------------------------------------------
PortAnswers(a) ==
  \/ ApiValidated(a) \/ FrontendResolved(a) \/ BridgeValidated(a) \/ LoadAnswers(a)
  \/ PortFails(a)
  \/ CompareMatches(a) \/ CompareFails(a) \/ WriteAborted(a) \/ Staged(a)
  \/ FileReplaced(a) \/ Committed(a)

Resume(a) == CallRefused(a) \/ Start(a) \/ FailInitialization(a)

UserEvent ==
  \/ \E a \in Attempts : Connect(a) \/ RecoverCommitted(a) \/ OwnerAbort(a)
  \/ SupersedeCurrentAttempt
  \/ Dispose
  \/ SelectWorkflow

Next ==
  \/ UserEvent
  \/ Initialized \/ InitializeFails
  \/ \E a \in Attempts : Resume(a) \/ PortAnswers(a)

Spec == Init /\ [][Next]_vars

-----------------------------------------------------------------------------
(* Properties. *)

\* A Bridge generation that is open belongs to the active connection or to a
\* call that is still executing, which will dispose it: superseding, aborting,
\* failing, promoting and disposing leak none, in whatever order they meet.
GenerationOwned ==
  \A a \in Attempts : generation[a] = "open" => a = active \/ pc[a] \in Executing

\* Unless a replacement of the file is about to be reported, the active
\* connection, the committed target of the snapshot and the state file name
\* one server: what a restart would recover is what the user works with.
ActiveIsDurable ==
  active # None /\ (\A a \in Attempts : pc[a] # "replaced") =>
    committed = target[active] /\ file.baseUrl = target[active]

\* An attempt that was not superseded or aborted is promoted only over an older
\* connection, and while no newer attempt executes.
LatestWins ==
  [][active' \notin {active, None} /\ disposition[active'] = "current" =>
       /\ active < active'
       /\ \A b \in Attempts : b > active' => pc[b] \notin Executing]_vars

\* The failure of an attempt is not published once a newer attempt executes or
\* is the active connection.
NoStaleFailure ==
  [][failure' \notin {failure, None} =>
       /\ active' <= failure'
       /\ \A b \in Attempts : b > failure' => pc'[b] \notin Executing]_vars

\* A connection that saves its target keeps the selected workflow of the file,
\* whatever the management service wrote since the attempt loaded it.
SelectionKept ==
  [][file'.baseUrl # file.baseUrl => file'.selected = file.selected]_vars

\* openspec/changes/make-comfyui-connection-switch-transactional/specs/comfyui-
\* connection-switching/spec.md:74: an attempt that was superseded and completes
\* late "SHALL NOT" be saved nor replace the active connection.
SupersededNeverActive == active # None => disposition[active] # "superseded"

=============================================================================
