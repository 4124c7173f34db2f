---------------------------- MODULE MCComponents ----------------------------
(***************************************************************************)
(* The components that share no state with each other, checked side by      *)
(* side: `focus` names the one that moves in a behaviour, the others rest   *)
(* in an initial state.  So the state space is the sum of theirs, and every *)
(* property is one of the component it is named after.  A record that the   *)
(* previous run left interrupted is treated like a failed one everywhere,   *)
(* so none is in the initial history.  A component with theorems is         *)
(* instantiated with them, for Components_proofs.                           *)
(***************************************************************************)
EXTENDS Naturals, Sequences, Functions

CONSTANTS
  j1, j2, t1, t2, t3, m1, r1, r2,
  Jobs, MaxPolls, MaxElapsed, MinPollDelay, MaxPollDelay, NoReading,
  MaxCalls, SelectionKeys, LayerKeys, PlainKeys, None,
  Tasks, OldTasks, MaskOf, MaxTerminal, HighWatermark, LowWatermark, MaxRequests,
  Values, Partial, MaxOps, MaxCrashes,
  Rounds, OutputsOf, MaxGenerations,
  MaxAttempts, MaxLoads

\* Two Tasks of the previous run, the older one without a Mask, and a new one
\* that takes the Mask of the first.
MCOldTasks == <<t1, t2>>
MCMaskOf == [t \in Tasks |-> IF t = t2 THEN {} ELSE {m1}]

\* Two outputs for each round.
MCOutputsOf == [r \in Rounds |-> <<<<r, 1>>, <<r, 2>>>>]

ASSUME ComponentsAssumption ==
  /\ {MaxPolls, MaxElapsed, MinPollDelay, MaxPollDelay} \subseteq Nat
  /\ {MaxCalls, MaxTerminal, MaxRequests, MaxOps, MaxCrashes} \subseteq Nat
  /\ {MaxAttempts, MaxLoads} \subseteq Nat
  /\ LowWatermark \in 0 .. HighWatermark /\ MaxGenerations \in Nat \ {0}
  /\ SelectionKeys \cap LayerKeys = {} /\ PlainKeys \cap (SelectionKeys \cup LayerKeys) = {}
  /\ None \notin SelectionKeys \cup LayerKeys \cup PlainKeys \cup Values
  /\ (1 .. MaxCalls) \cap (SelectionKeys \cup {None}) = {}
  /\ OldTasks \in Seq(Tasks) /\ IsInjective(OldTasks)
  /\ DOMAIN MaskOf = Tasks /\ Tasks \cap UNION Range(MaskOf) = {}
  /\ \A r \in Rounds : OutputsOf[r] \in Seq(Range(OutputsOf[r])) /\ IsInjective(OutputsOf[r])
  /\ \A r, s \in Rounds : r # s => Range(OutputsOf[r]) \cap Range(OutputsOf[s]) = {}
  /\ Partial \notin Values \cup {None}

VARIABLE focus

VARIABLES
  gPc, gStarted, gAborted, gDisposed, gSubmits, gPolls, gElapsed, gDelay, gStep,
  gPending, gConcurrent, gActive, gAmbiguous, gBefore, gCharged, gUsage, gOpened,
  gClosed

grsaiVars == <<
  gPc, gStarted, gAborted, gDisposed, gSubmits, gPolls, gElapsed, gDelay, gStep,
  gPending, gConcurrent, gActive, gAmbiguous, gBefore, gCharged, gUsage, gOpened,
  gClosed>>

Grsai == INSTANCE GrsaiExecution_proofs WITH
  pc <- gPc, started <- gStarted, aborted <- gAborted, disposed <- gDisposed,
  submits <- gSubmits, polls <- gPolls, elapsed <- gElapsed, delay <- gDelay,
  step <- gStep, pending <- gPending, concurrent <- gConcurrent, active <- gActive,
  ambiguous <- gAmbiguous, before <- gBefore, charged <- gCharged, usage <- gUsage,
  opened <- gOpened, closed <- gClosed

VARIABLES
  mCalls, mGeneration, mCurrentKey, mController, mAborted, mOwnedAsset, mState, mPc,
  mKey, mFence, mNext, mReleasing, mStored, mTaskMasks, mLost

maskVars == <<
  mCalls, mGeneration, mCurrentKey, mController, mAborted, mOwnedAsset, mState, mPc,
  mKey, mFence, mNext, mReleasing, mStored, mTaskMasks, mLost>>

Mask == INSTANCE MaskCoordinator WITH
  calls <- mCalls, generation <- mGeneration, currentKey <- mCurrentKey,
  controller <- mController, aborted <- mAborted, ownedAsset <- mOwnedAsset,
  state <- mState, pc <- mPc, key <- mKey, fence <- mFence, next <- mNext,
  releasing <- mReleasing, stored <- mStored, taskMasks <- mTaskMasks, lost <- mLost

VARIABLES
  rHistory, rStored, rLive, rKnown, rLoop, rRerunRequested, rListed, rLeft, rUndeleted,
  rDeleted, rRequests, rAsked, rReconcile, rActive, rStale, rOrphans

retentionVars == <<
  rHistory, rStored, rLive, rKnown, rLoop, rRerunRequested, rListed, rLeft, rUndeleted,
  rDeleted, rRequests, rAsked, rReconcile, rActive, rStale, rOrphans>>

Retention == INSTANCE TaskRetention_proofs WITH
  history <- rHistory, stored <- rStored, live <- rLive, known <- rKnown, loop <- rLoop,
  rerunRequested <- rRerunRequested, listed <- rListed, left <- rLeft,
  undeleted <- rUndeleted, deleted <- rDeleted, requests <- rRequests, asked <- rAsked,
  reconcile <- rReconcile, active <- rActive, stale <- rStale, orphans <- rOrphans

VARIABLES
  fFile, fStaging, fOps, fPc, fAborted, fCrashes

fileVars == <<
  fFile, fStaging, fOps, fPc, fAborted, fCrashes>>

File == INSTANCE ComfyUiStateFile WITH
  file <- fFile, staging <- fStaging, ops <- fOps, pc <- fPc, aborted <- fAborted,
  crashes <- fCrashes

VARIABLES
  tRound, tRequest, tSlots, tQueue, tAborted, tCache

thumbnailsVars == <<
  tRound, tRequest, tSlots, tQueue, tAborted, tCache>>

Thumbnails == INSTANCE ThumbnailStore WITH
  round <- tRound, request <- tRequest, slots <- tSlots, queue <- tQueue,
  aborted <- tAborted, cache <- tCache

VARIABLES
  xPc, xOutcome, xTask, xStale, xPrompt, xSession, xLoads, xTimer, xRetiring, xInbox,
  xLease, xStage, xReturned, xCalls, xReceipt, xOutstanding, xLeft, xPosting, xQueued

executionVars == <<
  xPc, xOutcome, xTask, xStale, xPrompt, xSession, xLoads, xTimer, xRetiring, xInbox,
  xLease, xStage, xReturned, xCalls, xReceipt, xOutstanding, xLeft, xPosting, xQueued>>

Execution == INSTANCE ComfyUiExecution_proofs WITH
  pc <- xPc, outcome <- xOutcome, task <- xTask, stale <- xStale, prompt <- xPrompt,
  session <- xSession, loads <- xLoads, timer <- xTimer, retiring <- xRetiring,
  inbox <- xInbox, lease <- xLease, stage <- xStage, returned <- xReturned,
  calls <- xCalls, receipt <- xReceipt, outstanding <- xOutstanding, left <- xLeft,
  posting <- xPosting, queued <- xQueued

vars == <<focus, grsaiVars, maskVars, retentionVars, fileVars, thumbnailsVars,
          executionVars>>

Init ==
  /\ focus \in {"grsai", "mask", "retention", "file", "thumbnails", "execution"}
  /\ Grsai!Init /\ Mask!Init /\ Retention!Init /\ File!Init /\ Thumbnails!Init
  /\ Execution!Init
  /\ \A i \in DOMAIN rHistory : rHistory[i].status # "interrupted"
  /\ focus = "retention" \/ \A i \in DOMAIN rHistory : rHistory[i].status = "completed"
  /\ focus = "file" \/ fFile = None

GrsaiMoves ==
  /\ focus = "grsai" /\ Grsai!Next
  /\ UNCHANGED <<focus, maskVars, retentionVars, fileVars, thumbnailsVars, executionVars>>
MaskMoves ==
  /\ focus = "mask" /\ Mask!Next
  /\ UNCHANGED <<focus, grsaiVars, retentionVars, fileVars, thumbnailsVars, executionVars>>
RetentionMoves ==
  /\ focus = "retention" /\ Retention!Next
  /\ UNCHANGED <<focus, grsaiVars, maskVars, fileVars, thumbnailsVars, executionVars>>
FileMoves ==
  /\ focus = "file" /\ File!Next
  /\ UNCHANGED <<focus, grsaiVars, maskVars, retentionVars, thumbnailsVars, executionVars>>
ThumbnailsMove ==
  /\ focus = "thumbnails" /\ Thumbnails!Next
  /\ UNCHANGED <<focus, grsaiVars, maskVars, retentionVars, fileVars, executionVars>>
ExecutionMoves ==
  /\ focus = "execution" /\ Execution!Next
  /\ UNCHANGED <<focus, grsaiVars, maskVars, retentionVars, fileVars, thumbnailsVars>>

Next ==
  \/ GrsaiMoves \/ MaskMoves \/ RetentionMoves \/ FileMoves \/ ThumbnailsMove
  \/ ExecutionMoves

\* The fairness of GrsaiExecution, of TaskRetention and of ComfyUiExecution.
Fairness ==
  /\ \A j \in Jobs : WF_grsaiVars(focus = "grsai" /\ (Grsai!Answers(j) \/ Grsai!Poll(j)))
  /\ WF_retentionVars(focus = "retention" /\ Retention!SweepSteps)
  /\ \A a \in 1 .. MaxAttempts : WF_executionVars(focus = "execution" /\ Execution!Driver(a))
  /\ WF_executionVars(focus = "execution" /\ Execution!LoadTimesOut)

Spec == Init /\ [][Next]_vars /\ Fairness

\* Every component keeps its type invariant.
ComponentsTypeOK ==
  /\ focus = "grsai" => Grsai!TypeOK
  /\ focus = "mask" => Mask!TypeOK
  /\ focus = "retention" => Retention!TypeOK
  /\ focus = "file" => File!TypeOK
  /\ focus = "thumbnails" => Thumbnails!TypeOK
  /\ focus = "execution" => Execution!TypeOK

\* A Job is submitted once and polled within its budget (provider-async-execution-manager.ts).
WithinBudget == focus = "grsai" => Grsai!WithinBudget

\* A reported usage pays only for charges between the begin and the end of its own submit
\* (grsai/provider.ts).
UsageWithinSubmit == focus = "grsai" => Grsai!UsageWithinSubmit

\* An execution that was started ends (provider-async-execution-manager.ts).
ExecutionEnds == Grsai!ExecutionEnds

\* A draft Mask in the store is owned, being released or known to be lost (mask-coordinator.ts).
DraftMaskAccounted == focus = "mask" => Mask!DraftMaskAccounted

\* A ready Edit Region is the one of the primary, unless its release is under way or has
\* failed (mask-coordinator.ts).
ReadyIsCurrent == focus = "mask" => Mask!ReadyIsCurrent

\* A stored asset is named by a record, unless its record was rewritten since it was listed
\* (task-linked-retention.ts).
LastReferenceKept == focus = "retention" => Retention!LastReferenceKept

\* A sweep deletes no asset of a Task that is running and was when it was listed
\* (task-linked-retention.ts).
RunningAssetsKept == Retention!RunningAssetsKept

\* A request made while a sweep runs is followed by another sweep (controller.ts).
SweepFollows == Retention!SweepFollows

\* A committed write replaces the state it expected, and none starts from a staging file
\* left behind (uxp-comfyui-persistence.ts).
CommitReplacesExpected == File!CommitReplacesExpected

\* No generation slot is lost or held twice (thumbnail-store.ts).
SlotsConserved == focus = "thumbnails" => Thumbnails!SlotsConserved

\* No attempt follows one that may be queued and had no receipt (errors.ts).
NeverReplayed == focus = "execution" => Execution!NeverReplayed

\* An attempt whose own call was observed gets its own receipt (queue-observer.mjs).
ReceiptIsOwn == Execution!ReceiptIsOwn

\* The lane of ComfyUI becomes free (drivers.ts, comfyui-frontend-bridge-resolver.ts).
AttemptEnds == Execution!AttemptEnds
=============================================================================
