# Formal model of the Imagen plugin

This directory is the TLA+ verification project of the repository: modules that
model the program's own core logic, TLC configurations that check them on small
instances, and theorems that the TLA+ proof system checks for every value of the
constants. The program is a Photoshop (UXP) plugin that queues image generations,
dispatches them to paid providers or to a ComfyUI server, and keeps a durable history.

JavaScript runs one callback at a time. The concurrency of this program is therefore the
interleaving of coroutines at their `await`s, of timers and of host callbacks, and in all
modules **an action is the code that runs between two awaits**. What an awaited call
answers is a nondeterministic choice among the answers the caller distinguishes.

## Inventory

| Component | State it keeps | Operations | Hard behaviour | What makes it correct |
|---|---|---|---|---|
| Application Session (`packages/application/src/session`) | queue, active slots, correlations, terminal promises, known Tasks, in-flight locks, snapshot, drain timer | submit, remove, retry, dispose, drain, dispatch, finalize | coroutines of many entries interleave; checks before an await, effects after it; failing writes; dispose at any point | caps, FIFO, one attempt per Task, no lost slot / wakeup / promise, durable before visible, results settle |
| Core Job engine (`packages/core-engine/src`) | Job store, event listeners | submitJob, markRunning, markCompleted, markFailed, runWorkflow | event emission order, abort, late results | Jobs only move created -> running -> completed / failed |
| Task history (`application/src/commands/task-history.ts`) | durable TaskRecords | put, get, list, reconcile, recover | list-then-write over awaits, restarts, an old Session still running | a finished Task is never lost or rewritten |
| Provider async execution (`application/src/generation/provider-async-execution-manager.ts`) | in-flight map, started Jobs, abort controllers | execute, dispose | re-entry, abort at every await, poll and time budgets | submit at most once per Job, bounded polls, dispose ends everything |
| Provider generation backend (`application/src/generation`) | none beyond a call | admit, readiness, project, retry, afterTerminal | a Retry is built from a record read earlier | Retry keeps the Task identity |
| ComfyUI connection (`application/src/comfyui/connection.ts`) | current attempt, active generation, barrier, snapshot | initialize, connect, supersede, recover, promote, dispose | latest wins across awaits, commit point in a file, dispose around promotion | at most one active generation, provisional ones disposed, durable and active target agree |
| ComfyUI management (`application/src/comfyui/management.ts`) | catalog, cache, current workflow, load state, two write lanes | discover, selectWorkflow, refresh, invalidation at promotion | loads, discoveries and saves that overlap a promotion or one another | nothing of an old connection, the newest discovery, the latest selection in the file |
| ComfyUI state file (`apps/app/src/adapters/uxp/uxp-comfyui-persistence.ts`) | primary and staging file, write lane | load, save, clear, compareAndSave | crash between steps, load beside queued writes | old or new state, never a torn one; conflicts detected |
| Provider transport (`packages/providers/src/shared/transport`) | endpoint health, attempt ledger | retry, failover, back-off | paid requests, cooldown shared by concurrent requests, deadlines | no unsafe replay, budgets hold |
| ComfyUI execution (`packages/execution-backends/comfyui`) | none beyond a call | prepare, submit, observe, download | lost receipts, time-outs on either side of the submission | no Retry of a prompt that may be queued, every attempt ends |
| ComfyUI bridge (`apps/app/src/adapters/comfyui`, `integrations/comfyui-imagen-bridge/web`) | sessions with load timer and exchanges, lease, patched `queuePrompt` | load, reload, exchange, retire; lease, submit, observe one receipt | the page reloads or hangs at any wait; other extensions patch the same function | a receipt is the attempt's own; original restored or conflict reported |
| Mask coordinator (`apps/app/src/shared/domain/mask-coordinator.ts`) | generation, key, owned asset, state | reconcile, destroy | stale host completions, awaited releases | state belongs to the current key, assets released once |
| Retention (`apps/app/src/shared/retention`) | running sweep, coalesced request | requestSweep, sweep | list then delete beside writers | no running Task and no referenced asset deleted; no request lost |
| Thumbnail store (`apps/app/src/shared/image/thumbnail-store.ts`) | cache with counts, slots, waiters | getOrCreate, release, clear | abort while waiting, shared generation | slots bounded and never lost, a URL in use not released |
| Panel hooks, host adapters, UI | React state, host handles | -- | ref gates, host I/O | mostly out of scope, see PROJECT.json |

How they interact: the panel submits a command to the Session; the Session asks the backend
to admit it, queues it, asks for readiness, and drives `executeJob`, which runs the Core
workflow, whose adapter calls a provider (transport or async execution) or ComfyUI (through
the connection's active generation). The terminal Job comes back as an event and as a
result; the Session projects it through the backend, writes the Task store, publishes, and
runs the follow-up. Retention, reconciliation and thumbnails work beside all this on the
same stores. `PROJECT.json` lists every component with its status and every hazard at its
line.

## Modules

| Module | Models | Role |
|---|---|---|
| `ImagenSession` | `session.ts` with what it drives: `executeJob`, `runWorkflow`, the Core store, `putTaskRecord` / `getTaskRecord` | the component, its properties and its mutants |
| `DurableTask` | what the Session promises about a TaskRecord | abstract specification |
| `MCImagenSession` | -- | small instances for TLC |
| `ImagenSessionInductive` | -- | the inductive invariant `IInv`, in named parts |
| `ImagenSession_proofs` | -- | each part of `IInv` is kept by every step; the theorems |
| `ComfyUiConnection` | `comfyui/connection.ts`, with the write lane of `uxp-comfyui-persistence.ts` and the selection writes of `comfyui/management.ts` | the component, its properties and its mutants |
| `MCComfyUiConnection` | -- | small instances for TLC |
| `ComfyUiConnection_proofs` | -- | the inductive invariant of the connection and its theorems; those of the whole management service |
| `ProviderTransport` | the paid path of `shared/transport` (`failover.ts`, `retry.ts`, `http.ts`, `error-map.ts`), the OpenAI attempt plan, and how the OpenAI and Gemini adapters call them | the component, its properties and its mutants |
| `MCProviderTransport` | -- | small instances for TLC |
| `ProviderTransport_proofs` | -- | the inductive invariant of the transport and its theorems |
| `ProviderAsyncExecution` | `provider-async-execution-manager.ts` | the manager: one submit, polls within budgets, abort, dispose |
| `GrsaiExecution` | the lifecycle of `providers/grsai/provider.ts` | composes with the manager: EXTENDS it, and each action is a step of both |
| `GrsaiExecution_proofs` | -- | the inductive invariants behind `WithinBudget` and `UsageWithinSubmit` and their theorems |
| `ComfyUiWorkflows` | the workflow runtime of `comfyui/management.ts`, with the cache of `repositories.ts` | the component, its properties and its mutants |
| `ComfyUiWorkflows_proofs` | -- | the inductive invariant of the runtime and its theorems |
| `MCComfyUiManagement` | -- | the two halves of the management service, the connection and the runtime |
| `ComfyUiExecution` | `drivers.ts`, `errors.ts`, `observation.ts`, the session of `comfyui-frontend-bridge-resolver.ts`, the page's `bridge-runtime.mjs` and `queue-observer.mjs` | driver, session and page composed; ComfyUI itself is external |
| `ComfyUiExecution_proofs` | -- | the inductive invariants behind `NeverReplayed` and `ReceiptIsOwn` and their theorems |
| `ComfyUiStateFile` | `uxp-comfyui-persistence.ts` | the repository with its staging file and a crash |
| `MaskCoordinator` | `mask-coordinator.ts` and the effects and submit of `use-generation-workspace.ts` | the coordinator composed with its caller |
| `TaskRetention` | `retention/controller.ts`, `task-linked-retention.ts`, the reconciliation of `task-history.ts`, and the Session's writes | the sweep composed with the writers beside it |
| `TaskRetention_proofs` | -- | the inductive invariant of the sweep and its theorems |
| `ThumbnailStore` | `thumbnail-store.ts` and the previews of `use-conversation.ts` | the slots composed with the rounds that ask for them |
| `TaskStore` | the port `TaskStore` of `task.ts` | abstract specification |
| `UxpTaskFile` | the Task store of `uxp-job-history-adapter.ts` | refuted as an implementation of `TaskStore` |
| `MCComponents` | -- | the six components without shared state, side by side |
| `Components_proofs` | -- | the theorems about the properties of `MCComponents`; the inductive invariants of the Mask, the state file and the previews |

**Composition.** Where components change each other's state, their actions are joined: the
Session with the Core engine, the Task store and its abstract record; a GRSAI execution with
its manager; the Mask with the composer; the sweep with the reconciliation and the Session's
writes; a ComfyUI driver with the Bridge session and the page. Where they do not, one run
checks several of them with a variable `focus` that names the one that moves in a behaviour
(`MCComponents`, `MCComfyUiManagement`): the others rest in one initial state, so the state
space is the sum of theirs, not their product, and every component still meets every one
of its own interleavings. The Session takes any answer that a backend may give, so what sits
behind that answer needs no product with it: the answers themselves are what `ComfyUiExecution`,
`GrsaiExecution` and `ProviderTransport` model.

A component with a proof module of its own is instantiated through it, so that
what the lemmas say of any of its steps can be used of the composed step.

### How ImagenSession corresponds to session.ts

* A **queue entry and its Job share a number**. An entry calls `executeJob` at most once, and
  numbers are handed out when the entry is pushed; the code only appends to and filters the
  queue array, so the array is the set `queue` in increasing order, and
  `queue.find(...)` is the least eligible number.
* `pc[e]` is where `dispatch(entry)` stands (`readiness`: awaiting `checkReadiness`;
  `persisting`: awaiting `putTaskRecord` in `onJobCreated`; `executing`: awaiting the
  workflow; `flushing`: awaiting the Job history; `failing`: awaiting `persistFailedStart`),
  `terminal[e]` where `finalizeTerminal` stands, `retrying[j]` where `retryJob(j)` stands.
  The two coroutines of one entry run beside each other after the terminal event.
* `onJobCreated` runs without an await from the readiness answer to `putTaskRecord`, so
  `ReadinessReady` is one action: Job, correlation, queue and snapshot change together.
* The **drain** is synchronous in the code. It is modelled turn by turn (`DrainBegin`,
  `DrainStart`, `DrainEnd`), and while `draining` holds no other action is enabled.
  Each `wait` answer comes after the drain that started the entry, so `skipThroughEpoch` binds no
  later drain; `skipped` keeps it all the same.
* `putTaskRecord` may reject after or before it has kept the record (`PutRejected`).
* Left out, because no property tells the difference: `dispatch-failed:` rows and
  `lastError` of the snapshot, the map from Task to backend, event payloads, logging, spans.
  Branches for an unregistered backend are unreachable: the registry is fixed and the
  backend is looked up at admission. `inFlightSubmit.clear()` cannot be observed, since a
  disposed Session refuses every submit.
* Microtask turns of one promise chain that no other code can observe (settling the Retry
  promise and its `finally`) are one action.

### How ComfyUiConnection corresponds to connection.ts

* **Attempts are numbered in the order of the calls.** All calls await the one promise of
  `initialize()` and leave it in that order, so this is also the order of `attemptId`.
  `pc[a]` is the await a call stands at, and it determines `attempt.phase`.
* `api`, `frontend`, `bridge`, `load`, `cas` are the awaits of `execute` before the file is
  touched; `writing`, `moving`, `replaced` are inside `replacePrimary`: before the last look
  at the signal, during `moveTo`, and after it but before the caller has the answer.
  A `moveTo` that rejects is taken not to have replaced the file.
* From `durableLinearized` to the result there is no await, so `Promote` is one action. A
  listener it notifies may dispose the coordinator: that is `disposes`, and the barrier
  cannot be observed otherwise. Other listeners only read.
* `disposed` of the coordinator and of the active resolver change together outside `Promote`
  and are one variable. `generation[a]` is what became of the Bridge generation that attempt
  created; `attempt.generation = undefined` shows as "disposed" or as being `active`.
* The state file is its base URL and its selected workflow, the part that a connection must
  keep. The mappings it also keeps go the same way. `SelectWorkflow` is one action: it runs
  in the durable write lane, which no save of an attempt shares meanwhile.
* Left out: the clock, the wording of errors, and `invalidateRuntime` and `refreshActive`, the
  calls into the management service: `ComfyUiWorkflows` has the first as `Promote`, and the
  second is one of its discoveries.

### How ProviderTransport corresponds to the transport

* `pc[r]` is `sent` while `fetch` is awaited and `backoff` in a delay; one attempt's answer
  and the next dispatch happen in one turn, so they are one action.
* Answers are the failure kinds of `error-map.ts`, grouped by how the code treats them:
  `wire_rejected` is the `request_invalid` of a 415, `not_found` an `unknown_provider_error`
  with 404 or 408; every other 4xx behaves like `auth_failed`.
* `sent[r]` is the list of endpoints that request was dispatched to. `executed[r]` is the
  server's side: a dispatch that was not answered 429 or 415 may have been executed, and is
  listed as if it was. It is what the properties about money are over.
* The code sorts the candidates with a comparison. `EndpointOrders` is the set of orders that
  the comparison admits: one in automatic mode, since `ComesBefore` is a strict total order.
* `tries` is `endpointAttempt` or the attempt of `withRetry`, `used` is `attempts.length` or
  the ledger's total. `lastSuccessAt` is a count of successes, since only its order matters.
* `automatic` is chosen once: the connection of all requests, since only requests with the
  same connection fingerprint share health. An edit uses the first endpoint in manual mode
  too, and ignores health altogether; the model keeps both.
* Left out: the broad retry mode, deadlines, `failoverEnabled`, idempotency keys (no
  built-in provider uses them for generation), lengths of delays, and diagnostics.

### How ComfyUiWorkflows corresponds to management.ts

* A **workflow** is `[workflow, revision, target]`: its id, its revision, and the attempt of the
  connection that listed or loaded it. The last is history, there for `NothingStale`.
* A selection `s` is numbered by its call; `serial[s]` is its `requestSerial`, `tail` the chain
  of `selectionWriteTail`, `hit` says that the cache answered. A discovery `d` is
  `discoverySerial`, `owner[d]` its `ownerAttemptId`; `changed[d]` is what its loop still has
  to invalidate, since each removal of a Mask binding awaits.
* A selection is compared not with the state file but with **`durable`, the cached copy** of it.
  A load of the file is three steps, as the code has an await on either side of the read: it is
  called (`StateCalled` when `state()` finds no copy, or `Promote` for the reload in `connect`),
  it sees the file or no state at all when that cannot be read (`FileSeen`), and it answers
  (`LoadAnswers`), which assigns the copy whatever has been written since. The lane's own load
  is `PriorLoaded`: `Enter` goes there when there is no copy. A write assigns the copy in
  `WriteEnds`, that of a mapping or a Mask binding in `BindingSaved`.
* The copy can therefore be wrong in two ways. With no state (an unreadable file) nothing is
  written. With the answer of a load that a selection's write has overtaken (two initial loads,
  or the reload in `connect`), the wanted workflow may equal the old one in the copy, and again
  nothing is written. Either way `selectWorkflow` succeeds and the file keeps another workflow.
  `misled` collects the selections answered from such a copy, `origin` remembers that the copy is
  a late load's, and `SelectionIsDurable` exempts them. No document or test speaks of a
  late load, so this is no finding; it is a weakness of the code all the same.
* An in-flight load of the old revision becomes current after a discovery has installed a
  newer one: `Loaded` looks at `requestSerial` only, as the code does. The admission compares
  the revisions, so no property forbids it. `loadState` stays `loading` when the save of a cached
  selection fails, and `ready` after a discovery has removed the runtime.
* Left out: mappings and Mask bindings (except that their removal awaits and that their writes
  refresh the copy), drafts, null revisions, `openInComfyUi`.

### How ComfyUiExecution corresponds to the driver, the session and the page

* An **attempt** is one Job of the ComfyUI lane, which runs one at a time; `task[a]` is its Task,
  so that an admitted Retry has the same Task. `Admit` takes a Retry only when the last
  attempt's error allows it (`Disposition`), as `canRetry` in the Session does.
* `pc` names the awaits of `executeComfyUiFrontendQueue`: uploads (`prepare`), `resolve`,
  the handshake, the submission, `observing`. An error is what its stage makes of it.
* The **session** is one `BridgeSession`; attempts of one workflow share it. `timer` is its
  `loadTimeout`, `retiring` its `retireWhenIdle`. A reload is one action of `rotateLoad`; a
  message of the old load is no longer answered, since its identity has changed, and the page
  and what runs in it are gone (`PageGone`). A POST that has left is not (`posting`).
* The **page** goes on without its driver: `lease` and `stage` are where `submit` stands.
  `outstanding` are the native calls still to come, those of abandoned attempts included;
  `Call` is the observer, `left` an observer that stayed in the chain because another
  extension wrapped it, `Foreign` a prompt of the user. `SoleReceipt` is the last look at
  `callCount`.
* `app.queuePrompt` and `openWorkflow` have no time-out in the page: a call that hangs keeps
  the lease until a reload, and every submission until then is refused with a final error.
  After a submission that timed out, the next Task's may be refused in the same way.
* When an abandoned attempt's call (or a foreign prompt) comes through a later observer whose
  own call never comes, the receipt is the other prompt's; `ReceiptIsOwn` is about all other cases.
* A completed prompt with more than 64 outputs is refused by `validateComfyUiExecutionResult`
  with an error without a disposition, so its Task fails and may be retried (`Observed` with
  "raw"), while `docs/ENGINEERING_CONTEXT.md:131-132` has History collect every output. The
  prompt has ended by then, so `NeverReplayed` allows that Retry. A submission on a session
  that has retired after its handshake ends as submission-unknown though nothing was sent.
* Left out: the `api-graph` driver, the commands that list, open and read workflows (they take
  no lease, and one that opens another workflow during a submission may reset the canvas
  before the graph is read), the message contract, hint sources, and all graph and form data.

### How the other modules correspond to their sources

* **ProviderAsyncExecution, GrsaiExecution.** Time is counted in steps of `delay`, from `Min` to
  `Max` poll delay; `elapsed` is what `now() - startedAt` would say. A second `execute` of a Job
  joins the first and changes nothing. The manager never retries a poll that throws, though
  `provider.ts` leaves that decision to it; the Task then stays in `activeRemoteRefs` and
  suppresses every later usage. The model takes a POST to be charged, if at all, before it
  ends. That a usage is the Task's own would be false: another Task's whole life, or the
  charge of a POST whose answer was lost, can fall inside a submit without being seen as an
  overlap (`grsai/provider.ts:132`; the balance change promises no more than a best effort), so
  `UsageWithinSubmit` states what the window bounds.
* **MaskCoordinator.** A call is one `reconcile` of the effect or one submit. `invalidate` awaits
  the release and sets its state without a fence, so the late release of an older key empties
  the state of a newer one; a Mask re-enabled on the same selection is shown ready with its
  asset deleted; and `ownedAsset` is overwritten without a fence. `ReadyIsCurrent` and
  `DraftMaskAccounted` state what the fences do give. An asset without `canonicalMask` is stored and
  then refused without a release (lines 133-135); no host of the repository returns one.
* **TaskRetention.** `Newest` says what the code's sort-and-slice keeps, in the order of the list,
  and `Trimmed` what is left over. The history of an earlier run (`OldTasks`) and the Masks that
  Tasks name (`MaskOf`) are constants. Storing an output and writing its record are one step. A request made
  between the end of the loop and `finally` is coalesced into a loop that has ended and waits
  for the next one. A record with `remote.remoteTaskId` would stay running in the reconciliation;
  no code of the repository writes one. The watermark does not protect a Mask that a failed Task still names.
* **ComfyUiStateFile.** An unreadable file counts as none, so a `compareAndSave` that expects
  none replaces it; a load may delete the staging file of a write that was queued meanwhile,
  which then fails and leaves the old state.
* **ThumbnailStore.** `InOrder` says what is left of the queue when the waiters of a round have
  been filtered out of it. A round whose first preview fails leaves the others in the cache with a
  reference nobody releases (`OneFailed`); no document promises more.
* **UxpTaskFile.** A Task file that cannot be read is an empty history for the next write
  (`Unreadable`; it is FALSE in the run, which needs no unreadable file to fail).

## Runs

| Run | Instance | Shows |
|---|---|---|
| `session_lanes` | 3 Tasks, two of them in the one-slot ComfyUI lane, cap 2, 3 entries | `CapsHold` (global cap, lane caps), `SlotHasOwner`, `NoLostWakeup`, `FifoStart` |
| `session_retries` | 2 Tasks in a two-slot lane, cap 2, 4 entries | `TypeOK`, `OneAttempt` (one live attempt per Task, and a Task with an attempt stays known), `DurableBeforePublished`, `RetryPromiseOwned`, `NoJobAfterDispose`, `PublishedResultStays`, and the refinement `ImplementsDurableTask` |
| `session_liveness` | 2 Tasks in the one-slot lane, cap 2, 3 entries | `QueueMoves`, `AttemptsSettle` (running Jobs end in the view, results settle, Retry locks are released) under `FairSpec` |
| `session_dispose` | 1 Task, 3 entries | a violation: `DisposeDropsQueue` |
| `connection_switch` | 3 attempts, 2 servers, 1 workflow or none, 1 call under way with a fired owner's signal; beside it 2 workflows with 2 revisions, 2 selections, 2 discoveries, 2 promotions, 1 load of the file | `GenerationOwned`, `ActiveIsDurable`, `LatestWins`, `NoStaleFailure`, `SelectionKept` of the connection, `NothingStale`, `SelectionIsDurable` of the runtime, `ManagementTypeOK` |
| `connection_late_commit` | 2 attempts, 2 servers | a violation: `SupersededNeverActive` |
| `transport_requests` | 1 edit and 2 generation requests, 2 endpoints (automatic or manual), 2 codecs, 1 retry | `TypeOK`, `NoReplay` (an edit is executed once, no endpoint sees a request that it may have executed), `DispatchBudget`, `AbortIsFinal`, `CooldownRespected` |
| `transport_replay` | 1 edit, 1 generation request | a violation: `NoReplayOfUnknown` |
| `transport_rate_limit` | 1 edit, 1 generation request | a violation: `RateLimitRetried` |
| `components` | six components, see Bounds | `WithinBudget`, `UsageWithinSubmit`, `ExecutionEnds` (async execution); `DraftMaskAccounted`, `ReadyIsCurrent` (Mask); `LastReferenceKept`, `RunningAssetsKept`, `SweepFollows` (retention); `CommitReplacesExpected` (state file); `SlotsConserved` (previews); `NeverReplayed`, `ReceiptIsOwn`, `AttemptEnds` (ComfyUI execution); `ComponentsTypeOK` |
| `task_file` | 2 callers, 2 Tasks | a violation: `ImplementsTaskStore` |
| `mask_task` | 4 calls, one key of each kind | a violation: `TaskMaskKept` |

**Bounds.** `MaxEntries` caps how often an entry is pushed. Three entries suffice for every
pairwise conflict in a lane with a third entry waiting; four allow two Tasks to be retried,
or one Task three times. The caps are small so that they bind: 2 instead of 5 globally, 1 and 2 for
lanes as in the code. Symmetry exchanges the two Tasks with the same lane; it is not used in
the liveness run. The Session may simply have nothing left to do, so deadlock is not checked.

Three connection attempts are an active connection, an attempt over it and a newer one that
supersedes that, which is every role the code knows; two servers tell a switch from a
reconnection. Every call's signal may fire, but no two while both calls are under way: a fired
signal bears on its own attempt alone. Two endpoints and two codecs are what the mutually exclusive plans need, two
generation requests what shared health needs; with `MaxRetries = 1` instead of 3 both the policy
and the ledger bind (retry, codec fallback, and a further retry that the ledger refuses).
Connections and requests end, so deadlock is not checked there either. These runs check
safety only and assume no fairness.

The runtime needs two of everything: an older and a newer selection, discovery and connection,
two workflows to tell one selection from the other and two revisions to make one stale. One load
of the state file beside them (`MaxReads`) is enough for a late answer: it may begin before
either write and answer after it, and a second one would only assign the copy once more.
`MaxBeside = 1` lets a load be under way only until the second discovery is called: the one writes
the copy, the other the catalog, and they meet in promotions and selections, which both run beside
the load; its late answer stays in the copy during the second discovery. A load that this discovery
starts itself (for a Mask binding) is left to the proofs, which need neither bound. In
`components`: two Jobs under two polls and three units of time, so that either budget may run
out first; four Mask calls with a selection, a layer and a plain image; three Tasks, two of
them old, with every limit at one, and two requests; two operations on the state file over two
values, with one crash; three rounds of two previews for one slot, which is the code's default;
two ComfyUI attempts and two loads of the page. A third attempt adds no role (one abandoned,
one running); 1.76 million states with three were searched once for the safety properties
and hold. All of them may come to an end, so deadlock is not checked.

**Fairness.** The event loop runs every armed timer (`Drain`), and every promise the code
awaits settles: `executeJob`, the writes, the projection and follow-up, and the two awaits
of `retryJob` get weak fairness. All of them end in the code's own time-outs or
in host I/O that answers. A backend may answer `wait` again and again, but not for ever:
strong fairness on the other answers. Nothing is assumed of the user, so no fairness for
submit, remove, retry or dispose. A GRSAI request has a time-out and `defaultSleep` is a timer, so
`Answers` and the end of a sleep are weakly fair; so are the answers of the stores and of the
asset repository that the sweep awaits. Every HTTP request, exchange and observation of a ComfyUI driver
has a time-out of its own, and a load has `loadTimeout`: the driver and that timer are weakly
fair, and nothing in the page is, neither `app.queuePrompt` nor the receipt nor the server.

**Findings.** `session_dispose`: `retryJob` does not look at `disposed` after its awaits, so
a Retry admitted after `dispose()` enters the queue of a dead Session, is never settled, and
keeps its `inFlightRetry` lock, against the documented "Session clear/unmount drops queued
work". `RetryPromiseOwned` and the Retry part of `AttemptsSettle` are therefore stated for a live Session.

`connection_late_commit`: when `compareAndSave` answers `committed`, `execute` promotes without
another look at the turn. An edit of the draft during `moveTo` supersedes the attempt and
disposes its generation; the attempt is saved and becomes the active connection all the same,
without a generation, and clears `current` even when a newer attempt is in it. The OpenSpec
change says a superseded attempt that completes late is neither saved nor promoted. A later
`dispose()` then throws in the resolver before it publishes. `LatestWins` is therefore stated
for attempts that were not superseded.

`transport_replay`: `shouldFailover` sends a paid generation request to the next endpoint after
`network_error` or 502/503/504, while the accepted ADR says that an unknown execution state
stops at once with no cross-endpoint failover. `packages/providers/ARCHITECTURE.md` claims this
for OpenAI edits only; there it holds (`NoReplay`).

`transport_rate_limit`: retries count against `maxAttempts`, which defaults to the number of
candidates. With one candidate a 429 is never retried, while the ADR says that the retry
policy alone governs it.

`task_file`: `put` and `delete` of the UXP Task store read the whole JSON file, await, and write
the whole of it. Of two that overlap, one is lost: five Tasks may run at once, and the
reconciliation and the sweep write the same file. The port promises an upsert by `taskId`.

`mask_task`: a submit hands the Mask to its Task and empties the composer; the next `reconcile`
then finds no primary image and releases the Mask it still owns, which deletes the stored
file. The Mask change says that an asset a Task refers to stays available for Retry.

**Mutants.** Every property of a passing run has a mutant of the code's own logic (a slot not
given back, a check after an await dropped, a write not awaited, ...), defined beside what it
replaces and marked `MUTANT of`; `PROJECT.json` pairs them.

## Proofs

Every invariant and action property of the passing runs is a theorem, for all values of
the constants, under the specification that the run checks it under; the five liveness
properties are not (see below). In each part the property is not inductive as it stands, and
the strengthened invariant was checked by TLC before it was proved.

**Session.** For all finite sets of Tasks, all lanes, lane caps, global caps and bounds
(`SessionAssumption`), `ImagenSession_proofs` proves type correctness, every safety
invariant and action property of the two passing safety runs, and that the Session
implements `DurableTask`.

That a Task has one live attempt, say,
depends on which Jobs may still be retried, hence on what the store holds and on what is
in flight. `IInv` (`ImagenSessionInductive`) adds what is missing, in named parts:

* `Numbering`, `DispatchPhases`, `TerminalPhases`, `Projections`: which phases of the
  coroutines of an entry go with which queue, slot, correlation and Job status;
* `Slots`, `Attempts`, `FirstAttempts`, `Known`: a slot's entry is in a phase that gives it
  back, one live attempt per Task, one first attempt per known Task;
* `Records`, `Writes`, `Views`, `DurableBeforePublished`: what the record of a Task says of
  its Jobs, and that a write in flight belongs to the latest attempt;
* `Retries`, `Promises`: a Retry in flight is of the Task's latest, failed Job;
* `Caps`, `NoLostWakeup`: slots bounded by the caps, and the armed drain.

TLC checks `IInv` as an invariant before it is proved. Each part has a lemma
`ASSUME IInv, [Next]_vars PROVE Part'`, with one step per action that moves it and
`QuietSteps` for the rest; the lemmas about helpers (`PushEffect`, `SlotReleased`,
`CountTasks`, `FewerSlots`, ...) are stated once. `Inductive` combines them, and the
theorems follow from it. Where the count of Jobs on a backend matters, the proof maps each
such Job to the Task whose slot it holds, which is injective, and compares cardinalities.

**ComfyUI connection.** `ComfyUiConnection_proofs` proves `GenerationOwned`, `ActiveIsDurable`,
`LatestWins`, `NoStaleFailure`, `SelectionKept` and type correctness for any number of attempts,
servers and workflows (`ConnectionAssumption`). `ConnectionImplemented` carries all of them over
to the composed management service: its behaviours are behaviours of the connection. After the file was replaced the code promotes
without another look at the turn, so no check in it makes `LatestWins` true. The invariant says
why it holds: attempts start in the order of their calls (`Order`); the attempt in `current` is
the newest that executes and newer than the active one (`Turn`); an attempt past its load that
was not told otherwise still has the turn (`KeepsTurn`), because nothing older is in the write
lane beside it (`LaneOrder`) and a newer one would have superseded it; and from the comparison
to the replacement the file is what was loaded (`Saved`). `KeepsTurn` and `LaneOrder` need each
other, and `Saved` needs both.

**ComfyUI management.** `ComfyUiWorkflows_proofs` proves `NothingStale`, `SelectionIsDurable` and
type correctness. `Serials` and `Makers` order the selections and discoveries by their serials;
`Fresh` says what a load or a discovery in flight may still bring into the runtime; `Lane`
says that the write lane holds the selections in the order of their calls and only its first
one writes; `Durable` that after the latest selection the lane is empty; `Copied` that the copy
holds what the file does, unless it is missing, a late load's, or about to be assigned by the
write that has changed the file. `SelectionIsDurable` is proved for the selections that were not `misled`. Types rest on more than
typing (`Detail`): at most one runtime is current because everything in the cache is of one
connection, a loop over the catalog has a next workflow because what a server lists is finite,
the lane is no longer than the number of calls because it is ordered.

**Transport.** `ProviderTransport_proofs` proves type correctness, `NoReplay`, `DispatchBudget`,
`AbortIsFinal` and `CooldownRespected` for any number of requests, endpoints, codecs and retries
(`TransportAssumption`). A paid request is not executed twice at an endpoint because failover
only goes forward in a plan that names each endpoint once: what was executed lies before the
position it stands at (`Progress`); an edit that may have been executed has ended. `Counted`
relates the dispatches to the ledger: at most one dispatch is not counted yet. Where the model
takes a least or greatest element, `LeastNat` supplies it from the well-foundedness of `<`.

**ComfyUI execution.** `ComfyUiExecution_proofs` proves `NeverReplayed` and `ReceiptIsOwn` for any
number of attempts and page loads. The first invariant relates the phase of the driver to where
its prompt may be (`NotYetSent`, `Phases`), an outcome that allows a Retry to a prompt that cannot be
queued (`Retryable`), and the attempts of a Task to each other (`LatestDecides`). The steps of
the page and the session enter only through `LawfulStep`, what each may do to an attempt. `PInv`
adds the page: a receipt is that of the first call its observer has seen (`OfFirstCall`), so a
second call can only take it away. Both theorems have the exemption described above: an attempt
whose own call has not come may accept another prompt's receipt, and an attempt that had
any receipt is out of `NeverReplayed`.

**Async execution.** `GrsaiExecution_proofs` proves `WithinBudget` and `UsageWithinSubmit` for all
budgets and delays. Polls times the minimal delay never exceed the elapsed time of an
execution that sleeps (`Polled`), and what was executed is in `started` unless the manager is
disposed (`Started`). For the usage, `Accounted` says when the books of a Task are closed: an
active Task that nothing has overlapped has no charge pending beside it, and its reading before
the submit is newer than what was charged before. The count of pending charges is bounded
by the finite set of Jobs that submit (`Books`). Whose charge it was within the window of the
submit is not proved, and would be false.

**Mask.** `Components_proofs` proves `DraftMaskAccounted` and `ReadyIsCurrent` for any number of
calls and keys. The latter follows from `ReadyIsOwned`, which also says which Mask is shown, and
this needs that no call in flight will set a state that is ready (`NeverReady`) and that
each call takes a generation of its own (`Numbered`).

**Retention.** `TaskRetention_proofs` proves `LastReferenceKept` and `RunningAssetsKept` for any
history, policy and number of requests. What the sweep holds was listed some awaits ago, so the
invariant says what is still true of it: nothing on its list of deletions is of a Task that
was running when listed (`SparesRunning`), a Task that was listed as completed is never retried
(`Lives`), and the assets of a record that may be deleted are gone, named by another record or
orphans already (`Forgettable`). What the code does to records that were rewritten since the listing,
or to a Task that was retried since, is exempt in both: it can lose their assets.

**State file.** `Components_proofs` proves `CommitReplacesExpected` for any number of operations
and crashes. A write compares and moves four steps apart, with loads beside it: `Lane` says that
no other write is under way meanwhile, `OwnStaging` that the staging file is then its own or
deleted, `Expected` that the file is still the one it compared with, and `NoLeftover` that what a
crash or a failed write left behind is gone before the next write creates its own.

**Thumbnails.** `Components_proofs` proves `SlotsConserved` for any rounds and outputs: the queue
holds each waiting request once (`Waiting`), the slots are counted by a finite set of requests
that hold one, and a waiter implies that all are taken (`Counted`).

**Compositions.** Both compositions move one component at a time and leave the others alone
(`Moves` in `Components_proofs`, `ManagementMoves` in `ComfyUiConnection_proofs`), so each component
keeps its own invariant, and what one of its steps may not do, the composed step does not do.
The theorems whose name ends in `Here` state the properties under the composed specification,
as the runs check them; those of the instanced modules that end in `Always` state them for the
module alone.

The assumptions are the ASSUMEs of the modules that declare the constants
(`SessionAssumption`, `ConnectionAssumption`, `TransportAssumption`, `ManagementAssumption`,
`ComponentsAssumption`), which TLC evaluates in every run: bounds and budgets are natural
numbers, lists are finite, the keys of a selection are not those of a layer, Tasks do not
serve as names of their Masks. Modules that runs reach through INSTANCE have no ASSUME: their own
theorems take the same facts as a hypothesis (`Bounds`, `Finite`, `Budgets`, `Given`), and the
composed ones prove it from the ASSUME.

**Only model-checked**: the liveness properties `QueueMoves`, `AttemptsSettle`, `ExecutionEnds`,
`SweepFollows` and `AttemptEnds`, since the proof system reasons about neither fairness nor
ENABLED, and the findings, which are counterexamples. Induction over data is out of reach as well
(the library's induction theorems take an operator as a parameter, which no installed prover
instantiates), and so is what is defined with it, such as `SelectSeq` or sums over a set: where the
code filters or sorts, the models therefore say what the result is (`Newest`, `InOrder`,
`EndpointOrders`) rather than compute it, which is shorter too.

## Plan

Each module of the first plan has been written and checked. What remains, most important first:

1. Refinements: an abstract store of one value for `ComfyUiStateFile` (a crash and a load
   beside a write leave the old or the new state), and an abstract connection (one active target,
   switched as a whole) for `ComfyUiConnection`, each with a proof that every step maps to a step.
2. Mappings and Mask bindings of the management service.
3. The job history file and its trim beside the sweep.

## Not modelled

* **Without state of their own**: the Provider and ComfyUI generation backends and the admission
  (they validate and project what they are given; what the Session lets them answer is in
  `ImagenSession`), Provider request codecs and response parsing, ComfyUI graph, form and output
  validation, secret screening and redaction. The repository's tests check these.
* **Host I/O**: Photoshop imaging and placement, and the one queue that keeps its modal calls
  apart; the Chrome adapters, whose storage calls are one IndexedDB transaction each; secrets,
  settings and logs; the uploads of the RunningHub adapter.
* **Without a caller in the application**: `recoverTraceableTasks`, `clear` and shared keys of the
  thumbnail store, the remote outputs hook of the execution manager, the `api-graph` driver for
  saved workflows.
* **Of modelled components**: the trim of the job history and of the logs in the sweep,
  multi-step Core workflows, drafts, mappings and Mask bindings of the management service,
  deadlines and the broad retry mode of the transport.
* **Views, styles, i18n, motion, harnesses, build and debug scripts, documents**: most of the
  repository's lines, and none with a protocol. They are why the modules cover a small share
  of all lines.

`PROJECT.json` names the sources of each component with the reason.
