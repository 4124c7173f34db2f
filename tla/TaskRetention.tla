---------------------------- MODULE TaskRetention ----------------------------
(***************************************************************************)
(* The Task history and what works on it beside the Session: the retention  *)
(* controller (shared/retention/controller.ts), its sweep                   *)
(* (task-linked-retention.ts), and the reconciliation of stale running      *)
(* Tasks at startup (commands/task-history.ts).  Every list, put and delete *)
(* is an await, and they interleave with the writes of the Session.         *)
(*                                                                         *)
(* The history is the list of records, newest first, as updatedAt orders    *)
(* them; each call of the store is atomic.  The output of a Task is named   *)
(* by the Task.  The job history trimmed by the same sweep is left out.     *)
(***************************************************************************)
EXTENDS Naturals, Sequences, SequencesExt, FiniteSetsExt

CONSTANTS
  Tasks,
  OldTasks,        \* sequence: the Tasks of the previous run, newest first
  MaskOf,          \* Task -> the Masks its Edit Region refers to
  MaxTerminal,     \* policy.maxTerminalTaskRecords
  HighWatermark,   \* policy.generatedAssetHighWatermark
  LowWatermark,    \* policy.generatedAssetLowWatermark
  MaxRequests      \* bound: calls of requestSweep

VARIABLES
  history,      \* records [task, status], newest first
  stored,       \* the assets in the store
  live,         \* the Tasks with a live Job in the Session
  known,        \* the Tasks this Session has run
  loop,         \* the sweep's place, "resolved" before finally, or "idle"
  rerunRequested,
  listed,       \* the history the sweep has listed
  left,         \* the assets, or Tasks, the sweep has still to delete
  undeleted,    \* the assets of the trim whose deletion failed
  deleted,      \* deletedTaskIds
  requests,     \* calls of requestSweep so far
  asked,        \* a request waits for a sweep that begins after it
  reconcile,    \* "idle", "listing", "putting" or "done"
  active,       \* activeTaskIds of the reconciliation
  stale,        \* the listed records it has still to rewrite
  orphans       \* assets of records overwritten or deleted though newer than listed

sweepVars == <<loop, rerunRequested, listed, left, undeleted, deleted, requests, asked>>
reconcileVars == <<reconcile, active, stale>>
vars == <<history, stored, live, known, sweepVars, reconcileVars, orphans>>

Statuses == {"running", "completed", "failed", "interrupted"}
Record(t, status) == [task |-> t, status |-> status]
Records == [task : Tasks, status : Statuses]
Assets == Tasks \cup UNION Range(MaskOf)

RefsOf(r) == MaskOf[r.task] \cup (IF r.status = "completed" THEN {r.task} ELSE {})
Refs(records) == UNION {RefsOf(r) : r \in records}
With(h, status) == {r \in Range(h) : r.status = status}
\* The n newest of the records of h that are in S.
Newest(h, S, n) ==
  {h[i] : i \in {k \in DOMAIN h : h[k] \in S /\ Cardinality({l \in 1 .. k : h[l] \in S}) <= n}}

TypeOK ==
  /\ Range(history) \subseteq Records
  /\ \A i, k \in DOMAIN history : history[i].task = history[k].task => i = k
  /\ stored \subseteq Assets /\ live \subseteq known /\ known \subseteq Tasks
  /\ loop \in {"idle", "listing", "trimming", "forgetting", "watermark", "resolved"}
  /\ Range(listed) \subseteq Records /\ left \subseteq Assets /\ undeleted \subseteq Assets
  /\ deleted \subseteq Tasks /\ requests \in 0 .. MaxRequests
  /\ rerunRequested \in BOOLEAN /\ asked \in BOOLEAN
  /\ reconcile \in {"idle", "listing", "putting", "done"}
  /\ active \subseteq Tasks /\ stale \subseteq Records /\ orphans \subseteq Assets

Init ==
  /\ \E status \in [DOMAIN OldTasks -> Statuses] :
       history = [i \in DOMAIN OldTasks |-> Record(OldTasks[i], status[i])]
  /\ stored = Refs(Range(history))
  /\ live = {} /\ known = {}
  /\ loop = "idle" /\ rerunRequested = FALSE /\ listed = <<>> /\ left = {}
  /\ undeleted = {} /\ deleted = {} /\ requests = 0 /\ asked = FALSE
  /\ reconcile = "idle" /\ active = {} /\ stale = {} /\ orphans = {}

Without(h, t) ==
  IF t \in {r.task : r \in Range(h)}
  THEN RemoveAt(h, CHOOSE i \in DOMAIN h : h[i].task = t) ELSE h
Put(r) == history' = <<r>> \o Without(history, r.task)

(***************************************************************************)
(* The Session: a Task is started, retried after a failure, and finished.   *)
(***************************************************************************)
Start(t) ==
  /\ t \notin known /\ t \notin Range(OldTasks)
  /\ Put(Record(t, "running"))
  /\ stored' = stored \cup MaskOf[t]
  /\ live' = live \cup {t} /\ known' = known \cup {t}
  /\ UNCHANGED <<sweepVars, reconcileVars, orphans>>

Retry(t) ==
  /\ t \in known \ live /\ Record(t, "failed") \in Range(history)
  /\ Put(Record(t, "running"))
  /\ live' = live \cup {t}
  /\ UNCHANGED <<stored, known, sweepVars, reconcileVars, orphans>>

Finish(t, status) ==
  /\ t \in live
  /\ Put(Record(t, status))
  /\ stored' = IF status = "completed" THEN stored \cup {t} ELSE stored
  /\ live' = live \ {t}
  /\ UNCHANGED <<known, sweepVars, reconcileVars, orphans>>

(***************************************************************************)
(* reconcileStaleRunningTaskRecords, called once when the panel is mounted. *)
(***************************************************************************)
ReconcileCalled ==
  /\ reconcile = "idle"
  /\ reconcile' = "listing" /\ active' = live
  /\ UNCHANGED <<history, stored, live, known, sweepVars, stale, orphans>>

IsStale(r) == r.status = "running" /\ r.task \notin active

ReconcileListed ==
  /\ reconcile = "listing"
  /\ reconcile' = "putting"
  /\ stale' = {r \in Range(history) : IsStale(r)}
  /\ UNCHANGED <<history, stored, live, known, sweepVars, active, orphans>>

\* What a write or delete loses when the record is not the listed one any more.
Overtaken(r) == Refs({s \in Range(history) : s.task = r.task} \ {r})

\* A record with remote.remoteTaskId, which no code of the repository writes, would stay
\* running here.
ReconcilePut(r) ==
  /\ reconcile = "putting" /\ r \in stale
  /\ Put(Record(r.task, "interrupted"))
  /\ stale' = stale \ {r}
  /\ orphans' = orphans \cup Overtaken(r)
  /\ UNCHANGED <<stored, live, known, sweepVars, reconcile, active>>

\* Every record is written, or list or a put rejected: the rest is not written.
ReconcileEnds ==
  /\ reconcile \in {"listing", "putting"}
  /\ reconcile' = "done" /\ stale' = {}
  /\ UNCHANGED <<history, stored, live, known, sweepVars, active, orphans>>

(***************************************************************************)
(* The controller: requestSweep, and executeLoop around the sweep.          *)
(***************************************************************************)
Begins == loop' = "listing" /\ rerunRequested' = FALSE /\ asked' = FALSE

\* A request between the end of the loop and finally is answered by neither.
RequestSweep ==
  /\ requests < MaxRequests
  /\ requests' = requests + 1
  /\ IF loop = "idle" THEN Begins
     ELSE /\ rerunRequested' = TRUE /\ asked' = (loop # "resolved")
          /\ loop' = loop
  /\ UNCHANGED <<history, stored, live, known, listed, left, undeleted, deleted, reconcileVars,
                 orphans>>

\* MUTANT of NextRound: the loop resolves without looking at the requests it collected.
NextRoundNone == loop' = "resolved" /\ UNCHANGED <<rerunRequested, asked>>

\* After a sweep: the next round, or the promise resolves.
NextRound == IF rerunRequested THEN Begins ELSE loop' = "resolved" /\ UNCHANGED <<rerunRequested, asked>>

LoopFinally ==
  /\ loop = "resolved" /\ loop' = "idle"
  /\ UNCHANGED <<history, stored, live, known, rerunRequested, listed, left, undeleted, deleted,
                 requests, asked, reconcileVars, orphans>>

(***************************************************************************)
(* runTaskLinkedRetention.                                                 *)
(***************************************************************************)
Terminal(h) == {r \in Range(h) : r.status # "running"}
RetainedOf(h) == Newest(h, Terminal(h), MaxTerminal)
Trimmed(h) == Terminal(h) \ RetainedOf(h)
\* MUTANT of Retained: only the retained terminal records protect their assets.
RetainedTerminal(h) == Refs(RetainedOf(h))
Retained(h) == Refs(With(h, "running") \cup RetainedOf(h))

SweepListed ==
  /\ loop = "listing" /\ loop' = "trimming"
  /\ listed' = history
  /\ left' = Refs(Trimmed(history)) \ Retained(history)
  /\ undeleted' = {} /\ deleted' = {}
  /\ UNCHANGED <<history, stored, live, known, rerunRequested, requests, asked, reconcileVars,
                 orphans>>

\* deleteRefs, for the trim and for the watermark: a failure is noted.
DeleteAsset(a) ==
  /\ loop \in {"trimming", "watermark"} /\ a \in left
  /\ left' = left \ {a}
  /\ \/ stored' = stored \ {a} /\ undeleted' = undeleted
     \/ stored' = stored /\ undeleted' = undeleted \cup {a}
  /\ UNCHANGED <<history, live, known, loop, rerunRequested, listed, deleted, requests, asked,
                 reconcileVars, orphans>>

\* MUTANT of CanForget: a record is deleted whether or not its assets were.
CanForgetAlways(r) == TRUE
CanForget(r) == RefsOf(r) \cap undeleted = {}

AssetsTrimmed ==
  /\ loop = "trimming" /\ left = {}
  /\ loop' = "forgetting"
  /\ left' = {r.task : r \in {s \in Trimmed(listed) : CanForget(s)}}
  /\ UNCHANGED <<history, stored, live, known, rerunRequested, listed, undeleted, deleted,
                 requests, asked, reconcileVars, orphans>>

DeleteRecord(r) ==
  /\ loop = "forgetting" /\ r \in Range(listed) /\ r.task \in left
  /\ history' = Without(history, r.task)
  /\ left' = left \ {r.task} /\ deleted' = deleted \cup {r.task}
  /\ orphans' = orphans \cup Overtaken(r)
  /\ UNCHANGED <<stored, live, known, loop, rerunRequested, listed, undeleted, requests, asked,
                 reconcileVars>>

\* The completed records of those that remain, and the assets that the watermark spares.
Completed(remaining) == {r \in remaining : r.status = "completed"}
Protected(h, remaining) ==
  Refs(With(h, "running") \cup Newest(h, Completed(remaining), LowWatermark))

\* The record by which uniqueRefOwners dates an asset: the oldest that names it.
Age(h, remaining, a) ==
  Max({i \in DOMAIN h : h[i] \in Completed(remaining) /\ a \in RefsOf(h[i])})

Surplus(h, remaining, targets) ==
  LET owned == Refs(Completed(remaining))
      candidates == owned \ Protected(h, remaining)
      needed == IF Cardinality(owned) > HighWatermark THEN Cardinality(owned) - LowWatermark ELSE 0
  IN /\ targets \subseteq candidates
     /\ Cardinality(targets) = Min({needed, Cardinality(candidates)})
     /\ \A a \in targets, b \in candidates \ targets : Age(h, remaining, a) >= Age(h, remaining, b)

RecordsForgotten ==
  LET remaining == {r \in Range(listed) : r.task \notin deleted} IN
  /\ loop = "forgetting" /\ left = {}
  /\ loop' = "watermark"
  /\ \E targets \in SUBSET Assets : Surplus(listed, remaining, targets) /\ left' = targets
  /\ UNCHANGED <<history, stored, live, known, rerunRequested, listed, undeleted, deleted,
                 requests, asked, reconcileVars, orphans>>

\* The sweep ends, or list or the deletion of a record rejects.
SweepEnds ==
  /\ \/ loop = "watermark" /\ left = {}
     \/ loop = "listing"
     \/ loop = "forgetting" /\ left # {}
  /\ NextRound
  /\ left' = {} /\ listed' = <<>> /\ undeleted' = {} /\ deleted' = {}
  /\ UNCHANGED <<history, stored, live, known, requests, reconcileVars, orphans>>

SweepSteps ==
  \/ SweepListed \/ (\E a \in Assets : DeleteAsset(a)) \/ AssetsTrimmed
  \/ (\E r \in Records : DeleteRecord(r)) \/ RecordsForgotten \/ SweepEnds \/ LoopFinally

Next ==
  \/ \E t \in Tasks : Start(t) \/ Retry(t) \/ Finish(t, "completed") \/ Finish(t, "failed")
  \/ ReconcileCalled \/ ReconcileListed \/ (\E r \in Records : ReconcilePut(r)) \/ ReconcileEnds
  \/ RequestSweep \/ SweepSteps

\* Every call of the stores answers.
Fairness == WF_vars(SweepSteps)

Spec == Init /\ [][Next]_vars /\ Fairness

\* "删除失败时保留 task 记录，避免丢失最后的 ref 线索" (task-linked-retention.ts:99): an
\* asset that is still stored is named by a record of the history, unless its
\* record was rewritten between a listing and the write or delete based on it.
LastReferenceKept == stored \subseteq Refs(Range(history)) \cup orphans

\* No sweep deletes an asset of a Task whose record says running, as it did when it was
\* listed (task-linked-retention.ts:118, 159).  A Task retried since the listing is exempt.
RunningAssetsKept ==
  [][\A r \in With(listed, "running") :
       r \in Range(history) => RefsOf(r) \cap stored \subseteq stored']_vars

\* "coalesced：运行期间的新请求合并成下一轮" (controller.ts:11): a request made while a
\* sweep runs is followed by a sweep that begins after it.
SweepFollows == asked ~> ~asked
=============================================================================
