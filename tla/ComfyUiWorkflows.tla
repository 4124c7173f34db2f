--------------------------- MODULE ComfyUiWorkflows ---------------------------
(***************************************************************************)
(* The workflow runtime of application/src/comfyui/management.ts: the       *)
(* catalog a discovery installs, the cache, the current workflow, and the   *)
(* selection that is written to the state file.                            *)
(*                                                                         *)
(* A workflow is an identity of the catalog: its id, its revision and, for  *)
(* the properties only, the connection attempt it was listed or loaded      *)
(* from.  The durable writes all go through one lane, so compareAndSave of  *)
(* mutateState meets no conflict; what mappings and Mask bindings the file   *)
(* holds besides the selection, and the drafts, are left out, but not that   *)
(* their writes refresh the cached copy of the file.  The discovery that     *)
(* follows a promotion is one of those that may start at any time.          *)
(*                                                                         *)
(* That copy, `durable`, is what a selection is compared with.  It is        *)
(* assigned by every load when its answer comes, however old the answer is. *)
(***************************************************************************)
EXTENDS Naturals, Sequences, SequencesExt

CONSTANTS
  Workflows, Revisions,
  MaxSelections,   \* bound: calls of selectWorkflow, those of refresh included
  MaxDiscoveries,  \* bound: calls of discover
  MaxPromotions,   \* bound: connection attempts that become active
  MaxReads         \* bound: loads of the state file under way, a selection's own not counted

Selections == 1 .. MaxSelections
Discoveries == 1 .. MaxDiscoveries
Reads == 1 .. MaxReads
Identities == [workflow : Workflows, revision : Revisions, target : 0 .. MaxPromotions]

VARIABLES
  target,           \* attemptId of the active connection, 0: none
  catalog, cache,   \* the identities in them
  current,          \* the current runtime, or none of them
  loadState,        \* "idle", "loading", "ready" or "error"
  requestSerial,
  discoverySerial,  \* discoveries are numbered in the order of their calls
  selectionSerial,  \* selections, too: the number of them
  selected,         \* the selected workflow in the state file, or none
  wanted,           \* selection -> the runtime it selects or loads, or none
  serial,           \* selection -> its serial
  hit,              \* the selections answered by the cache
  sPc,              \* selection -> where it stands
  tail,             \* the lane of selectionWriteTail
  owner,            \* discovery -> ownerAttemptId
  found,            \* discovery -> nextCatalog
  changed,          \* discovery -> the identities of the catalog still to be invalidated
  dPc,              \* discovery -> where it stands
  maker,            \* the discovery that made the catalog, 0: none (history)
  durable,          \* the selection in the cached copy of the file; {}: there is no copy
  rPc,              \* load of the file -> "none", "called", "seen", or "late" when a
                    \* selection has been written since it saw the file (history)
  seen,             \* load -> the copy it brings
  origin,           \* "late" when the copy is the answer of a late load, else "seen" (history)
  misled            \* the selections answered with no copy or with a late one (history)

runtimeVars == <<catalog, cache, current, loadState>>
selectionVars == <<selectionSerial, selected, wanted, serial, hit, sPc, tail>>
discoveryVars == <<discoverySerial, owner, found, changed, dPc, maker>>
readVars == <<rPc, seen>>
copyVars == <<durable, readVars, origin, misled>>
vars == <<target, requestSerial, runtimeVars, selectionVars, discoveryVars, copyVars>>

TypeOK ==
  /\ target \in 0 .. MaxPromotions /\ requestSerial \in Nat
  /\ catalog \subseteq Identities /\ cache \subseteq Identities
  /\ current \subseteq Identities /\ \A r, s \in current : r = s
  /\ loadState \in {"idle", "loading", "ready", "error"}
  /\ selectionSerial \in 0 .. MaxSelections /\ discoverySerial \in 0 .. MaxDiscoveries
  /\ selected \subseteq Workflows /\ maker \in 0 .. MaxDiscoveries
  /\ \A s \in Selections :
       /\ wanted[s] \subseteq Identities /\ serial[s] \in 0 .. requestSerial
       /\ sPc[s] \in {"none", "loading", "queued", "reading", "writing", "written", "selected",
                     "failed"}
  /\ hit \subseteq Selections /\ tail \in SeqOf(Selections, MaxSelections)
  /\ \A d \in Discoveries :
       /\ owner[d] \in 0 .. MaxPromotions /\ found[d] \subseteq Identities
       /\ dPc[d] \in {"none", "listing", "unbinding", "installed", "ended"}
       /\ dPc[d] = "unbinding" => changed[d] # <<>> /\ Head(changed[d]) \in Identities
  /\ durable \subseteq SUBSET Workflows /\ origin \in {"seen", "late"} /\ misled \subseteq Selections
  /\ rPc \in [Reads -> {"none", "called", "seen", "late"}]
  /\ seen \in [Reads -> SUBSET SUBSET Workflows]

Init ==
  /\ target = 0 /\ requestSerial = 0
  /\ catalog = {} /\ cache = {} /\ current = {} /\ loadState = "idle"
  /\ selectionSerial = 0 /\ selected \in {{}} \cup {{w} : w \in Workflows}
  /\ wanted = [s \in Selections |-> {}] /\ serial = [s \in Selections |-> 0]
  /\ hit = {} /\ sPc = [s \in Selections |-> "none"] /\ tail = <<>>
  /\ discoverySerial = 0 /\ owner = [d \in Discoveries |-> 0]
  /\ found = [d \in Discoveries |-> {}] /\ changed = [d \in Discoveries |-> <<>>]
  /\ dPc = [d \in Discoveries |-> "none"] /\ maker = 0
  /\ durable = {} /\ origin = "seen" /\ misled = {}
  /\ rPc = [r \in Reads |-> "none"] /\ seen = [r \in Reads |-> {}]

Without(records, w) == {r \in records : r.workflow # w}

-----------------------------------------------------------------------------
(* The cached copy of the state file. *)

\* What a load may see: there is no state when the file cannot be read.
Readable == {{}, {selected}}

Calls(r) == rPc[r] = "none" /\ rPc' = [rPc EXCEPT ![r] = "called"]

\* state() finds no copy: of loadState, runtimeBaseUrl, setMapping, setMaskBinding and
\* withoutMaskBinding.
StateCalled(r) ==
  /\ durable = {} /\ Calls(r)
  /\ UNCHANGED <<target, requestSerial, runtimeVars, selectionVars, discoveryVars, durable,
                 seen, origin, misled>>

FileSeen(r) ==
  /\ rPc[r] = "called" /\ rPc' = [rPc EXCEPT ![r] = "seen"]
  /\ \E copy \in Readable : seen' = [seen EXCEPT ![r] = copy]
  /\ UNCHANGED <<target, requestSerial, runtimeVars, selectionVars, discoveryVars, durable,
                 origin, misled>>

\* The answer becomes the copy, whatever has become of the file and the copy since.
LoadAnswers(r) ==
  /\ rPc[r] \in {"seen", "late"} /\ rPc' = [rPc EXCEPT ![r] = "none"]
  /\ durable' = seen[r] /\ origin' = rPc[r]
  /\ seen' = [seen EXCEPT ![r] = {}]
  /\ UNCHANGED <<target, requestSerial, runtimeVars, selectionVars, discoveryVars, misled>>

\* mutateState of a mapping or a Mask binding has ended.  The lane of the durable writes
\* holds back that of a selection meanwhile.
BindingSaved ==
  /\ target > 0 /\ \A s \in Selections : sPc[s] # "written"
  /\ durable' = {selected} /\ origin' = "seen"
  /\ UNCHANGED <<target, requestSerial, runtimeVars, selectionVars, discoveryVars, readVars,
                 misled>>

-----------------------------------------------------------------------------
(* The connection. *)

\* A connection is promoted: invalidateRuntime.  connect loads the state again, the
\* recovery of a committed target does not.
Promote ==
  /\ target < MaxPromotions /\ target' = target + 1
  /\ UNCHANGED rPc \/ \E r \in Reads : Calls(r)
  /\ requestSerial' = requestSerial + 1
  /\ catalog' = {} /\ cache' = {} /\ current' = {} /\ loadState' = "idle" /\ maker' = 0
  /\ UNCHANGED <<selectionVars, discoverySerial, owner, found, changed, dPc, durable, seen,
                 origin, misled>>

-----------------------------------------------------------------------------
(* discover. *)

\* MUTANT of IsCurrentDiscovery: the connection may have changed.
IsNewestDiscovery(d) == d = discoverySerial
IsCurrentDiscovery(d) == d = discoverySerial /\ target = owner[d]

Discover ==
  /\ discoverySerial < MaxDiscoveries /\ discoverySerial' = discoverySerial + 1
  /\ owner' = [owner EXCEPT ![discoverySerial'] = target]
  /\ dPc' = [dPc EXCEPT ![discoverySerial'] = IF target = 0 THEN "ended" ELSE "listing"]
  /\ UNCHANGED <<target, requestSerial, runtimeVars, selectionVars, found, changed, maker,
                 copyVars>>

\* The loop over the catalog: the next changed workflow leaves the cache before its
\* Mask binding is removed, and after the last one the new catalog is installed.
Continue(d, next, rest) ==
  /\ changed' = [changed EXCEPT ![d] = rest]
  /\ found' = [found EXCEPT ![d] = IF rest = <<>> THEN {} ELSE next]
  /\ IF rest = <<>>
     THEN /\ catalog' = next /\ maker' = d /\ dPc' = [dPc EXCEPT ![d] = "installed"]
          /\ UNCHANGED cache
     ELSE /\ cache' = Without(cache, Head(rest).workflow)
          /\ dPc' = [dPc EXCEPT ![d] = "unbinding"]
          /\ UNCHANGED <<catalog, maker>>

Ends(d) ==
  /\ dPc' = [dPc EXCEPT ![d] = "ended"]
  /\ found' = [found EXCEPT ![d] = {}] /\ changed' = [changed EXCEPT ![d] = <<>>]
  /\ UNCHANGED <<catalog, cache, current, maker>>

\* The server has answered: some of the workflows, each with a revision.
Found(d) ==
  /\ dPc[d] = "listing"
  /\ IF ~IsCurrentDiscovery(d) THEN Ends(d)
     ELSE \E listed \in SUBSET Workflows : \E revision \in [listed -> Revisions] :
            LET next == {[workflow |-> w, revision |-> revision[w], target |-> owner[d]]
                          : w \in listed}
            IN Continue(d, next, SetToSeq(catalog \ next)) /\ UNCHANGED current
  /\ UNCHANGED <<target, requestSerial, loadState, selectionVars, discoverySerial, owner,
                 copyVars>>

\* withoutMaskBinding has ended.
Unbound(d) ==
  /\ dPc[d] = "unbinding"
  /\ IF ~IsCurrentDiscovery(d) THEN Ends(d)
     ELSE /\ current' = Without(current, Head(changed[d]).workflow)
          /\ Continue(d, found[d], Tail(changed[d]))
  /\ UNCHANGED <<target, requestSerial, loadState, selectionVars, discoverySerial, owner,
                 copyVars>>

\* The request, the checks of its answer or the write of a binding fail.
DiscoveryFails(d) ==
  /\ dPc[d] \in {"listing", "unbinding"} /\ Ends(d)
  /\ UNCHANGED <<target, requestSerial, loadState, selectionVars, discoverySerial, owner,
                 copyVars>>

-----------------------------------------------------------------------------
(* selectWorkflow and refresh. *)

\* A newer selection, a refresh or a promotion has come in between.
Stale(s) == serial[s] # requestSerial

Enqueue(s) == sPc' = [sPc EXCEPT ![s] = "queued"] /\ tail' = Append(tail, s)
LaneMovesOn == tail' = Tail(tail)
Done(s, result) == sPc' = [sPc EXCEPT ![s] = result]

\* The descriptor is looked up in the catalog and then in the cache.
Select(descriptor, records, serials) ==
  /\ selectionSerial < MaxSelections /\ selectionSerial' = selectionSerial + 1
  /\ requestSerial' = requestSerial + serials
  /\ cache' = records
  /\ LET s == selectionSerial'
         cached == {r \in records : r.workflow = descriptor.workflow
                                    /\ r.revision = descriptor.revision}
     IN /\ serial' = [serial EXCEPT ![s] = requestSerial']
        /\ IF cached # {}
           THEN /\ wanted' = [wanted EXCEPT ![s] = cached] /\ hit' = hit \cup {s}
                /\ Enqueue(s) /\ UNCHANGED loadState
           ELSE /\ wanted' = [wanted EXCEPT ![s] = {[descriptor EXCEPT !.target = target]}]
                /\ sPc' = [sPc EXCEPT ![s] = "loading"] /\ loadState' = "loading"
                /\ UNCHANGED <<hit, tail>>
  /\ UNCHANGED <<target, catalog, current, selected, discoveryVars, copyVars>>

SelectWorkflow == \E descriptor \in catalog : Select(descriptor, cache, 1)

Refresh ==
  \E r \in current :
    \/ \E descriptor \in catalog :
         descriptor.workflow = r.workflow /\ Select(descriptor, Without(cache, r.workflow), 2)
    \/ /\ Without(catalog, r.workflow) = catalog
       /\ cache' = Without(cache, r.workflow) /\ requestSerial' = requestSerial + 1
       /\ current' = {} /\ loadState' = "idle"
       /\ UNCHANGED <<target, catalog, selectionVars, discoveryVars, copyVars>>

Loaded(s) ==
  /\ sPc[s] = "loading"
  /\ IF Stale(s) THEN Done(s, "failed") /\ UNCHANGED tail ELSE Enqueue(s)
  /\ UNCHANGED <<target, requestSerial, runtimeVars, selectionSerial, selected, wanted, serial,
                 hit, discoveryVars, copyVars>>

LoadFails(s) ==
  /\ sPc[s] = "loading" /\ Done(s, "failed")
  /\ loadState' = IF Stale(s) THEN loadState ELSE "error"
  /\ UNCHANGED <<target, requestSerial, catalog, cache, current, selectionSerial, selected,
                 wanted, serial, hit, tail, discoveryVars, copyVars>>

\* saveSelectedWorkflow has answered whether this is still the latest request.
Answered(s) ==
  /\ LaneMovesOn
  /\ IF Stale(s) THEN Done(s, "failed") /\ UNCHANGED <<cache, current, loadState>>
     ELSE /\ Done(s, "selected") /\ current' = wanted[s] /\ loadState' = "ready"
          /\ cache' = IF s \in hit THEN cache
                      ELSE {r \in cache : \A v \in wanted[s] : r.workflow # v.workflow}
                           \cup wanted[s]

SelectedBy(s) == {r.workflow : r \in wanted[s]}

\* Only a selection that differs from the copy is written.  With no copy there is nothing
\* to write to, and the selection is answered all the same.
Compares(s, copy) ==
  IF copy \in {{}, {SelectedBy(s)}}
  THEN /\ Answered(s)
       /\ misled' = IF copy = {} \/ origin' = "late" THEN misled \cup {s} ELSE misled
  ELSE Done(s, "writing") /\ UNCHANGED <<cache, current, loadState, tail, misled>>

\* The lane has come to s, and there is a copy of the state or not.
Enter(s) ==
  /\ UNCHANGED <<target, requestSerial, catalog, selectionSerial, selected, wanted, serial, hit,
                 discoveryVars, durable, origin, readVars>>
  /\ IF Stale(s) THEN Answered(s) /\ UNCHANGED misled
     ELSE IF durable # {} THEN Compares(s, durable)
     ELSE Done(s, "reading") /\ UNCHANGED <<cache, current, loadState, tail, misled>>

\* MUTANT of LaneEnters: a selection does not wait for the write of an earlier one.
LaneEntersAtOnce(s) == sPc[s] = "queued" /\ Enter(s)
LaneEnters(s) == sPc[s] = "queued" /\ Head(tail) = s /\ Enter(s)

\* The state that s has waited for.  No other selection is written meanwhile.
PriorLoaded(s) ==
  /\ sPc[s] = "reading"
  /\ \E copy \in Readable :
       /\ durable' = copy /\ origin' = "seen"
       /\ IF Stale(s) THEN Answered(s) /\ UNCHANGED misled ELSE Compares(s, copy)
  /\ UNCHANGED <<target, requestSerial, catalog, selectionSerial, selected, wanted, serial, hit,
                 discoveryVars, readVars>>

\* mutateState has replaced the file.
WriteCommits(s) ==
  /\ sPc[s] = "writing" /\ Done(s, "written") /\ selected' = SelectedBy(s)
  /\ rPc' = [r \in Reads |-> IF rPc[r] = "seen" THEN "late" ELSE rPc[r]]
  /\ UNCHANGED <<target, requestSerial, runtimeVars, selectionSerial, wanted, serial, hit, tail,
                 discoveryVars, durable, seen, origin, misled>>

\* The state that mutateState has written is the copy.
WriteEnds(s) ==
  /\ sPc[s] = "written" /\ Answered(s)
  /\ durable' = {selected} /\ origin' = "seen"
  /\ UNCHANGED <<target, requestSerial, catalog, selectionSerial, selected, wanted, serial, hit,
                 discoveryVars, readVars, misled>>

\* A load or a write rejects, or mutateState finds no state.
WriteFails(s) ==
  /\ sPc[s] \in {"reading", "writing"} /\ Done(s, "failed") /\ LaneMovesOn
  /\ loadState' = IF Stale(s) \/ s \in hit THEN loadState ELSE "error"
  /\ UNCHANGED <<target, requestSerial, catalog, cache, current, selectionSerial, selected,
                 wanted, serial, hit, discoveryVars, copyVars>>

-----------------------------------------------------------------------------
Next ==
  \/ Promote \/ Discover \/ SelectWorkflow \/ Refresh \/ BindingSaved
  \/ \E r \in Reads : StateCalled(r) \/ FileSeen(r) \/ LoadAnswers(r)
  \/ \E d \in Discoveries : Found(d) \/ Unbound(d) \/ DiscoveryFails(d)
  \/ \E s \in Selections :
       \/ Loaded(s) \/ LoadFails(s) \/ LaneEnters(s) \/ PriorLoaded(s)
       \/ WriteCommits(s) \/ WriteEnds(s) \/ WriteFails(s)

Spec == Init /\ [][Next]_vars

-----------------------------------------------------------------------------
(* Properties. *)

\* docs/ENGINEERING_CONTEXT.md, "Promotion invalidates the old catalog, current workflow
\* runtime, cache": no load, write or discovery in flight brings anything of an old
\* connection back, and of the discoveries of a connection the newest one wins.
NothingStale ==
  /\ \A r \in catalog \cup cache \cup current : r.target = target
  /\ \A d \in Discoveries : dPc[d] = "installed" /\ owner[d] = target => d <= maker

\* runtime-core.test.ts, "keeps the latest cached Workflow selection across delayed
\* persistence": when the latest request has succeeded, its workflow is the one in the
\* file, and no write of an earlier selection comes after it.  Exempt is a selection that
\* was compared with no state, because the file could not be read, or with the answer of
\* a load that a write had overtaken: the code answers it without writing it.
SelectionIsDurable ==
  \A s \in Selections :
    sPc[s] = "selected" /\ ~Stale(s) /\ s \notin misled => selected = SelectedBy(s)
=============================================================================
