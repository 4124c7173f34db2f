------------------------ MODULE ComfyUiWorkflows_proofs ------------------------
(***************************************************************************)
(* NothingStale and SelectionIsDurable for any number of workflows,         *)
(* selections, discoveries and promotions.  Neither is inductive: what a    *)
(* load or a discovery in flight will bring depends on the serials, what a  *)
(* selection leaves in the file on the order of the lane, and what the copy *)
(* says of the file on whether a load was overtaken by a write.             *)
(***************************************************************************)
EXTENDS ComfyUiWorkflows, SequenceTheorems, FiniteSetTheorems, TLAPS

Bounds == {MaxSelections, MaxDiscoveries, MaxPromotions} \subseteq Nat

InLane == {"queued", "reading", "writing", "written"}

Typed ==
  /\ Bounds
  /\ target \in 0 .. MaxPromotions /\ requestSerial \in Nat
  /\ catalog \subseteq Identities /\ cache \subseteq Identities /\ current \subseteq Identities
  /\ selectionSerial \in 0 .. MaxSelections /\ discoverySerial \in 0 .. MaxDiscoveries
  /\ wanted \in [Selections -> SUBSET Identities] /\ serial \in [Selections -> Nat]
  /\ sPc \in [Selections -> {"none", "loading", "selected", "failed"} \cup InLane]
  /\ tail \in Seq(Selections)
  /\ owner \in [Discoveries -> 0 .. MaxPromotions]
  /\ found \in [Discoveries -> SUBSET Identities]
  /\ dPc \in [Discoveries -> {"none", "listing", "unbinding", "installed", "ended"}]
  /\ durable \subseteq SUBSET Workflows /\ seen \in [Reads -> SUBSET SUBSET Workflows]
  /\ selected \subseteq Workflows
  /\ rPc \in [Reads -> {"none", "called", "seen", "late"}]
  /\ origin \in {"seen", "late"}

\* The serials of the selections grow in the order of their calls, up to requestSerial.
Serials ==
  /\ \A s \in Selections : s <= selectionSerial <=> sPc[s] # "none"
  /\ \A s \in Selections : s <= selectionSerial => serial[s] <= requestSerial
  /\ \A s, t \in Selections : s < t /\ t <= selectionSerial => serial[s] < serial[t]

\* A discovery belongs to a connection of its time, and the newest installed one of the
\* active connection has made the catalog.
Makers ==
  /\ \A d \in Discoveries : dPc[d] # "none" => d <= discoverySerial
  /\ \A d \in Discoveries : owner[d] <= target
  /\ \A d \in Discoveries : dPc[d] = "installed" /\ owner[d] = target => d <= maker

\* What is in the runtime, and what a load or a discovery in flight may bring into it.
Fresh ==
  /\ \A r \in catalog \cup cache \cup current : r.target = target
  /\ \A s \in Selections : sPc[s] \in {"loading"} \cup InLane /\ ~Stale(s) =>
       \A v \in wanted[s] : v.target = target
  /\ \A d \in Discoveries : dPc[d] = "none" => found[d] = {}
  /\ \A d \in Discoveries : \A r \in found[d] : r.target = owner[d]

\* The lane holds the selections that wait or write, in the order of their calls; only
\* the first one reads and writes.
Lane ==
  /\ \A i, j \in 1 .. Len(tail) : i < j => tail[i] < tail[j]
  /\ \A s \in Selections : sPc[s] \in InLane <=> \E i \in 1 .. Len(tail) : tail[i] = s
  /\ \A s \in Selections : sPc[s] \in {"reading", "writing", "written"} => Head(tail) = s

\* What has been written is in the file; after the latest selection the lane is empty,
\* and what it was compared with was the file.
Durable ==
  /\ \A s \in Selections : sPc[s] = "written" => selected = SelectedBy(s)
  /\ \A s \in Selections : sPc[s] = "selected" /\ ~Stale(s) =>
       tail = <<>> /\ (s \in misled \/ selected = SelectedBy(s))

\* A load that no write has overtaken brings the selection of the file, and so does a copy
\* of it, unless a write has ended of which the runtime has not heard yet.
Copied ==
  /\ \A r \in Reads : rPc[r] = "seen" => seen[r] \in Readable
  /\ origin = "seen" /\ (\A s \in Selections : sPc[s] # "written") => durable \in Readable

IInv == Typed /\ Serials /\ Makers /\ Fresh /\ Lane /\ Durable /\ Copied

-----------------------------------------------------------------------------
(* The effect of the operators that several actions share. *)

\* The steps that only a discovery takes, and those that only a selection takes.
DiscoverySteps ==
  Discover \/ \E d \in Discoveries : Found(d) \/ Unbound(d) \/ DiscoveryFails(d)
SelectionSteps ==
  \E s \in Selections :
    \/ Loaded(s) \/ LoadFails(s) \/ LaneEnters(s) \/ PriorLoaded(s)
    \/ WriteCommits(s) \/ WriteEnds(s) \/ WriteFails(s)

\* The steps that touch nothing but the copy of the file.
CopySteps == BindingSaved \/ \E r \in Reads : StateCalled(r) \/ FileSeen(r) \/ LoadAnswers(r)

\* A selection is called: from the cache, or to be loaded.
Selects(s) ==
  /\ s = selectionSerial + 1 /\ s \in Selections /\ selectionSerial' = s
  /\ requestSerial' \in {requestSerial + 1, requestSerial + 2}
  /\ serial' = [serial EXCEPT ![s] = requestSerial']
  /\ cache' \subseteq cache
  /\ \E ids \in SUBSET Identities :
       /\ \A v \in ids : v.target = target \/ v \in cache
       /\ wanted' = [wanted EXCEPT ![s] = ids]
  /\ \/ sPc' = [sPc EXCEPT ![s] = "queued"] /\ tail' = Append(tail, s)
     \/ sPc' = [sPc EXCEPT ![s] = "loading"] /\ tail' = tail
  /\ UNCHANGED <<target, catalog, current, selected, misled, discoveryVars>>

LEMMA SelectSelects ==
  ASSUME Typed, NEW descriptor \in catalog, NEW records, records \subseteq cache,
         NEW serials \in {1, 2}, Select(descriptor, records, serials)
  PROVE  Selects(selectionSerial')
<1> DEFINE s == selectionSerial'
           cached == {r \in records : r.workflow = descriptor.workflow
                                      /\ r.revision = descriptor.revision}
<1>1. s = selectionSerial + 1 /\ s \in Selections
  BY DEF Select, Typed, Bounds, Selections
<1>2. CASE cached # {}
  <2>1. cached \in SUBSET Identities /\ \A v \in cached : v \in cache
    BY DEF Typed
  <2>2. wanted' = [wanted EXCEPT ![s] = cached]
    BY <1>2 DEF Select
  <2>3. sPc' = [sPc EXCEPT ![s] = "queued"] /\ tail' = Append(tail, s)
    BY <1>2 DEF Select, Enqueue
  <2> QED
    BY <1>1, <2>1, <2>2, <2>3 DEF Select, Selects, copyVars
<1>3. CASE cached = {}
  <2> DEFINE id == [descriptor EXCEPT !.target = target]
  <2>1. id \in Identities /\ id.target = target
    <3>1. descriptor \in Identities /\ target \in 0 .. MaxPromotions
      BY DEF Typed
    <3> QED
      BY <3>1 DEF Identities
  <2>2. wanted' = [wanted EXCEPT ![s] = {id}]
    BY <1>3 DEF Select
  <2>3. sPc' = [sPc EXCEPT ![s] = "loading"] /\ tail' = tail
    BY <1>3 DEF Select
  <2> QED
    BY <1>1, <2>1, <2>2, <2>3 DEF Select, Selects, copyVars
<1> QED
  BY <1>2, <1>3

\* A workflow that is no longer in the catalog is unloaded by its refresh.
Unloads ==
  /\ cache' \subseteq cache /\ current' = {} /\ requestSerial' = requestSerial + 1
  /\ UNCHANGED <<target, catalog, misled, selectionVars, discoveryVars>>

LEMMA RequestSteps ==
  ASSUME Typed, SelectWorkflow \/ Refresh
  PROVE  (\E s \in Selections : Selects(s)) \/ Unloads
<1>1. CASE SelectWorkflow
  BY <1>1, SelectSelects DEF SelectWorkflow, Selects
<1>2. CASE Refresh
  <2>1. PICK r \in current :
          \/ \E descriptor \in catalog : Select(descriptor, Without(cache, r.workflow), 2)
          \/ Unloads
    BY <1>2 DEF Refresh, Unloads, Without, copyVars
  <2>2. Without(cache, r.workflow) \subseteq cache
    BY DEF Without
  <2> QED
    BY <2>1, <2>2, SelectSelects DEF Selects
<1> QED
  BY <1>1, <1>2

\* What a discovery may do to the runtime.
Discovers ==
  /\ cache' \subseteq cache /\ current' \subseteq current
  /\ UNCHANGED <<target, requestSerial, misled, selectionVars>>
  /\ \/ /\ discoverySerial' = discoverySerial + 1 /\ discoverySerial' \in Discoveries
        /\ owner' = [owner EXCEPT ![discoverySerial'] = target]
        /\ \E at \in {"ended", "listing"} : dPc' = [dPc EXCEPT ![discoverySerial'] = at]
        /\ UNCHANGED <<catalog, found, maker>>
     \/ /\ UNCHANGED <<discoverySerial, owner>>
        /\ \E d \in Discoveries :
             /\ dPc[d] \in {"listing", "unbinding"}
             /\ \/ /\ dPc' = [dPc EXCEPT ![d] = "ended"] /\ found' = [found EXCEPT ![d] = {}]
                   /\ UNCHANGED <<catalog, maker>>
                \/ /\ d = discoverySerial /\ target = owner[d]
                   /\ \E next \in SUBSET Identities :
                        /\ \A r \in next : r.target = target
                        /\ \/ /\ dPc' = [dPc EXCEPT ![d] = "unbinding"]
                              /\ found' = [found EXCEPT ![d] = next]
                              /\ UNCHANGED <<catalog, maker>>
                           \/ /\ dPc' = [dPc EXCEPT ![d] = "installed"]
                              /\ found' = [found EXCEPT ![d] = {}]
                              /\ catalog' = next /\ maker' = d

LEMMA ContinueEffect ==
  ASSUME NEW d, NEW next, NEW rest, Continue(d, next, rest)
  PROVE  /\ cache' \subseteq cache
         /\ \/ /\ dPc' = [dPc EXCEPT ![d] = "unbinding"]
               /\ found' = [found EXCEPT ![d] = next]
               /\ UNCHANGED <<catalog, maker>>
            \/ /\ dPc' = [dPc EXCEPT ![d] = "installed"]
               /\ found' = [found EXCEPT ![d] = {}]
               /\ catalog' = next /\ maker' = d
  BY DEF Continue, Without

LEMMA DiscoveryEffect ==
  ASSUME Typed, Fresh, DiscoverySteps
  PROVE  Discovers
<1>1. CASE Discover
  <2>1. discoverySerial' = discoverySerial + 1 /\ discoverySerial' \in Discoveries
    BY <1>1 DEF Discover, Typed, Bounds, Discoveries
  <2>2. \E at \in {"ended", "listing"} : dPc' = [dPc EXCEPT ![discoverySerial'] = at]
    BY <1>1 DEF Discover
  <2> QED
    BY <1>1, <2>1, <2>2 DEF Discover, Discovers, runtimeVars, copyVars
<1>2. ASSUME NEW d \in Discoveries, Found(d)
      PROVE  Discovers
  <2>1. CASE ~IsCurrentDiscovery(d)
    BY <1>2, <2>1 DEF Found, Ends, Discovers, copyVars
  <2>2. CASE IsCurrentDiscovery(d)
    <3>1. PICK listed \in SUBSET Workflows : \E revision \in [listed -> Revisions] :
            LET next == {[workflow |-> w, revision |-> revision[w], target |-> owner[d]]
                          : w \in listed}
            IN Continue(d, next, SetToSeq(catalog \ next)) /\ UNCHANGED current
      BY <1>2, <2>2 DEF Found
    <3>2. PICK revision \in [listed -> Revisions] :
            LET next == {[workflow |-> w, revision |-> revision[w], target |-> owner[d]]
                          : w \in listed}
            IN Continue(d, next, SetToSeq(catalog \ next)) /\ UNCHANGED current
      BY <3>1
    <3> DEFINE next == {[workflow |-> w, revision |-> revision[w], target |-> owner[d]]
                         : w \in listed}
    <3>3. Continue(d, next, SetToSeq(catalog \ next)) /\ UNCHANGED current
      BY <3>2
    <3>4. next \in SUBSET Identities /\ \A r \in next : r.target = owner[d]
      BY DEF Typed, Identities
    <3>5. d = discoverySerial /\ target = owner[d]
      BY <2>2 DEF IsCurrentDiscovery
    <3> HIDE DEF next
    <3> QED
      BY <1>2, <3>3, <3>4, <3>5, ContinueEffect DEF Found, Discovers, copyVars
  <2> QED
    BY <2>1, <2>2
<1>3. ASSUME NEW d \in Discoveries, Unbound(d)
      PROVE  Discovers
  <2>1. CASE ~IsCurrentDiscovery(d)
    BY <1>3, <2>1 DEF Unbound, Ends, Discovers, copyVars
  <2>2. CASE IsCurrentDiscovery(d)
    <3>1. d = discoverySerial /\ target = owner[d]
      BY <2>2 DEF IsCurrentDiscovery
    <3>2. Continue(d, found[d], Tail(changed[d])) /\ current' \subseteq current
      BY <1>3, <2>2 DEF Unbound, Without
    <3>3. found[d] \in SUBSET Identities /\ \A r \in found[d] : r.target = target
      BY <3>1 DEF Typed, Fresh
    <3> QED
      BY <1>3, <3>1, <3>2, <3>3, ContinueEffect DEF Unbound, Discovers, copyVars
  <2> QED
    BY <2>1, <2>2
<1>4. ASSUME NEW d \in Discoveries, DiscoveryFails(d)
      PROVE  Discovers
  BY <1>4 DEF DiscoveryFails, Ends, Discovers, copyVars
<1> QED
  BY <1>1, <1>2, <1>3, <1>4 DEF DiscoverySteps

\* What a selection on its way may do: one disjunct for each place it goes to.
Advances(s) ==
  /\ UNCHANGED <<target, requestSerial, catalog, selectionSerial, wanted, serial, discoveryVars>>
  /\ misled \subseteq misled' /\ misled' \subseteq misled \cup {s}
  /\ \/ /\ UNCHANGED <<cache, current, selected>>
        /\ \/ /\ sPc[s] = "loading" /\ sPc' = [sPc EXCEPT ![s] = "failed"] /\ tail' = tail
           \/ /\ sPc[s] = "loading" /\ ~Stale(s)
              /\ sPc' = [sPc EXCEPT ![s] = "queued"] /\ tail' = Append(tail, s)
           \/ /\ sPc[s] = "queued" /\ Head(tail) = s
              /\ sPc' = [sPc EXCEPT ![s] = "reading"] /\ tail' = tail
           \/ /\ sPc[s] \in {"queued", "reading"} /\ Head(tail) = s
              /\ sPc' = [sPc EXCEPT ![s] = "writing"] /\ tail' = tail
           \/ /\ sPc[s] \in InLane /\ Head(tail) = s
              /\ sPc' = [sPc EXCEPT ![s] = "failed"] /\ tail' = Tail(tail)
     \/ /\ sPc[s] = "writing" /\ sPc' = [sPc EXCEPT ![s] = "written"]
        /\ selected' = SelectedBy(s) /\ UNCHANGED <<cache, current, tail>>
     \/ /\ sPc[s] \in {"queued", "reading", "written"} /\ Head(tail) = s /\ ~Stale(s)
        /\ sPc' = [sPc EXCEPT ![s] = "selected"] /\ tail' = Tail(tail)
        /\ selected' = selected /\ (s \in misled' \/ selected = SelectedBy(s))
        /\ cache' \subseteq cache \cup wanted[s] /\ current' = wanted[s]

\* A selection that is compared with a copy is written, or it is the one in the file, unless
\* there is no copy or a late one.
LEMMA ComparesEffect ==
  ASSUME NEW s \in Selections, sPc[s] \in {"queued", "reading"}, Head(tail) = s, ~Stale(s),
         NEW copy, origin' = "late" \/ copy \in Readable, Compares(s, copy),
         UNCHANGED <<target, requestSerial, catalog, selectionSerial, selected, wanted, serial,
                     discoveryVars>>
  PROVE  Advances(s)
<1>1. CASE copy \in {{}, {SelectedBy(s)}}
  <2>1. /\ Answered(s)
        /\ misled' = IF copy = {} \/ origin' = "late" THEN misled \cup {s} ELSE misled
    BY <1>1 DEF Compares
  <2>2. s \in misled' \/ selected = SelectedBy(s)
    BY <1>1, <2>1 DEF Readable
  <2>3. /\ sPc' = [sPc EXCEPT ![s] = "selected"] /\ tail' = Tail(tail)
        /\ cache' \subseteq cache \cup wanted[s] /\ current' = wanted[s]
    BY <2>1 DEF Answered, Done, LaneMovesOn
  <2>4. misled \subseteq misled' /\ misled' \subseteq misled \cup {s}
    BY <2>1
  <2> QED
    BY <2>2, <2>3, <2>4 DEF Advances
<1>2. CASE copy \notin {{}, {SelectedBy(s)}}
  BY <1>2 DEF Compares, Done, Advances
<1> QED
  BY <1>1, <1>2

LEMMA SelectionEffect ==
  ASSUME Typed, Lane, Durable, Copied, NEW s \in Selections,
         \/ Loaded(s) \/ LoadFails(s) \/ LaneEnters(s) \/ PriorLoaded(s)
         \/ WriteCommits(s) \/ WriteEnds(s) \/ WriteFails(s)
  PROVE  Advances(s)
<1>1. CASE Loaded(s)
  BY <1>1 DEF Loaded, Done, Enqueue, Advances, runtimeVars, copyVars
<1>2. CASE LoadFails(s)
  BY <1>2 DEF LoadFails, Done, Advances, copyVars
<1>3. CASE LaneEnters(s)
  <2>1. /\ sPc[s] = "queued" /\ Head(tail) = s
        /\ UNCHANGED <<target, requestSerial, catalog, selectionSerial, selected, wanted, serial,
                       discoveryVars, durable, origin>>
        /\ IF Stale(s) THEN Answered(s) /\ UNCHANGED misled
           ELSE IF durable # {} THEN Compares(s, durable)
           ELSE Done(s, "reading") /\ UNCHANGED <<cache, current, loadState, tail, misled>>
    BY <1>3 DEF LaneEnters, Enter
  <2>2. CASE Stale(s)
    BY <2>1, <2>2 DEF Answered, Done, LaneMovesOn, Advances, InLane
  <2>3. CASE ~Stale(s) /\ durable # {}
    <3>1. \A t \in Selections : sPc[t] # "written"
      BY <2>1 DEF Lane
    <3>2. origin' = "late" \/ durable \in Readable
      BY <2>1, <3>1 DEF Typed, Copied
    <3> QED
      BY <2>1, <2>3, <3>2, ComparesEffect
  <2>4. CASE ~Stale(s) /\ durable = {}
    BY <2>1, <2>4 DEF Done, Advances
  <2> QED
    BY <2>2, <2>3, <2>4
<1>4. CASE PriorLoaded(s)
  <2>1. PICK copy \in Readable :
          /\ origin' = "seen"
          /\ IF Stale(s) THEN Answered(s) /\ UNCHANGED misled ELSE Compares(s, copy)
    BY <1>4 DEF PriorLoaded
  <2>2. /\ sPc[s] = "reading" /\ Head(tail) = s
        /\ UNCHANGED <<target, requestSerial, catalog, selectionSerial, selected, wanted, serial,
                       discoveryVars>>
    BY <1>4 DEF PriorLoaded, Lane
  <2>3. CASE Stale(s)
    BY <2>1, <2>2, <2>3 DEF Answered, Done, LaneMovesOn, Advances, InLane
  <2>4. CASE ~Stale(s)
    BY <2>1, <2>2, <2>4, ComparesEffect
  <2> QED
    BY <2>3, <2>4
<1>5. CASE WriteCommits(s)
  BY <1>5 DEF WriteCommits, Done, Advances, runtimeVars
<1>6. CASE WriteEnds(s)
  <2>1. sPc[s] = "written" /\ Head(tail) = s /\ selected = SelectedBy(s)
    BY <1>6 DEF WriteEnds, Lane, Durable
  <2>2. CASE Stale(s)
    BY <1>6, <2>1, <2>2 DEF WriteEnds, Answered, Done, LaneMovesOn, Advances, InLane
  <2>3. CASE ~Stale(s)
    BY <1>6, <2>1, <2>3 DEF WriteEnds, Answered, Done, LaneMovesOn, Advances
  <2> QED
    BY <2>2, <2>3
<1>7. CASE WriteFails(s)
  <2>1. Head(tail) = s
    BY <1>7 DEF WriteFails, Lane
  <2> QED
    BY <1>7, <2>1 DEF WriteFails, Done, LaneMovesOn, Advances, InLane, copyVars
<1> QED
  BY <1>1, <1>2, <1>3, <1>4, <1>5, <1>6, <1>7

\* A promotion empties the runtime and makes every request stale.
Promotes ==
  /\ target' = target + 1 /\ target' \in 0 .. MaxPromotions
  /\ requestSerial' = requestSerial + 1
  /\ catalog' = {} /\ cache' = {} /\ current' = {}
  /\ UNCHANGED <<selectionVars, discoverySerial, owner, found, changed, dPc, misled>>

Rests ==
  /\ UNCHANGED <<target, requestSerial, catalog, cache, current, maker, misled>>
  /\ UNCHANGED <<selectionVars, discoverySerial, owner, found, dPc>>

\* A step is one of these.
LEMMA Effects ==
  ASSUME IInv, [Next]_vars
  PROVE  \/ Promotes \/ Discovers \/ Unloads \/ Rests
         \/ \E s \in Selections : Selects(s) \/ Advances(s)
<1> USE DEF IInv
<1>1. CASE UNCHANGED vars
  BY <1>1 DEF vars, runtimeVars, discoveryVars, copyVars, Rests
<1>2. CASE Promote
  BY <1>2 DEF Promote, Promotes, Typed, Bounds
<1>3. CASE SelectWorkflow \/ Refresh
  BY <1>3, RequestSteps
<1>4. CASE DiscoverySteps
  BY <1>4, DiscoveryEffect
<1>5. CASE SelectionSteps
  BY <1>5, SelectionEffect DEF SelectionSteps
<1>6. CASE CopySteps
  BY <1>6 DEF CopySteps, BindingSaved, StateCalled, FileSeen, LoadAnswers, runtimeVars,
     discoveryVars, Rests
<1> QED
  BY <1>1, <1>2, <1>3, <1>4, <1>5, <1>6 DEF Next, DiscoverySteps, SelectionSteps, CopySteps

-----------------------------------------------------------------------------
(* The invariant. *)

LEMMA IInvInit ==
  ASSUME Bounds, Init
  PROVE  IInv
<1>1. Typed
  BY DEF Init, Typed, Bounds, InLane, Selections, Discoveries, Reads
<1>2. Serials /\ Makers /\ Fresh /\ Lane /\ Durable
  BY DEF Init, Bounds, Serials, Makers, Fresh, Lane, Durable, InLane, Selections, Discoveries
<1>3. Copied
  BY DEF Init, Copied, Readable
<1> QED
  BY <1>1, <1>2, <1>3 DEF IInv

\* The selection that is not stale is the latest one.
LEMMA LatestIsCurrent ==
  ASSUME Typed, Serials, NEW s \in Selections, sPc[s] # "none", ~Stale(s)
  PROVE  s = selectionSerial
<1>1. s <= selectionSerial /\ s \in Nat /\ selectionSerial \in Nat
  BY DEF Typed, Serials, Bounds, Selections
<1>2. CASE s < selectionSerial
  <2>1. selectionSerial \in Selections
    BY <1>1, <1>2 DEF Typed, Bounds, Selections
  <2> QED
    BY <1>1, <1>2, <2>1 DEF Typed, Serials, Stale
<1> QED
  BY <1>1, <1>2

\* The lane of a selection that is at its head is not empty.
LEMMA HeadOfLane ==
  ASSUME Typed, Lane, NEW s \in Selections, sPc[s] \in InLane
  PROVE  tail # <<>> /\ Head(tail) \in Selections
  BY DEF Typed, Lane

\* What a step may do to the copy and the loads: a value in them is one of the file.
LEMMA CopyTyped ==
  ASSUME IInv, [Next]_vars
  PROVE  /\ durable' \subseteq SUBSET Workflows /\ seen' \in [Reads -> SUBSET SUBSET Workflows]
         /\ selected' \subseteq Workflows
         /\ rPc' \in [Reads -> {"none", "called", "seen", "late"}]
         /\ origin' \in {"seen", "late"}
<1> USE DEF IInv, Typed
<1>1. CASE Promote
  <2>1. rPc' \in [Reads -> {"none", "called", "seen", "late"}]
    BY <1>1 DEF Promote, Calls
  <2> QED
    BY <1>1, <2>1 DEF Promote, selectionVars
<1>2. CASE CopySteps
  <2>1. selected' = selected
    BY <1>2 DEF CopySteps, BindingSaved, StateCalled, FileSeen, LoadAnswers, selectionVars
  <2>2. \A copy \in Readable : copy \in SUBSET SUBSET Workflows
    BY DEF Readable
  <2>3. CASE BindingSaved
    BY <2>1, <2>3 DEF BindingSaved, readVars
  <2>4. ASSUME NEW r \in Reads, StateCalled(r)
        PROVE  /\ UNCHANGED <<durable, seen, origin>>
               /\ rPc' \in [Reads -> {"none", "called", "seen", "late"}]
    BY <2>4 DEF StateCalled, Calls
  <2>5. ASSUME NEW r \in Reads, FileSeen(r)
        PROVE  /\ UNCHANGED <<durable, origin>> /\ seen' \in [Reads -> SUBSET SUBSET Workflows]
               /\ rPc' \in [Reads -> {"none", "called", "seen", "late"}]
    BY <2>2, <2>5 DEF FileSeen
  <2>6. ASSUME NEW r \in Reads, LoadAnswers(r)
        PROVE  /\ durable' \subseteq SUBSET Workflows /\ origin' \in {"seen", "late"}
               /\ seen' \in [Reads -> SUBSET SUBSET Workflows]
               /\ rPc' \in [Reads -> {"none", "called", "seen", "late"}]
    BY <2>6 DEF LoadAnswers
  <2> QED
    BY <1>2, <2>1, <2>3, <2>4, <2>5, <2>6 DEF CopySteps
<1>3. CASE DiscoverySteps
  BY <1>3 DEF DiscoverySteps, Discover, Found, Unbound, DiscoveryFails, selectionVars, copyVars,
     readVars
<1>4. CASE SelectWorkflow \/ Refresh
  BY <1>4 DEF SelectWorkflow, Refresh, Select, selectionVars, copyVars, readVars
<1>5. ASSUME NEW s \in Selections,
             \/ Loaded(s) \/ LoadFails(s) \/ LaneEnters(s) \/ WriteFails(s)
      PROVE  UNCHANGED <<selected, durable, seen, rPc, origin>>
  BY <1>5 DEF Loaded, LoadFails, LaneEnters, Enter, WriteFails, copyVars, readVars
<1>6. ASSUME NEW s \in Selections, PriorLoaded(s) \/ WriteEnds(s)
      PROVE  /\ UNCHANGED <<selected, seen, rPc>> /\ durable' \subseteq SUBSET Workflows
             /\ origin' = "seen"
  BY <1>6 DEF PriorLoaded, Readable, WriteEnds, readVars
<1>7. ASSUME NEW s \in Selections, WriteCommits(s)
      PROVE  /\ UNCHANGED <<durable, seen, origin>> /\ selected' \subseteq Workflows
             /\ rPc' \in [Reads -> {"none", "called", "seen", "late"}]
  <2>1. SelectedBy(s) \subseteq Workflows
    BY DEF SelectedBy, Identities
  <2> QED
    BY <1>7, <2>1 DEF WriteCommits
<1>8. CASE UNCHANGED vars
  BY <1>8 DEF vars, selectionVars, copyVars, readVars
<1> QED
  BY <1>1, <1>2, <1>3, <1>4, <1>5, <1>6, <1>7, <1>8 DEF Next, CopySteps, DiscoverySteps

LEMMA TypedNext ==
  ASSUME IInv, [Next]_vars
  PROVE  Typed'
<1> USE DEF IInv
<1>0. /\ durable' \subseteq SUBSET Workflows /\ seen' \in [Reads -> SUBSET SUBSET Workflows]
      /\ selected' \subseteq Workflows
      /\ rPc' \in [Reads -> {"none", "called", "seen", "late"}]
      /\ origin' \in {"seen", "late"}
  BY CopyTyped
<1> USE <1>0
<1>1. CASE Promotes
  BY <1>1 DEF Typed, Promotes, selectionVars, Bounds
<1>2. CASE Discovers
  <2>1. discoverySerial' \in 0 .. MaxDiscoveries
    BY <1>2 DEF Typed, Discovers, Bounds, Discoveries
  <2>2. owner' \in [Discoveries -> 0 .. MaxPromotions]
    BY <1>2 DEF Typed, Discovers
  <2>3. /\ found' \in [Discoveries -> SUBSET Identities] /\ catalog' \subseteq Identities
        /\ dPc' \in [Discoveries -> {"none", "listing", "unbinding", "installed", "ended"}]
    BY <1>2, ZenonT(30) DEF Typed, Discovers
  <2> QED
    BY <1>2, <2>1, <2>2, <2>3 DEF Typed, Discovers, selectionVars, Bounds
<1>3. CASE Unloads \/ Rests
  BY <1>3 DEF Typed, Unloads, Rests, selectionVars, discoveryVars, Bounds
<1>4. ASSUME NEW s \in Selections, Selects(s)
      PROVE  Typed'
  <2>1. selectionSerial' \in 0 .. MaxSelections /\ requestSerial' \in Nat
    BY <1>4 DEF Typed, Selects, Bounds, Selections
  <2>2. wanted' \in [Selections -> SUBSET Identities] /\ serial' \in [Selections -> Nat]
    BY <1>4, <2>1 DEF Typed, Selects
  <2>3. sPc' \in [Selections -> {"none", "loading", "selected", "failed"} \cup InLane]
    BY <1>4 DEF Typed, Selects, InLane
  <2>4. tail' \in Seq(Selections)
    <3>1. tail \in Seq(Selections)
      BY DEF Typed
    <3>2. tail' = tail \/ tail' = Append(tail, s)
      BY <1>4 DEF Selects
    <3> QED
      BY <3>1, <3>2
  <2> QED
    BY <1>4, <2>1, <2>2, <2>3, <2>4 DEF Typed, Selects, discoveryVars, Bounds
<1>5. ASSUME NEW s \in Selections, Advances(s)
      PROVE  Typed'
  <2>1. sPc' \in [Selections -> {"none", "loading", "selected", "failed"} \cup InLane]
    BY <1>5 DEF Typed, Advances, InLane
  <2>2. tail' \in Seq(Selections)
    <3>1. tail \in Seq(Selections)
      BY DEF Typed
    <3>2. \/ tail' = tail \/ tail' = Append(tail, s)
          \/ tail # <<>> /\ tail' = Tail(tail)
      BY <1>5, HeadOfLane DEF Advances, InLane
    <3> QED
      BY <3>1, <3>2
  <2>3. cache' \subseteq Identities /\ current' \subseteq Identities
    BY <1>5 DEF Typed, Advances
  <2> QED
    BY <1>5, <2>1, <2>2, <2>3 DEF Typed, Advances, discoveryVars, Bounds
<1> QED
  BY <1>1, <1>2, <1>3, <1>4, <1>5, Effects

LEMMA SerialsNext ==
  ASSUME IInv, [Next]_vars
  PROVE  Serials'
<1> USE DEF IInv
<1>1. CASE Promotes \/ Unloads \/ Discovers \/ Rests
  BY <1>1 DEF Typed, Serials, Promotes, Unloads, Discovers, Rests, selectionVars
<1>2. ASSUME NEW s \in Selections, Selects(s)
      PROVE  Serials'
  <2>1. \A t \in Selections : t \in Nat /\ (t < s <=> t <= selectionSerial)
    BY <1>2 DEF Typed, Selects, Bounds, Selections
  <2>2. \A t \in Selections : sPc'[t] # "none" <=> t = s \/ sPc[t] # "none"
    BY <1>2 DEF Typed, Selects
  <2>3. \A t \in Selections : serial'[t] = IF t = s THEN requestSerial' ELSE serial[t]
    BY <1>2 DEF Typed, Selects
  <2>4. \A t \in Selections : t < s => serial[t] < requestSerial'
    BY <1>2, <2>1 DEF Typed, Serials, Selects
  <2> QED
    BY <1>2, <2>1, <2>2, <2>3, <2>4, SMTT(30) DEF Typed, Serials, Selects
<1>3. ASSUME NEW s \in Selections, Advances(s)
      PROVE  Serials'
  <2>1. \A t \in Selections : sPc'[t] # "none" <=> sPc[t] # "none"
    BY <1>3 DEF Typed, Advances, InLane
  <2> QED
    BY <1>3, <2>1 DEF Serials, Advances
<1> QED
  BY <1>1, <1>2, <1>3, Effects

LEMMA MakersNext ==
  ASSUME IInv, [Next]_vars
  PROVE  Makers'
<1> USE DEF IInv
<1>1. CASE Promotes
  BY <1>1 DEF Typed, Makers, Promotes
<1>2. CASE Discovers
  <2>1. \A d \in Discoveries : d \in Nat
    BY DEF Typed, Bounds, Discoveries
  <2>2. CASE UNCHANGED <<discoverySerial, owner>>
    <3>1. PICK d \in Discoveries :
            /\ dPc[d] \in {"listing", "unbinding"}
            /\ UNCHANGED <<target, discoverySerial, owner>>
            /\ \/ dPc' = [dPc EXCEPT ![d] = "ended"] /\ UNCHANGED maker
               \/ dPc' = [dPc EXCEPT ![d] = "unbinding"] /\ UNCHANGED maker
               \/ /\ d = discoverySerial
                  /\ dPc' = [dPc EXCEPT ![d] = "installed"] /\ maker' = d
      BY <1>2, <2>1, <2>2 DEF Typed, Discovers
    <3>2. \A e \in Discoveries : e # d => dPc'[e] = dPc[e]
      BY <3>1 DEF Typed
    <3>3. dPc'[d] # "none" /\ (dPc'[d] = "installed" => d = discoverySerial /\ maker' = d)
      BY <3>1 DEF Typed
    <3>4. UNCHANGED maker \/ maker' = discoverySerial
      BY <3>1
    <3> QED
      BY <2>1, <3>1, <3>2, <3>3, <3>4 DEF Typed, Makers
  <2>3. CASE ~UNCHANGED <<discoverySerial, owner>>
    <3>1. /\ discoverySerial' = discoverySerial + 1 /\ discoverySerial' \in Discoveries
          /\ owner' = [owner EXCEPT ![discoverySerial'] = target]
          /\ UNCHANGED <<target, maker>>
      BY <1>2, <2>3 DEF Discovers
    <3>2. PICK at \in {"ended", "listing"} : dPc' = [dPc EXCEPT ![discoverySerial'] = at]
      BY <1>2, <2>3 DEF Discovers
    <3>3. \A d \in Discoveries :
            IF d = discoverySerial' THEN dPc'[d] = at /\ owner'[d] = target
                                    ELSE dPc'[d] = dPc[d] /\ owner'[d] = owner[d]
      BY <3>1, <3>2 DEF Typed
    <3> QED
      BY <2>1, <3>1, <3>3 DEF Typed, Makers
  <2> QED
    BY <2>2, <2>3
<1>3. CASE Unloads \/ Rests \/ \E s \in Selections : Selects(s) \/ Advances(s)
  BY <1>3 DEF Makers, Unloads, Rests, Selects, Advances, discoveryVars
<1> QED
  BY <1>1, <1>2, <1>3, Effects

LEMMA FreshNext ==
  ASSUME IInv, [Next]_vars
  PROVE  Fresh'
<1> USE DEF IInv
<1>1. CASE Promotes
  <2>1. \A s \in Selections : sPc'[s] # "none" => serial'[s] # requestSerial'
    BY <1>1 DEF Typed, Serials, Promotes, selectionVars
  <2> QED
    BY <1>1, <2>1 DEF Typed, Fresh, Stale, Promotes, selectionVars, InLane
<1>2. CASE Discovers
  <2>1. \A r \in catalog' \cup cache' \cup current' : r.target = target'
    BY <1>2 DEF Fresh, Discovers
  <2>2. \A s \in Selections : sPc'[s] \in {"loading"} \cup InLane /\ ~Stale(s)' =>
          \A v \in wanted'[s] : v.target = target'
    BY <1>2 DEF Fresh, Stale, Discovers, selectionVars
  <2>3. \A d \in Discoveries :
          /\ dPc'[d] = "none" => found'[d] = {}
          /\ \A r \in found'[d] : r.target = owner'[d]
    <3>1. CASE UNCHANGED <<discoverySerial, owner>>
      <4>1. discoverySerial + 1 # discoverySerial
        BY DEF Typed
      <4>2. PICK d \in Discoveries :
              /\ dPc[d] # "none"
              /\ \E at \in {"ended", "unbinding", "installed"} : dPc' = [dPc EXCEPT ![d] = at]
              /\ \/ found' = [found EXCEPT ![d] = {}]
                 \/ /\ target = owner[d]
                    /\ \E next \in SUBSET Identities :
                         /\ \A r \in next : r.target = target
                         /\ found' = [found EXCEPT ![d] = next]
        BY <1>2, <3>1, <4>1 DEF Discovers
      <4> QED
        BY <3>1, <4>2 DEF Typed, Fresh
    <3>2. CASE ~UNCHANGED <<discoverySerial, owner>>
      <4>1. PICK d \in Discoveries :
              /\ d = discoverySerial + 1 /\ found' = found
              /\ owner' = [owner EXCEPT ![d] = target]
              /\ \E at \in {"ended", "listing"} : dPc' = [dPc EXCEPT ![d] = at]
        BY <1>2, <3>2 DEF Discovers
      <4>2. dPc[d] = "none"
        BY <4>1 DEF Typed, Makers
      <4> QED
        BY <4>1, <4>2 DEF Typed, Fresh
    <3> QED
      BY <3>1, <3>2
  <2> QED
    BY <2>1, <2>2, <2>3 DEF Fresh
<1>3. CASE Unloads
  <2>1. \A s \in Selections : sPc'[s] # "none" => serial'[s] # requestSerial'
    BY <1>3 DEF Typed, Serials, Unloads, selectionVars
  <2> QED
    BY <1>3, <2>1 DEF Typed, Fresh, Stale, Unloads, selectionVars, discoveryVars, InLane
<1>4. CASE Rests
  BY <1>4 DEF Fresh, Stale, Rests, selectionVars
<1>5. ASSUME NEW s \in Selections, Selects(s)
      PROVE  Fresh'
  <2>1. PICK ids \in SUBSET Identities :
          /\ \A v \in ids : v.target = target \/ v \in cache
          /\ wanted' = [wanted EXCEPT ![s] = ids]
    BY <1>5 DEF Selects
  <2>2. \A v \in wanted'[s] : v.target = target'
    BY <1>5, <2>1 DEF Typed, Fresh, Selects
  <2>3. \A t \in Selections : t # s /\ sPc'[t] # "none" => Stale(t)'
    BY <1>5 DEF Typed, Serials, Stale, Selects
  <2> QED
    BY <1>5, <2>2, <2>3 DEF Fresh, Selects, discoveryVars, InLane
<1>6. ASSUME NEW s \in Selections, Advances(s)
      PROVE  Fresh'
  <2>1. \A t \in Selections : sPc'[t] \in {"loading"} \cup InLane =>
          sPc[t] \in {"loading"} \cup InLane
    BY <1>6 DEF Typed, Advances, InLane
  <2>2. \A r \in cache' \cup current' : r.target = target
    BY <1>6 DEF Fresh, Advances, InLane
  <2> QED
    BY <1>6, <2>1, <2>2 DEF Fresh, Stale, Advances, discoveryVars
<1> QED
  BY <1>1, <1>2, <1>3, <1>4, <1>5, <1>6, Effects

\* A selection that takes its turn in the lane is the latest one, behind all others.
LEMMA EntersLane ==
  ASSUME Typed, Lane, NEW s \in Selections, sPc[s] \notin InLane,
         \A t \in Selections : sPc[t] \in InLane => t < s,
         sPc' = [sPc EXCEPT ![s] = "queued"], tail' = Append(tail, s)
  PROVE  Lane'
<1>1. tail \in Seq(Selections)
  BY DEF Typed
<1>2. /\ Len(tail') = Len(tail) + 1 /\ tail'[Len(tail) + 1] = s
      /\ \A i \in 1 .. Len(tail) : tail'[i] = tail[i] /\ tail[i] \in Selections
  BY <1>1
<1>3. \A i \in 1 .. Len(tail) : tail[i] < s
  BY <1>2 DEF Lane
<1>4. \A i, j \in 1 .. Len(tail') : i < j => tail'[i] < tail'[j]
  BY <1>1, <1>2, <1>3 DEF Lane
<1>5. \A t \in Selections : sPc'[t] = IF t = s THEN "queued" ELSE sPc[t]
  BY DEF Typed
<1>6. \A t \in Selections : sPc'[t] \in InLane <=> \E i \in 1 .. Len(tail') : tail'[i] = t
  <2> SUFFICES ASSUME NEW t \in Selections
               PROVE  sPc'[t] \in InLane <=> \E i \in 1 .. Len(tail') : tail'[i] = t
    OBVIOUS
  <2>1. CASE t = s
    BY <1>1, <1>2, <1>5, <2>1 DEF InLane
  <2>2. CASE t # s
    BY <1>1, <1>2, <1>5, <2>2 DEF Lane
  <2> QED
    BY <2>1, <2>2
<1>7. \A t \in Selections : sPc'[t] \in {"reading", "writing", "written"} => Head(tail') = t
  BY <1>1, <1>5, HeadOfLane DEF Lane, InLane
<1> QED
  BY <1>4, <1>6, <1>7 DEF Lane

\* A selection that leaves the lane was the first one in it, and it did the writing.
LEMMA LeavesLane ==
  ASSUME Typed, Lane, NEW s \in Selections, sPc[s] \in InLane, Head(tail) = s,
         NEW to \in {"failed", "selected"},
         sPc' = [sPc EXCEPT ![s] = to], tail' = Tail(tail)
  PROVE  Lane'
<1>1. tail \in Seq(Selections) /\ tail # <<>>
  BY HeadOfLane DEF Typed
<1>2. /\ Len(tail') = Len(tail) - 1 /\ tail[1] = s
      /\ \A i \in 1 .. Len(tail') : tail'[i] = tail[i + 1]
  BY <1>1
<1>3. \A i, j \in 1 .. Len(tail') : i < j => tail'[i] < tail'[j]
  BY <1>1, <1>2 DEF Lane
<1>4. \A t \in Selections : sPc'[t] = IF t = s THEN to ELSE sPc[t]
  BY DEF Typed
<1>5. \A i \in 1 .. Len(tail') : tail'[i] # s
  <2> SUFFICES ASSUME NEW i \in 1 .. Len(tail')
               PROVE  tail'[i] # s
    OBVIOUS
  <2>1. 1 \in 1 .. Len(tail) /\ i + 1 \in 1 .. Len(tail) /\ 1 < i + 1
    BY <1>1, <1>2
  <2>2. tail[1] < tail[i + 1]
    BY <2>1 DEF Lane
  <2> QED
    BY <1>1, <1>2, <2>1, <2>2 DEF Typed, Bounds, Selections
<1>6. \A t \in Selections : sPc'[t] \in InLane <=> \E i \in 1 .. Len(tail') : tail'[i] = t
  <2> SUFFICES ASSUME NEW t \in Selections
               PROVE  sPc'[t] \in InLane <=> \E i \in 1 .. Len(tail') : tail'[i] = t
    OBVIOUS
  <2>1. CASE t = s
    BY <1>4, <1>5, <2>1 DEF InLane
  <2>2. CASE t # s
    <3>1. (\E i \in 1 .. Len(tail) : tail[i] = t) <=> \E i \in 1 .. Len(tail') : tail'[i] = t
      <4>1. ASSUME NEW i \in 1 .. Len(tail), tail[i] = t
            PROVE  i - 1 \in 1 .. Len(tail') /\ tail'[i - 1] = t
        BY <1>1, <1>2, <2>2, <4>1
      <4>2. ASSUME NEW i \in 1 .. Len(tail'), tail'[i] = t
            PROVE  i + 1 \in 1 .. Len(tail) /\ tail[i + 1] = t
        BY <1>1, <1>2, <4>2
      <4> QED
        BY <4>1, <4>2
    <3> QED
      BY <1>4, <2>2, <3>1 DEF Lane
  <2> QED
    BY <2>1, <2>2
<1>7. \A t \in Selections : sPc'[t] \in {"reading", "writing", "written"} => Head(tail') = t
  BY <1>4 DEF Lane
<1> QED
  BY <1>3, <1>6, <1>7 DEF Lane

LEMMA LaneNext ==
  ASSUME IInv, [Next]_vars
  PROVE  Lane'
<1> USE DEF IInv
<1>1. CASE Promotes \/ Discovers \/ Unloads \/ Rests
  BY <1>1 DEF Lane, Promotes, Discovers, Unloads, Rests, selectionVars
<1>2. ASSUME NEW s \in Selections, Selects(s)
      PROVE  Lane'
  <2>1. sPc[s] = "none" /\ \A t \in Selections : sPc[t] \in InLane => t < s
    BY <1>2 DEF Typed, Serials, Selects, InLane, Bounds, Selections
  <2>2. CASE sPc' = [sPc EXCEPT ![s] = "queued"] /\ tail' = Append(tail, s)
    BY <2>1, <2>2, EntersLane DEF InLane
  <2>3. CASE sPc' = [sPc EXCEPT ![s] = "loading"] /\ tail' = tail
    <3>1. \A t \in Selections : sPc'[t] = IF t = s THEN "loading" ELSE sPc[t]
      BY <2>3 DEF Typed
    <3> QED
      BY <2>1, <2>3, <3>1 DEF Lane, InLane
  <2> QED
    BY <1>2, <2>2, <2>3 DEF Selects
<1>3. ASSUME NEW s \in Selections, Advances(s)
      PROVE  Lane'
  <2>1. CASE /\ tail' = tail
             /\ \E to \in {"failed", "reading", "writing", "written"} :
                  /\ sPc' = [sPc EXCEPT ![s] = to]
                  /\ \/ sPc[s] = "loading" /\ to = "failed"
                     \/ /\ sPc[s] \in {"queued", "reading"} /\ to \in {"reading", "writing"}
                        /\ Head(tail) = s
                     \/ sPc[s] = "writing" /\ to = "written"
    <3>1. \A t \in Selections :
            IF t = s THEN \/ sPc[t] \notin InLane /\ sPc'[t] \notin InLane
                          \/ /\ sPc[t] \in InLane /\ sPc'[t] \in InLane
                             /\ Head(tail) = t
                     ELSE sPc'[t] = sPc[t]
      BY <2>1 DEF Typed, Lane, InLane
    <3> QED
      BY <2>1, <3>1 DEF Lane, InLane
  <2>2. CASE sPc[s] = "loading" /\ ~Stale(s) /\ sPc' = [sPc EXCEPT ![s] = "queued"]
             /\ tail' = Append(tail, s)
    <3>1. s = selectionSerial
      BY <2>2, LatestIsCurrent
    <3>2. \A t \in Selections : sPc[t] \in InLane => t < s
      <4> SUFFICES ASSUME NEW t \in Selections, sPc[t] \in InLane
                   PROVE  t < s
        OBVIOUS
      <4>1. t <= s /\ t # s
        BY <2>2, <3>1 DEF Serials, InLane
      <4> QED
        BY <4>1 DEF Typed, Bounds, Selections
    <3> QED
      BY <2>2, <3>2, EntersLane DEF InLane
  <2>3. CASE /\ sPc[s] \in InLane /\ Head(tail) = s /\ tail' = Tail(tail)
             /\ \E to \in {"failed", "selected"} : sPc' = [sPc EXCEPT ![s] = to]
    BY <2>3, LeavesLane
  <2> QED
    BY <1>3, <2>1, <2>2, <2>3 DEF Advances, InLane
<1> QED
  BY <1>1, <1>2, <1>3, Effects

\* When the latest selection leaves the lane, no other one is in it.
LEMMA LatestLeavesLast ==
  ASSUME IInv, NEW s \in Selections, sPc[s] \in InLane, Head(tail) = s, ~Stale(s)
  PROVE  Tail(tail) = <<>>
<1> USE DEF IInv
<1>1. tail \in Seq(Selections) /\ tail # <<>> /\ tail[1] = s
  BY HeadOfLane DEF Typed
<1>2. s = selectionSerial
  BY LatestIsCurrent DEF InLane
<1>3. Len(tail) = 1
  <2>1. SUFFICES ASSUME Len(tail) # 1
                 PROVE  FALSE
    OBVIOUS
  <2>2. Len(tail) \in Nat /\ Len(tail) # 0
    BY <1>1
  <2>3. 1 \in 1 .. Len(tail) /\ 2 \in 1 .. Len(tail)
    <3>1. \A n \in Nat : n # 0 /\ n # 1 => 1 \in 1 .. n /\ 2 \in 1 .. n
      OBVIOUS
    <3> QED
      BY <2>1, <2>2, <3>1
  <2>4. tail[2] \in Selections
    BY <1>1, <2>3
  <2>5. s < tail[2] /\ sPc[tail[2]] \in InLane
    BY <1>1, <2>3, <2>4 DEF Lane
  <2>6. tail[2] <= selectionSerial
    BY <2>4, <2>5 DEF Serials, InLane
  <2> QED
    BY <1>2, <2>4, <2>5, <2>6 DEF Typed, Bounds, Selections
<1>4. Tail(tail) \in Seq(Selections) /\ Len(Tail(tail)) = 0
  BY <1>1, <1>3
<1> QED
  BY <1>4, EmptySeq

LEMMA DurableNext ==
  ASSUME IInv, [Next]_vars
  PROVE  Durable'
<1> USE DEF IInv
<1>1. CASE Promotes \/ Unloads
  <2>1. \A s \in Selections : sPc'[s] # "none" => serial'[s] # requestSerial'
    BY <1>1 DEF Typed, Serials, Promotes, Unloads, selectionVars
  <2> QED
    BY <1>1, <2>1 DEF Durable, Stale, SelectedBy, Promotes, Unloads, selectionVars
<1>2. CASE Discovers \/ Rests
  BY <1>2 DEF Durable, Stale, SelectedBy, Discovers, Rests, selectionVars
<1>3. ASSUME NEW s \in Selections, Selects(s)
      PROVE  Durable'
  <2>1. \A t \in Selections : t # s /\ sPc'[t] # "none" => Stale(t)'
    BY <1>3 DEF Typed, Serials, Stale, Selects
  <2>2. \A t \in Selections : t # s => sPc'[t] = sPc[t] /\ wanted'[t] = wanted[t]
    BY <1>3 DEF Typed, Selects
  <2>3. sPc'[s] \in {"queued", "loading"} /\ UNCHANGED <<selected, misled>>
    BY <1>3 DEF Typed, Selects
  <2> QED
    BY <2>1, <2>2, <2>3 DEF Durable, SelectedBy
<1>4. ASSUME NEW s \in Selections, Advances(s)
      PROVE  Durable'
  <2>1. UNCHANGED <<requestSerial, wanted, serial>> /\ misled \subseteq misled'
    BY <1>4 DEF Advances
  <2>2. \A t \in Selections : t # s => sPc'[t] = sPc[t]
    BY <1>4 DEF Typed, Advances
  <2>3. CASE sPc[s] = "writing"
    <3>1. \A t \in Selections : ~(sPc[t] = "selected" /\ ~Stale(t))
      BY <2>3, HeadOfLane DEF Durable, InLane
    <3>2. \A t \in Selections : sPc[t] # "written"
      BY <2>3 DEF Lane
    <3>3. sPc'[s] = "failed" \/ (sPc'[s] = "written" /\ selected' = SelectedBy(s))
      BY <1>4, <2>3 DEF Typed, Advances
    <3> QED
      BY <2>1, <2>2, <3>1, <3>2, <3>3 DEF Durable, Stale, SelectedBy
  <2>4. CASE sPc[s] # "writing"
    <3>1. selected' = selected /\ sPc'[s] # "written"
      BY <1>4, <2>4 DEF Typed, Advances
    <3>2. CASE sPc'[s] = "selected"
      <4>1. /\ sPc[s] \in InLane /\ Head(tail) = s /\ ~Stale(s) /\ tail' = Tail(tail)
            /\ s \in misled' \/ selected = SelectedBy(s)
        BY <1>4, <2>4, <3>2 DEF Typed, Advances, InLane
      <4>2. tail' = <<>>
        BY <4>1, LatestLeavesLast
      <4> QED
        BY <2>1, <2>2, <3>1, <4>1, <4>2 DEF Durable, Stale, SelectedBy
    <3>3. CASE sPc'[s] # "selected"
      <4>1. ASSUME NEW t \in Selections, sPc[t] = "selected", ~Stale(t)
            PROVE  tail' = tail
        <5>1. t = selectionSerial /\ tail = <<>>
          BY <4>1, LatestIsCurrent DEF Durable
        <5>2. sPc[s] \notin InLane
          BY <5>1, HeadOfLane
        <5>3. CASE tail' = tail
          BY <5>3
        <5>4. CASE sPc[s] = "loading" /\ ~Stale(s)
          <6>1. s = selectionSerial
            BY <5>4, LatestIsCurrent
          <6> QED
            BY <4>1, <5>1, <5>4, <6>1
        <5> QED
          BY <1>4, <5>2, <5>3, <5>4 DEF Advances, InLane
      <4>2. \A t \in Selections : sPc'[t] = "selected" => sPc[t] = "selected"
        BY <2>2, <3>3
      <4> QED
        BY <2>1, <2>2, <3>1, <4>1, <4>2 DEF Durable, Stale, SelectedBy
    <3> QED
      BY <3>2, <3>3
  <2> QED
    BY <2>3, <2>4
<1> QED
  BY <1>1, <1>2, <1>3, <1>4, Effects

\* A step that leaves the file alone, and no write waiting for its end, leaves a copy that
\* brings the selection of the file.
LEMMA FileKept ==
  ASSUME IInv, selected' = selected,
         \A s \in Selections : sPc[s] = "written" => sPc'[s] = "written",
         UNCHANGED <<durable, origin, seen, rPc>>
  PROVE  Copied'
BY DEF IInv, Copied, Readable

LEMMA CopiedNext ==
  ASSUME IInv, [Next]_vars
  PROVE  Copied'
<1> USE DEF IInv
<1>1. CASE Promote
  <2>1. \A r \in Reads : rPc'[r] = "seen" => rPc[r] = "seen"
    BY <1>1 DEF Typed, Promote, Calls
  <2> QED
    BY <1>1, <2>1 DEF Copied, Readable, Promote, selectionVars
<1>2. CASE CopySteps
  <2>1. CASE BindingSaved
    BY <2>1 DEF Copied, Readable, BindingSaved, selectionVars, readVars
  <2>2. ASSUME NEW r \in Reads, StateCalled(r)
        PROVE  Copied'
    <3>1. \A q \in Reads : rPc'[q] = "seen" => rPc[q] = "seen"
      BY <2>2 DEF Typed, StateCalled, Calls
    <3> QED
      BY <2>2, <3>1 DEF Copied, Readable, StateCalled, selectionVars
  <2>3. ASSUME NEW r \in Reads, FileSeen(r)
        PROVE  Copied'
    <3>1. PICK copy \in Readable : seen' = [seen EXCEPT ![r] = copy]
      BY <2>3 DEF FileSeen
    <3>2. \A q \in Reads :
            IF q = r THEN seen'[q] = copy
                     ELSE seen'[q] = seen[q] /\ rPc'[q] = rPc[q]
      BY <2>3, <3>1 DEF Typed, FileSeen
    <3> QED
      BY <2>3, <3>1, <3>2 DEF Copied, Readable, FileSeen, selectionVars
  <2>4. ASSUME NEW r \in Reads, LoadAnswers(r)
        PROVE  Copied'
    <3>1. \A q \in Reads :
            rPc'[q] = "seen" => rPc[q] = "seen" /\ seen'[q] = seen[q]
      BY <2>4 DEF Typed, LoadAnswers
    <3>2. origin' = "seen" => durable' \in Readable
      BY <2>4 DEF Copied, LoadAnswers
    <3> QED
      BY <2>4, <3>1, <3>2 DEF Copied, Readable, LoadAnswers, selectionVars
  <2> QED
    BY <1>2, <2>1, <2>2, <2>3, <2>4 DEF CopySteps
<1>3. CASE DiscoverySteps
  BY <1>3, FileKept DEF DiscoverySteps, Discover, Found, Unbound, DiscoveryFails, selectionVars,
     copyVars, readVars
<1>4. CASE SelectWorkflow \/ Refresh
  <2>1. UNCHANGED <<selected, durable, origin, seen, rPc>>
    BY <1>4 DEF SelectWorkflow, Refresh, Select, selectionVars, copyVars, readVars
  <2>2. (\E s \in Selections : Selects(s)) \/ Unloads
    BY <1>4, RequestSteps
  <2>3. \A t \in Selections : sPc[t] = "written" => sPc'[t] = "written"
    BY <2>2 DEF Typed, Serials, Selects, Unloads, selectionVars, Bounds, Selections
  <2> QED
    BY <2>1, <2>3, FileKept
<1>5. ASSUME NEW s \in Selections,
             Loaded(s) \/ LoadFails(s) \/ LaneEnters(s) \/ WriteFails(s)
      PROVE  Copied'
  <2>1. UNCHANGED <<selected, durable, origin, seen, rPc>>
    BY <1>5 DEF Loaded, LoadFails, LaneEnters, Enter, WriteFails, copyVars, readVars
  <2>2. sPc[s] # "written" /\ Advances(s)
    BY <1>5, SelectionEffect DEF Loaded, LoadFails, LaneEnters, WriteFails
  <2>3. \A t \in Selections : sPc[t] = "written" => sPc'[t] = "written"
    BY <2>2 DEF Typed, Advances
  <2> QED
    BY <2>1, <2>3, FileKept
<1>6. ASSUME NEW s \in Selections, PriorLoaded(s) \/ WriteEnds(s)
      PROVE  Copied'
  <2>1. UNCHANGED <<selected, seen, rPc>> /\ durable' \in Readable
    BY <1>6 DEF PriorLoaded, WriteEnds, Readable, readVars
  <2> QED
    BY <2>1 DEF Copied, Readable
<1>7. ASSUME NEW s \in Selections, WriteCommits(s)
      PROVE  Copied'
  <2>1. \A r \in Reads : rPc'[r] # "seen"
    BY <1>7 DEF WriteCommits
  <2>2. sPc'[s] = "written"
    BY <1>7 DEF Typed, WriteCommits, Done
  <2> QED
    BY <2>1, <2>2 DEF Copied
<1>8. CASE UNCHANGED vars
  BY <1>8, FileKept DEF vars, selectionVars, copyVars, readVars
<1> QED
  BY <1>1, <1>2, <1>3, <1>4, <1>5, <1>6, <1>7, <1>8 DEF Next, CopySteps, DiscoverySteps

-----------------------------------------------------------------------------
(* The theorems. *)

LEMMA NextKeeps ==
  ASSUME IInv, [Next]_vars
  PROVE  IInv'
BY TypedNext, SerialsNext, MakersNext, FreshNext, LaneNext, DurableNext, CopiedNext DEF IInv

LEMMA Inductive ==
  ASSUME Bounds
  PROVE  Spec => []IInv
<1>1. Init => IInv
  BY IInvInit
<1>2. IInv /\ [Next]_vars => IInv'
  BY NextKeeps
<1> QED
  BY <1>1, <1>2, PTL DEF Spec

LEMMA Implied ==
  ASSUME IInv
  PROVE  NothingStale /\ SelectionIsDurable
BY DEF IInv, Fresh, Makers, Durable, NothingStale, SelectionIsDurable

\* Nothing of an old connection comes back into the runtime, and the newest installed
\* discovery of the active connection has made its catalog.
THEOREM NothingStaleAlways ==
  ASSUME Bounds
  PROVE  Spec => []NothingStale
<1>1. IInv => NothingStale
  BY Implied
<1> QED
  BY <1>1, Inductive, PTL

\* When the latest request has succeeded, its workflow is the one in the state file, unless
\* it was compared with no state, because the file could not be read, or with the answer of
\* a load that a selection's write had overtaken.
THEOREM SelectionIsDurableAlways ==
  ASSUME Bounds
  PROVE  Spec => []SelectionIsDurable
<1>1. IInv => SelectionIsDurable
  BY Implied
<1> QED
  BY <1>1, Inductive, PTL

-----------------------------------------------------------------------------
(* Type correctness.  That a loop over the catalog has a next workflow rests *)
(* on the lists of a server being finite; that at most one runtime is        *)
(* current on the cache holding nothing of an old connection; that the lane  *)
(* holds no selection twice on its order.                                    *)

Finite == Bounds /\ IsFiniteSet(Workflows)

Single(records) == \A r, v \in records : r = v

Singles == Single(current) /\ \A s \in Selections : Single(wanted[s])

States ==
  /\ loadState \in {"idle", "loading", "ready", "error"}
  /\ hit \subseteq Selections /\ misled \subseteq Selections
  /\ maker \in 0 .. MaxDiscoveries

SerialsBounded == \A s \in Selections : serial[s] <= requestSerial

LaneBounded == \A i \in 1 .. Len(tail) : i <= tail[i]

\* What a discovery has found and what it still has to invalidate.
Lists ==
  /\ IsFiniteSet(catalog) /\ \A d \in Discoveries : IsFiniteSet(found[d])
  /\ changed \in [Discoveries -> Seq(Identities)]
  /\ \A d \in Discoveries : dPc[d] = "unbinding" => changed[d] # <<>>

Detail == Finite /\ Singles /\ States /\ SerialsBounded /\ LaneBounded /\ Lists

LEMMA DetailInit ==
  ASSUME Finite, Init
  PROVE  Detail
<1>1. Singles
  BY DEF Init, Singles, Single
<1>2. States /\ SerialsBounded /\ LaneBounded
  BY DEF Init, States, SerialsBounded, LaneBounded, Finite, Bounds, Selections
<1>3. Lists
  <2>1. <<>> \in Seq(Identities)
    OBVIOUS
  <2> QED
    BY <2>1, FS_EmptySet DEF Init, Lists
<1> QED
  BY <1>1, <1>2, <1>3 DEF Detail

\* A finite set is listed without repetition.
LEMMA SetToSeqList ==
  ASSUME NEW S, IsFiniteSet(S)
  PROVE  SetToSeq(S) \in Seq(S)
<1> DEFINE n == Cardinality(S)
<1>1. n \in Nat /\ ExistsBijection(1 .. n, S)
  BY FS_CardinalityType
<1>2. PICK f : f \in Bijection(1 .. n, S)
  BY <1>1 DEF ExistsBijection
<1>3. f \in [1 .. n -> S] /\ IsInjective(f)
  BY <1>2 DEF Bijection, Injection
<1>4. SetToSeq(S) \in [1 .. n -> S]
  BY <1>3 DEF SetToSeq
<1> QED
  BY <1>1, <1>4

\* What a server lists is finite.
LEMMA FoundFinite ==
  ASSUME IsFiniteSet(Workflows), NEW listed \in SUBSET Workflows, NEW record,
         NEW next, next = {record[w] : w \in listed}
  PROVE  IsFiniteSet(next)
<1> DEFINE f == [w \in listed |-> record[w]]
<1>1. IsFiniteSet(listed)
  BY FS_Subset
<1>2. f \in Surjection(listed, next)
  BY DEF Surjection
<1> QED
  BY <1>1, <1>2, FS_Surjection

LEMMA StatesNext ==
  ASSUME IInv, Detail, [Next]_vars
  PROVE  States'
<1> USE DEF IInv, Detail, States
<1>1. CASE Promote
  BY <1>1 DEF Promote, selectionVars, Finite, Bounds
<1>2. CASE Discover
  BY <1>2 DEF Discover, runtimeVars, selectionVars, copyVars
<1>3. ASSUME NEW d \in Discoveries, Found(d) \/ Unbound(d) \/ DiscoveryFails(d)
      PROVE  States'
  <2>1. UNCHANGED <<loadState, hit, misled>>
    BY <1>3 DEF Found, Unbound, DiscoveryFails, selectionVars, copyVars
  <2>2. maker' = maker \/ maker' = d
    BY <1>3 DEF Found, Unbound, DiscoveryFails, Continue, Ends
  <2> QED
    BY <2>1, <2>2 DEF Discoveries, Finite, Bounds
<1>4. ASSUME NEW descriptor \in catalog, NEW records, NEW serials,
             Select(descriptor, records, serials)
      PROVE  States'
  <2>1. selectionSerial' \in Selections
    BY <1>4 DEF Select, Typed, Bounds, Selections
  <2> QED
    BY <1>4, <2>1 DEF Select, discoveryVars, copyVars
<1>5. CASE SelectWorkflow
  BY <1>4, <1>5 DEF SelectWorkflow
<1>6. CASE Refresh
  BY <1>4, <1>6 DEF Refresh, selectionVars, discoveryVars, copyVars
<1>7. ASSUME NEW s \in Selections,
             \/ Loaded(s) \/ LoadFails(s) \/ LaneEnters(s) \/ PriorLoaded(s)
             \/ WriteCommits(s) \/ WriteEnds(s) \/ WriteFails(s)
      PROVE  States'
  <2>1. misled' \subseteq misled \cup {s}
    BY <1>7, SelectionEffect DEF Advances
  <2>2. CASE LaneEnters(s) \/ PriorLoaded(s)
    <3>1. UNCHANGED <<hit, maker>>
      BY <2>2 DEF LaneEnters, Enter, PriorLoaded, discoveryVars
    <3>2. loadState' \in {loadState, "ready"}
      BY <2>2 DEF LaneEnters, Enter, PriorLoaded, Compares, Answered
    <3> QED
      BY <2>1, <3>1, <3>2
  <2>3. CASE Loaded(s) \/ LoadFails(s) \/ WriteCommits(s) \/ WriteEnds(s) \/ WriteFails(s)
    <3>1. loadState' \in {loadState, "ready", "error"} /\ UNCHANGED <<hit, maker>>
      BY <2>3 DEF Loaded, LoadFails, Answered, WriteCommits, WriteEnds, WriteFails, runtimeVars,
         discoveryVars
    <3> QED
      BY <2>1, <3>1
  <2> QED
    BY <1>7, <2>2, <2>3
<1>8. CASE CopySteps
  BY <1>8 DEF CopySteps, BindingSaved, StateCalled, FileSeen, LoadAnswers, runtimeVars,
     selectionVars, discoveryVars
<1>9. CASE UNCHANGED vars
  BY <1>9 DEF vars, runtimeVars, selectionVars, discoveryVars, copyVars
<1> QED
  BY <1>1, <1>2, <1>3, <1>5, <1>6, <1>7, <1>8, <1>9 DEF Next, CopySteps

\* A selection of the cache finds one runtime, since all of them are of one connection.
LEMMA SelectSingle ==
  ASSUME Typed, Fresh, Singles, NEW descriptor \in catalog, NEW records \in SUBSET cache,
         NEW serials, Select(descriptor, records, serials)
  PROVE  Singles'
<1> DEFINE s == selectionSerial'
           cached == {r \in records : r.workflow = descriptor.workflow
                                      /\ r.revision = descriptor.revision}
           id == [descriptor EXCEPT !.target = target]
<1>1. Single(cached)
  <2> SUFFICES ASSUME NEW r \in cached, NEW v \in cached
               PROVE  r = v
    BY DEF Single
  <2>1. r \in Identities /\ v \in Identities /\ r.target = target /\ v.target = target
    BY DEF Typed, Fresh
  <2> QED
    BY <2>1 DEF Identities
<1>2. Single({id})
  BY DEF Single
<1>3. wanted' = [wanted EXCEPT ![s] = cached] \/ wanted' = [wanted EXCEPT ![s] = {id}]
  BY DEF Select
<1>4. current' = current
  BY DEF Select
<1> HIDE DEF cached, id, s
<1>5. \A t \in Selections : wanted'[t] = wanted[t] \/ wanted'[t] = cached \/ wanted'[t] = {id}
  BY <1>3 DEF Typed
<1> QED
  BY <1>1, <1>2, <1>4, <1>5 DEF Singles, Single

LEMMA SinglesNext ==
  ASSUME IInv, Detail, [Next]_vars
  PROVE  Singles'
<1> USE DEF IInv, Detail
<1>1. CASE SelectWorkflow
  BY <1>1, SelectSingle DEF SelectWorkflow
<1>2. CASE Refresh
  <2>1. PICK r \in current :
          \/ \E descriptor \in catalog : Select(descriptor, Without(cache, r.workflow), 2)
          \/ current' = {} /\ wanted' = wanted
    BY <1>2 DEF Refresh, selectionVars
  <2>2. Without(cache, r.workflow) \in SUBSET cache
    BY DEF Without
  <2> QED
    BY <2>1, <2>2, SelectSingle DEF Singles, Single
<1>3. CASE Promote
  BY <1>3 DEF Promote, selectionVars, Singles, Single
<1>4. CASE DiscoverySteps
  BY <1>4, DiscoveryEffect DEF Discovers, selectionVars, Singles, Single
<1>5. CASE SelectionSteps
  BY <1>5, SelectionEffect DEF SelectionSteps, Advances, Singles, Single
<1>6. CASE UNCHANGED vars
  BY <1>6 DEF vars, runtimeVars, selectionVars, Singles, Single
<1>7. CASE CopySteps
  <2>1. UNCHANGED <<current, wanted>>
    BY <1>7 DEF CopySteps, BindingSaved, StateCalled, FileSeen, LoadAnswers, runtimeVars,
       selectionVars
  <2> QED
    BY <2>1 DEF Singles, Single
<1> QED
  BY <1>1, <1>2, <1>3, <1>4, <1>5, <1>6, <1>7 DEF Next, DiscoverySteps, SelectionSteps, CopySteps

LEMMA SerialsBoundedNext ==
  ASSUME IInv, Detail, [Next]_vars
  PROVE  SerialsBounded'
<1> USE DEF IInv, Detail
<1>1. ASSUME NEW s \in Selections, Selects(s)
      PROVE  SerialsBounded'
  <2>1. requestSerial' \in Nat /\ requestSerial' >= requestSerial
    BY <1>1 DEF Typed, Selects
  <2>2. \A t \in Selections : serial'[t] = requestSerial' \/ serial'[t] = serial[t]
    BY <1>1 DEF Typed, Selects
  <2>3. \A t \in Selections : serial[t] \in Nat /\ requestSerial \in Nat
    BY DEF Typed
  <2> QED
    BY <2>1, <2>2, <2>3 DEF SerialsBounded
<1>2. ASSUME serial' = serial, requestSerial' \in {requestSerial, requestSerial + 1}
      PROVE  SerialsBounded'
  BY <1>2 DEF Typed, SerialsBounded
<1> QED
  BY <1>1, <1>2, Effects DEF Promotes, Discovers, Unloads, Rests, Advances, selectionVars

LEMMA LaneBoundedNext ==
  ASSUME IInv, Detail, [Next]_vars
  PROVE  LaneBounded'
<1> USE DEF IInv, Detail
<1>1. tail \in Seq(Selections)
  BY DEF Typed
<1>2. ASSUME tail' = tail
      PROVE  LaneBounded'
  BY <1>2 DEF LaneBounded
<1>3. ASSUME tail # <<>>, tail' = Tail(tail)
      PROVE  LaneBounded'
  <2>1. /\ Len(tail') = Len(tail) - 1
        /\ \A i \in 1 .. Len(tail') :
             tail'[i] = tail[i + 1] /\ i + 1 \in 1 .. Len(tail) /\ tail[i + 1] \in Nat
    BY <1>1, <1>3, SMTT(30) DEF Typed, Bounds, Selections
  <2> QED
    BY <2>1 DEF LaneBounded
<1>4. ASSUME NEW s \in Selections, \A t \in Selections : sPc[t] \in InLane => t < s,
             tail' = Append(tail, s)
      PROVE  LaneBounded'
  <2>1. /\ Len(tail') = Len(tail) + 1 /\ tail'[Len(tail) + 1] = s /\ Len(tail) \in Nat
        /\ \A i \in 1 .. Len(tail) : tail'[i] = tail[i] /\ tail[i] \in Selections
    BY <1>1, <1>4
  <2>2. \A i \in 1 .. Len(tail) : tail[i] < s
    BY <1>4, <2>1 DEF Lane
  <2>3. Len(tail) + 1 <= s
    <3>1. CASE Len(tail) = 0
      BY <3>1 DEF Typed, Bounds, Selections
    <3>2. CASE Len(tail) # 0
      <4>1. Len(tail) \in 1 .. Len(tail)
        BY <2>1, <3>2
      <4>2. Len(tail) <= tail[Len(tail)] /\ tail[Len(tail)] < s
        BY <2>2, <4>1 DEF LaneBounded
      <4>3. tail[Len(tail)] \in Nat /\ s \in Nat
        BY <2>1, <4>1 DEF Typed, Bounds, Selections
      <4> QED
        BY <2>1, <4>2, <4>3
    <3> QED
      BY <3>1, <3>2
  <2> QED
    BY <2>1, <2>3 DEF LaneBounded
<1>5. ASSUME NEW s \in Selections, Selects(s)
      PROVE  LaneBounded'
  <2>1. \A t \in Selections : sPc[t] \in InLane => t < s
    BY <1>5, SMTT(30) DEF Typed, Serials, Selects, InLane, Bounds, Selections
  <2> QED
    BY <1>2, <1>4, <1>5, <2>1 DEF Selects
<1>6. ASSUME NEW s \in Selections, Advances(s)
      PROVE  LaneBounded'
  <2>1. CASE sPc[s] = "loading" /\ ~Stale(s) /\ tail' = Append(tail, s)
    <3>1. s = selectionSerial
      BY <2>1, LatestIsCurrent
    <3>2. \A t \in Selections : sPc[t] \in InLane => t < s
      <4> SUFFICES ASSUME NEW t \in Selections, sPc[t] \in InLane
                   PROVE  t < s
        OBVIOUS
      <4>1. t <= s /\ t # s
        BY <2>1, <3>1 DEF Serials, InLane
      <4> QED
        BY <4>1 DEF Typed, Bounds, Selections
    <3> QED
      BY <1>4, <2>1, <3>2
  <2>2. CASE sPc[s] \in InLane /\ tail' = Tail(tail)
    BY <1>3, <2>2, HeadOfLane
  <2> QED
    BY <1>2, <1>6, <2>1, <2>2 DEF Advances, InLane
<1> QED
  BY <1>2, <1>5, <1>6, Effects DEF Promotes, Discovers, Unloads, Rests, selectionVars

LEMMA ContinueLists ==
  ASSUME Typed, Lists, NEW d \in Discoveries, NEW next, IsFiniteSet(next),
         NEW rest \in Seq(Identities), Continue(d, next, rest)
  PROVE  Lists'
<1>1. IsFiniteSet(catalog') /\ \A e \in Discoveries : IsFiniteSet(found'[e])
  BY FS_EmptySet DEF Typed, Lists, Continue
<1>2. changed' \in [Discoveries -> Seq(Identities)]
  BY DEF Lists, Continue
<1>3. \A e \in Discoveries : dPc'[e] = "unbinding" => changed'[e] # <<>>
  BY DEF Typed, Lists, Continue
<1> QED
  BY <1>1, <1>2, <1>3 DEF Lists

LEMMA EndsLists ==
  ASSUME Typed, Lists, NEW d \in Discoveries, Ends(d)
  PROVE  Lists'
<1>1. \A e \in Discoveries : IsFiniteSet(found'[e])
  BY FS_EmptySet DEF Typed, Lists, Ends
<1>2. changed' \in [Discoveries -> Seq(Identities)]
  <2>1. <<>> \in Seq(Identities)
    OBVIOUS
  <2> QED
    BY <2>1 DEF Lists, Ends
<1>3. \A e \in Discoveries : dPc'[e] = "unbinding" => changed'[e] # <<>>
  BY DEF Typed, Lists, Ends
<1> QED
  BY <1>1, <1>2, <1>3 DEF Lists, Ends

LEMMA ListsNext ==
  ASSUME IInv, Detail, [Next]_vars
  PROVE  Lists'
<1> USE DEF IInv, Detail
<1>1. CASE Promote
  BY <1>1, FS_EmptySet DEF Promote, Lists
<1>2. CASE Discover
  <2>1. \A e \in Discoveries : dPc'[e] = "unbinding" => dPc[e] = "unbinding"
    BY <1>2 DEF Discover, Typed
  <2> QED
    BY <1>2, <2>1 DEF Discover, Lists, runtimeVars
<1>3. ASSUME NEW d \in Discoveries, Found(d)
      PROVE  Lists'
  <2>1. CASE ~IsCurrentDiscovery(d)
    BY <1>3, <2>1, EndsLists DEF Found
  <2>2. CASE IsCurrentDiscovery(d)
    <3>1. PICK listed \in SUBSET Workflows : \E revision \in [listed -> Revisions] :
            LET next == {[workflow |-> w, revision |-> revision[w], target |-> owner[d]]
                          : w \in listed}
            IN Continue(d, next, SetToSeq(catalog \ next))
      BY <1>3, <2>2 DEF Found
    <3>2. PICK revision \in [listed -> Revisions] :
            LET next == {[workflow |-> w, revision |-> revision[w], target |-> owner[d]]
                          : w \in listed}
            IN Continue(d, next, SetToSeq(catalog \ next))
      BY <3>1
    <3> DEFINE record == [w \in listed |->
                            [workflow |-> w, revision |-> revision[w], target |-> owner[d]]]
               next == {[workflow |-> w, revision |-> revision[w], target |-> owner[d]]
                         : w \in listed}
    <3>3. Continue(d, next, SetToSeq(catalog \ next))
      BY <3>2
    <3>4. next = {record[w] : w \in listed}
      OBVIOUS
    <3> HIDE DEF next, record
    <3>5. IsFiniteSet(next)
      BY <3>4, FoundFinite DEF Finite
    <3>6. SetToSeq(catalog \ next) \in Seq(Identities)
      <4>1. IsFiniteSet(catalog \ next)
        BY FS_Difference DEF Lists
      <4>2. SetToSeq(catalog \ next) \in Seq(catalog \ next)
        BY <4>1, SetToSeqList
      <4>3. catalog \ next \subseteq Identities
        BY DEF Typed
      <4> QED
        BY <4>2, <4>3
    <3> QED
      BY <3>3, <3>5, <3>6, ContinueLists
  <2> QED
    BY <2>1, <2>2
<1>4. ASSUME NEW d \in Discoveries, Unbound(d)
      PROVE  Lists'
  <2>1. CASE ~IsCurrentDiscovery(d)
    BY <1>4, <2>1, EndsLists DEF Unbound
  <2>2. CASE IsCurrentDiscovery(d)
    <3>1. Continue(d, found[d], Tail(changed[d]))
      BY <1>4, <2>2 DEF Unbound
    <3>2. changed[d] \in Seq(Identities) /\ changed[d] # <<>>
      BY <1>4 DEF Unbound, Lists
    <3>3. Tail(changed[d]) \in Seq(Identities)
      BY <3>2
    <3> QED
      BY <3>1, <3>3, ContinueLists DEF Lists
  <2> QED
    BY <2>1, <2>2
<1>5. ASSUME NEW d \in Discoveries, DiscoveryFails(d)
      PROVE  Lists'
  BY <1>5, EndsLists DEF DiscoveryFails
<1>6. CASE SelectWorkflow \/ Refresh \/ SelectionSteps \/ CopySteps \/ UNCHANGED vars
  <2>1. CASE SelectWorkflow \/ Refresh \/ UNCHANGED vars
    BY <2>1 DEF SelectWorkflow, Refresh, Select, vars, runtimeVars, discoveryVars, Lists
  <2>2. CASE SelectionSteps
    BY <2>2 DEF SelectionSteps, Loaded, LoadFails, LaneEnters, Enter, PriorLoaded, WriteCommits,
       WriteEnds, WriteFails, runtimeVars, discoveryVars, Lists
  <2>3. CASE CopySteps
    BY <2>3 DEF CopySteps, BindingSaved, StateCalled, FileSeen, LoadAnswers, runtimeVars,
       discoveryVars, Lists
  <2> QED
    BY <1>6, <2>1, <2>2, <2>3
<1> QED
  BY <1>1, <1>2, <1>3, <1>4, <1>5, <1>6 DEF Next, SelectionSteps, CopySteps

LEMMA DetailNext ==
  ASSUME IInv, Detail, [Next]_vars
  PROVE  Detail'
<1>1. Finite'
  BY DEF Detail, Finite, Bounds
<1> QED
  BY <1>1, StatesNext, SinglesNext, SerialsBoundedNext, LaneBoundedNext, ListsNext DEF Detail

LEMMA DetailTypes ==
  ASSUME IInv, Detail
  PROVE  TypeOK
<1> USE DEF IInv, Detail
<1>1. tail \in SeqOf(Selections, MaxSelections)
  <2>1. tail \in [1 .. Len(tail) -> Selections] /\ Len(tail) \in Nat
    BY DEF Typed
  <2>2. Len(tail) <= MaxSelections
    <3>1. CASE Len(tail) = 0
      BY <3>1 DEF Typed, Bounds
    <3>2. CASE Len(tail) # 0
      <4>1. Len(tail) \in 1 .. Len(tail)
        BY <2>1, <3>2
      <4>2. Len(tail) <= tail[Len(tail)] /\ tail[Len(tail)] \in Selections
        BY <2>1, <4>1 DEF LaneBounded
      <4> QED
        BY <2>1, <4>2 DEF Typed, Bounds, Selections
    <3> QED
      BY <3>1, <3>2
  <2>3. Len(tail) \in 0 .. MaxSelections
    BY <2>1, <2>2 DEF Typed, Bounds
  <2> QED
    BY <2>1, <2>3 DEF SeqOf
<1>2. \A s \in Selections :
        /\ wanted[s] \subseteq Identities /\ serial[s] \in 0 .. requestSerial
        /\ sPc[s] \in {"none", "loading", "queued", "reading", "writing", "written", "selected",
                      "failed"}
  <2>1. \A s \in Selections : serial[s] \in 0 .. requestSerial
    BY DEF Typed, SerialsBounded
  <2> QED
    BY <2>1 DEF Typed, InLane
<1>3. \A d \in Discoveries :
        /\ owner[d] \in 0 .. MaxPromotions /\ found[d] \subseteq Identities
        /\ dPc[d] \in {"none", "listing", "unbinding", "installed", "ended"}
        /\ dPc[d] = "unbinding" => changed[d] # <<>> /\ Head(changed[d]) \in Identities
  <2>1. \A d \in Discoveries : dPc[d] = "unbinding" =>
          changed[d] # <<>> /\ Head(changed[d]) \in Identities
    BY DEF Lists
  <2> QED
    BY <2>1 DEF Typed
<1> QED
  BY <1>1, <1>2, <1>3 DEF Typed, Singles, Single, States, TypeOK

\* Type correctness of the runtime, for any finite set of workflows.
THEOREM TypeOKAlways ==
  ASSUME Finite
  PROVE  Spec => []TypeOK
<1>1. Init => IInv /\ Detail
  BY IInvInit, DetailInit DEF Finite
<1>2. IInv /\ Detail /\ [Next]_vars => (IInv /\ Detail)'
  BY NextKeeps, DetailNext
<1>3. IInv /\ Detail => TypeOK
  BY DetailTypes
<1> QED
  BY <1>1, <1>2, <1>3, PTL DEF Spec

=============================================================================
