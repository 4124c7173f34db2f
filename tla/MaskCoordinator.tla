--------------------------- MODULE MaskCoordinator ---------------------------
(***************************************************************************)
(* The draft Mask of the composer: MaskCoordinator                          *)
(* (shared/domain/mask-coordinator.ts) as use-generation-workspace.ts calls *)
(* it, one reconcile for every change of the primary attachment or of the   *)
(* preference, none of them awaited.  The calls interleave at their awaits: *)
(* the release of the previous Mask and the read of a layer's Mask.         *)
(*                                                                         *)
(* A primary key stands for an attachment; its source is a Photoshop        *)
(* selection, captured with its Mask, a Photoshop layer, or neither.  The   *)
(* Mask read by a call is named by the call, the one of a selection by its  *)
(* key.                                                                    *)
(***************************************************************************)
EXTENDS Naturals, FiniteSets

CONSTANTS
  MaxCalls,       \* bound: calls of reconcile and destroy
  SelectionKeys,  \* primaries captured with a selection Mask
  LayerKeys,      \* primaries that are Photoshop layers
  PlainKeys,      \* other primaries that are ready
  None

Calls == 1 .. MaxCalls
Keys == SelectionKeys \cup LayerKeys \cup PlainKeys
Masks == Calls \cup SelectionKeys

\* What a call asks for: no Mask, no primary, a primary that is not ready, or a key.
Unbound == {"disabled", "no-primary", "none"}
Inputs == Unbound \cup Keys
Kinds == Unbound \cup {"loading", "ready", "error"}

VARIABLES
  calls,       \* how many calls were made
  generation,
  currentKey,
  controller,  \* the call whose read the controller can abort, or None
  aborted,     \* the calls whose read was aborted
  ownedAsset,
  state,       \* MaskBindingState: kind, key of its target and Mask
  pc,          \* call -> "idle", "releasing", "reading", "dropping" or "done"
  key,         \* call -> its key
  fence,       \* call -> its nextGeneration
  next,        \* call -> the state its invalidate will set
  releasing,   \* call -> the Mask it releases
  stored,      \* the Masks in the asset store
  taskMasks,   \* the Masks that Task snapshots refer to
  lost         \* Masks that a failed release or an overwritten owner left behind

local == <<pc, key, fence, next, releasing>>
vars == <<calls, generation, currentKey, controller, aborted, ownedAsset, state, local,
          stored, taskMasks, lost>>

States == [kind : Kinds, key : Keys \cup {None}, mask : Masks \cup {None}]
Plain(kind) == [kind |-> kind, key |-> None, mask |-> None]
Bound(kind, k, m) == [kind |-> kind, key |-> k, mask |-> m]

TypeOK ==
  /\ calls \in 0 .. MaxCalls /\ generation \in 0 .. MaxCalls
  /\ currentKey \in Keys \cup {None} /\ controller \in Calls \cup {None}
  /\ aborted \subseteq Calls /\ ownedAsset \in Masks \cup {None} /\ state \in States
  /\ pc \in [Calls -> {"idle", "releasing", "reading", "dropping", "done"}]
  /\ \A c \in Calls : pc[c] = "idle" <=> c > calls
  /\ key \in [Calls -> Keys \cup {None}] /\ fence \in [Calls -> 0 .. MaxCalls]
  /\ next \in [Calls -> States] /\ releasing \in [Calls -> Masks \cup {None}]
  /\ stored \subseteq Masks /\ taskMasks \subseteq Masks /\ lost \subseteq Masks

Init ==
  /\ calls = 0 /\ generation = 0 /\ currentKey = None /\ controller = None /\ aborted = {}
  /\ ownedAsset = None /\ state = Plain("disabled")
  /\ pc = [c \in Calls |-> "idle"] /\ key = [c \in Calls |-> None]
  /\ fence = [c \in Calls |-> 0] /\ next = [c \in Calls |-> Plain("disabled")]
  /\ releasing = [c \in Calls |-> None]
  /\ stored = SelectionKeys /\ taskMasks = {} /\ lost = {}

Goes(c, place) == pc' = [pc EXCEPT ![c] = place]

(***************************************************************************)
(* What follows invalidate: its state is set, whatever happened meanwhile,  *)
(* and reconcile goes on in the same turn.  A selection's Mask becomes the  *)
(* owned one before the fence is looked at; a layer's Mask has to be read.  *)
(***************************************************************************)
Source(k) ==
  IF k \in SelectionKeys THEN Bound("ready", k, k) ELSE Bound("none", k, None)

Proceeds(c, k, target, current, owned, control) ==
  /\ state' = IF current /\ k \in SelectionKeys \cup PlainKeys THEN Source(k) ELSE target
  /\ ownedAsset' = IF k \in SelectionKeys THEN k ELSE owned
  /\ lost' = IF k \in SelectionKeys THEN lost \cup ({owned} \cap Calls) ELSE lost
  /\ controller' = IF k \in LayerKeys THEN c ELSE control
  /\ Goes(c, IF k \in LayerKeys THEN "reading" ELSE "done")

\* invalidate, as far as the await of the release if there is one.
Invalidate(c, k, target) ==
  /\ calls' = c
  /\ aborted' = IF controller = None THEN aborted ELSE aborted \cup {controller}
  /\ generation' = generation + 1
  /\ currentKey' = k
  /\ key' = [key EXCEPT ![c] = k]
  /\ fence' = [fence EXCEPT ![c] = generation + 1]
  /\ next' = [next EXCEPT ![c] = target]
  /\ releasing' = [releasing EXCEPT ![c] = ownedAsset]
  /\ \/ ownedAsset = None /\ Proceeds(c, k, target, TRUE, None, None)
     \/ /\ ownedAsset # None /\ ownedAsset' = None /\ controller' = None
        /\ Goes(c, "releasing") /\ UNCHANGED <<state, lost>>
  /\ UNCHANGED stored

Keeps == currentKey # None /\ state.kind # "error"

\* reconcile, as far as its first await; destroy is the call for "disabled".
Reconciles(c, input) ==
  \/ input \in Unbound /\ Invalidate(c, None, Plain(input))
  \/ /\ input \in Keys /\ ~(currentKey = input /\ Keeps)
     /\ Invalidate(c, input, Bound("loading", input, None))

Reconcile(input) ==
  calls < MaxCalls /\ Reconciles(calls + 1, input) /\ UNCHANGED taskMasks

\* send: the Task snapshot takes the Edit Region, and onPrepared empties the
\* composer, so the next reconcile finds no primary.
Submit ==
  /\ calls < MaxCalls /\ state.kind = "ready"
  /\ taskMasks' = taskMasks \cup {state.mask}
  /\ Reconciles(calls + 1, "no-primary")

\* MUTANT of Current: only the abort of the read is looked at.
CurrentAlways(c) == TRUE
Current(c) == fence[c] = generation /\ key[c] = currentKey

Released(c) ==
  /\ pc[c] = "releasing"
  /\ stored' = stored \ {releasing[c]}
  /\ Proceeds(c, key[c], next[c], Current(c), ownedAsset, controller)
  /\ UNCHANGED <<calls, generation, currentKey, aborted, key, fence, next, releasing, taskMasks>>

\* The release rejects, and with it reconcile: the state stays as it was.
ReleaseFails(c) ==
  /\ pc[c] \in {"releasing", "dropping"}
  /\ releasing[c] \in stored  \* a file that is gone already is not an error
  /\ lost' = lost \cup {releasing[c]}
  /\ Goes(c, "done")
  /\ UNCHANGED <<calls, generation, currentKey, controller, aborted, ownedAsset, state, key,
                 fence, next, releasing, stored, taskMasks>>

(***************************************************************************)
(* The answer of the host to the read of a layer's Mask.                    *)
(***************************************************************************)
Fenced(c) == c \in aborted \/ ~Current(c)

\* MUTANT of MaskRead: a read that comes too late returns without releasing its Mask.
MaskReadForgotten(c) ==
  /\ pc[c] = "reading"
  /\ stored' = stored \cup {c} /\ Goes(c, "done")
  /\ IF Fenced(c)
     THEN UNCHANGED <<ownedAsset, state, lost>>
     ELSE /\ ownedAsset' = c /\ lost' = lost \cup ({ownedAsset} \cap Calls)
          /\ state' = Bound("ready", key[c], c)
  /\ UNCHANGED <<calls, generation, currentKey, controller, aborted, key, fence, next, releasing,
                 taskMasks>>

\* The host answers with a Mask, which it has stored.
MaskRead(c) ==
  /\ pc[c] = "reading"
  /\ stored' = stored \cup {c}
  /\ IF Fenced(c)
     THEN /\ Goes(c, "dropping") /\ releasing' = [releasing EXCEPT ![c] = c]
          /\ UNCHANGED <<ownedAsset, state, lost>>
     ELSE /\ Goes(c, "done") /\ ownedAsset' = c /\ lost' = lost \cup ({ownedAsset} \cap Calls)
          /\ state' = Bound("ready", key[c], c) /\ UNCHANGED releasing
  /\ UNCHANGED <<calls, generation, currentKey, controller, aborted, key, fence, next, taskMasks>>

\* The layer has no Mask, or the host throws.  An asset without canonicalMask, which no host
\* of the repository returns, would end in the error too and stay stored (lines 133-135).
NothingRead(c, kind) ==
  /\ pc[c] = "reading"
  /\ state' = IF Fenced(c) THEN state ELSE Bound(kind, key[c], None)
  /\ Goes(c, "done")
  /\ UNCHANGED <<calls, generation, currentKey, controller, aborted, ownedAsset, key, fence,
                 next, releasing, stored, taskMasks, lost>>

Dropped(c) ==
  /\ pc[c] = "dropping"
  /\ stored' = stored \ {releasing[c]}
  /\ Goes(c, "done")
  /\ UNCHANGED <<calls, generation, currentKey, controller, aborted, ownedAsset, state, key,
                 fence, next, releasing, taskMasks, lost>>

Steps(c) ==
  \/ Released(c) \/ ReleaseFails(c) \/ MaskRead(c) \/ NothingRead(c, "none") \/ NothingRead(c, "error") \/ Dropped(c)

Next ==
  \/ \E input \in Inputs : Reconcile(input)
  \/ Submit
  \/ \E c \in Calls : Steps(c)

Spec == Init /\ [][Next]_vars

\* Every Mask the host has stored for a draft is owned, is being released, or
\* was left behind by a release that failed or by a selection that took the
\* place of the owned Mask: a read that comes too late is never forgotten
\* (mask-coordinator.ts:125-128, 146, 163-169).
DraftMaskAccounted ==
  \A m \in stored \cap Calls :
    \/ m = ownedAsset
    \/ \E c \in Calls : pc[c] \in {"releasing", "dropping"} /\ releasing[c] = m
    \/ m \in lost

\* A ready Edit Region is the one of the primary, unless its release is under
\* way or has failed (mask-coordinator.ts:173-176, "Stale completion 不得覆盖较新的
\* state", spec.md:57 of photoshop-mask-edit-region).
ReadyIsCurrent ==
  state.kind = "ready" =>
    \/ state.key = currentKey
    \/ \E c \in Calls : pc[c] = "releasing" /\ releasing[c] = state.mask
    \/ state.mask \in lost

\* "已被 Task snapshot 引用的 Mask asset SHALL 保持可用于 retry" (spec.md:98 of
\* photoshop-mask-edit-region): the Masks that Tasks refer to stay stored.
TaskMaskKept == taskMasks \subseteq stored
=============================================================================
