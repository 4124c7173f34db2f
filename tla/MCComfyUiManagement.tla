-------------------------- MODULE MCComfyUiManagement --------------------------
(***************************************************************************)
(* The two halves of application/src/comfyui/management.ts on small         *)
(* instances: the connection coordinator and the workflow runtime.  `focus` *)
(* names the one that moves in a behaviour.  The connection stands for the  *)
(* runtime in SelectWorkflow, the runtime for the connection in Promote.    *)
(* The runtime is instantiated with its theorems, for the composed ones.    *)
(***************************************************************************)
EXTENDS MCComfyUiConnection, FiniteSets

CONSTANTS
  Listed, Revisions, MaxSelections, MaxDiscoveries, MaxPromotions, MaxReads,
  MaxSignals,   \* BOUND: the calls under way whose owner's signal has fired
  MaxBeside     \* BOUND: the discoveries called while a load of the state file is under way

ASSUME ManagementAssumption ==
  /\ {MaxSelections, MaxDiscoveries, MaxPromotions, MaxReads} \subseteq Nat
  /\ {MaxSignals, MaxBeside} \subseteq Nat
  /\ IsFiniteSet(Listed)

VARIABLE focus

VARIABLES
  wTarget, wCatalog, wCache, wCurrent, wLoadState, wRequestSerial, wDiscoverySerial,
  wSelectionSerial, wSelected, wWanted, wSerial, wHit, wSPc, wTail, wOwner, wFound,
  wChanged, wDPc, wMaker, wDurable, wRPc, wSeen, wOrigin, wMisled

runtimeVars == <<
  wTarget, wCatalog, wCache, wCurrent, wLoadState, wRequestSerial, wDiscoverySerial,
  wSelectionSerial, wSelected, wWanted, wSerial, wHit, wSPc, wTail, wOwner, wFound,
  wChanged, wDPc, wMaker, wDurable, wRPc, wSeen, wOrigin, wMisled>>

Runtime == INSTANCE ComfyUiWorkflows_proofs WITH
  Workflows <- Listed,
  target <- wTarget, catalog <- wCatalog, cache <- wCache, current <- wCurrent,
  loadState <- wLoadState, requestSerial <- wRequestSerial,
  discoverySerial <- wDiscoverySerial, selectionSerial <- wSelectionSerial,
  selected <- wSelected, wanted <- wWanted, serial <- wSerial, hit <- wHit, sPc <- wSPc,
  tail <- wTail, owner <- wOwner, found <- wFound, changed <- wChanged, dPc <- wDPc,
  maker <- wMaker, durable <- wDurable, rPc <- wRPc, seen <- wSeen,
  origin <- wOrigin, misled <- wMisled

managementVars == <<focus, vars, runtimeVars>>

ManagementInit ==
  /\ focus \in {"connection", "runtime"}
  /\ Init /\ Runtime!Init
  /\ focus = "connection" \/ file = NoState
  /\ focus = "runtime" \/ wSelected = {}

ConnectionMoves ==
  /\ focus = "connection"
  /\ Next
  /\ Cardinality({a \in Attempts : ownerAborted'[a]}) <= MaxSignals
  /\ UNCHANGED <<focus, runtimeVars>>

RuntimeMoves ==
  /\ focus = "runtime"
  /\ Runtime!Next
  /\ wDiscoverySerial' <= MaxBeside \/ \A r \in Runtime!Reads : wRPc'[r] = "none"
  /\ UNCHANGED <<focus, vars>>

ManagementNext == ConnectionMoves \/ RuntimeMoves

ManagementSpec == ManagementInit /\ [][ManagementNext]_managementVars

\* Each half keeps its type invariant.
ManagementTypeOK == IF focus = "runtime" THEN Runtime!TypeOK ELSE TypeOK

\* The workflow runtime is that of the active connection (management.ts).
NothingStale == focus = "runtime" => Runtime!NothingStale

\* The latest selection is the one in the state file, unless it was compared with no state
\* or with an overtaken copy of it (management.ts).
SelectionIsDurable == focus = "runtime" => Runtime!SelectionIsDurable
=============================================================================
