--------------------------- MODULE Components_proofs ---------------------------
(***************************************************************************)
(* The properties that the run of MCComponents checks, for every value of   *)
(* its constants.  Components with many lemmas have them in a module of     *)
(* their own, and what it says of any step of the component holds of the    *)
(* step of the composition that moves it; the Mask coordinator, the state   *)
(* file and the thumbnail store are proved here.                            *)
(***************************************************************************)
EXTENDS MCComponents, SequenceTheorems, FiniteSetTheorems, TLAPS

\* A step moves the component in focus and leaves the others as they were.
LEMMA Moves ==
  ASSUME [Next]_vars
  PROVE  /\ focus' = focus
         /\ focus = "grsai" => [Grsai!Next]_(Grsai!vars)
         /\ focus = "mask" => [Mask!Next]_(Mask!vars)
         /\ focus = "retention" => [Retention!Next]_(Retention!vars)
         /\ focus = "file" => [File!Next]_(File!vars)
         /\ focus = "thumbnails" => [Thumbnails!Next]_(Thumbnails!vars)
         /\ focus = "execution" => [Execution!Next]_(Execution!vars)
         /\ focus # "retention" => UNCHANGED retentionVars
         /\ focus # "file" => UNCHANGED fileVars
         /\ focus # "execution" => UNCHANGED executionVars
<1>1. CASE UNCHANGED vars
  <2>1. UNCHANGED <<focus, grsaiVars, maskVars, retentionVars, fileVars, thumbnailsVars,
                    executionVars>>
    BY <1>1 DEF vars
  <2>2. UNCHANGED Grsai!vars
    BY <2>1 DEF grsaiVars, Grsai!vars, Grsai!managerVars, Grsai!grsaiVars, Grsai!history
  <2>3. UNCHANGED Mask!vars
    BY <2>1 DEF maskVars, Mask!vars, Mask!local
  <2>4. UNCHANGED Retention!vars
    BY <2>1 DEF retentionVars, Retention!vars, Retention!sweepVars, Retention!reconcileVars
  <2>5. UNCHANGED File!vars /\ UNCHANGED Thumbnails!vars
    BY <2>1 DEF fileVars, thumbnailsVars, File!vars, Thumbnails!vars
  <2>6. UNCHANGED Execution!vars
    BY <2>1 DEF executionVars, Execution!vars, Execution!driverVars, Execution!admissionVars,
       Execution!sessionVars, Execution!pageVars, Execution!observerVars, Execution!serverVars
  <2> QED
    BY <2>1, <2>2, <2>3, <2>4, <2>5, <2>6
<1>2. CASE Next
  BY <1>2 DEF Next, GrsaiMoves, MaskMoves, RetentionMoves, FileMoves, ThumbnailsMove,
     ExecutionMoves
<1> QED
  BY <1>1, <1>2

-----------------------------------------------------------------------------
(* Asynchronous Providers *)

LEMMA GrsaiAlways == Spec => [](focus = "grsai" => Grsai!Books)
<1>1. Init => (focus = "grsai" => Grsai!Books)
  BY ComponentsAssumption, Grsai!BooksInit DEF Init, Grsai!Budgets
<1>2. (focus = "grsai" => Grsai!Books) /\ [Next]_vars => (focus = "grsai" => Grsai!Books)'
  BY Moves, Grsai!BooksNext
<1> QED
  BY <1>1, <1>2, PTL DEF Spec

\* A Job is submitted once and polled within its budget, whatever the budgets and delays.
THEOREM WithinBudgetHere == Spec => []WithinBudget
<1>1. (focus = "grsai" => Grsai!Books) => WithinBudget
  BY Grsai!IInvWithinBudget DEF WithinBudget, Grsai!Books
<1> QED
  BY <1>1, GrsaiAlways, PTL

\* A reported usage pays only for charges between the begin and the end of its own submit,
\* whatever overlaps; whose charges these are is not said.
THEOREM UsageWithinSubmitHere == Spec => []UsageWithinSubmit
<1>1. (focus = "grsai" => Grsai!Books) => UsageWithinSubmit
  BY DEF UsageWithinSubmit, Grsai!UsageWithinSubmit, Grsai!Books, Grsai!Accounted
<1> QED
  BY <1>1, GrsaiAlways, PTL

-----------------------------------------------------------------------------
(* ComfyUI *)

LEMMA ExecutionAlways == Spec => [](focus = "execution" => Execution!PInv)
<1>1. Init => (focus = "execution" => Execution!PInv)
  BY ComponentsAssumption, Execution!PInvInit DEF Init
<1>2. (focus = "execution" => Execution!PInv) /\ [Next]_vars
        => (focus = "execution" => Execution!PInv)'
  BY Moves, Execution!PInvNext
<1> QED
  BY <1>1, <1>2, PTL DEF Spec

\* A Task gets another attempt only when its earlier ones can no longer be queued, or had a
\* receipt, be it of another prompt.
THEOREM NeverReplayedHere == Spec => []NeverReplayed
<1>1. (focus = "execution" => Execution!PInv) => NeverReplayed
  BY Execution!LatestMayBeQueued DEF NeverReplayed, Execution!PInv
<1> QED
  BY <1>1, ExecutionAlways, PTL

\* An attempt whose own call the observer has seen gets its own receipt.  Before that call
\* has come, it may accept that of another prompt.
THEOREM ReceiptIsOwnHere == Spec => ReceiptIsOwn
<1>1. (focus = "execution" => Execution!PInv) /\ [Next]_vars =>
        \A a \in Execution!Attempts :
          xPrompt'[a] # xPrompt[a] /\ Execution!Contains(xCalls, a) => xPrompt'[a] = a
  BY Moves, Execution!OwnReceipt DEF executionVars
<1> QED
  BY <1>1, ExecutionAlways, PTL DEF Spec, ReceiptIsOwn, Execution!ReceiptIsOwn

-----------------------------------------------------------------------------
(* The Mask coordinator *)

LEMMA MaskAssumption ==
  /\ MaxCalls \in Nat
  /\ SelectionKeys \cap LayerKeys = {} /\ PlainKeys \cap (SelectionKeys \cup LayerKeys) = {}
  /\ None \notin SelectionKeys \cup LayerKeys \cup PlainKeys
  /\ Mask!Calls \cap (SelectionKeys \cup {None}) = {}
  BY ComponentsAssumption DEF Mask!Calls

USE MaskAssumption

\* A ready Edit Region is the one of the owned Mask, or that Mask is on its way out.
ReadyIsOwned ==
  mState.kind = "ready" =>
    /\ mState.mask \in Mask!Masks
    /\ \/ mState.key = mCurrentKey /\ mState.mask = mOwnedAsset
       \/ \E c \in Mask!Calls : mPc[c] = "releasing" /\ mReleasing[c] = mState.mask
       \/ mState.mask \in mLost

\* Every call takes the next generation, and none will set a state that is ready.
Numbered == mGeneration = mCalls
NeverReady == \A c \in Mask!Calls : mNext[c].kind # "ready"

MaskInv == Mask!TypeOK /\ Numbered /\ NeverReady /\ ReadyIsOwned /\ Mask!DraftMaskAccounted

\* The states that Bound and Plain make.
LEMMA StatesAre ==
  /\ \A kind \in Mask!Kinds, k \in Mask!Keys \cup {None}, m \in Mask!Masks \cup {None} :
       /\ Mask!Bound(kind, k, m) \in Mask!States
       /\ Mask!Bound(kind, k, m).kind = kind
       /\ Mask!Bound(kind, k, m).key = k /\ Mask!Bound(kind, k, m).mask = m
  /\ \A kind \in Mask!Kinds : Mask!Plain(kind) \in Mask!States /\ Mask!Plain(kind).kind = kind
  BY DEF Mask!States, Mask!Bound, Mask!Plain

LEMMA MaskInit ==
  ASSUME Mask!Init
  PROVE  MaskInv
<1>1. Mask!Plain("disabled") \in Mask!States /\ Mask!Plain("disabled").kind = "disabled"
  BY StatesAre DEF Mask!Kinds, Mask!Unbound
<1>2. Mask!TypeOK
  BY <1>1 DEF Mask!Init, Mask!TypeOK, Mask!Masks, Mask!Calls, Mask!Keys
<1> QED
  BY <1>1, <1>2 DEF Mask!Init, MaskInv, Numbered, NeverReady, ReadyIsOwned,
     Mask!DraftMaskAccounted

LEMMA Places ==
  /\ Mask!Keys \cap {None} = {} /\ Mask!Masks \cap {None} = {}
  /\ SelectionKeys \subseteq Mask!Keys /\ LayerKeys \subseteq Mask!Keys
  /\ PlainKeys \subseteq Mask!Keys
  /\ SelectionKeys \subseteq Mask!Masks /\ Mask!Calls \subseteq Mask!Masks
  /\ Mask!Calls \cap SelectionKeys = {}
  BY DEF Mask!Keys, Mask!Masks

\* After its invalidation a call makes ready at most the selection it was called for.
LEMMA ProceedsState ==
  ASSUME NEW c \in Mask!Calls, NEW k \in Mask!Keys \cup {None},
         NEW target \in Mask!States, target.kind # "ready", NEW current,
         NEW owned \in Mask!Masks \cup {None}, NEW control \in Mask!Calls \cup {None},
         Mask!Proceeds(c, k, target, current, owned, control)
  PROVE  /\ mState' \in Mask!States /\ mOwnedAsset' \in Mask!Masks \cup {None}
         /\ mController' \in Mask!Calls \cup {None}
         /\ mState'.kind = "ready" => current /\ mState'.key = k
              /\ mState'.mask = mOwnedAsset' /\ mOwnedAsset' \in Mask!Masks
         /\ mOwnedAsset' = owned \/ {owned} \cap Mask!Calls \subseteq mLost'
         /\ \E m \in SUBSET {owned} : mLost' = mLost \cup (m \cap Mask!Calls)
         /\ \E place \in {"reading", "done"} : mPc' = [mPc EXCEPT ![c] = place]
<1>1. k \in SelectionKeys =>
        /\ Mask!Source(k) = Mask!Bound("ready", k, k) /\ Mask!Source(k) \in Mask!States
        /\ Mask!Source(k).kind = "ready" /\ Mask!Source(k).key = k /\ Mask!Source(k).mask = k
  BY StatesAre, Places DEF Mask!Source, Mask!Kinds
<1>2. k \in PlainKeys => Mask!Source(k) \in Mask!States /\ Mask!Source(k).kind = "none"
  BY StatesAre, Places DEF Mask!Source, Mask!Kinds, Mask!Unbound
<1>3. /\ mState' \in Mask!States
      /\ mState'.kind = "ready" => current /\ k \in SelectionKeys /\ mState'.key = k
           /\ mState'.mask = k
  BY <1>1, <1>2 DEF Mask!Proceeds
<1>4. mOwnedAsset' = IF k \in SelectionKeys THEN k ELSE owned
  BY DEF Mask!Proceeds
<1>5. mOwnedAsset' = owned \/ {owned} \cap Mask!Calls \subseteq mLost'
  BY DEF Mask!Proceeds
<1>6. \E m \in SUBSET {owned} : mLost' = mLost \cup (m \cap Mask!Calls)
  <2>1. CASE k \in SelectionKeys
    BY <2>1 DEF Mask!Proceeds
  <2>2. CASE k \notin SelectionKeys
    <3>1. mLost' = mLost \cup ({} \cap Mask!Calls)
      BY <2>2 DEF Mask!Proceeds
    <3> QED
      BY <3>1
  <2> QED
    BY <2>1, <2>2
<1>7. \E place \in {"reading", "done"} : mPc' = [mPc EXCEPT ![c] = place]
  BY DEF Mask!Proceeds, Mask!Goes
<1>8. mController' \in Mask!Calls \cup {None}
  BY DEF Mask!Proceeds
<1> QED
  BY <1>3, <1>4, <1>5, <1>6, <1>7, <1>8, Places

\* A call of reconcile, as far as its first await.
Called(c, k, target) ==
  /\ c \in Mask!Calls /\ c = mCalls + 1 /\ mCalls' = c /\ mGeneration' = mGeneration + 1
  /\ k \in Mask!Keys \cup {None} /\ target \in Mask!States /\ target.kind # "ready"
  /\ Mask!Invalidate(c, k, target)

LEMMA ReconcilesCalls ==
  ASSUME Mask!TypeOK, mCalls < MaxCalls, NEW input \in Mask!Inputs,
         Mask!Reconciles(mCalls + 1, input)
  PROVE  \E k, target : Called(mCalls + 1, k, target)
<1>1. mCalls + 1 \in Mask!Calls
  BY DEF Mask!TypeOK, Mask!Calls
<1>2. CASE input \in Mask!Unbound /\ Mask!Invalidate(mCalls + 1, None, Mask!Plain(input))
  <2>1. Mask!Plain(input) \in Mask!States /\ Mask!Plain(input).kind # "ready"
    BY <1>2, StatesAre DEF Mask!Kinds, Mask!Unbound
  <2> QED
    BY <1>1, <1>2, <2>1 DEF Called, Mask!Invalidate
<1>3. CASE input \in Mask!Keys
             /\ Mask!Invalidate(mCalls + 1, input, Mask!Bound("loading", input, None))
  <2>1. Mask!Bound("loading", input, None) \in Mask!States
          /\ Mask!Bound("loading", input, None).kind # "ready"
    BY <1>3, StatesAre DEF Mask!Kinds
  <2> QED
    BY <1>1, <1>3, <2>1 DEF Called, Mask!Invalidate
<1> QED
  BY <1>2, <1>3 DEF Mask!Reconciles

\* reconcile is called: it invalidates the draft.
LEMMA CalledKeeps ==
  ASSUME MaskInv, NEW c, NEW k, NEW target, Called(c, k, target), mTaskMasks' \subseteq Mask!Masks
  PROVE  MaskInv'
<1> USE DEF MaskInv
<1>1. mPc[c] = "idle" /\ \A d \in Mask!Calls : d # c => (d > mCalls <=> d > c)
  BY DEF Mask!TypeOK, Called, Mask!Calls
<1>2. CASE mOwnedAsset = None
  <2>1. Mask!Proceeds(c, k, target, TRUE, None, None)
    BY <1>2 DEF Called, Mask!Invalidate
  <2>2. /\ mState' \in Mask!States /\ mOwnedAsset' \in Mask!Masks \cup {None}
        /\ mController' \in Mask!Calls \cup {None}
        /\ mState'.kind = "ready" =>
             mState'.key = k /\ mState'.mask = mOwnedAsset' /\ mOwnedAsset' \in Mask!Masks
        /\ \E m \in SUBSET {None} : mLost' = mLost \cup (m \cap Mask!Calls)
        /\ \E place \in {"reading", "done"} : mPc' = [mPc EXCEPT ![c] = place]
    <3>1. /\ c \in Mask!Calls /\ k \in Mask!Keys \cup {None} /\ target \in Mask!States
               /\ target.kind # "ready"
          /\ None \in Mask!Masks \cup {None} /\ None \in Mask!Calls \cup {None}
      BY DEF Called
    <3>2. PICK current : current /\ Mask!Proceeds(c, k, target, current, None, None)
      BY <2>1
    <3> QED
      BY <3>1, <3>2, ProceedsState, ZenonT(40)
  <2>3. mLost' = mLost
    BY <2>2
  <2>4. Mask!TypeOK'
    BY <1>1, <2>2, <2>3 DEF Mask!TypeOK, Called, Mask!Invalidate, Numbered, Mask!Calls
  <2>5. ReadyIsOwned'
    BY <2>2 DEF ReadyIsOwned, Called, Mask!Invalidate
  <2>6. Mask!DraftMaskAccounted'
    BY <1>1, <1>2, <2>2, <2>3 DEF Mask!DraftMaskAccounted, Called, Mask!Invalidate, Mask!TypeOK
  <2> QED
    BY <2>4, <2>5, <2>6 DEF Mask!TypeOK, Numbered, NeverReady, Called, Mask!Invalidate
<1>3. CASE mOwnedAsset # None
  <2>1. /\ mOwnedAsset' = None /\ mController' = None /\ mPc' = [mPc EXCEPT ![c] = "releasing"]
        /\ UNCHANGED <<mState, mLost, mStored>>
             /\ mReleasing' = [mReleasing EXCEPT ![c] = mOwnedAsset]
    BY <1>3 DEF Called, Mask!Invalidate, Mask!Goes
  <2>2. Mask!TypeOK'
    BY <1>1, <2>1 DEF Mask!TypeOK, Called, Mask!Invalidate, Numbered, Mask!Calls
  <2>3. /\ mPc'[c] = "releasing" /\ mReleasing'[c] = mOwnedAsset
        /\ \A d \in Mask!Calls : d # c => mPc'[d] = mPc[d] /\ mReleasing'[d] = mReleasing[d]
    BY <2>1 DEF Mask!TypeOK, Called
  <2>4. ReadyIsOwned'
    BY <1>1, <2>1, <2>3 DEF ReadyIsOwned, Called
  <2>5. Mask!DraftMaskAccounted'
    BY <1>1, <2>1, <2>3 DEF Mask!DraftMaskAccounted, Called
  <2> QED
    BY <2>2, <2>4, <2>5 DEF Mask!TypeOK, Numbered, NeverReady, Called, Mask!Invalidate
<1> QED
  BY <1>2, <1>3

\* A release has ended, and with it the invalidation that waited for it.
LEMMA ReleasedKeeps ==
  ASSUME MaskInv, NEW c \in Mask!Calls, Mask!Released(c)
  PROVE  MaskInv'
<1> USE DEF MaskInv
<1>1. Mask!Proceeds(c, mKey[c], mNext[c], Mask!Current(c), mOwnedAsset, mController)
  BY DEF Mask!Released
<1>2. /\ mState' \in Mask!States /\ mOwnedAsset' \in Mask!Masks \cup {None}
      /\ mController' \in Mask!Calls \cup {None}
      /\ mState'.kind = "ready" =>
           Mask!Current(c) /\ mState'.key = mKey[c] /\ mState'.mask = mOwnedAsset'
             /\ mOwnedAsset' \in Mask!Masks
      /\ mOwnedAsset' = mOwnedAsset \/ {mOwnedAsset} \cap Mask!Calls \subseteq mLost'
      /\ \E m \in SUBSET {mOwnedAsset} : mLost' = mLost \cup (m \cap Mask!Calls)
      /\ \E place \in {"reading", "done"} : mPc' = [mPc EXCEPT ![c] = place]
  BY <1>1, ProceedsState DEF Mask!TypeOK, NeverReady
<1>3. Mask!TypeOK'
  BY <1>2, Places DEF Mask!TypeOK, Mask!Released
<1>4. ReadyIsOwned'
  BY <1>2 DEF ReadyIsOwned, Mask!Released, Mask!Current
<1>5. Mask!DraftMaskAccounted'
  BY <1>2 DEF Mask!DraftMaskAccounted, Mask!Released, Mask!TypeOK
<1> QED
  BY <1>3, <1>4, <1>5 DEF Numbered, NeverReady, Mask!Released

\* The host answers the read of a Mask.
LEMMA MaskReadKeeps ==
  ASSUME MaskInv, NEW c \in Mask!Calls, Mask!MaskRead(c)
  PROVE  MaskInv'
<1> USE DEF MaskInv
<1>1. CASE Mask!Fenced(c)
  BY <1>1, Places DEF Mask!MaskRead, Mask!Goes, Mask!TypeOK, Numbered, NeverReady, ReadyIsOwned,
     Mask!DraftMaskAccounted
<1>2. CASE ~Mask!Fenced(c)
  <2>1. /\ mOwnedAsset' = c /\ mKey[c] = mCurrentKey
             /\ mLost' = mLost \cup ({mOwnedAsset} \cap Mask!Calls)
        /\ mState' = Mask!Bound("ready", mKey[c], c) /\ mPc' = [mPc EXCEPT ![c] = "done"]
        /\ mStored' = mStored \cup {c} /\ mReleasing' = mReleasing
    BY <1>2 DEF Mask!MaskRead, Mask!Fenced, Mask!Current, Mask!Goes
  <2>2. /\ mState' \in Mask!States /\ mState'.kind = "ready" /\ mState'.key = mKey[c]
             /\ mState'.mask = c
        /\ c \in Mask!Masks
    BY <2>1, StatesAre, Places DEF Mask!TypeOK, Mask!Kinds
  <2>3. Mask!TypeOK'
    BY <2>1, <2>2, Places DEF Mask!TypeOK, Mask!MaskRead
  <2>4. ReadyIsOwned'
    BY <2>1, <2>2 DEF ReadyIsOwned, Mask!MaskRead
  <2>5. Mask!DraftMaskAccounted'
    BY <2>1 DEF Mask!DraftMaskAccounted, Mask!MaskRead, Mask!TypeOK
  <2> QED
    BY <2>3, <2>4, <2>5 DEF Numbered, NeverReady, Mask!MaskRead
<1> QED
  BY <1>1, <1>2

LEMMA NothingReadKeeps ==
  ASSUME MaskInv, NEW c \in Mask!Calls, NEW kind \in {"none", "error"}, Mask!NothingRead(c, kind)
  PROVE  MaskInv'
<1> USE DEF MaskInv
<1>1. Mask!Bound(kind, mKey[c], None) \in Mask!States
        /\ Mask!Bound(kind, mKey[c], None).kind # "ready"
  <2>1. kind \in Mask!Kinds /\ kind # "ready" /\ mKey[c] \in Mask!Keys \cup {None}
    BY DEF Mask!TypeOK, Mask!Kinds, Mask!Unbound
  <2> QED
    BY <2>1, StatesAre
<1>2. mState' = mState \/ mState' = Mask!Bound(kind, mKey[c], None)
  BY DEF Mask!NothingRead
<1>3. mState' \in Mask!States /\ (mState'.kind = "ready" => mState' = mState)
  BY <1>1, <1>2 DEF Mask!TypeOK
<1> HIDE DEF MaskInv
<1> QED
  BY <1>3 DEF MaskInv, Mask!NothingRead, Mask!Goes, Mask!TypeOK, Numbered, NeverReady,
     ReadyIsOwned, Mask!DraftMaskAccounted

LEMMA ReleaseEndsKeeps ==
  ASSUME MaskInv, NEW c \in Mask!Calls, Mask!ReleaseFails(c) \/ Mask!Dropped(c)
  PROVE  MaskInv'
  BY Places DEF MaskInv, Mask!ReleaseFails, Mask!Dropped, Mask!Goes, Mask!TypeOK, Numbered,
     NeverReady, ReadyIsOwned, Mask!DraftMaskAccounted

LEMMA MaskNext ==
  ASSUME MaskInv, [Mask!Next]_(Mask!vars)
  PROVE  MaskInv'
<1>1. CASE UNCHANGED Mask!vars
  BY <1>1 DEF Mask!vars, Mask!local, MaskInv, Mask!TypeOK, Numbered, NeverReady, ReadyIsOwned,
     Mask!DraftMaskAccounted
<1>2. ASSUME NEW input \in Mask!Inputs, Mask!Reconcile(input)
      PROVE  MaskInv'
  BY <1>2, ReconcilesCalls, CalledKeeps DEF Mask!Reconcile, MaskInv, Mask!TypeOK
<1>3. CASE Mask!Submit
  <2>1. mTaskMasks' \subseteq Mask!Masks
    BY <1>3 DEF Mask!Submit, MaskInv, Mask!TypeOK, ReadyIsOwned
  <2>2. "no-primary" \in Mask!Inputs
    BY DEF Mask!Inputs, Mask!Unbound
  <2> QED
    BY <1>3, <2>1, <2>2, ReconcilesCalls, CalledKeeps DEF Mask!Submit, MaskInv
<1>4. ASSUME NEW c \in Mask!Calls, Mask!Steps(c)
      PROVE  MaskInv'
  BY <1>4, ReleasedKeeps, MaskReadKeeps, NothingReadKeeps, ReleaseEndsKeeps DEF Mask!Steps
<1> QED
  BY <1>1, <1>2, <1>3, <1>4 DEF Mask!Next

LEMMA MaskImplied == MaskInv => Mask!TypeOK /\ Mask!DraftMaskAccounted /\ Mask!ReadyIsCurrent
  BY DEF MaskInv, ReadyIsOwned, Mask!ReadyIsCurrent

LEMMA MaskAlways == Spec => [](focus = "mask" => MaskInv)
<1>1. Init => (focus = "mask" => MaskInv)
  BY MaskInit DEF Init
<1>2. (focus = "mask" => MaskInv) /\ [Next]_vars => (focus = "mask" => MaskInv)'
  BY Moves, MaskNext
<1> QED
  BY <1>1, <1>2, PTL DEF Spec

\* Every draft Mask in the store is owned, being released or known to be lost, however
\* many calls of reconcile overlap.
THEOREM DraftMaskAccountedHere == Spec => []DraftMaskAccounted
<1>1. (focus = "mask" => MaskInv) => DraftMaskAccounted
  BY MaskImplied DEF DraftMaskAccounted
<1> QED
  BY <1>1, MaskAlways, PTL

\* A ready Edit Region is the one of the primary, or its Mask is on its way out.
THEOREM ReadyIsCurrentHere == Spec => []ReadyIsCurrent
<1>1. (focus = "mask" => MaskInv) => ReadyIsCurrent
  BY MaskImplied DEF ReadyIsCurrent
<1> QED
  BY <1>1, MaskAlways, PTL

HIDE MaskAssumption

-----------------------------------------------------------------------------
(* Retention *)

LEMMA RetentionAlways == Spec => [](focus = "retention" => Retention!IInv)
<1>1. Retention!Given
  BY ComponentsAssumption DEF Retention!Given, Retention!Range, Range, Retention!IsInjective,
     IsInjective
<1>2. Init => (focus = "retention" => Retention!IInv)
  BY <1>1, Retention!InitKeeps DEF Init
<1>3. (focus = "retention" => Retention!IInv) /\ [Next]_vars
        => (focus = "retention" => Retention!IInv)'
  BY Moves, Retention!NextKeeps
<1> QED
  BY <1>2, <1>3, PTL DEF Spec

\* A stored asset is named by a record, unless its record was rewritten between a listing and
\* the write or delete based on it: for any Tasks, Masks and limits.
THEOREM LastReferenceKeptHere == Spec => []LastReferenceKept
<1>1. (focus = "retention" => Retention!IInv) => LastReferenceKept
  BY Retention!Implied DEF LastReferenceKept
<1> QED
  BY <1>1, RetentionAlways, PTL

\* A sweep deletes no asset of a Task that was running when it was listed and is running now.
THEOREM RunningAssetsKeptHere == Spec => RunningAssetsKept
<1>1. (focus = "retention" => Retention!IInv) /\ [Next]_vars =>
        \A r \in Retention!With(rListed, "running") :
          r \in Retention!Range(rHistory) =>
            Retention!RefsOf(r) \cap rStored \subseteq rStored'
  BY Moves, Retention!RunningKept DEF retentionVars
<1> QED
  BY <1>1, RetentionAlways, PTL DEF Spec, RunningAssetsKept, Retention!RunningAssetsKept

-----------------------------------------------------------------------------
(* The ComfyUI state file.  The comparison and the move of a write are four steps apart, *)
(* and loads run beside the writes: the argument is that no other write is under way in   *)
(* between, and that a load can only delete the staging file.                             *)

FileTyped ==
  /\ MaxOps \in Nat
  /\ fOps \in Seq(File!Requests) /\ Len(fOps) <= MaxOps
  /\ fPc \in [File!Ops -> File!Places \cup File!Results]

Replacing == {"creating", "writing", "moving", "tidying"}

\* Only writes replace the file, and what was begun was called.
Phases ==
  \A n \in File!Ops :
    /\ n > Len(fOps) => fPc[n] = "idle"
    /\ fPc[n] \in Replacing => File!IsWrite(n)

\* Whatever has left the lane finds every write before it settled.
Lane ==
  \A m, n \in File!Ops :
    m < n /\ fPc[n] \in File!Places \ {"idle", "waiting"} /\ File!IsWrite(m) => File!Settled(m)

\* A write about to move its staging file still has its own, or none.
OwnStaging ==
  \A n \in File!Ops : fPc[n] = "moving" => fStaging \in {File!NoFile, fOps[n].next}

\* From its comparison to its move a compare-and-save replaces what it expected.
Expected ==
  \A n \in File!Ops :
    fPc[n] \in {"creating", "writing", "moving"} /\ fOps[n].kind = "cas" =>
      fOps[n].expected \in {fFile, None}

\* A write that is about to create its staging file finds none.
NoLeftover ==
  \A n \in File!Ops :
    fPc[n] = "creating" \/ (fPc[n] = "reading" /\ File!IsWrite(n)) => fStaging = File!NoFile

FileInv == FileTyped /\ Phases /\ Lane /\ OwnStaging /\ Expected /\ NoLeftover

-----------------------------------------------------------------------------
\* A step of an operation moves that operation alone.
LEMMA OneMoves ==
  ASSUME FileTyped, NEW n \in DOMAIN fOps, File!Steps(n)
  PROVE  /\ n \in File!Ops /\ n \in 1 .. Len(fOps) /\ n \in Nat
         /\ fPc' \in [File!Ops -> File!Places \cup File!Results]
         /\ \A m \in File!Ops : m # n => fPc'[m] = fPc[m]
         /\ fOps' = fOps
<1>1. n \in File!Ops /\ n \in 1 .. Len(fOps) /\ n \in Nat
  BY LenProperties DEF FileTyped, File!Ops
<1>2. fOps' = fOps
  BY DEF File!Steps, File!Begin, File!Cleaned, File!Read, File!Created, File!Written, File!Moved,
     File!Tidied, File!Abort
<1>3. PICK place \in File!Places \cup File!Results :
        fPc' = fPc \/ fPc' = [fPc EXCEPT ![n] = place]
  BY DEF File!Steps, File!Begin, File!Cleaned, File!Read, File!Created, File!Written, File!Moved,
     File!Tidied, File!Abort, File!Moves, File!Goes, File!Places, File!Results
<1> QED
  BY <1>1, <1>2, <1>3 DEF FileTyped

\* Two writes are never under way at once.
LEMMA WritesApart ==
  ASSUME FileTyped, Phases, Lane, NEW m \in File!Ops, NEW n \in File!Ops,
         fPc[m] \in Replacing, fPc[n] \in Replacing
  PROVE  m = n
<1>1. m < n \/ n < m \/ m = n
  BY DEF FileTyped, File!Ops
<1>2. ~File!Settled(m) /\ ~File!Settled(n)
  BY DEF File!Settled, File!Results, Replacing
<1> QED
  BY <1>1, <1>2 DEF Phases, Lane, Replacing, File!Places

LEMMA CallKeeps ==
  ASSUME FileInv, NEW request \in File!Requests, File!Call(request)
  PROVE  FileInv'
<1>1. /\ Len(fOps) \in Nat /\ Len(fOps) + 1 \in File!Ops
      /\ fOps' \in Seq(File!Requests) /\ Len(fOps') = Len(fOps) + 1
      /\ \A n \in 1 .. Len(fOps) : fOps'[n] = fOps[n]
  BY AppendProperties, LenProperties DEF FileInv, FileTyped, File!Call, File!Ops
<1>2. /\ fPc' \in [File!Ops -> File!Places \cup File!Results] /\ fPc'[Len(fOps) + 1] = "waiting"
      /\ \A n \in File!Ops : n # Len(fOps) + 1 => fPc'[n] = fPc[n]
  BY <1>1 DEF FileInv, FileTyped, File!Call, File!Goes, File!Places
<1>3. \A n \in File!Ops :
        n \in 1 .. Len(fOps) \/ n = Len(fOps) + 1 \/ (n > Len(fOps) + 1 /\ fPc[n] = "idle")
  BY <1>1 DEF FileInv, Phases, File!Ops
<1>4. fFile' = fFile /\ fStaging' = fStaging
  BY DEF File!Call
<1>5. FileTyped'
  BY <1>1, <1>2 DEF FileInv, FileTyped, File!Call, File!Ops
<1>6. Phases' /\ OwnStaging' /\ Expected' /\ NoLeftover'
  BY <1>1, <1>2, <1>3, <1>4 DEF FileInv, Phases, OwnStaging, Expected, NoLeftover, Replacing,
     File!IsWrite
<1>7. Lane'
  <2> SUFFICES ASSUME NEW m \in File!Ops, NEW n \in File!Ops, m < n,
                      fPc'[n] \in File!Places \ {"idle", "waiting"}, File!IsWrite(m)'
               PROVE  File!Settled(m)'
    BY DEF Lane
  <2>1. n \in 1 .. Len(fOps) /\ fPc'[n] = fPc[n]
    BY <1>1, <1>2, <1>3
  <2>2. m \in 1 .. Len(fOps) /\ fPc'[m] = fPc[m]
    BY <1>1, <1>2, <2>1 DEF File!Ops
  <2> QED
    BY <1>1, <2>1, <2>2 DEF FileInv, Lane, File!IsWrite, File!Settled
<1> QED
  BY <1>5, <1>6, <1>7 DEF FileInv

LEMMA CrashKeeps ==
  ASSUME FileInv, File!Crash
  PROVE  FileInv'
<1>1. UNCHANGED <<fFile, fStaging, fOps>>
  BY DEF File!Crash
<1>2. /\ fPc' \in [File!Ops -> File!Places \cup File!Results]
      /\ \A n \in File!Ops :
           (fPc'[n] = fPc[n] /\ (n > Len(fOps) \/ File!Settled(n))) \/ fPc'[n] = "failed"
  BY DEF File!Crash, FileInv, FileTyped, File!Results
<1>3. \A n \in File!Ops : fPc'[n] \notin File!Places \ {"idle"}
  BY <1>2 DEF FileInv, Phases, File!Settled, File!Places, File!Results
<1> QED
  BY <1>1, <1>2, <1>3 DEF File!Crash, FileInv, FileTyped, Phases, Lane, OwnStaging, Expected,
     NoLeftover, Replacing, File!Places, File!IsWrite

LEMMA StepsKeep ==
  ASSUME FileInv, NEW n \in DOMAIN fOps, File!Steps(n)
  PROVE  FileInv'
<1> USE DEF Replacing
<1>1. /\ n \in File!Ops /\ n \in 1 .. Len(fOps) /\ n \in Nat
      /\ fPc' \in [File!Ops -> File!Places \cup File!Results]
      /\ \A m \in File!Ops : m # n => fPc'[m] = fPc[m]
      /\ fOps' = fOps
  BY OneMoves DEF FileInv
<1>2. FileTyped'
  BY <1>1 DEF FileInv, FileTyped
<1>3. Phases'
  <2>1. fPc'[n] \in Replacing => File!IsWrite(n)
    BY <1>1 DEF FileInv, FileTyped, Phases, File!Steps, File!Begin, File!Cleaned, File!Read,
       File!Created, File!Written, File!Moved, File!Tidied, File!Abort, File!Moves, File!Goes,
       File!IsWrite
  <2>2. ~(n > Len(fOps))
    BY <1>1 DEF FileInv, FileTyped
  <2> QED
    BY <1>1, <2>1, <2>2 DEF FileInv, Phases, File!IsWrite
<1>4. Lane'
  <2> SUFFICES ASSUME NEW k \in File!Ops, NEW m \in File!Ops, k < m,
                      fPc'[m] \in File!Places \ {"idle", "waiting"}, File!IsWrite(k)
               PROVE  File!Settled(k)'
    BY <1>1 DEF Lane, File!IsWrite
  <2>1. File!Settled(k)
    <3>1. CASE File!Begin(n) /\ m = n
      BY <3>1 DEF File!Begin, File!LaneFree, File!Ops
    <3>2. CASE ~(File!Begin(n) /\ m = n)
      <4>1. fPc[m] \in File!Places \ {"idle", "waiting"}
        BY <1>1, <3>2 DEF FileInv, FileTyped, File!Steps, File!Begin, File!Cleaned, File!Read,
           File!Created, File!Written, File!Moved, File!Tidied, File!Abort, File!Moves, File!Goes,
           File!Places
      <4> QED
        BY <4>1 DEF FileInv, Lane
    <3> QED
      BY <3>1, <3>2
  <2>2. k = n => fPc'[n] = fPc[n]
    BY <2>1 DEF File!Settled, File!Results, File!Steps, File!Begin, File!Cleaned, File!Read,
       File!Created, File!Written, File!Moved, File!Tidied, File!Abort, File!Moves
  <2> QED
    BY <1>1, <2>1, <2>2 DEF File!Settled
<1>5. OwnStaging'
  <2> SUFFICES ASSUME NEW m \in File!Ops, fPc'[m] = "moving"
               PROVE  fStaging' \in {File!NoFile, fOps[m].next}
    BY <1>1 DEF OwnStaging
  <2>1. CASE m = n
    <3>1. CASE File!Written(n)
      BY <1>1, <2>1, <3>1 DEF FileInv, FileTyped, File!Written, File!Goes
    <3>2. CASE ~File!Written(n)
      BY <1>1, <2>1, <3>2 DEF FileInv, FileTyped, OwnStaging, File!Steps, File!Begin,
         File!Cleaned, File!Read, File!Created, File!Moved, File!Tidied, File!Abort, File!Moves,
         File!Goes
    <3> QED
      BY <3>1, <3>2
  <2>2. CASE m # n
    <3>1. fPc[m] = "moving" /\ fPc[n] \notin Replacing
      BY <1>1, <2>2, WritesApart DEF FileInv
    <3>2. fStaging' \in {fStaging, File!NoFile}
      BY <3>1 DEF File!Steps, File!Begin, File!Cleaned, File!Read, File!Created, File!Written,
         File!Moved, File!Tidied, File!Abort, File!Moves
    <3> QED
      BY <3>1, <3>2 DEF FileInv, OwnStaging
  <2> QED
    BY <2>1, <2>2
<1>6. Expected'
  <2> SUFFICES ASSUME NEW m \in File!Ops, fPc'[m] \in {"creating", "writing", "moving"},
                      fOps[m].kind = "cas"
               PROVE  fOps[m].expected \in {fFile', None}
    BY <1>1 DEF Expected
  <2>1. fFile' = fFile
    <3>1. CASE ~File!Moved(n)
      BY <3>1 DEF File!Steps, File!Begin, File!Cleaned, File!Read, File!Created, File!Written,
         File!Tidied, File!Abort
    <3>2. CASE File!Moved(n)
      <4>1. fPc[n] = "moving" /\ fPc'[n] \in {"committed", "tidying"}
        BY <1>1, <3>2 DEF FileInv, FileTyped, File!Moved, File!Goes
      <4>2. m # n /\ fPc'[m] = fPc[m]
        BY <1>1, <4>1
      <4> QED
        BY <1>1, <4>1, <4>2, WritesApart DEF FileInv
    <3> QED
      BY <3>1, <3>2
  <2>2. CASE fPc[m] \in {"creating", "writing", "moving"}
    BY <2>1, <2>2 DEF FileInv, Expected
  <2>3. CASE fPc[m] \notin {"creating", "writing", "moving"}
    <3>1. m = n /\ File!Read(n)
      BY <1>1, <2>3 DEF FileInv, FileTyped, File!Steps, File!Begin, File!Cleaned, File!Created,
         File!Written, File!Moved, File!Tidied, File!Abort, File!Moves, File!Goes
    <3> QED
      BY <1>1, <2>1, <3>1 DEF FileInv, FileTyped, File!Read, File!Goes
  <2> QED
    BY <2>2, <2>3
<1>7. NoLeftover'
  <2> SUFFICES ASSUME NEW m \in File!Ops,
                      fPc'[m] = "creating" \/ (fPc'[m] = "reading" /\ File!IsWrite(m))
               PROVE  fStaging' = File!NoFile
    BY <1>1 DEF NoLeftover, File!IsWrite
  <2>1. CASE m = n
    <3>1. CASE File!Cleaned(n) \/ File!Read(n)
      BY <1>1, <2>1, <3>1 DEF FileInv, FileTyped, NoLeftover, File!Cleaned, File!Read, File!Goes,
         File!IsWrite
    <3>2. CASE ~(File!Cleaned(n) \/ File!Read(n))
      BY <1>1, <2>1, <3>2 DEF FileInv, FileTyped, NoLeftover, File!Steps, File!Begin, File!Created,
         File!Written, File!Moved, File!Tidied, File!Abort, File!Moves, File!Goes
    <3> QED
      BY <3>1, <3>2
  <2>2. CASE m # n
    <3>1. fPc'[m] = fPc[m] /\ fStaging = File!NoFile
      BY <1>1, <2>2 DEF FileInv, NoLeftover
    <3>2. ~File!Created(n)
      <4> SUFFICES ASSUME fPc[n] = "creating"
                   PROVE  FALSE
        BY DEF File!Created
      <4>1. File!IsWrite(n) /\ File!IsWrite(m)
        BY <1>1, <2>2, <3>1 DEF FileInv, Phases
      <4>2. ~File!Settled(m) /\ ~File!Settled(n)
        BY <3>1 DEF File!Settled, File!Results
      <4>3. m < n \/ n < m
        BY <1>1, <2>2 DEF FileInv, FileTyped, File!Ops
      <4>4. {fPc[m], fPc[n]} \subseteq File!Places \ {"idle", "waiting"}
        BY <3>1 DEF File!Places
      <4> QED
        BY <1>1, <4>1, <4>2, <4>3, <4>4 DEF FileInv, Lane
    <3> QED
      BY <3>1, <3>2 DEF File!Steps, File!Begin, File!Cleaned, File!Read, File!Written, File!Moved,
         File!Tidied, File!Abort
  <2> QED
    BY <2>1, <2>2
<1> QED
  BY <1>2, <1>3, <1>4, <1>5, <1>6, <1>7 DEF FileInv

LEMMA FileInit ==
  ASSUME MaxOps \in Nat, File!Init
  PROVE  FileInv
<1>1. fOps = <<>> /\ Len(fOps) = 0 /\ fOps \in Seq(File!Requests)
  BY EmptySeq DEF File!Init
<1>2. \A n \in File!Ops : fPc[n] = "idle" /\ n > 0
  BY DEF File!Init, File!Ops
<1> QED
  BY <1>1, <1>2 DEF File!Init, FileInv, FileTyped, Phases, Lane, OwnStaging, Expected, NoLeftover,
     Replacing, File!Places

LEMMA FileNext ==
  ASSUME FileInv, [File!Next]_(File!vars)
  PROVE  FileInv'
<1>1. CASE UNCHANGED File!vars
  BY <1>1 DEF File!vars, FileInv, FileTyped, Phases, Lane, OwnStaging, Expected, NoLeftover,
     File!IsWrite, File!Settled
<1> QED
  BY <1>1, CallKeeps, StepsKeep, CrashKeeps DEF File!Next

\* A step that replaces the file is the move of a write, which reports "committed", and
\* a compare-and-save moves only what it expected to replace.
LEMMA Replaces ==
  ASSUME FileInv, [File!Next]_(File!vars), fFile' # fFile
  PROVE  \E n \in File!Ops :
           /\ fPc[n] = "moving" /\ fPc'[n] = "committed" /\ fFile' = fOps[n].next
           /\ fOps[n].kind = "cas" => fOps[n].expected \in {fFile, None}
<1>1. PICK n \in DOMAIN fOps : File!Moved(n)
  BY DEF File!Next, File!Call, File!Crash, File!vars, File!Steps, File!Begin, File!Cleaned,
     File!Read, File!Created, File!Written, File!Tidied, File!Abort
<1>2. n \in File!Ops
  BY <1>1, OneMoves DEF FileInv, File!Steps
<1>3. fPc[n] = "moving" /\ fPc'[n] = "committed" /\ fFile' = fStaging /\ fStaging # File!NoFile
  BY <1>1, <1>2 DEF FileInv, FileTyped, File!Moved, File!Goes
<1> QED
  BY <1>2, <1>3 DEF FileInv, OwnStaging, Expected

\* The file, the staging file and the bookkeeping have their types.
LEMMA FileTypes ==
  ASSUME FileInv, File!TypeOK, MaxCrashes \in Nat, [File!Next]_(File!vars)
  PROVE  File!TypeOK'
<1>1. CASE UNCHANGED File!vars
  BY <1>1 DEF File!vars, File!TypeOK
<1>2. FileInv'
  BY FileNext
<1>3. ASSUME NEW request \in File!Requests, File!Call(request)
      PROVE  File!TypeOK'
  <2>1. /\ Len(fOps) \in Nat /\ Len(fOps) + 1 \in File!Ops /\ Len(fOps') = Len(fOps) + 1
        /\ DOMAIN fOps' = 1 .. Len(fOps) + 1 /\ fOps' \in Seq(File!Requests)
    BY <1>3, AppendProperties, LenProperties DEF FileInv, FileTyped, File!Call, File!Ops
  <2>2. \A n \in File!Ops : fPc'[n] = "idle" <=> n > Len(fOps')
    BY <1>3, <2>1 DEF File!Call, File!Goes, File!TypeOK, File!Ops
  <2> QED
    BY <1>2, <1>3, <2>1, <2>2 DEF File!Call, File!TypeOK, FileInv, FileTyped
<1>4. ASSUME NEW n \in DOMAIN fOps, File!Steps(n)
      PROVE  File!TypeOK'
  <2>1. /\ n \in File!Ops /\ n \in 1 .. Len(fOps) /\ fOps' = fOps
        /\ fPc' \in [File!Ops -> File!Places \cup File!Results]
        /\ \A m \in File!Ops : m # n => fPc'[m] = fPc[m]
    BY <1>4, OneMoves DEF FileInv
  <2>2. fPc'[n] # "idle" /\ fPc[n] # "idle"
    BY <1>4, <2>1 DEF FileInv, FileTyped, File!TypeOK, File!Steps, File!Begin, File!Cleaned,
       File!Read, File!Created, File!Written, File!Moved, File!Tidied, File!Abort, File!Moves,
       File!Goes
  <2>3. fOps[n].next \in File!States
    BY DEF File!TypeOK, File!Requests, File!States
  <2>4. /\ fFile' \in File!States \cup {Partial}
        /\ fStaging' \in File!States \cup {Partial, File!NoFile}
        /\ fAborted' \subseteq File!Ops /\ fCrashes' = fCrashes
    BY <1>4, <2>1, <2>3 DEF File!TypeOK, File!Steps, File!Begin, File!Cleaned, File!Read,
       File!Created, File!Written, File!Moved, File!Tidied, File!Abort
  <2> QED
    BY <2>1, <2>2, <2>4 DEF File!TypeOK
<1>5. CASE File!Crash
  <2>1. /\ UNCHANGED <<fFile, fStaging, fOps, fAborted>>
        /\ fCrashes' \in 0 .. MaxCrashes
        /\ \A n \in File!Ops : fPc'[n] = "idle" <=> fPc[n] = "idle"
    BY <1>5 DEF File!Crash, File!TypeOK
  <2> QED
    BY <1>2, <2>1 DEF File!TypeOK, FileInv, FileTyped
<1> QED
  BY <1>1, <1>3, <1>4, <1>5 DEF File!Next

LEMMA FileAlways == Spec => [](focus = "file" => FileInv /\ File!TypeOK)
<1>1. Init => (focus = "file" => FileInv /\ File!TypeOK)
  <2> SUFFICES ASSUME Init
               PROVE  FileInv /\ File!TypeOK
    OBVIOUS
  <2>1. MaxOps \in Nat /\ MaxCrashes \in Nat /\ File!Init
    BY ComponentsAssumption DEF Init
  <2>2. FileInv
    BY <2>1, FileInit
  <2>3. \A n \in File!Ops : n > 0
    BY DEF File!Ops
  <2> QED
    BY <2>1, <2>2, <2>3 DEF File!Init, File!TypeOK, FileInv, FileTyped
<1>2. (focus = "file" => FileInv /\ File!TypeOK) /\ [Next]_vars
        => (focus = "file" => FileInv /\ File!TypeOK)'
  BY ComponentsAssumption, Moves, FileNext, FileTypes
<1> QED
  BY <1>1, <1>2, PTL DEF Spec

\* The file only takes the complete next state of a write that reports "committed", a
\* compare-and-save replaces what it expected, and no write starts from a staging file left
\* behind: for any number of operations and crashes.
THEOREM CommitReplacesExpectedHere == Spec => CommitReplacesExpected
<1>1. (focus = "file" => FileInv /\ File!TypeOK) /\ [Next]_vars =>
        (/\ fFile' # fFile =>
              \E n \in File!Ops :
                /\ fPc[n] = "moving" /\ fPc'[n] = "committed" /\ fFile' = fOps[n].next
                /\ fOps[n].kind = "cas" => fOps[n].expected \in {fFile, None}
         /\ \A n \in File!Ops :
              fPc[n] = "creating" /\ fPc'[n] = "writing" => fStaging = File!NoFile)
  <2>1. FileInv /\ [File!Next]_(File!vars) =>
          \A n \in File!Ops : fPc[n] = "creating" /\ fPc'[n] = "writing" => fStaging = File!NoFile
    BY DEF FileInv, NoLeftover
  <2> QED
    BY <2>1, Moves, Replaces DEF fileVars, NoLeftover, FileInv
<1> QED
  BY <1>1, FileAlways, PTL DEF Spec, CommitReplacesExpected, File!CommitReplacesExpected

-----------------------------------------------------------------------------
(* The thumbnail store.  A slot goes from hand to hand without passing through the        *)
(* counter: the argument counts the requests that hold one.                               *)

\* The operators that ThumbnailStore takes from the library are those of the library.
LEMMA SameOperators ==
  /\ \A f : Thumbnails!Range(f) = Range(f)
  /\ \A f : Thumbnails!IsInjective(f) <=> IsInjective(f)
  /\ \A S : Thumbnails!Cardinality(S) = Cardinality(S)
  BY DEF Thumbnails!Range, Range, Thumbnails!IsInjective, IsInjective, Thumbnails!Cardinality,
     Cardinality

\* A round has distinct outputs, none of them shared with another round.
ThumbnailsGiven ==
  /\ MaxGenerations \in Nat
  /\ \A r \in Rounds : OutputsOf[r] \in Seq(Thumbnails!Outputs(r)) /\ IsInjective(OutputsOf[r])
  /\ \A r, s \in Rounds : r # s => Thumbnails!Outputs(r) \cap Thumbnails!Outputs(s) = {}

\* The requests that hold a slot.
Held == {k \in Thumbnails!Keys : tRequest[k] \in {"granted", "working"}}

\* The queue holds each request that is queued, once.
Waiting ==
  /\ tQueue \in Seq(Thumbnails!Keys) /\ IsInjective(tQueue)
  /\ \A k \in Thumbnails!Keys : k \in Range(tQueue) <=> tRequest[k] = "queued"

\* Every slot counted is held by a request, and nobody waits while one is free.
Counted ==
  /\ IsFiniteSet(Held) /\ tSlots = Cardinality(Held) /\ tSlots <= MaxGenerations
  /\ tQueue # <<>> => tSlots = MaxGenerations

\* Nothing was asked for a round that is new.
Unasked ==
  \A r \in Rounds : tRound[r] = "new" => \A k \in Thumbnails!Outputs(r) : tRequest[k] = "idle"

ThumbnailsInv ==
  /\ ThumbnailsGiven
  /\ tRound \in [Rounds -> {"new", "loading", "shown", "error", "closed"}]
  /\ tRequest \in [Thumbnails!Keys -> {"idle", "queued", "granted", "working", "made", "failed"}]
  /\ tAborted \subseteq Rounds /\ tCache \subseteq Thumbnails!Keys
  /\ Waiting /\ Counted /\ Unasked

LEMMA CountedIs == Counted => tSlots \in Nat
  BY FS_CardinalityType DEF Counted

LEMMA OutputsAre ==
  ASSUME ThumbnailsGiven, NEW r \in Rounds
  PROVE  /\ Thumbnails!Outputs(r) \subseteq Thumbnails!Keys
         /\ OutputsOf[r] \in Seq(Thumbnails!Keys)
         /\ Len(OutputsOf[r]) \in Nat /\ DOMAIN OutputsOf[r] = 1 .. Len(OutputsOf[r])
         /\ Thumbnails!Outputs(r) = {OutputsOf[r][i] : i \in 1 .. Len(OutputsOf[r])}
<1>1. Thumbnails!Outputs(r) \subseteq Thumbnails!Keys
  BY DEF Thumbnails!Keys
<1>2. OutputsOf[r] \in Seq(Thumbnails!Outputs(r))
  BY DEF ThumbnailsGiven
<1>3. OutputsOf[r] \in Seq(Thumbnails!Keys)
  BY <1>1, <1>2, SeqMonotonic
<1>4. Len(OutputsOf[r]) \in Nat /\ DOMAIN OutputsOf[r] = 1 .. Len(OutputsOf[r])
  BY <1>2, LenProperties
<1> QED
  BY <1>1, <1>3, <1>4, SameOperators DEF Thumbnails!Outputs, Range

\* A round takes the free slots, or as many as it has outputs.
LEMMA TakenIs ==
  ASSUME ThumbnailsGiven, NEW r \in Rounds, Counted
  PROVE  /\ Thumbnails!Taken(r) \in Nat /\ tSlots + Thumbnails!Taken(r) <= MaxGenerations
              /\ Thumbnails!Taken(r) <= Len(OutputsOf[r])
         /\ Thumbnails!Taken(r) = Len(OutputsOf[r])
              \/ tSlots + Thumbnails!Taken(r) = MaxGenerations
<1>1. /\ MaxGenerations - tSlots \in Nat /\ tSlots \in Nat /\ Len(OutputsOf[r]) \in Nat
      /\ MaxGenerations \in Nat
  BY CountedIs, OutputsAre DEF Counted, ThumbnailsGiven
<1>2. \A a, b \in Nat : Thumbnails!Min({a, b}) \in {a, b} /\ Thumbnails!Min({a, b}) <= a
        /\ Thumbnails!Min({a, b}) <= b
  <2> TAKE a, b \in Nat
  <2>1. CASE a <= b
    BY <2>1 DEF Thumbnails!Min
  <2>2. CASE b <= a
    BY <2>2 DEF Thumbnails!Min
  <2> QED
    BY <2>1, <2>2
<1>3. /\ Thumbnails!Taken(r) \in {MaxGenerations - tSlots, Len(OutputsOf[r])}
      /\ Thumbnails!Taken(r) <= MaxGenerations - tSlots
           /\ Thumbnails!Taken(r) <= Len(OutputsOf[r])
  BY <1>1, <1>2 DEF Thumbnails!Taken
<1> QED
  BY <1>1, <1>3

\* The first n elements of a sequence without duplicates are n, and the others the rest.
LEMMA SplitIs ==
  ASSUME NEW S, NEW s \in Seq(S), IsInjective(s), NEW n \in 0 .. Len(s)
  PROVE  LET before == SubSeq(s, 1, n)
             after == SubSeq(s, n + 1, Len(s))
         IN  /\ IsFiniteSet(Range(before)) /\ Cardinality(Range(before)) = n
             /\ after \in Seq(S) /\ IsInjective(after)
             /\ \A x : x \in Range(s) <=> x \in Range(before) \/ x \in Range(after)
             /\ Range(before) \cap Range(after) = {}
             /\ n = Len(s) => after = <<>>
<1> DEFINE before == SubSeq(s, 1, n)
           after == SubSeq(s, n + 1, Len(s))
<1>1. /\ Len(s) \in Nat /\ DOMAIN s = 1 .. Len(s) /\ n \in Nat /\ n <= Len(s)
      /\ \A i \in 1 .. Len(s) : s[i] \in S
  BY LenProperties
<1>2. /\ before \in Seq(S) /\ Len(before) = n /\ \A i \in 1 .. n : before[i] = s[i]
  <2>1. 1 \in Int /\ n \in Int /\ \A i \in 1 .. n : s[i] \in S
    BY <1>1
  <2>2. /\ before \in Seq(S) /\ Len(before) = IF 1 <= n THEN n - 1 + 1 ELSE 0
        /\ \A i \in 1 .. n - 1 + 1 : before[i] = s[1 + i - 1]
    BY <2>1, SubSeqProperties
  <2> HIDE DEF before
  <2> QED
    BY <1>1, <2>2
<1>3. /\ after \in Seq(S) /\ Len(after) = Len(s) - n
      /\ \A i \in 1 .. Len(s) - n : after[i] = s[n + i]
  <2>1. n + 1 \in Int /\ Len(s) \in Int /\ \A i \in n + 1 .. Len(s) : s[i] \in S
    BY <1>1
  <2>2. /\ after \in Seq(S) /\ Len(after) = IF n + 1 <= Len(s) THEN Len(s) - (n + 1) + 1 ELSE 0
        /\ \A i \in 1 .. Len(s) - (n + 1) + 1 : after[i] = s[n + 1 + i - 1]
    BY <2>1, SubSeqProperties
  <2> HIDE DEF after
  <2>3. Len(after) = Len(s) - n
    BY <1>1, <2>2
  <2>4. ASSUME NEW i \in 1 .. Len(s) - n
        PROVE  after[i] = s[n + i]
    <3>1. i \in 1 .. Len(s) - (n + 1) + 1 /\ n + 1 + i - 1 = n + i
      BY <1>1
    <3> QED
      BY <2>2, <3>1
  <2> QED
    BY <2>2, <2>3, <2>4
<1> HIDE DEF before, after
<1>4. /\ DOMAIN before = 1 .. n /\ DOMAIN after = 1 .. Len(s) - n
  BY <1>2, <1>3, LenProperties
<1>5. /\ \A x : x \in Range(before) <=> \E i \in 1 .. n : x = s[i]
      /\ \A x : x \in Range(after) <=> \E i \in n + 1 .. Len(s) : x = s[i]
      /\ \A x : x \in Range(s) <=> \E i \in 1 .. Len(s) : x = s[i]
  <2>1. \A x : x \in Range(before) <=> \E i \in 1 .. n : x = s[i]
    BY <1>2, <1>4 DEF Range
  <2>2. \A x : x \in Range(after) => \E i \in n + 1 .. Len(s) : x = s[i]
    <3> SUFFICES ASSUME NEW x \in Range(after)
                 PROVE  \E i \in n + 1 .. Len(s) : x = s[i]
      OBVIOUS
    <3>1. PICK i \in 1 .. Len(s) - n : x = s[n + i]
      BY <1>3, <1>4 DEF Range
    <3>2. n + i \in n + 1 .. Len(s)
      BY <1>1
    <3> QED
      BY <3>1, <3>2
  <2>3. \A i \in n + 1 .. Len(s) : s[i] \in Range(after)
    <3> SUFFICES ASSUME NEW i \in n + 1 .. Len(s)
                 PROVE  s[i] \in Range(after)
      OBVIOUS
    <3>1. i - n \in 1 .. Len(s) - n /\ n + (i - n) = i
      BY <1>1
    <3> QED
      BY <1>3, <1>4, <3>1 DEF Range
  <2>4. \A x : x \in Range(s) <=> \E i \in 1 .. Len(s) : x = s[i]
    BY <1>1 DEF Range
  <2> QED
    BY <2>1, <2>2, <2>3, <2>4
<1>6. \A i, k \in 1 .. Len(s) : s[i] = s[k] => i = k
  BY <1>1 DEF IsInjective
<1>7. IsFiniteSet(Range(before)) /\ Cardinality(Range(before)) = n
  <2>1. before \in Bijection(1 .. n, Range(before))
    <3>1. before \in [1 .. n -> Range(before)]
      BY <1>2, <1>4, LenProperties DEF Range
    <3>2. \A i, k \in 1 .. n : before[i] = before[k] => i = k
      BY <1>1, <1>2, <1>6
    <3>3. \A x \in Range(before) : \E i \in 1 .. n : before[i] = x
      BY <1>4 DEF Range
    <3> QED
      BY <1>4, <3>1, <3>2, <3>3 DEF Bijection, Injection, Surjection, IsInjective
  <2>2. IsFiniteSet(1 .. n) /\ Cardinality(1 .. n) = n
    <3>1. 1 \in Int /\ n \in Int
      BY <1>1
    <3> QED
      BY <1>1, <3>1, FS_Interval
  <2>3. ExistsBijection(1 .. n, Range(before))
    BY <2>1 DEF ExistsBijection
  <2> QED
    BY <2>2, <2>3, FS_Bijection
<1>8. IsInjective(after)
  <2> SUFFICES ASSUME NEW i \in 1 .. Len(s) - n, NEW k \in 1 .. Len(s) - n, after[i] = after[k]
               PROVE  i = k
    BY <1>4 DEF IsInjective
  <2>1. n + i \in 1 .. Len(s) /\ n + k \in 1 .. Len(s) /\ s[n + i] = s[n + k]
    BY <1>1, <1>3
  <2>2. n + i = n + k
    BY <1>6, <2>1
  <2> QED
    BY <1>1, <2>2
<1>9. \A x : x \in Range(s) <=> x \in Range(before) \/ x \in Range(after)
  <2>1. \A i : i \in 1 .. Len(s) <=> i \in 1 .. n \/ i \in n + 1 .. Len(s)
    BY <1>1
  <2> QED
    BY <1>5, <2>1
<1>10. Range(before) \cap Range(after) = {}
  <2>1. \A i \in 1 .. n, k \in n + 1 .. Len(s) : i \in 1 .. Len(s) /\ k \in 1 .. Len(s) /\ i # k
    BY <1>1
  <2> QED
    BY <1>5, <1>6, <2>1
<1>11. n = Len(s) => after = <<>>
  BY <1>1, <1>3, EmptySeq
<1> QED
  BY <1>3, <1>7, <1>8, <1>9, <1>10, <1>11 DEF before, after

LEMMA ThumbnailsInit ==
  ASSUME ThumbnailsGiven, Thumbnails!Init
  PROVE  ThumbnailsInv
<1>1. Held = {} /\ Range(<<>>) = {} /\ <<>> \in Seq(Thumbnails!Keys) /\ IsInjective(<<>>)
  BY DEF Thumbnails!Init, Held, Range, IsInjective
<1>2. \A r \in Rounds : Thumbnails!Outputs(r) \subseteq Thumbnails!Keys
  BY DEF Thumbnails!Keys
<1>3. Counted
  BY <1>1, FS_EmptySet DEF Thumbnails!Init, Counted, ThumbnailsGiven
<1> QED
  BY <1>1, <1>2, <1>3 DEF Thumbnails!Init, ThumbnailsInv, Waiting, Unasked

LEMMA AskKeeps ==
  ASSUME ThumbnailsInv, NEW r \in Rounds, Thumbnails!Ask(r)
  PROVE  ThumbnailsInv'
<1> USE DEF ThumbnailsInv
<1> DEFINE out == OutputsOf[r]
           n == Thumbnails!Taken(r)
           before == SubSeq(out, 1, n)
           after == SubSeq(out, n + 1, Len(out))
<1>1. /\ Thumbnails!Outputs(r) \subseteq Thumbnails!Keys /\ out \in Seq(Thumbnails!Keys)
           /\ IsInjective(out) /\ Len(out) \in Nat
      /\ Thumbnails!Outputs(r) = Range(out)
  BY OutputsAre, SameOperators DEF ThumbnailsGiven, Thumbnails!Outputs
<1>2. /\ n \in Nat /\ tSlots + n <= MaxGenerations /\ n <= Len(out) /\ tSlots \in Nat
      /\ n = Len(out) \/ tSlots + n = MaxGenerations
      /\ n \in 0 .. Len(out)
  BY TakenIs, CountedIs, <1>1
<1> HIDE DEF n
<1>3. /\ IsFiniteSet(Range(before)) /\ Cardinality(Range(before)) = n
      /\ after \in Seq(Thumbnails!Keys) /\ IsInjective(after)
      /\ \A x : x \in Range(out) <=> x \in Range(before) \/ x \in Range(after)
      /\ Range(before) \cap Range(after) = {}
      /\ n = Len(out) => after = <<>>
  BY <1>1, <1>2, SplitIs
<1>4. /\ tRound[r] = "new" /\ tRound' = [tRound EXCEPT ![r] = "loading"]
      /\ tRequest' = [k \in Thumbnails!Keys |-> IF k \in Range(before) THEN "working"
                                    ELSE IF k \in Thumbnails!Outputs(r) THEN "queued"
                                      ELSE tRequest[k]]
      /\ tSlots' = tSlots + n /\ tQueue' = tQueue \o after /\ UNCHANGED <<tAborted, tCache>>
  BY SameOperators DEF Thumbnails!Ask, n
<1> HIDE DEF before, after, out
<1>5. \A k \in Thumbnails!Outputs(r) : tRequest[k] = "idle"
  BY <1>4 DEF Unasked
<1>6. Held' = Held \cup Range(before) /\ Held \cap Range(before) = {}
  BY <1>1, <1>3, <1>4, <1>5 DEF Held
<1>7. IsFiniteSet(Held') /\ tSlots' = Cardinality(Held')
  <2>1. IsFiniteSet(Held) /\ Cardinality(Held) = tSlots
    BY DEF Counted
  <2>2. /\ IsFiniteSet(Held \cup Range(before))
        /\ Cardinality(Held \cup Range(before)) = tSlots + n - Cardinality({})
    BY <1>3, <1>6, <2>1, FS_Union
  <2> QED
    BY <1>2, <1>4, <1>6, <2>2, FS_EmptySet
<1>8. tSlots' <= MaxGenerations
  BY <1>2, <1>4
<1>9. tQueue' # <<>> => tSlots' = MaxGenerations
  <2>1. CASE tQueue = <<>>
    <3>1. tQueue' = after
      BY <1>3, <1>4, <2>1, ConcatEmptySeq
    <3> QED
      BY <1>2, <1>3, <1>4, <3>1
  <2>2. CASE tQueue # <<>>
    <3>1. tSlots = MaxGenerations /\ MaxGenerations \in Nat
      BY <2>2 DEF Counted, ThumbnailsGiven
    <3> QED
      BY <1>2, <1>4, <3>1
  <2> QED
    BY <2>1, <2>2
<1>10. /\ tQueue' \in Seq(Thumbnails!Keys) /\ IsInjective(tQueue')
       /\ Range(tQueue') = Range(tQueue) \cup Range(after)
  <2>1. tQueue \in Seq(Thumbnails!Keys) /\ Len(tQueue) \in Nat /\ Len(after) \in Nat
        /\ DOMAIN tQueue = 1 .. Len(tQueue) /\ DOMAIN after = 1 .. Len(after)
    BY <1>3, LenProperties DEF Waiting
  <2>2. /\ tQueue' \in Seq(Thumbnails!Keys) /\ Len(tQueue') = Len(tQueue) + Len(after)
        /\ DOMAIN tQueue' = 1 .. Len(tQueue) + Len(after)
        /\ \A i \in 1 .. Len(tQueue) + Len(after) :
             tQueue'[i] = IF i <= Len(tQueue) THEN tQueue[i] ELSE after[i - Len(tQueue)]
    BY <1>3, <1>4, <2>1, ConcatProperties, LenProperties
  <2>3. \A i \in 1 .. Len(tQueue) + Len(after) :
          \/ i \in 1 .. Len(tQueue) /\ tQueue'[i] = tQueue[i]
          \/ i - Len(tQueue) \in 1 .. Len(after) /\ tQueue'[i] = after[i - Len(tQueue)]
               /\ ~(i <= Len(tQueue))
    BY <2>1, <2>2
  <2>4. \A i \in 1 .. Len(tQueue) : i \in DOMAIN tQueue' /\ tQueue'[i] = tQueue[i]
    BY <2>1, <2>2
  <2>5. \A i \in 1 .. Len(after) : Len(tQueue) + i \in DOMAIN tQueue'
          /\ tQueue'[Len(tQueue) + i] = after[i]
    BY <2>1, <2>2
  <2>6. Range(tQueue') = Range(tQueue) \cup Range(after)
    <3>1. Range(tQueue) \subseteq Range(tQueue')
      BY <2>1, <2>4 DEF Range
    <3>2. Range(after) \subseteq Range(tQueue')
      BY <2>1, <2>5 DEF Range
    <3>3. Range(tQueue') \subseteq Range(tQueue) \cup Range(after)
      BY <2>1, <2>2, <2>3 DEF Range
    <3> QED
      BY <3>1, <3>2, <3>3
  <2>7. Range(tQueue) \cap Range(after) = {}
    <3>1. \A k \in Range(after) : k \in Thumbnails!Outputs(r) /\ k \in Thumbnails!Keys
      BY <1>1, <1>3 DEF out
    <3> QED
      BY <1>5, <3>1 DEF Waiting
  <2>8. IsInjective(tQueue')
    <3> SUFFICES ASSUME NEW i \in 1 .. Len(tQueue) + Len(after),
                          NEW k \in 1 .. Len(tQueue) + Len(after),
                        tQueue'[i] = tQueue'[k]
                 PROVE  i = k
      BY <2>2 DEF IsInjective
    <3>1. CASE i \in 1 .. Len(tQueue) /\ k \in 1 .. Len(tQueue)
      BY <2>1, <2>4, <3>1 DEF Waiting, IsInjective
    <3>2. CASE i \notin 1 .. Len(tQueue) /\ k \notin 1 .. Len(tQueue)
      <4>1. i - Len(tQueue) \in 1 .. Len(after) /\ k - Len(tQueue) \in 1 .. Len(after)
            /\ after[i - Len(tQueue)] = after[k - Len(tQueue)]
        BY <2>3, <3>2
      <4>2. i - Len(tQueue) = k - Len(tQueue)
        BY <1>3, <2>1, <4>1 DEF IsInjective
      <4> QED
        BY <2>1, <4>2
    <3>3. ASSUME NEW a \in 1 .. Len(tQueue) + Len(after), NEW b \in 1 .. Len(tQueue) + Len(after),
                 a \in 1 .. Len(tQueue), b \notin 1 .. Len(tQueue)
          PROVE  tQueue'[a] # tQueue'[b]
      <4>1. tQueue'[a] \in Range(tQueue)
        BY <2>1, <2>4, <3>3 DEF Range
      <4>2. tQueue'[b] \in Range(after)
        BY <2>1, <2>3, <3>3 DEF Range
      <4> QED
        BY <2>7, <4>1, <4>2
    <3> QED
      BY <3>1, <3>2, <3>3
  <2> QED
    BY <2>2, <2>6, <2>8
<1>11. Waiting'
  <2>1. \A k \in Thumbnails!Keys : k \in Range(tQueue') <=> tRequest'[k] = "queued"
    <3> SUFFICES ASSUME NEW k \in Thumbnails!Keys
                 PROVE  k \in Range(tQueue') <=> tRequest'[k] = "queued"
      OBVIOUS
    <3>1. k \in Thumbnails!Outputs(r) <=> k \in Range(before) \/ k \in Range(after)
      BY <1>1, <1>3
    <3>2. k \in Range(tQueue) <=> tRequest[k] = "queued"
      BY DEF Waiting
    <3>3. k \in Thumbnails!Outputs(r) => tRequest[k] = "idle"
      BY <1>5
    <3>4. tRequest'[k] = IF k \in Range(before) THEN "working"
                        ELSE IF k \in Thumbnails!Outputs(r) THEN "queued" ELSE tRequest[k]
      BY <1>4
    <3>5. ~(k \in Range(before) /\ k \in Range(after))
      BY <1>3
    <3> QED
      BY <1>10, <3>1, <3>2, <3>3, <3>4, <3>5
  <2> QED
    BY <1>10, <2>1 DEF Waiting
<1>12. Unasked'
  <2> SUFFICES ASSUME NEW s \in Rounds, tRound'[s] = "new", NEW k \in Thumbnails!Outputs(s)
               PROVE  tRequest'[k] = "idle"
    BY DEF Unasked
  <2>1. s # r /\ tRound[s] = "new"
    BY <1>4
  <2>2. k \notin Thumbnails!Outputs(r) /\ k \in Thumbnails!Keys
    BY <2>1 DEF ThumbnailsGiven, Thumbnails!Keys
  <2>3. tRequest'[k] = tRequest[k]
    BY <1>1, <1>3, <1>4, <2>2
  <2> QED
    BY <2>1, <2>3 DEF Unasked
<1>13. /\ tRound' \in [Rounds -> {"new", "loading", "shown", "error", "closed"}]
       /\ tRequest' \in [Thumbnails!Keys -> {"idle", "queued", "granted", "working", "made",
            "failed"}]
  BY <1>4
<1> QED
  BY <1>4, <1>7, <1>8, <1>9, <1>11, <1>12, <1>13 DEF Counted, ThumbnailsGiven

\* A slot is given up: to the counter, or to the first waiter.
LEMMA HandsOnKeeps ==
  ASSUME ThumbnailsInv, NEW k \in Held, NEW outcome \in {"made", "failed"},
           Thumbnails!HandsOn(k, outcome),
         tRound' = tRound, tAborted' = tAborted, tCache' \subseteq Thumbnails!Keys
  PROVE  ThumbnailsInv'
<1> USE DEF ThumbnailsInv
<1>1. k \in Thumbnails!Keys /\ tRequest[k] \in {"granted", "working"} /\ tSlots \in Nat
        /\ tSlots >= 1
  <2>1. k \in Thumbnails!Keys /\ tRequest[k] \in {"granted", "working"} /\ tSlots \in Nat
    BY CountedIs DEF Held
  <2>2. tSlots # 0
    BY FS_EmptySet DEF Counted
  <2> QED
    BY <2>1, <2>2
<1>2. /\ IsFiniteSet(Held \ {k}) /\ Cardinality(Held \ {k}) = tSlots - 1
  BY FS_RemoveElement DEF Counted
<1>3. \A r \in Rounds : tRound[r] = "new" => k \notin Thumbnails!Outputs(r)
  BY <1>1 DEF Unasked
<1>4. CASE tQueue = <<>>
  <2>1. /\ tRequest' = [q \in Thumbnails!Keys |-> IF q = k THEN outcome ELSE tRequest[q]]
        /\ tQueue' = tQueue /\ tSlots' = tSlots - 1
    BY <1>4 DEF Thumbnails!HandsOn
  <2>2. Held' = Held \ {k}
    BY <1>1, <2>1 DEF Held
  <2>3. Counted'
    <3>1. tSlots' <= MaxGenerations
      BY <1>1, <2>1 DEF Counted, ThumbnailsGiven
    <3> QED
      BY <1>2, <1>4, <2>1, <2>2, <3>1 DEF Counted
  <2>4. Waiting'
    BY <1>1, <2>1 DEF Waiting
  <2>5. Unasked'
    BY <1>3, <2>1 DEF Unasked, Thumbnails!Keys
  <2>6. tRequest' \in [Thumbnails!Keys -> {"idle", "queued", "granted", "working", "made",
          "failed"}]
    BY <2>1
  <2> QED
    BY <2>3, <2>4, <2>5, <2>6 DEF ThumbnailsGiven
<1>5. CASE tQueue # <<>>
  <2> DEFINE h == Head(tQueue)
  <2>1. /\ tRequest' = [q \in Thumbnails!Keys |-> IF q = k THEN outcome
                                      ELSE IF q = h THEN "granted" ELSE tRequest[q]]
        /\ tQueue' = Tail(tQueue) /\ tSlots' = tSlots
    BY <1>5 DEF Thumbnails!HandsOn
  <2>2. /\ tQueue \in Seq(Thumbnails!Keys) /\ Len(tQueue) \in Nat
             /\ DOMAIN tQueue = 1 .. Len(tQueue)
        /\ 1 \in 1 .. Len(tQueue) /\ h = tQueue[1] /\ h \in Thumbnails!Keys
        /\ tQueue' \in Seq(Thumbnails!Keys) /\ DOMAIN tQueue' = 1 .. Len(tQueue) - 1
        /\ \A i \in 1 .. Len(tQueue) - 1 : tQueue'[i] = tQueue[i + 1]
    <3>1. tQueue \in Seq(Thumbnails!Keys)
      BY DEF Waiting
    <3>2. Len(tQueue) \in Nat \ {0} /\ DOMAIN tQueue = 1 .. Len(tQueue)
      BY <1>5, <3>1, EmptySeq, LenProperties
    <3>3. /\ h \in Thumbnails!Keys /\ Tail(tQueue) \in Seq(Thumbnails!Keys)
               /\ Len(Tail(tQueue)) = Len(tQueue) - 1
          /\ \A i \in 1 .. Len(tQueue) - 1 : Tail(tQueue)[i] = tQueue[i + 1]
      BY <1>5, <3>1, HeadTailProperties
    <3>4. DOMAIN Tail(tQueue) = 1 .. Len(tQueue) - 1
      BY <3>3, LenProperties
    <3>5. h = tQueue[1]
      BY <1>5, <3>1
    <3> QED
      BY <2>1, <3>1, <3>2, <3>3, <3>4, <3>5
  <2> HIDE DEF h
  <2>3. \A i, j \in 1 .. Len(tQueue) : tQueue[i] = tQueue[j] => i = j
    BY <2>2 DEF Waiting, IsInjective
  <2>4. h \in Range(tQueue) /\ tRequest[h] = "queued" /\ h # k
    BY <1>1, <2>2 DEF Waiting, Range
  <2>5. Held' = (Held \ {k}) \cup {h} /\ h \notin Held
    BY <1>1, <2>1, <2>2, <2>4 DEF Held
  <2>6. Counted'
    <3>1. IsFiniteSet(Held') /\ Cardinality(Held') = tSlots - 1 + 1
      BY <1>2, <2>5, FS_AddElement
    <3>2. tSlots = MaxGenerations /\ tSlots <= MaxGenerations
      BY <1>5 DEF Counted
    <3> QED
      BY <1>1, <2>1, <3>1, <3>2 DEF Counted
  <2>7. IsInjective(tQueue')
    <3> SUFFICES ASSUME NEW i \in 1 .. Len(tQueue) - 1, NEW j \in 1 .. Len(tQueue) - 1,
                        tQueue'[i] = tQueue'[j]
                 PROVE  i = j
      BY <2>2 DEF IsInjective
    <3>1. i + 1 \in 1 .. Len(tQueue) /\ j + 1 \in 1 .. Len(tQueue)
            /\ tQueue[i + 1] = tQueue[j + 1]
      BY <2>2
    <3>2. i + 1 = j + 1
      BY <2>3, <3>1
    <3> QED
      BY <2>2, <3>2
  <2>8. Range(tQueue') = Range(tQueue) \ {h}
    <3>1. ASSUME NEW q \in Range(tQueue')
          PROVE  q \in Range(tQueue) \ {h}
      <4>1. PICK i \in 1 .. Len(tQueue) - 1 : q = tQueue[i + 1]
        BY <2>2, <3>1 DEF Range
      <4>2. i + 1 \in 1 .. Len(tQueue) /\ i + 1 # 1
        BY <2>2
      <4>3. q # h
        BY <2>2, <2>3, <4>1, <4>2
      <4> QED
        BY <2>2, <4>1, <4>2, <4>3 DEF Range
    <3>2. ASSUME NEW q \in Range(tQueue), q # h
          PROVE  q \in Range(tQueue')
      <4>1. PICK i \in 1 .. Len(tQueue) : q = tQueue[i]
        BY <2>2 DEF Range
      <4>2. i - 1 \in 1 .. Len(tQueue) - 1 /\ (i - 1) + 1 = i
        <5>1. i # 1
          BY <2>2, <3>2, <4>1
        <5> QED
          BY <2>2, <5>1
      <4>3. tQueue'[i - 1] = q
        BY <2>2, <4>1, <4>2
      <4> QED
        BY <2>2, <4>2, <4>3 DEF Range
    <3> QED
      BY <3>1, <3>2
  <2>9. Waiting'
    <3>1. \A q \in Thumbnails!Keys : q \in Range(tQueue') <=> tRequest'[q] = "queued"
      BY <1>1, <2>1, <2>4, <2>8 DEF Waiting
    <3> QED
      BY <2>2, <2>7, <3>1 DEF Waiting
  <2>10. Unasked'
    <3>1. \A r \in Rounds : tRound[r] = "new" => h \notin Thumbnails!Outputs(r)
      BY <2>4 DEF Unasked
    <3> QED
      BY <1>3, <2>1, <3>1 DEF Unasked, Thumbnails!Keys
  <2>11. tRequest' \in [Thumbnails!Keys -> {"idle", "queued", "granted", "working", "made",
           "failed"}]
    BY <2>1
  <2> QED
    BY <2>6, <2>9, <2>10, <2>11 DEF ThumbnailsGiven
<1> QED
  BY <1>4, <1>5

LEMMA RequestKeeps ==
  ASSUME ThumbnailsInv, NEW k \in Thumbnails!Keys, Thumbnails!Granted(k)
           \/ Thumbnails!Made(k) \/ Thumbnails!Fails(k)
  PROVE  ThumbnailsInv'
<1> USE DEF ThumbnailsInv
<1>1. CASE tRequest[k] = "granted" /\ tRequest' = [tRequest EXCEPT ![k] = "working"]
           /\ UNCHANGED <<tRound, tSlots, tQueue, tAborted, tCache>>
  <2>1. Held' = Held
    BY <1>1 DEF Held
  <2>2. Counted'
    BY <1>1, <2>1 DEF Counted
  <2>3. Waiting'
    BY <1>1 DEF Waiting
  <2>4. Unasked'
    BY <1>1 DEF Unasked, Thumbnails!Keys
  <2> QED
    BY <1>1, <2>2, <2>3, <2>4 DEF ThumbnailsGiven
<1>2. CASE \E outcome \in {"made", "failed"} : Thumbnails!HandsOn(k, outcome)
  <2>1. k \in Held
    BY DEF Thumbnails!Granted, Thumbnails!Made, Thumbnails!Fails, Held
  <2>2. tRound' = tRound /\ tAborted' = tAborted /\ tCache' \subseteq Thumbnails!Keys
    BY DEF Thumbnails!Granted, Thumbnails!Made, Thumbnails!Fails
  <2> QED
    BY <1>2, <2>1, <2>2, HandsOnKeeps
<1> QED
  BY <1>1, <1>2 DEF Thumbnails!Granted, Thumbnails!Made, Thumbnails!Fails

LEMMA RoundKeeps ==
  ASSUME ThumbnailsInv, NEW r \in Rounds, Thumbnails!AllMade(r) \/ Thumbnails!OneFailed(r)
  PROVE  ThumbnailsInv'
<1> USE DEF ThumbnailsInv
<1>1. /\ tRound' \in [Rounds -> {"new", "loading", "shown", "error", "closed"}]
      /\ \A s \in Rounds : tRound'[s] = "new" => tRound[s] = "new"
      /\ UNCHANGED <<tRequest, tSlots, tQueue, tAborted>> /\ tCache' \subseteq Thumbnails!Keys
  BY DEF Thumbnails!AllMade, Thumbnails!OneFailed
<1>2. Held' = Held
  BY <1>1 DEF Held
<1> QED
  BY <1>1, <1>2 DEF Counted, Waiting, Unasked, ThumbnailsGiven

LEMMA ClearKeeps ==
  ASSUME ThumbnailsInv, Thumbnails!Clear
  PROVE  ThumbnailsInv'
<1> USE DEF ThumbnailsInv
<1> DEFINE loading == {r \in Rounds : tRound[r] = "loading"} \ tAborted
           shown == {r \in Rounds : tRound[r] = "shown"}
           Stays(k) == Thumbnails!RoundOf(k) \notin loading
           P == {i \in DOMAIN tQueue : Stays(tQueue[i])}
<1>1. /\ tAborted' = tAborted \cup loading
      /\ tRequest' = [k \in Thumbnails!Keys |-> IF tRequest[k] = "queued"
           /\ ~Stays(k) THEN "failed"
                                    ELSE tRequest[k]]
      /\ tRound' = [r \in Rounds |-> IF r \in shown THEN "closed" ELSE tRound[r]]
      /\ tCache' = tCache \ UNION {Thumbnails!Outputs(r) : r \in shown}
      /\ tSlots' = tSlots
  BY DEF Thumbnails!Clear
<1>2. PICK at \in Thumbnails!InOrder(P) : tQueue' = [i \in DOMAIN at |-> tQueue[at[i]]]
  BY DEF Thumbnails!Clear
<1>3. tQueue \in Seq(Thumbnails!Keys) /\ DOMAIN tQueue = 1 .. Len(tQueue) /\ Len(tQueue) \in Nat
  BY LenProperties DEF Waiting
<1>4. IsFiniteSet(P) /\ P \subseteq 1 .. Len(tQueue)
  <2>1. IsFiniteSet(1 .. Len(tQueue))
    <3>1. 1 \in Int /\ Len(tQueue) \in Int
      BY <1>3
    <3> QED
      BY <3>1, FS_Interval
  <2>2. P \subseteq 1 .. Len(tQueue)
    BY <1>3
  <2> QED
    BY <2>1, <2>2, FS_Subset
<1>5. Cardinality(P) \in Nat
  BY <1>4, FS_CardinalityType
<1>6. /\ at \in [1 .. Cardinality(P) -> P] /\ Range(at) = P
      /\ \A i, k \in 1 .. Cardinality(P) : i < k => at[i] < at[k]
  BY <1>2, SameOperators DEF Thumbnails!InOrder
<1>7. /\ DOMAIN tQueue' = 1 .. Cardinality(P) /\ tQueue' \in Seq(Thumbnails!Keys)
      /\ \A i \in 1 .. Cardinality(P) : tQueue'[i] = tQueue[at[i]] /\ at[i] \in P
           /\ at[i] \in 1 .. Len(tQueue)
  <2>1. \A i \in 1 .. Cardinality(P) : at[i] \in P /\ at[i] \in 1 .. Len(tQueue)
    BY <1>4, <1>6
  <2>2. tQueue' = [i \in 1 .. Cardinality(P) |-> tQueue[at[i]]]
    BY <1>2, <1>6
  <2>3. \A i \in 1 .. Cardinality(P) : tQueue[at[i]] \in Thumbnails!Keys
    BY <1>3, <2>1
  <2> HIDE DEF P
  <2> QED
    BY <1>5, <2>1, <2>2, <2>3
<1>8. IsInjective(tQueue')
  <2> SUFFICES ASSUME NEW i \in 1 .. Cardinality(P), NEW k \in 1 .. Cardinality(P),
                      tQueue'[i] = tQueue'[k], i < k \/ k < i
               PROVE  FALSE
    <3>1. \A i, k \in 1 .. Cardinality(P) : i < k \/ k < i \/ i = k
      BY <1>5
    <3> HIDE DEF P
    <3> QED
      BY <1>7, <3>1 DEF IsInjective
  <2> HIDE DEF P
  <2>1. at[i] < at[k] \/ at[k] < at[i]
    BY <1>6
  <2>2. at[i] = at[k]
    BY <1>3, <1>7 DEF Waiting, IsInjective
  <2> QED
    BY <1>7, <2>1, <2>2
<1>9. \A k \in Thumbnails!Keys : k \in Range(tQueue') <=> k \in Range(tQueue) /\ Stays(k)
  <2> SUFFICES ASSUME NEW k \in Thumbnails!Keys
               PROVE  k \in Range(tQueue') <=> k \in Range(tQueue) /\ Stays(k)
    OBVIOUS
  <2>1. ASSUME k \in Range(tQueue')
        PROVE  k \in Range(tQueue) /\ Stays(k)
    <3>1. PICK i \in 1 .. Cardinality(P) : k = tQueue[at[i]] /\ at[i] \in P
            /\ at[i] \in 1 .. Len(tQueue)
      <4> HIDE DEF P
      <4> QED
        BY <1>7, <2>1 DEF Range
    <3> QED
      BY <1>3, <3>1 DEF Range
  <2>2. ASSUME k \in Range(tQueue), Stays(k)
        PROVE  k \in Range(tQueue')
    <3>1. PICK j \in DOMAIN tQueue : k = tQueue[j]
      BY <2>2 DEF Range
    <3>2. j \in P
      BY <2>2, <3>1
    <3>3. PICK i \in 1 .. Cardinality(P) : at[i] = j
      <4> HIDE DEF P
      <4> QED
        BY <1>6, <3>2 DEF Range
    <3> HIDE DEF P
    <3> QED
      BY <1>7, <3>1, <3>3 DEF Range
  <2> QED
    BY <2>1, <2>2
<1>10. tQueue' # <<>> => tQueue # <<>>
  <2> SUFFICES ASSUME tQueue = <<>>
               PROVE  tQueue' = <<>>
    OBVIOUS
  <2>1. P = {}
    OBVIOUS
  <2>2. Cardinality(P) = 0
    BY <2>1, FS_EmptySet
  <2> HIDE DEF P
  <2> QED
    BY <1>7, <2>2
<1> HIDE DEF P
<1>11. Held' = Held
  BY <1>1 DEF Held
<1>12. Counted'
  BY <1>1, <1>10, <1>11 DEF Counted
<1>13. Waiting'
  <2>1. \A k \in Thumbnails!Keys : k \in Range(tQueue') <=> tRequest'[k] = "queued"
    BY <1>1, <1>9 DEF Waiting
  <2> QED
    BY <1>7, <1>8, <2>1 DEF Waiting
<1>14. Unasked'
  BY <1>1 DEF Unasked, Thumbnails!Keys
<1>15. /\ tRound' \in [Rounds -> {"new", "loading", "shown", "error", "closed"}]
       /\ tRequest' \in [Thumbnails!Keys -> {"idle", "queued", "granted", "working", "made",
            "failed"}]
       /\ tAborted' \subseteq Rounds /\ tCache' \subseteq Thumbnails!Keys
  BY <1>1
<1> QED
  BY <1>12, <1>13, <1>14, <1>15 DEF ThumbnailsGiven

LEMMA ThumbnailsNext ==
  ASSUME ThumbnailsInv, [Thumbnails!Next]_(Thumbnails!vars)
  PROVE  ThumbnailsInv'
<1>1. CASE UNCHANGED Thumbnails!vars
  BY <1>1 DEF Thumbnails!vars, ThumbnailsInv, ThumbnailsGiven, Waiting, Counted, Held, Unasked
<1> QED
  BY <1>1, AskKeeps, RequestKeeps, RoundKeeps, ClearKeeps DEF Thumbnails!Next

LEMMA ThumbnailsImplied ==
  ASSUME ThumbnailsInv
  PROVE  Thumbnails!TypeOK /\ Thumbnails!SlotsConserved
<1>1. Held = Thumbnails!In("granted") \cup Thumbnails!In("working") /\ tSlots \in Nat
        /\ MaxGenerations \in Nat
  BY CountedIs DEF ThumbnailsInv, Held, Thumbnails!In, ThumbnailsGiven
<1>2. tSlots \in 0 .. MaxGenerations
  BY <1>1 DEF ThumbnailsInv, Counted
<1>3. Range(tQueue) = Thumbnails!In("queued")
  <2>1. Range(tQueue) \subseteq Thumbnails!Keys
    BY LenProperties DEF ThumbnailsInv, Waiting, Range
  <2> QED
    BY <2>1 DEF ThumbnailsInv, Waiting, Thumbnails!In
<1> QED
  BY <1>1, <1>2, <1>3, SameOperators DEF ThumbnailsInv, Thumbnails!TypeOK,
     Thumbnails!SlotsConserved, Counted, Waiting

LEMMA ThumbnailsAlways == Spec => [](focus = "thumbnails" => ThumbnailsInv)
<1>1. ThumbnailsGiven
  BY ComponentsAssumption, SameOperators DEF ThumbnailsGiven, Thumbnails!Outputs
<1>2. Init => (focus = "thumbnails" => ThumbnailsInv)
  BY <1>1, ThumbnailsInit DEF Init
<1>3. (focus = "thumbnails" => ThumbnailsInv) /\ [Next]_vars
        => (focus = "thumbnails" => ThumbnailsInv)'
  BY Moves, ThumbnailsNext
<1> QED
  BY <1>2, <1>3, PTL DEF Spec

\* No generation slot is lost or held twice and nobody waits for a free one, for any
\* number of rounds, outputs and slots.
THEOREM SlotsConservedHere == Spec => []SlotsConserved
<1>1. (focus = "thumbnails" => ThumbnailsInv) => SlotsConserved
  BY ThumbnailsImplied DEF SlotsConserved
<1> QED
  BY <1>1, ThumbnailsAlways, PTL

-----------------------------------------------------------------------------
(* All components *)

\* Every component keeps its type invariant, for every value of the constants.
THEOREM ComponentsTypeOKHere == Spec => []ComponentsTypeOK
<1>1. /\ focus = "grsai" => Grsai!Books
      /\ focus = "mask" => MaskInv
      /\ focus = "retention" => Retention!IInv
      /\ focus = "file" => FileInv /\ File!TypeOK
      /\ focus = "thumbnails" => ThumbnailsInv
      /\ focus = "execution" => Execution!PInv
      => ComponentsTypeOK
  BY MaskImplied, Retention!Implied, ThumbnailsImplied, Execution!PInvTypes DEF ComponentsTypeOK,
     Grsai!Books
<1> QED
  BY <1>1, GrsaiAlways, MaskAlways, RetentionAlways, FileAlways, ThumbnailsAlways,
     ExecutionAlways, PTL
=============================================================================
