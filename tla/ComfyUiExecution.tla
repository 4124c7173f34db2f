--------------------------- MODULE ComfyUiExecution ---------------------------
(***************************************************************************)
(* How a ComfyUI Task is executed: the frontend queue driver (execution-    *)
(* backends/comfyui/drivers.ts), the Bridge session it talks through        *)
(* (adapters/comfyui/comfyui-frontend-bridge-resolver.ts), the page that    *)
(* opens the workflow and queues it natively (integrations/comfyui-imagen-  *)
(* bridge), and what its failure means for Retry (errors.ts).               *)
(*                                                                         *)
(* An attempt is one Job; the ComfyUI lane runs one at a time, but what an  *)
(* attempt has started in the page outlives its driver.  All attempts use   *)
(* one workflow, hence one session.  A reply of the page reaches the driver *)
(* in the step that sends it.  ComfyUI itself is external: app.queuePrompt  *)
(* may call api.queuePrompt once or never, before or after it returns.      *)
(***************************************************************************)
EXTENDS Naturals, Sequences, SequencesExt

CONSTANTS
  MaxAttempts,  \* bound: Jobs that are dispatched
  MaxLoads      \* bound: loads of the page

Attempts == 1 .. MaxAttempts
Nothing == 0
Foreign == MaxAttempts + 1   \* a prompt the user or an extension queues in the page
Failed == MaxAttempts + 2    \* a receipt promise that is rejected

VARIABLES
  pc,           \* attempt -> the place of its driver
  outcome,      \* attempt -> "none", "completed", "retryable" or "final"
  task,         \* attempt -> its Task, named by the Task's first attempt
  stale,        \* the attempts admitted for a connection that is not active any more
  prompt,       \* attempt -> the prompt of its receipt
  session,      \* "none", "loading" or "ready"
  loads,        \* loads of the page so far, of all sessions
  timer,        \* loadTimeout is armed
  retiring,     \* retireWhenIdle
  inbox,        \* the attempts whose submit request the page has not handled
  lease,        \* the attempt that owns the page's lease
  stage,        \* its place in the page: "idle", "opening" or "native"
  returned,     \* its app.queuePrompt has returned
  calls,        \* the prompts whose api.queuePrompt call went through its observer
  receipt,      \* receiptPromise: Nothing, a prompt or Failed
  outstanding,  \* the attempts whose api.queuePrompt call is still to come
  left,         \* an observer left in the chain of api.queuePrompt: "none", "unused" or "used"
  posting,      \* the prompts on their way to the server
  queued        \* the prompts the server has accepted

driverVars == <<pc, outcome, prompt>>
admissionVars == <<task, stale>>
sessionVars == <<session, loads, timer, retiring>>
observerVars == <<returned, calls, receipt>>
pageVars == <<inbox, lease, stage, observerVars, outstanding, left>>
serverVars == <<posting, queued>>
vars == <<driverVars, admissionVars, sessionVars, pageVars, serverVars>>

Waiting == {"resolving", "handshake", "submitting"}
Prompts == Attempts \cup {Foreign}

TypeOK ==
  /\ pc \in [Attempts -> {"none", "prepare", "observing", "done"} \cup Waiting]
  /\ outcome \in [Attempts -> {"none", "completed", "retryable", "final"}]
  /\ task \in [Attempts -> Attempts \cup {Nothing}]
  /\ stale \subseteq Attempts /\ inbox \subseteq Attempts /\ outstanding \subseteq Attempts
  /\ prompt \in [Attempts -> Prompts \cup {Nothing}]
  /\ session \in {"none", "loading", "ready"} /\ loads \in 0 .. MaxLoads
  /\ {timer, retiring, returned} \subseteq BOOLEAN /\ left \in {"none", "unused", "used"}
  /\ lease \in Attempts \cup {Nothing} /\ (lease = Nothing <=> stage = "idle")
  /\ stage \in {"idle", "opening", "native"}
  /\ calls \in SeqOf(Prompts, 2) /\ receipt \in Prompts \cup {Nothing, Failed}
  /\ posting \subseteq Prompts /\ queued \subseteq Prompts

Init ==
  /\ pc = [a \in Attempts |-> "none"] /\ outcome = [a \in Attempts |-> "none"]
  /\ task = [a \in Attempts |-> Nothing] /\ stale = {}
  /\ prompt = [a \in Attempts |-> Nothing]
  /\ session = "none" /\ loads = 0 /\ timer = FALSE /\ retiring = FALSE
  /\ inbox = {} /\ lease = Nothing /\ stage = "idle"
  /\ returned = FALSE /\ calls = <<>> /\ receipt = Nothing
  /\ outstanding = {} /\ left = "none"
  /\ posting = {} /\ queued = {}

-----------------------------------------------------------------------------
(* Helpers. *)

Moves(a, from, to) == pc[a] = from /\ pc' = [pc EXCEPT ![a] = to]

Ends(a, result) ==
  /\ pc' = [pc EXCEPT ![a] = "done"]
  /\ outcome' = [outcome EXCEPT ![a] = result]

\* MUTANT of Disposition: a submission whose outcome is unknown may be retried.
DispositionReplays(at) == IF at = "observe" THEN "final" ELSE "retryable"

\* createComfyUiExecutionError: retryDisposition by stage.  An error that is none of
\* these carries no disposition and may be retried.
Disposition(at) == IF at \in {"prepare", "upload", "raw"} THEN "retryable" ELSE "final"

\* The stage a driver's error names while it waits for the session.
WaitStage(a) == IF pc[a] = "submitting" THEN "submit" ELSE "prepare"

\* ready and every pending exchange are rejected.
RejectPending ==
  LET waiting == {a \in Attempts : pc[a] \in Waiting} IN
  /\ pc' = [a \in Attempts |-> IF a \in waiting THEN "done" ELSE pc[a]]
  /\ outcome' = [a \in Attempts |->
                   IF a \in waiting THEN Disposition(WaitStage(a)) ELSE outcome[a]]
  /\ UNCHANGED prompt

\* The page and all that runs in it are gone; a POST that has left is not.
PageGone ==
  /\ inbox' = {} /\ lease' = Nothing /\ stage' = "idle"
  /\ returned' = FALSE /\ calls' = <<>> /\ receipt' = Nothing
  /\ outstanding' = {} /\ left' = "none"

\* dispose() of the session.
SessionGone == session' = "none" /\ timer' = FALSE /\ retiring' = FALSE /\ UNCHANGED loads

\* The end of the only pending exchange: a session that is to retire does so.
ExchangeDone ==
  IF retiring THEN SessionGone /\ PageGone ELSE UNCHANGED <<sessionVars, pageVars>>

-----------------------------------------------------------------------------
(* The driver. *)

\* A new Task, or the Retry of one whose latest attempt may be retried.
Admit(a) ==
  /\ pc[a] = "none" /\ \A b \in Attempts : b < a <=> pc[b] = "done"
  /\ \E t \in {a} \cup {task[b] : b \in {b \in Attempts : outcome[b] = "retryable"}} :
       /\ \A b \in Attempts : task[b] = t =>
            outcome[b] = "retryable" \/ \E c \in Attempts : c > b /\ task[c] = t
       /\ task' = [task EXCEPT ![a] = t]
  /\ pc' = [pc EXCEPT ![a] = "prepare"]
  /\ UNCHANGED <<outcome, prompt, stale, sessionVars, pageVars, serverVars>>

\* The uploads are done: resolve() reuses the session or starts one.
Prepared(a) ==
  /\ pc[a] = "prepare"
  /\ IF a \in stale
     THEN Ends(a, Disposition("prepare")) /\ UNCHANGED sessionVars
     ELSE /\ Moves(a, "prepare", "resolving") /\ UNCHANGED outcome
          /\ \/ session # "none" /\ UNCHANGED sessionVars
             \/ /\ session = "none" /\ loads < MaxLoads
                /\ session' = "loading" /\ timer' = TRUE /\ loads' = loads + 1
                /\ UNCHANGED retiring
  /\ UNCHANGED <<prompt, admissionVars, pageVars, serverVars>>

\* An asset is missing or an upload fails, or resolve() finds no generation.
PrepareFails(a) ==
  /\ pc[a] = "prepare" /\ Ends(a, Disposition("upload"))
  /\ UNCHANGED <<prompt, admissionVars, sessionVars, pageVars, serverVars>>

Resolved(a) ==
  /\ session = "ready" /\ Moves(a, "resolving", "handshake")
  /\ UNCHANGED <<outcome, prompt, admissionVars, sessionVars, pageVars, serverVars>>

\* The handshake is answered: the target is checked a last time and the submission
\* sent, in vain when the session has retired after the handshake.
HandshakeAnswered(a) ==
  /\ pc[a] = "handshake" /\ session = "ready"
  /\ IF a \in stale
     THEN Ends(a, Disposition("prepare")) /\ ExchangeDone
     ELSE IF retiring
     THEN Ends(a, Disposition("submit")) /\ ExchangeDone
     ELSE /\ Moves(a, "handshake", "submitting") /\ inbox' = inbox \cup {a}
          /\ UNCHANGED <<outcome, sessionVars, lease, stage, observerVars, outstanding, left>>
  /\ UNCHANGED <<prompt, admissionVars, serverVars>>

\* The handshake times out or is refused.
HandshakeFails(a) ==
  /\ pc[a] = "handshake" /\ Ends(a, Disposition("prepare")) /\ ExchangeDone
  /\ UNCHANGED <<prompt, admissionVars, serverVars>>

\* The exchange of the submission times out; the page goes on with it.
SubmitTimesOut(a) ==
  /\ pc[a] = "submitting" /\ Ends(a, Disposition("submit")) /\ ExchangeDone
  /\ UNCHANGED <<prompt, admissionVars, serverVars>>

\* The History of the prompt is terminal and its outputs are stored, or the outputs
\* are refused after that by validateComfyUiExecutionResult.
Observed(a) ==
  /\ pc[a] = "observing" /\ prompt[a] \in queued
  /\ \E result \in {"completed", Disposition("raw")} : Ends(a, result)
  /\ UNCHANGED <<prompt, admissionVars, sessionVars, pageVars, serverVars>>

\* The prompt failed, its state is unknown, or an output could not be downloaded.
ObserveFails(a) ==
  /\ pc[a] = "observing" /\ Ends(a, Disposition("observe"))
  /\ UNCHANGED <<prompt, admissionVars, sessionVars, pageVars, serverVars>>

-----------------------------------------------------------------------------
(* The Bridge session. *)

LoadStops ==
  /\ session = "loading" /\ session' = "ready" /\ timer' = FALSE
  /\ UNCHANGED <<loads, retiring, driverVars, admissionVars, pageVars, serverVars>>

\* MUTANT of PageReloads: rotateLoad does not arm the timeout of the new load.
PageReloadsUntimed ==
  /\ session # "none" /\ loads < MaxLoads
  /\ RejectPending /\ PageGone
  /\ IF retiring THEN SessionGone
     ELSE session' = "loading" /\ timer' = FALSE /\ loads' = loads + 1 /\ UNCHANGED retiring
  /\ UNCHANGED <<admissionVars, serverVars>>

\* The page is reloaded: rotateLoad.  A session that is to retire does so when the
\* exchange it waited for is rejected.
PageReloads ==
  /\ session # "none" /\ loads < MaxLoads
  /\ RejectPending /\ PageGone
  /\ IF retiring THEN SessionGone
     ELSE /\ session' = "loading" /\ timer' = TRUE /\ loads' = loads + 1
          /\ UNCHANGED retiring
  /\ UNCHANGED <<admissionVars, serverVars>>

\* The load fails, or the generation is disposed.
SessionFails ==
  /\ session # "none" /\ RejectPending /\ PageGone /\ SessionGone
  /\ UNCHANGED <<admissionVars, serverVars>>

LoadTimesOut ==
  /\ timer /\ RejectPending /\ PageGone /\ SessionGone
  /\ UNCHANGED <<admissionVars, serverVars>>

\* requestRetirement: another workflow is resolved, or (switched) another connection
\* has been promoted.
Retire(switched) ==
  /\ switched \/ session # "none"
  /\ stale' = IF switched THEN {a \in Attempts : pc[a] # "none"} ELSE stale
  /\ IF \E a \in Attempts : pc[a] \in {"handshake", "submitting"}
     THEN retiring' = TRUE /\ UNCHANGED <<session, loads, timer, driverVars, pageVars>>
     ELSE RejectPending /\ PageGone /\ SessionGone
  /\ UNCHANGED <<task, serverVars>>

-----------------------------------------------------------------------------
(* The page. *)

\* The page answers a: with the prompt of its receipt, or with an error (Nothing).
Reply(a, p) ==
  IF pc[a] # "submitting" THEN UNCHANGED <<driverVars, sessionVars>>
  ELSE /\ IF p = Nothing THEN Ends(a, Disposition("submit")) /\ UNCHANGED prompt
          ELSE /\ Moves(a, "submitting", "observing") /\ UNCHANGED outcome
               /\ prompt' = [prompt EXCEPT ![a] = p]
       /\ IF retiring THEN SessionGone ELSE UNCHANGED sessionVars

\* The page is gone when the reply retires the session.
ReplyRetires(a) == pc[a] = "submitting" /\ retiring

\* The lease is free: the workflow is opened and its values set.
Acquire(a) ==
  /\ a \in inbox /\ lease = Nothing
  /\ inbox' = inbox \ {a} /\ lease' = a /\ stage' = "opening"
  /\ UNCHANGED <<driverVars, admissionVars, sessionVars, observerVars, outstanding, left,
                 serverVars>>

Refuse(a) ==
  /\ a \in inbox /\ lease # Nothing
  /\ Reply(a, Nothing)
  /\ IF ReplyRetires(a) THEN PageGone
     ELSE inbox' = inbox \ {a} /\ UNCHANGED <<lease, stage, observerVars, outstanding, left>>
  /\ UNCHANGED <<admissionVars, serverVars>>

\* The workflow is open: the observer is installed and app.queuePrompt called.
Queue(a) ==
  /\ lease = a /\ stage = "opening"
  /\ stage' = "native" /\ outstanding' = outstanding \cup {a}
  /\ returned' = FALSE /\ calls' = <<>> /\ receipt' = Nothing
  /\ UNCHANGED <<driverVars, admissionVars, sessionVars, inbox, lease, left, serverVars>>

\* A call of api.queuePrompt.  An observer in place passes its first call on and
\* throws in the others; a used one that is left in the chain throws.
Call(p) ==
  /\ p = Foreign \/ p \in outstanding
  /\ outstanding' = outstanding \ {p}
  /\ LET observed == stage = "native"
         passes == left # "used" /\ (observed => calls = <<>>)
     IN /\ p = Foreign => observed
        /\ calls' = IF observed /\ Len(calls) < 2 THEN Append(calls, p) ELSE calls
        /\ receipt' = IF observed /\ ~passes /\ receipt = Nothing THEN Failed ELSE receipt
        /\ posting' = IF passes THEN posting \cup {p} ELSE posting
        /\ left' = IF left = "unused" /\ (observed => calls = <<>>) THEN "used" ELSE left
  /\ UNCHANGED <<driverVars, admissionVars, sessionVars, inbox, lease, stage, returned, queued>>

\* app.queuePrompt gives up without a call.
GiveUp(a) ==
  /\ a \in outstanding /\ outstanding' = outstanding \ {a}
  /\ UNCHANGED <<driverVars, admissionVars, sessionVars, inbox, lease, stage, observerVars,
                 left, serverVars>>

Return ==
  /\ stage = "native" /\ ~returned /\ returned' = TRUE
  /\ UNCHANGED <<driverVars, admissionVars, sessionVars, inbox, lease, stage, calls, receipt,
                 outstanding, left, serverVars>>

\* The server accepts a prompt or not; its answer settles the receipt of the
\* observer the call went through first, unless it is lost or malformed.
ServerAnswers(p) ==
  /\ p \in posting /\ posting' = posting \ {p}
  /\ \E accepted \in BOOLEAN, lost \in BOOLEAN :
       /\ queued' = IF accepted THEN queued \cup {p} ELSE queued
       /\ receipt' = IF stage = "native" /\ calls # <<>> /\ Head(calls) = p /\ receipt = Nothing
                     THEN IF accepted /\ ~lost THEN p ELSE Failed
                     ELSE receipt
  /\ UNCHANGED <<driverVars, admissionVars, sessionVars, inbox, lease, stage, returned, calls,
                 outstanding, left>>

\* MUTANT of SoleReceipt: callCount is not checked after the receipt.
SoleReceiptAny == IF receipt \in Prompts THEN receipt ELSE Nothing

\* What observeNativeQueueReceipt returns: the receipt of the only call.
SoleReceipt == IF receipt \in Prompts /\ Len(calls) = 1 THEN receipt ELSE Nothing

\* The observer is removed, the values restored, the lease released and the page
\* answers.  conflict: api.queuePrompt has been replaced meanwhile.
Close(a, p, conflict) ==
  /\ lease = a
  /\ Reply(a, IF conflict THEN Nothing ELSE p)
  /\ IF ReplyRetires(a) THEN PageGone
     ELSE /\ lease' = Nothing /\ stage' = "idle"
          /\ returned' = FALSE /\ calls' = <<>> /\ receipt' = Nothing
          /\ left' = IF ~conflict THEN left
                     ELSE IF calls # <<>> THEN "used"
                     ELSE IF left = "none" THEN "unused" ELSE left
          /\ UNCHANGED <<inbox, outstanding>>
  /\ UNCHANGED <<admissionVars, serverVars>>

OpenFails(a) == stage = "opening" /\ Close(a, Nothing, FALSE)

\* The receipt is there.
ReceiptSettles(a, conflict) ==
  stage = "native" /\ returned /\ receipt # Nothing /\ Close(a, SoleReceipt, conflict)

\* app.queuePrompt throws, or the receipt times out.
ReceiptFails(a, conflict) == stage = "native" /\ Close(a, Nothing, conflict)

-----------------------------------------------------------------------------
Driver(a) ==
  \/ Prepared(a) \/ PrepareFails(a) \/ Resolved(a) \/ HandshakeAnswered(a)
  \/ HandshakeFails(a) \/ SubmitTimesOut(a) \/ Observed(a) \/ ObserveFails(a)

Session ==
  \/ LoadStops \/ PageReloads \/ SessionFails \/ LoadTimesOut
  \/ \E switched \in BOOLEAN : Retire(switched)

Page ==
  \/ \E a \in Attempts : Acquire(a) \/ Refuse(a) \/ Queue(a) \/ GiveUp(a) \/ OpenFails(a)
  \/ \E a \in Attempts, conflict \in BOOLEAN :
       ReceiptSettles(a, conflict) \/ ReceiptFails(a, conflict)
  \/ \E p \in Prompts : Call(p) \/ ServerAnswers(p)
  \/ Return

Next == (\E a \in Attempts : Admit(a) \/ Driver(a)) \/ Session \/ Page

\* Every HTTP request, every exchange and the observation have a timeout, and a
\* load that does not stop is ended by its timer.  Nothing is fair in the page.
Fairness == (\A a \in Attempts : WF_vars(Driver(a))) /\ WF_vars(LoadTimesOut)

Spec == Init /\ [][Next]_vars /\ Fairness

-----------------------------------------------------------------------------
(* Properties. *)

\* The attempts whose prompt is, or may still come to be, in ComfyUI's queue.
MayBeQueued == inbox \cup {lease} \cup outstanding \cup posting \cup queued

\* docs/ENGINEERING_CONTEXT.md, "Once a submission call starts, ambiguous outcomes are
\* never replayed": a Task gets another attempt only when its earlier ones can no longer
\* be queued, or had a receipt, be it (before their own call had come) of another prompt.
NeverReplayed ==
  \A a, b \in Attempts : a < b /\ task[a] = task[b] /\ a \in MayBeQueued => prompt[a] # Nothing

\* A receipt is never another prompt's when the attempt's own call came through its
\* observer, whatever else is queued in the page meanwhile.
ReceiptIsOwn ==
  [][\A a \in Attempts : prompt'[a] # prompt[a] /\ Contains(calls, a) => prompt'[a] = a]_vars

\* The lane of ComfyUI becomes free again, though a reload, a retirement, a native call
\* that hangs or a page that never loads may hit every wait of the attempt in it.
AttemptEnds ==
  (\E a \in Attempts : pc[a] \notin {"none", "done"})
    ~> (\A a \in Attempts : pc[a] \in {"none", "done"})
=============================================================================
