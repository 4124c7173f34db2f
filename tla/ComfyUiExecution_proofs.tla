------------------------ MODULE ComfyUiExecution_proofs ------------------------
(***************************************************************************)
(* NeverReplayed for any number of attempts and page loads.  By itself it   *)
(* is not inductive: whether a Task may have another attempt depends on     *)
(* the outcome of its latest one, and that outcome on how far the driver    *)
(* had come when it ended.  The page and the session enter the argument     *)
(* only through LawfulStep: what each of their steps may do to an attempt.  *)
(***************************************************************************)
EXTENDS ComfyUiExecution, SequenceTheorems, TLAPS

\* The driver has not sent the submission yet.
Unsent == {"prepare", "resolving", "handshake"}

\* The types of the variables that the argument is about.
Typed ==
  /\ MaxAttempts \in Nat
  /\ pc \in [Attempts -> {"none", "prepare", "observing", "done"} \cup Waiting]
  /\ outcome \in [Attempts -> {"none", "completed", "retryable", "final"}]
  /\ task \in [Attempts -> Attempts \cup {Nothing}]
  /\ prompt \in [Attempts -> Prompts \cup {Nothing}]

\* Attempts run one after another, each for a Task named by an attempt before it.
OneByOne ==
  /\ \A a, b \in Attempts : a < b /\ pc[b] # "none" => pc[a] = "done"
  /\ \A a \in Attempts : pc[a] = "none" <=> task[a] = Nothing
  /\ \A a \in Attempts : task[a] <= a

\* Nothing of an attempt is in the page before it is submitted.
NotYetSent == \A a \in Attempts : pc[a] \in Unsent \cup {"none"} => a \notin MayBeQueued

\* An observed attempt has its prompt, and only an ended attempt has an outcome.
Phases ==
  \A a \in Attempts :
    /\ pc[a] = "observing" => prompt[a] # Nothing
    /\ outcome[a] # "none" => pc[a] = "done"

\* What may be retried cannot be queued any more, or had its receipt.
Retryable ==
  \A a \in Attempts :
    outcome[a] = "retryable" /\ a \in MayBeQueued => prompt[a] # Nothing

\* All attempts of a Task but the latest may be retried.
LatestDecides ==
  \A a, b \in Attempts :
    a < b /\ task[a] = task[b] /\ task[a] # Nothing => outcome[a] = "retryable"

IInv == Typed /\ OneByOne /\ NotYetSent /\ Phases /\ Retryable /\ LatestDecides

-----------------------------------------------------------------------------
(* What a step may do to attempt a once it is admitted. *)

Kept(a) == pc'[a] = pc[a] /\ outcome'[a] = outcome[a] /\ prompt'[a] = prompt[a]

\* The driver goes on before the submission, or ends there in any way.
StaysUnsent(a) ==
  /\ pc[a] \in Unsent /\ prompt'[a] = prompt[a]
  /\ \/ pc'[a] \in Unsent /\ outcome'[a] = outcome[a]
     \/ pc'[a] = "done" /\ outcome'[a] \in {"retryable", "final"}

Sends(a) ==
  /\ pc[a] = "handshake" /\ pc'[a] = "submitting"
  /\ outcome'[a] = outcome[a] /\ prompt'[a] = prompt[a]

\* The outcome of the submission is not known: it is final.
EndsUnknown(a) ==
  /\ pc[a] = "submitting" /\ pc'[a] = "done"
  /\ outcome'[a] = "final" /\ prompt'[a] = prompt[a]

GetsReceipt(a) ==
  /\ pc[a] = "submitting" /\ pc'[a] = "observing"
  /\ outcome'[a] = outcome[a] /\ prompt'[a] \in Prompts

EndsObserved(a) ==
  /\ pc[a] = "observing" /\ pc'[a] = "done"
  /\ outcome'[a] \in {"completed", "retryable", "final"} /\ prompt'[a] = prompt[a]

Lawful(a) ==
  \/ Kept(a) \/ StaysUnsent(a) \/ Sends(a) \/ EndsUnknown(a) \/ GetsReceipt(a)
  \/ EndsObserved(a)

LawfulStep ==
  /\ task' = task
  /\ pc' \in [Attempts -> {"none", "prepare", "observing", "done"} \cup Waiting]
  /\ outcome' \in [Attempts -> {"none", "completed", "retryable", "final"}]
  /\ prompt' \in [Attempts -> Prompts \cup {Nothing}]
  /\ \A a \in Attempts : Lawful(a) /\ (a \in MayBeQueued' => a \in MayBeQueued \/ Sends(a))

-----------------------------------------------------------------------------
(* Where the prompt of an attempt may be. *)

\* Unloading the page leaves only what the server has or is being sent.
LEMMA PageGoneEmpties ==
  ASSUME MaxAttempts \in Nat, PageGone, UNCHANGED serverVars, NEW a \in Attempts,
         a \in MayBeQueued'
  PROVE  a \in MayBeQueued
  BY DEF PageGone, serverVars, MayBeQueued, Attempts, Nothing

\* A page that does not move holds the same attempts.
LEMMA PageRests ==
  ASSUME UNCHANGED <<pageVars, serverVars>>
  PROVE  MayBeQueued' = MayBeQueued
  BY DEF pageVars, observerVars, serverVars, MayBeQueued

\* The end of an exchange puts nothing into the page.
LEMMA ExchangeDoneAddsNone ==
  ASSUME MaxAttempts \in Nat, ExchangeDone, UNCHANGED serverVars, NEW a \in Attempts,
         a \in MayBeQueued'
  PROVE  a \in MayBeQueued
<1>1. CASE retiring
  <2>1. PageGone
    BY <1>1 DEF ExchangeDone
  <2> QED
    BY <2>1, PageGoneEmpties
<1>2. CASE ~retiring
  <2>1. UNCHANGED <<pageVars, serverVars>>
    BY <1>2 DEF ExchangeDone
  <2> QED
    BY <2>1, PageRests
<1> QED
  BY <1>1, <1>2

-----------------------------------------------------------------------------
(* The steps of the driver. *)

\* A step that ends attempt a alone, and adds nothing to the page.
LEMMA EndsAlone ==
  ASSUME Typed, NEW a \in Attempts, UNCHANGED <<task, prompt>>,
         NEW result \in {"completed", "retryable", "final"}, Ends(a, result),
         \/ pc[a] \in Unsent /\ result # "completed"
         \/ pc[a] = "submitting" /\ result = "final"
         \/ pc[a] = "observing",
         \A b \in Attempts : b \in MayBeQueued' => b \in MayBeQueued
  PROVE  LawfulStep
<1>1. \A b \in Attempts : b # a => Kept(b)
  BY DEF Typed, Ends, Kept
<1>2. StaysUnsent(a) \/ EndsUnknown(a) \/ EndsObserved(a)
  BY DEF Typed, Ends, StaysUnsent, EndsUnknown, EndsObserved
<1> QED
  BY <1>1, <1>2 DEF Typed, Ends, LawfulStep, Lawful

\* Preparing and resolving touch neither the page nor the submission.
LEMMA EarlySteps ==
  ASSUME Typed, NEW a \in Attempts, Prepared(a) \/ PrepareFails(a) \/ Resolved(a)
  PROVE  LawfulStep
<1>1. /\ UNCHANGED <<task, prompt>>
      /\ UNCHANGED <<pageVars, serverVars>>
      /\ pc[a] \in {"prepare", "resolving"}
  BY DEF Prepared, PrepareFails, Resolved, Moves, admissionVars
<1>2. MayBeQueued' = MayBeQueued
  BY <1>1, PageRests
<1>3. \/ pc' = [pc EXCEPT ![a] = "done"] /\ outcome' = [outcome EXCEPT ![a] = "retryable"]
      \/ /\ \/ pc' = [pc EXCEPT ![a] = "resolving"]
            \/ pc' = [pc EXCEPT ![a] = "handshake"]
         /\ outcome' = outcome
  BY DEF Prepared, PrepareFails, Resolved, Moves, Ends, Disposition
<1>4. \A b \in Attempts : b # a => Kept(b)
  BY <1>1, <1>3 DEF Typed, Kept
<1>5. StaysUnsent(a)
  BY <1>1, <1>3 DEF Typed, StaysUnsent, Unsent
<1> QED
  BY <1>1, <1>2, <1>3, <1>4, <1>5 DEF Typed, LawfulStep, Lawful, Waiting

\* The answer of the handshake sends the submission, unless the target went stale
\* or the session is about to retire.
LEMMA HandshakeAnsweredLawful ==
  ASSUME Typed, NEW a \in Attempts, HandshakeAnswered(a)
  PROVE  LawfulStep
<1>1. UNCHANGED <<task, prompt>> /\ UNCHANGED serverVars /\ pc[a] = "handshake"
  BY DEF HandshakeAnswered, admissionVars
<1>2. CASE a \in stale \/ retiring
  <2>1. ExchangeDone /\ (Ends(a, "retryable") \/ Ends(a, "final"))
    BY <1>2 DEF HandshakeAnswered, Disposition
  <2>2. \A b \in Attempts : b \in MayBeQueued' => b \in MayBeQueued
    BY <1>1, <2>1, ExchangeDoneAddsNone DEF Typed
  <2> QED
    BY <1>1, <2>1, <2>2, EndsAlone DEF Unsent
<1>3. CASE a \notin stale /\ ~retiring
  <2>1. /\ pc' = [pc EXCEPT ![a] = "submitting"] /\ outcome' = outcome
        /\ inbox' = inbox \cup {a} /\ UNCHANGED <<lease, outstanding>>
    BY <1>3 DEF HandshakeAnswered, Moves
  <2>2. \A b \in Attempts : b \in MayBeQueued' => b \in MayBeQueued \/ b = a
    BY <1>1, <2>1 DEF MayBeQueued, serverVars
  <2>3. Sends(a) /\ \A b \in Attempts : b # a => Kept(b)
    BY <1>1, <2>1 DEF Typed, Sends, Kept
  <2> QED
    BY <1>1, <2>1, <2>2, <2>3 DEF Typed, LawfulStep, Lawful, Waiting
<1> QED
  BY <1>2, <1>3

\* The exchanges that fail, and the observation.
LEMMA EndingSteps ==
  ASSUME Typed, NEW a \in Attempts,
         HandshakeFails(a) \/ SubmitTimesOut(a) \/ Observed(a) \/ ObserveFails(a)
  PROVE  LawfulStep
<1>1. UNCHANGED <<task, prompt>> /\ UNCHANGED serverVars
  BY DEF HandshakeFails, SubmitTimesOut, Observed, ObserveFails, admissionVars
<1>2. CASE HandshakeFails(a) \/ SubmitTimesOut(a)
  <2>1. \/ pc[a] \in Unsent /\ Ends(a, "retryable")
        \/ pc[a] = "submitting" /\ Ends(a, "final")
    BY <1>2 DEF HandshakeFails, SubmitTimesOut, Disposition, Unsent
  <2>2. ExchangeDone
    BY <1>2 DEF HandshakeFails, SubmitTimesOut
  <2>3. \A b \in Attempts : b \in MayBeQueued' => b \in MayBeQueued
    BY <1>1, <2>2, ExchangeDoneAddsNone DEF Typed
  <2> QED
    BY <1>1, <2>1, <2>3, EndsAlone
<1>3. CASE Observed(a) \/ ObserveFails(a)
  <2>1. PICK result \in {"completed", "retryable", "final"} : Ends(a, result)
    BY <1>3 DEF Observed, ObserveFails, Disposition
  <2>2. pc[a] = "observing" /\ UNCHANGED <<pageVars, serverVars>>
    BY <1>3 DEF Observed, ObserveFails
  <2> QED
    BY <1>1, <2>1, <2>2, PageRests, EndsAlone
<1> QED
  BY <1>2, <1>3

-----------------------------------------------------------------------------
(* The steps of the session and of the page. *)

\* A rejected exchange is final only once its submission was sent.
LEMMA RejectPendingLawful ==
  ASSUME Typed, RejectPending, UNCHANGED task,
         \A b \in Attempts : b \in MayBeQueued' => b \in MayBeQueued
  PROVE  LawfulStep
<1>1. \A a \in Attempts :
        IF pc[a] \in Waiting
        THEN /\ pc'[a] = "done"
             /\ outcome'[a] = IF pc[a] = "submitting" THEN "final" ELSE "retryable"
        ELSE pc'[a] = pc[a] /\ outcome'[a] = outcome[a]
  BY DEF Typed, RejectPending, Disposition, WaitStage
<1>2. \A a \in Attempts : Lawful(a)
  BY <1>1 DEF RejectPending, Lawful, Kept, StaysUnsent, EndsUnknown, Unsent, Waiting
<1>3. /\ pc' \in [Attempts -> {"none", "prepare", "observing", "done"} \cup Waiting]
      /\ outcome' \in [Attempts -> {"none", "completed", "retryable", "final"}]
  BY <1>1 DEF Typed, RejectPending, Disposition, WaitStage
<1> QED
  BY <1>2, <1>3 DEF Typed, RejectPending, LawfulStep

\* A load, a reload, an end or a retirement of the session.
LEMMA SessionLawful ==
  ASSUME Typed, Session
  PROVE  LawfulStep
<1>1. UNCHANGED task /\ UNCHANGED serverVars
  BY DEF Session, LoadStops, PageReloads, SessionFails, LoadTimesOut, Retire, admissionVars
<1>2. CASE RejectPending /\ PageGone
  BY <1>1, <1>2, PageGoneEmpties, RejectPendingLawful DEF Typed
<1>3. CASE UNCHANGED <<driverVars, pageVars>>
  <2>1. MayBeQueued' = MayBeQueued
    BY <1>1, <1>3, PageRests
  <2> QED
    BY <1>1, <1>3, <2>1 DEF Typed, driverVars, LawfulStep, Lawful, Kept
<1> QED
  BY <1>2, <1>3 DEF Session, LoadStops, PageReloads, SessionFails, LoadTimesOut, Retire

\* The page's answer ends the attempt for good or brings the prompt of its receipt.
LEMMA ReplyLawful ==
  ASSUME Typed, NEW a \in Attempts, NEW p \in Prompts \cup {Nothing}, Reply(a, p),
         UNCHANGED task, \A b \in Attempts : b \in MayBeQueued' => b \in MayBeQueued
  PROVE  LawfulStep
<1>1. CASE pc[a] # "submitting"
  BY <1>1 DEF Typed, Reply, driverVars, LawfulStep, Lawful, Kept
<1>2. CASE pc[a] = "submitting" /\ p = Nothing
  BY <1>2, EndsAlone DEF Reply, Disposition
<1>3. CASE pc[a] = "submitting" /\ p # Nothing
  <2>1. /\ pc' = [pc EXCEPT ![a] = "observing"] /\ outcome' = outcome
        /\ prompt' = [prompt EXCEPT ![a] = p]
    BY <1>3 DEF Reply, Moves
  <2>2. GetsReceipt(a) /\ \A b \in Attempts : b # a => Kept(b)
    BY <1>3, <2>1 DEF Typed, GetsReceipt, Kept
  <2> QED
    BY <2>1, <2>2 DEF Typed, LawfulStep, Lawful
<1> QED
  BY <1>1, <1>2, <1>3

\* The page only hands an attempt on: from the inbox to the lease, to the call that
\* is to come, to the request on its way and to the server.
LEMMA HandedOn ==
  ASSUME Typed, UNCHANGED <<driverVars, task>>,
         \/ \E a \in Attempts : Acquire(a) \/ Queue(a) \/ GiveUp(a)
         \/ \E p \in Prompts : Call(p) \/ ServerAnswers(p)
         \/ Return
  PROVE  LawfulStep
<1>1. ASSUME NEW b \in Attempts, b \in MayBeQueued'
      PROVE  b \in MayBeQueued
  <2>1. b # Foreign /\ b # Nothing
    BY DEF Typed, Attempts, Foreign, Nothing
  <2>2. CASE \E a \in Attempts : Acquire(a) \/ Queue(a) \/ GiveUp(a)
    BY <1>1, <2>2 DEF MayBeQueued, Acquire, Queue, GiveUp, serverVars
  <2>3. CASE \E p \in Prompts : Call(p) \/ ServerAnswers(p)
    BY <1>1, <2>1, <2>3 DEF MayBeQueued, Call, ServerAnswers
  <2>4. CASE Return
    BY <1>1, <2>4 DEF MayBeQueued, Return, serverVars
  <2> QED
    BY <2>2, <2>3, <2>4
<1> QED
  BY <1>1 DEF Typed, driverVars, LawfulStep, Lawful, Kept

\* The steps in which the page answers.
LEMMA AnswersLawful ==
  ASSUME Typed, NEW a \in Attempts, NEW conflict \in BOOLEAN,
         Refuse(a) \/ OpenFails(a) \/ ReceiptSettles(a, conflict) \/ ReceiptFails(a, conflict)
  PROVE  LawfulStep
<1>1. CASE Refuse(a)
  <2>1. \A b \in Attempts : b \in MayBeQueued' => b \in MayBeQueued
    <3>1. CASE ReplyRetires(a)
      BY <1>1, <3>1, PageGoneEmpties DEF Typed, Refuse
    <3>2. CASE ~ReplyRetires(a)
      BY <1>1, <3>2 DEF Refuse, MayBeQueued, serverVars
    <3> QED
      BY <3>1, <3>2
  <2> QED
    BY <1>1, <2>1, ReplyLawful DEF Refuse, admissionVars
<1>2. ASSUME NEW p \in Prompts \cup {Nothing}, NEW c \in BOOLEAN, Close(a, p, c)
      PROVE  LawfulStep
  <2>1. \A b \in Attempts : b \in MayBeQueued' => b \in MayBeQueued
    <3>1. CASE ReplyRetires(a)
      BY <1>2, <3>1, PageGoneEmpties DEF Typed, Close
    <3>2. CASE ~ReplyRetires(a)
      BY <1>2, <3>2 DEF Typed, Close, MayBeQueued, serverVars, Attempts, Nothing
    <3> QED
      BY <3>1, <3>2
  <2>2. PICK q \in Prompts \cup {Nothing} : Reply(a, q)
    BY <1>2 DEF Close
  <2> QED
    BY <1>2, <2>1, <2>2, ReplyLawful DEF Close, admissionVars
<1>3. SoleReceipt \in Prompts \cup {Nothing}
  BY DEF SoleReceipt
<1> QED
  BY <1>1, <1>2, <1>3 DEF OpenFails, ReceiptSettles, ReceiptFails

\* Every step but the admission of an attempt is lawful.
LEMMA StepsLawful ==
  ASSUME Typed, [Next]_vars, \A a \in Attempts : ~Admit(a)
  PROVE  LawfulStep
<1>1. CASE UNCHANGED vars
  <2>1. UNCHANGED <<pageVars, serverVars>> /\ UNCHANGED <<driverVars, task>>
    BY <1>1 DEF vars, admissionVars
  <2> QED
    BY <2>1, PageRests DEF Typed, driverVars, LawfulStep, Lawful, Kept
<1>2. ASSUME NEW a \in Attempts, Driver(a)
      PROVE  LawfulStep
  BY <1>2, EarlySteps, HandshakeAnsweredLawful, EndingSteps DEF Driver
<1>3. CASE Page
  <2>1. CASE \E a \in Attempts : Refuse(a) \/ OpenFails(a)
    BY <2>1, AnswersLawful
  <2>2. CASE \E a \in Attempts, conflict \in BOOLEAN :
               ReceiptSettles(a, conflict) \/ ReceiptFails(a, conflict)
    BY <2>2, AnswersLawful
  <2>3. CASE \/ \E a \in Attempts : Acquire(a) \/ Queue(a) \/ GiveUp(a)
             \/ \E p \in Prompts : Call(p) \/ ServerAnswers(p)
             \/ Return
    <3>1. UNCHANGED <<driverVars, task>>
      BY <2>3 DEF Acquire, Queue, GiveUp, Call, ServerAnswers, Return, admissionVars
    <3> QED
      BY <2>3, <3>1, HandedOn
  <2> QED
    BY <1>3, <2>1, <2>2, <2>3 DEF Page
<1> QED
  BY <1>1, <1>2, <1>3, SessionLawful DEF Next

-----------------------------------------------------------------------------
(* The invariant. *)

LEMMA IInvInit ==
  ASSUME MaxAttempts \in Nat, Init
  PROVE  IInv
  BY DEF Init, IInv, Typed, OneByOne, NotYetSent, Phases, Retryable, LatestDecides,
         MayBeQueued, Attempts, Prompts, Nothing

\* A lawful step keeps what is known of the attempts.
LEMMA LawfulKeeps ==
  ASSUME IInv, LawfulStep
  PROVE  IInv'
<1> USE DEF IInv
<1>1. Typed'
  BY DEF Typed, LawfulStep
<1>2. OneByOne'
  BY DEF OneByOne, LawfulStep, Lawful, Kept, StaysUnsent, Sends, EndsUnknown, GetsReceipt,
         EndsObserved, Unsent
<1>3. NotYetSent'
  BY DEF NotYetSent, LawfulStep, Lawful, Kept, StaysUnsent, Sends, EndsUnknown, GetsReceipt,
         EndsObserved, Unsent
<1>4. Nothing \notin Prompts
  BY DEF Typed, Prompts, Attempts, Foreign, Nothing
<1>5. Phases'
  BY <1>4 DEF Phases, LawfulStep, Lawful, Kept, StaysUnsent, Sends, EndsUnknown, GetsReceipt,
         EndsObserved, Unsent
<1>6. Retryable'
  BY <1>4 DEF Retryable, Phases, NotYetSent, LawfulStep, Lawful, Kept, StaysUnsent, Sends,
         EndsUnknown, GetsReceipt, EndsObserved, Unsent
<1>7. LatestDecides'
  BY DEF LatestDecides, Phases, LawfulStep, Lawful, Kept, StaysUnsent, Sends, EndsUnknown,
         GetsReceipt, EndsObserved, Unsent
<1> QED
  BY <1>1, <1>2, <1>3, <1>5, <1>6, <1>7

\* A new attempt: all attempts before it have ended, and its Task's may be retried.
LEMMA AdmitKeeps ==
  ASSUME IInv, NEW a \in Attempts, Admit(a)
  PROVE  IInv'
<1> USE DEF IInv
<1>1. /\ pc[a] = "none" /\ pc' = [pc EXCEPT ![a] = "prepare"]
      /\ \A b \in Attempts : b < a <=> pc[b] = "done"
      /\ UNCHANGED <<outcome, prompt>> /\ UNCHANGED <<pageVars, serverVars>>
  BY DEF Admit
<1>2. PICK t \in {a} \cup {task[b] : b \in {b \in Attempts : outcome[b] = "retryable"}} :
        /\ \A b \in Attempts : task[b] = t =>
             outcome[b] = "retryable" \/ \E c \in Attempts : c > b /\ task[c] = t
        /\ task' = [task EXCEPT ![a] = t]
  BY DEF Admit
<1>3. \A b \in Attempts : b \in Nat /\ b # Nothing
  BY DEF Typed, Attempts, Nothing
<1>4. \A b \in Attempts : outcome[b] = "retryable" => b < a /\ pc[b] # "none"
  BY <1>1 DEF Phases
<1>5. t \in Attempts /\ t <= a
  <2>1. CASE t = a
    BY <1>3, <2>1
  <2>2. CASE t # a
    <3>1. PICK b \in Attempts : outcome[b] = "retryable" /\ t = task[b]
      BY <1>2, <2>2
    <3>2. task[b] \in Attempts /\ task[b] <= b /\ b < a
      BY <1>4, <3>1 DEF Typed, OneByOne
    <3> QED
      BY <1>3, <3>1, <3>2
  <2> QED
    BY <2>1, <2>2
<1>6. MayBeQueued' = MayBeQueued
  BY <1>1, PageRests
<1>7. \A b \in Attempts : pc[b] # "none" => b < a
  BY <1>1, <1>3 DEF OneByOne
<1>8. Typed'
  BY <1>1, <1>2, <1>5 DEF Typed
<1>9. OneByOne'
  <2>1. \A b \in Attempts : pc'[b] = IF b = a THEN "prepare" ELSE pc[b]
    BY <1>1 DEF Typed
  <2>2. \A b \in Attempts : task'[b] = IF b = a THEN t ELSE task[b]
    BY <1>2 DEF Typed
  <2>3. \A b, c \in Attempts : b < c /\ pc'[c] # "none" => pc'[b] = "done"
    BY <1>1, <1>3, <1>7, <2>1 DEF OneByOne
  <2> QED
    BY <1>3, <1>5, <2>1, <2>2, <2>3 DEF OneByOne
<1>10. NotYetSent' /\ Phases' /\ Retryable'
  BY <1>1, <1>6 DEF Typed, NotYetSent, Phases, Retryable, Unsent
<1>11. LatestDecides'
  <2> SUFFICES ASSUME NEW b \in Attempts, NEW c \in Attempts, b < c, task'[b] = task'[c],
                      task'[b] # Nothing
               PROVE  outcome[b] = "retryable"
    BY <1>1 DEF LatestDecides
  <2>1. CASE c = a
    <3>1. task[b] = t /\ t # Nothing
      BY <1>2, <1>3, <1>5, <2>1 DEF Typed
    <3> QED
      BY <1>2, <1>3, <3>1 DEF LatestDecides
  <2>2. CASE c # a
    <3>1. task[c] # Nothing
      BY <1>2, <2>2 DEF Typed
    <3>2. c < a /\ b # a
      BY <1>3, <1>7, <3>1 DEF OneByOne
    <3> QED
      BY <1>2, <2>2, <3>2 DEF Typed, LatestDecides
  <2> QED
    BY <2>1, <2>2
<1> QED
  BY <1>8, <1>9, <1>10, <1>11

LEMMA NextKeeps ==
  ASSUME IInv, [Next]_vars
  PROVE  IInv'
<1>1. CASE \E a \in Attempts : Admit(a)
  BY <1>1, AdmitKeeps
<1>2. CASE \A a \in Attempts : ~Admit(a)
  BY <1>2, StepsLawful, LawfulKeeps DEF IInv
<1> QED
  BY <1>1, <1>2

LEMMA LatestMayBeQueued ==
  ASSUME IInv
  PROVE  NeverReplayed
<1> SUFFICES ASSUME NEW a \in Attempts, NEW b \in Attempts, a < b,
                    task[a] = task[b], a \in MayBeQueued
             PROVE  prompt[a] # Nothing
  BY DEF NeverReplayed
<1>1. task[a] # Nothing
  BY DEF IInv, NotYetSent, OneByOne
<1> QED
  BY <1>1 DEF IInv, LatestDecides, Retryable

\* A Task gets another attempt only when what its earlier ones sent can no longer reach
\* ComfyUI's queue, or had a receipt, its own or another prompt's: for any number of Jobs and
\* of page loads.
THEOREM NeverReplayedAlways ==
  ASSUME MaxAttempts \in Nat
  PROVE  Spec => []NeverReplayed
<1>1. Init => IInv
  BY IInvInit
<1>2. IInv /\ [Next]_vars => IInv'
  BY NextKeeps
<1>3. IInv => NeverReplayed
  BY LatestMayBeQueued
<1> QED
  BY <1>1, <1>2, <1>3, PTL DEF Spec

-----------------------------------------------------------------------------
(* The page: its types, and whose receipt it holds.                          *)

PageTyped ==
  /\ stale \subseteq Attempts /\ inbox \subseteq Attempts /\ outstanding \subseteq Attempts
  /\ session \in {"none", "loading", "ready"} /\ loads \in 0 .. MaxLoads
  /\ timer \in BOOLEAN /\ retiring \in BOOLEAN /\ returned \in BOOLEAN
  /\ left \in {"none", "unused", "used"}
  /\ lease \in Attempts \cup {Nothing} /\ (lease = Nothing <=> stage = "idle")
  /\ stage \in {"idle", "opening", "native"}
  /\ calls \in Seq(Prompts) /\ Len(calls) <= 2
  /\ receipt \in Prompts \cup {Nothing, Failed}
  /\ posting \subseteq Prompts /\ queued \subseteq Prompts

\* A receipt is that of the first call the observer has seen.
OfFirstCall == receipt \in Prompts => calls # <<>> /\ calls[1] = receipt

PInv == IInv /\ MaxLoads \in Nat /\ PageTyped /\ OfFirstCall

LEMMA PromptNumbers ==
  ASSUME MaxAttempts \in Nat
  PROVE  /\ Attempts \subseteq Nat \ {0} /\ Attempts \subseteq Prompts
         /\ Nothing \notin Prompts /\ Failed \notin Prompts /\ Nothing # Failed
  BY DEF Attempts, Prompts, Foreign, Nothing, Failed

LEMMA NoCalls == <<>> \in Seq(Prompts) /\ Len(<<>>) = 0 /\ Len(<<>>) <= 2
  BY EmptySeq

\* What every step of the session leaves of the page.
LEMMA GoneTyped ==
  ASSUME MaxAttempts \in Nat, PageTyped, PageGone
  PROVE  /\ inbox' \subseteq Attempts /\ outstanding' \subseteq Attempts /\ returned' \in BOOLEAN
         /\ left' \in {"none", "unused", "used"} /\ calls' \in Seq(Prompts) /\ Len(calls') <= 2
         /\ lease' = Nothing /\ stage' = "idle" /\ receipt' = Nothing
  BY PromptNumbers, NoCalls DEF PageGone

LEMMA SessionGoneTyped ==
  ASSUME PageTyped, SessionGone
  PROVE  session' = "none" /\ loads' \in 0 .. MaxLoads /\ timer' = FALSE /\ retiring' = FALSE
  BY DEF PageTyped, SessionGone

\* The steps of the driver touch the page only at the end of an exchange, or to submit.
LEMMA DriverPage ==
  ASSUME PInv, NEW a \in Attempts, Admit(a) \/ Driver(a)
  PROVE  PageTyped' /\ OfFirstCall'
<1> USE DEF PInv, IInv, Typed
<1>1. UNCHANGED <<stale, posting, queued>>
  BY DEF Admit, Driver, Prepared, PrepareFails, Resolved, HandshakeAnswered, HandshakeFails,
     SubmitTimesOut, Observed, ObserveFails, admissionVars, serverVars
<1>2. CASE ExchangeDone
  <2>1. CASE retiring
    BY <1>1, <1>2, <2>1, GoneTyped, SessionGoneTyped, PromptNumbers
       DEF ExchangeDone, PageTyped, OfFirstCall
  <2>2. CASE ~retiring
    BY <1>1, <1>2, <2>2 DEF ExchangeDone, PageTyped, OfFirstCall, sessionVars, pageVars, observerVars
  <2> QED
    BY <2>1, <2>2
<1>3. CASE UNCHANGED pageVars /\ ~ExchangeDone
  <2>1. /\ session' \in {"none", "loading", "ready"} /\ loads' \in 0 .. MaxLoads
        /\ timer' \in BOOLEAN /\ retiring' \in BOOLEAN
    <3>1. \/ UNCHANGED sessionVars
          \/ /\ session' = "loading" /\ timer' = TRUE /\ retiring' = retiring
             /\ loads < MaxLoads /\ loads' = loads + 1
      BY <1>3 DEF Admit, Driver, Prepared, PrepareFails, Resolved, HandshakeAnswered,
         HandshakeFails, SubmitTimesOut, Observed, ObserveFails
    <3>2. loads' \in 0 .. MaxLoads
      BY <3>1 DEF PageTyped, sessionVars
    <3>3. timer' \in BOOLEAN /\ retiring' \in BOOLEAN /\ session' \in {"none", "loading", "ready"}
      BY <3>1 DEF PageTyped, sessionVars
    <3> QED
      BY <3>2, <3>3
  <2> QED
    BY <1>1, <1>3, <2>1 DEF PageTyped, OfFirstCall, pageVars, observerVars
<1>4. CASE /\ inbox' = inbox \cup {a} /\ UNCHANGED <<sessionVars, lease, stage, observerVars>>
           /\ UNCHANGED <<outstanding, left>>
  BY <1>1, <1>4 DEF PageTyped, OfFirstCall, sessionVars, observerVars
<1> QED
  BY <1>2, <1>3, <1>4 DEF Admit, Driver, Prepared, PrepareFails, Resolved, HandshakeAnswered,
     HandshakeFails, SubmitTimesOut, Observed, ObserveFails

LEMMA SessionPage ==
  ASSUME PInv, Session
  PROVE  PageTyped' /\ OfFirstCall'
<1> USE DEF PInv, IInv, Typed
<1>1. UNCHANGED <<posting, queued>> /\ stale' \subseteq Attempts
  BY DEF Session, LoadStops, PageReloads, SessionFails, LoadTimesOut, Retire, admissionVars,
     serverVars, PageTyped
<1>2. /\ session' \in {"none", "loading", "ready"} /\ loads' \in 0 .. MaxLoads
      /\ timer' \in BOOLEAN /\ retiring' \in BOOLEAN
  <2>1. timer' \in BOOLEAN /\ retiring' \in BOOLEAN
    BY DEF PageTyped, Session, LoadStops, PageReloads, SessionFails, LoadTimesOut, Retire,
       SessionGone
  <2>2. session' \in {"none", "loading", "ready"}
    BY DEF PageTyped, Session, LoadStops, PageReloads, SessionFails, LoadTimesOut, Retire,
       SessionGone
  <2>3. loads' = loads \/ (loads < MaxLoads /\ loads' = loads + 1)
    BY DEF Session, LoadStops, PageReloads, SessionFails, LoadTimesOut, Retire, SessionGone
  <2>4. loads' \in 0 .. MaxLoads
    BY <2>3 DEF PageTyped
  <2> QED
    BY <2>1, <2>2, <2>4
<1>3. CASE PageGone
  BY <1>1, <1>2, <1>3, GoneTyped, PromptNumbers DEF PageTyped, OfFirstCall
<1>4. CASE UNCHANGED pageVars
  BY <1>1, <1>2, <1>4 DEF PageTyped, OfFirstCall, pageVars, observerVars
<1> QED
  BY <1>3, <1>4 DEF Session, LoadStops, PageReloads, SessionFails, LoadTimesOut, Retire

\* The steps inside the page, up to its answer.
LEMMA QueuePage ==
  ASSUME PInv,
         \/ \E a \in Attempts : Acquire(a) \/ Queue(a) \/ GiveUp(a)
         \/ \E p \in Prompts : Call(p) \/ ServerAnswers(p)
         \/ Return
  PROVE  PageTyped' /\ OfFirstCall'
<1> USE DEF PInv, IInv, Typed
<1>1. UNCHANGED <<stale, session, loads, timer, retiring>>
  BY DEF Acquire, Queue, GiveUp, Call, ServerAnswers, Return, admissionVars, sessionVars
<1>2. CASE \E a \in Attempts : Acquire(a) \/ Queue(a) \/ GiveUp(a)
  <2>1. CASE \E a \in Attempts : Acquire(a) \/ GiveUp(a)
    BY <1>1, <2>1, PromptNumbers DEF PageTyped, OfFirstCall, Acquire, GiveUp, observerVars, serverVars
  <2>2. ASSUME NEW a \in Attempts, Queue(a)
        PROVE  PageTyped' /\ OfFirstCall'
    BY <1>1, <2>2, PromptNumbers, NoCalls DEF PageTyped, OfFirstCall, Queue, serverVars
  <2> QED
    BY <1>2, <2>1, <2>2
<1>3. CASE Return
  BY <1>1, <1>3 DEF PageTyped, OfFirstCall, Return, serverVars
<1>4. ASSUME NEW p \in Prompts, Call(p)
      PROVE  PageTyped' /\ OfFirstCall'
  <2>1. /\ calls' \in Seq(Prompts) /\ Len(calls') <= 2
        /\ calls # <<>> => calls' # <<>> /\ calls'[1] = calls[1]
    <3>1. CASE calls' = calls
      BY <3>1 DEF PageTyped
    <3>2. CASE calls' = Append(calls, p) /\ Len(calls) < 2
      BY <3>2, AppendProperties, LenProperties, EmptySeq DEF PageTyped
    <3> QED
      BY <1>4, <3>1, <3>2 DEF Call
  <2>2. receipt' \in {receipt, Failed} /\ posting' \subseteq Prompts /\ outstanding' \subseteq Attempts
    BY <1>4 DEF Call, PageTyped
  <2>3. left' \in {"none", "unused", "used"} /\ UNCHANGED <<inbox, lease, stage, returned, queued>>
    BY <1>4 DEF Call, PageTyped
  <2> QED
    BY <1>1, <2>1, <2>2, <2>3, PromptNumbers DEF PageTyped, OfFirstCall
<1>5. ASSUME NEW p \in Prompts, ServerAnswers(p)
      PROVE  PageTyped' /\ OfFirstCall'
  <2>1. /\ UNCHANGED <<inbox, lease, stage, returned, calls, outstanding, left>>
        /\ posting' \subseteq Prompts /\ queued' \subseteq Prompts
        /\ receipt' \in {receipt, Failed} \/ (calls # <<>> /\ Head(calls) = p /\ receipt' = p)
    BY <1>5 DEF ServerAnswers, PageTyped
  <2> QED
    BY <1>1, <2>1, PromptNumbers DEF PageTyped, OfFirstCall
<1> QED
  BY <1>2, <1>3, <1>4, <1>5

\* The page answers and closes its lease, or is gone with the session.
LEMMA AnswerPage ==
  ASSUME PInv, NEW a \in Attempts, NEW conflict \in BOOLEAN,
         Refuse(a) \/ OpenFails(a) \/ ReceiptSettles(a, conflict) \/ ReceiptFails(a, conflict)
  PROVE  PageTyped' /\ OfFirstCall'
<1> USE DEF PInv, IInv, Typed
<1>1. UNCHANGED <<stale, posting, queued>>
  BY DEF Refuse, OpenFails, ReceiptSettles, ReceiptFails, Close, admissionVars, serverVars
<1>2. /\ session' \in {"none", "loading", "ready"} /\ loads' \in 0 .. MaxLoads
      /\ timer' \in BOOLEAN /\ retiring' \in BOOLEAN
  BY DEF PageTyped, Refuse, OpenFails, ReceiptSettles, ReceiptFails, Close, Reply, SessionGone,
     sessionVars
<1>3. CASE PageGone
  BY <1>1, <1>2, <1>3, GoneTyped, PromptNumbers DEF PageTyped, OfFirstCall
<1>4. CASE Refuse(a) /\ ~PageGone
  BY <1>1, <1>2, <1>4 DEF PageTyped, OfFirstCall, Refuse, observerVars
<1>5. CASE ~Refuse(a) /\ ~PageGone
  <2>1. /\ lease' = Nothing /\ stage' = "idle" /\ UNCHANGED <<inbox, outstanding>>
        /\ returned' = FALSE /\ calls' = <<>> /\ receipt' = Nothing
        /\ left' \in {left, "used", "unused"}
    BY <1>5 DEF OpenFails, ReceiptSettles, ReceiptFails, Close
  <2> QED
    BY <1>1, <1>2, <2>1, PromptNumbers, NoCalls DEF PageTyped, OfFirstCall
<1> QED
  BY <1>3, <1>4, <1>5

LEMMA PInvNext ==
  ASSUME PInv, [Next]_vars
  PROVE  PInv'
<1>1. CASE UNCHANGED vars
  BY <1>1 DEF PInv, PageTyped, OfFirstCall, IInv, Typed, OneByOne, NotYetSent, Phases, Retryable,
     LatestDecides, MayBeQueued, vars, driverVars, admissionVars, sessionVars, pageVars,
     observerVars, serverVars
<1>2. CASE Next
  <2>1. PageTyped' /\ OfFirstCall'
    BY <1>2, DriverPage, SessionPage, QueuePage, AnswerPage DEF Next, Page
  <2> QED
    BY <2>1, NextKeeps DEF PInv
<1> QED
  BY <1>1, <1>2

LEMMA PInvInit ==
  ASSUME MaxAttempts \in Nat, MaxLoads \in Nat, Init
  PROVE  PInv
<1>1. /\ calls = <<>> /\ receipt = Nothing /\ lease = Nothing /\ stage = "idle" /\ loads = 0
      /\ session = "none" /\ timer = FALSE /\ retiring = FALSE /\ returned = FALSE /\ left = "none"
  BY DEF Init
<1>2. stale = {} /\ inbox = {} /\ outstanding = {} /\ posting = {} /\ queued = {}
  BY DEF Init
<1>3. calls \in Seq(Prompts) /\ Len(calls) <= 2
  BY <1>1, NoCalls
<1>4. OfFirstCall
  BY <1>1, PromptNumbers DEF OfFirstCall
<1>5. loads \in 0 .. MaxLoads
  BY <1>1
<1>6. PageTyped
  BY <1>1, <1>2, <1>3, <1>5 DEF PageTyped
<1> QED
  BY <1>4, <1>6, IInvInit DEF PInv

LEMMA PInvTypes ==
  ASSUME PInv
  PROVE  TypeOK
<1>1. calls \in [1 .. Len(calls) -> Prompts] /\ Len(calls) \in 0 .. 2
  <2>1. calls \in Seq(Prompts) /\ Len(calls) <= 2
    BY DEF PInv, PageTyped
  <2>2. Len(calls) \in Nat /\ calls \in [1 .. Len(calls) -> Prompts]
    BY <2>1, LenProperties
  <2> QED
    BY <2>1, <2>2
<1>2. calls \in SeqOf(Prompts, 2)
  BY <1>1 DEF SeqOf
<1>3. {timer, retiring, returned} \subseteq BOOLEAN
  BY DEF PInv, PageTyped
<1> QED
  BY <1>2, <1>3 DEF PInv, PageTyped, IInv, Typed, TypeOK

\* A receipt goes to the attempt in whose observer the prompt's call came first.
LEMMA OwnReceipt ==
  ASSUME PInv, [Next]_vars, NEW a \in Attempts, prompt'[a] # prompt[a], Contains(calls, a)
  PROVE  prompt'[a] = a
<1>1. PICK b \in Attempts, conflict \in BOOLEAN : ReceiptSettles(b, conflict)
  BY DEF Next, Admit, Driver, Prepared, PrepareFails, Resolved, HandshakeAnswered, HandshakeFails,
     SubmitTimesOut, Observed, ObserveFails, Session, LoadStops, PageReloads, SessionFails,
     LoadTimesOut, Retire, RejectPending, Page, Acquire, Refuse, Queue, GiveUp, OpenFails,
     ReceiptFails, Close, Reply, Call, ServerAnswers, Return, vars, driverVars
<1>2. prompt' = [prompt EXCEPT ![b] = SoleReceipt] /\ SoleReceipt # Nothing
  BY <1>1 DEF ReceiptSettles, Close, Reply, driverVars
<1>3. a = b /\ prompt'[a] = SoleReceipt
  BY <1>2 DEF PInv, IInv, Typed
<1>4. receipt \in Prompts /\ Len(calls) = 1 /\ SoleReceipt = receipt
  BY <1>2 DEF SoleReceipt
<1>5. calls[1] = a
  BY <1>4 DEF Contains
<1> QED
  BY <1>3, <1>4, <1>5 DEF PInv, OfFirstCall

\* An attempt whose own call the observer has seen never gets the receipt of another prompt:
\* for any number of Jobs and page loads, whatever else is queued in the page meanwhile.  One
\* whose own call has not come may accept such a receipt.
THEOREM ReceiptIsOwnAlways ==
  ASSUME MaxAttempts \in Nat, MaxLoads \in Nat
  PROVE  Spec => ReceiptIsOwn
<1>1. Init => PInv
  BY PInvInit
<1>2. PInv /\ [Next]_vars => PInv'
  BY PInvNext
<1>3. PInv /\ [Next]_vars =>
        \A a \in Attempts : prompt'[a] # prompt[a] /\ Contains(calls, a) => prompt'[a] = a
  BY OwnReceipt
<1> QED
  BY <1>1, <1>2, <1>3, PTL DEF Spec, ReceiptIsOwn
=============================================================================
