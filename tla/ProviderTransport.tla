--------------------------- MODULE ProviderTransport ---------------------------
(***************************************************************************)
(* The transport of paid generation requests in packages/providers: a      *)
(* text-to-image or Gemini request goes through executeWithEndpointFailover *)
(* (shared/transport/failover.ts), an OpenAI edit through the attempt plan *)
(* of providers/openai/transport/attempt-plan.ts with withRetry and the    *)
(* dispatch ledger below it.  The requests run side by side and share the  *)
(* health of the endpoints.                                                *)
(*                                                                         *)
(* An answer of an endpoint is one of the failure kinds of error-map.ts.   *)
(* After a 429 or a 415 the request was rejected before it was executed;   *)
(* after any other answer it may have been executed, and charged.          *)
(*                                                                         *)
(* No built-in provider declares idempotency, and no caller passes         *)
(* maxAttempts, deadlineMs or failoverEnabled: these branches are left out.*)
(***************************************************************************)
EXTENDS Naturals, Sequences, FiniteSetsExt, Functions

CONSTANTS
  Requests,   \* concurrent calls of invoke
  IsEdit,     \* the requests that are OpenAI edits
  EndpointCount, \* the enabled endpoints, in the order of the configuration
  CodecCount, \* the edit codecs compatible with the request
  MaxRetries  \* paidRetry.policy.maxRetries

ASSUME TransportAssumption ==
  /\ IsEdit \subseteq Requests
  /\ EndpointCount \in Nat \ {0}
  /\ CodecCount \in Nat \ {0}
  /\ MaxRetries \in Nat

Endpoints == 1 .. EndpointCount

\* The failure kinds, by how the code treats them.  "wire_rejected" is the
\* request_invalid of a 415, "not_found" an unknown_provider_error of a 404 or 408.
Rejected == {"rate_limited", "wire_rejected"}
Ambiguous == {"network_error", "upstream_unavailable", "timeout"}
FailureKinds == Rejected \cup Ambiguous \cup {"not_found", "request_invalid", "auth_failed"}

VARIABLES
  automatic,   \* selectionMode is "auto"; if not, the last endpoint is the selected one
  pc,          \* request -> "idle", "sent", "backoff" or "done"
  plan,        \* request -> the endpoints of its candidates, in order
  pos,         \* request -> the candidate it tries
  tries,       \* request -> endpointAttempt, or the attempt of withRetry
  used,        \* request -> attempts.length, or ledger.totalUsed
  retries,     \* request -> ledger.usedRetries
  onWire,      \* request -> the current attempt was dispatched
  sent,        \* request -> the endpoints it was dispatched to, in order
  executed,    \* request -> the endpoints of those dispatches that may have been executed
  aborted,     \* request -> its signal is aborted
  result,      \* request -> what invoke ended with, or its last error so far
  cooling,     \* endpoint -> health.openUntil lies ahead
  failures,    \* endpoint -> health.consecutiveFailures
  lastSuccess  \* endpoint -> health.lastSuccessAt, as a count of successes

health == <<cooling, failures, lastSuccess>>
vars == <<automatic, pc, plan, pos, tries, used, retries, onWire, sent, executed, aborted, result, health>>

TypeOK ==
  /\ automatic \in BOOLEAN
  /\ pc \in [Requests -> {"idle", "sent", "backoff", "done"}]
  /\ {plan, sent, executed} \subseteq [Requests -> Seq(Endpoints)]
  /\ {pos, used} \subseteq [Requests -> Nat]
  /\ {tries, retries} \subseteq [Requests -> 0 .. MaxRetries + 1]
  /\ {onWire, aborted} \subseteq [Requests -> BOOLEAN]
  /\ result \in [Requests -> {"none", "ok", "no_candidate"} \cup FailureKinds]
  /\ cooling \in [Endpoints -> BOOLEAN]
  /\ {failures, lastSuccess} \subseteq [Endpoints -> Nat]

Zero == [r \in Requests |-> 0]

Init ==
  /\ automatic \in BOOLEAN
  /\ pc = [r \in Requests |-> "idle"]
  /\ plan = [r \in Requests |-> << >>]
  /\ pos = Zero /\ tries = Zero /\ used = Zero /\ retries = Zero
  /\ onWire = [r \in Requests |-> FALSE]
  /\ sent = [r \in Requests |-> << >>]
  /\ executed = [r \in Requests |-> << >>]
  /\ aborted = [r \in Requests |-> FALSE]
  /\ result = [r \in Requests |-> "none"]
  /\ cooling = [e \in Endpoints |-> FALSE]
  /\ failures = [e \in Endpoints |-> 0]
  /\ lastSuccess = [e \in Endpoints |-> 0]

-----------------------------------------------------------------------------
(* Candidates. *)

AllowsFailover == automatic /\ EndpointCount > 1

\* The comparison of endpointOrder; ties keep the order of the configuration.
ComesBefore(e, f) ==
  IF cooling[e] # cooling[f] THEN cooling[f]
  ELSE IF lastSuccess[e] # lastSuccess[f] THEN lastSuccess[e] > lastSuccess[f]
  ELSE IF failures[e] # failures[f] THEN failures[e] < failures[f]
  ELSE e < f

\* The endpoints in the order of the comparison, which admits one order.
EndpointOrders ==
  IF automatic
  THEN {order \in [Endpoints -> Endpoints] :
          \A i, j \in Endpoints : i < j => ComesBefore(order[i], order[j])}
  ELSE {<<EndpointCount>>}

\* resolveAttemptPlan: every endpoint with one codec, or one endpoint with every
\* codec.  It takes the first endpoint even when another one is selected.
AttemptPlan ==
  IF AllowsFailover THEN [i \in Endpoints |-> i] ELSE [i \in 1 .. CodecCount |-> 1]

CurrentEndpoint(r) == plan[r][pos[r]]

-----------------------------------------------------------------------------
(* One attempt.  Under an aborted signal withRetry throws before dispatching. *)

\* MUTANT of Dispatches: the signal is not looked at before the attempt.
DispatchesUnchecked(r, seq, i) ==
  /\ pc' = [pc EXCEPT ![r] = "sent"]
  /\ pos' = [pos EXCEPT ![r] = i]
  /\ onWire' = [onWire EXCEPT ![r] = TRUE]
  /\ sent' = [sent EXCEPT ![r] = Append(@, seq[i])]

Dispatches(r, seq, i) ==
  /\ pc' = [pc EXCEPT ![r] = "sent"]
  /\ pos' = [pos EXCEPT ![r] = i]
  /\ onWire' = [onWire EXCEPT ![r] = ~aborted[r]]
  /\ sent' = IF aborted[r] THEN sent ELSE [sent EXCEPT ![r] = Append(@, seq[i])]

Ends(r, outcome) ==
  /\ pc' = [pc EXCEPT ![r] = "done"]
  /\ result' = [result EXCEPT ![r] = outcome]

\* The attempt of r was answered, or never sent.
Answered(r, answer) ==
  /\ pc[r] = "sent"
  /\ onWire[r] \/ answer = "timeout"
  /\ executed' = IF onWire[r] /\ answer \notin Rejected
                 THEN [executed EXCEPT ![r] = Append(@, CurrentEndpoint(r))] ELSE executed
  /\ UNCHANGED <<plan, aborted>>

-----------------------------------------------------------------------------
(* executeWithEndpointFailover. *)

\* MUTANT of TryFrom: an endpoint is tried though it cools down.
TryFromCooling(r, seq, i, count, cools, lastError) ==
  IF i <= Len(seq) /\ count < Len(seq)
  THEN /\ Dispatches(r, seq, i)
       /\ tries' = [tries EXCEPT ![r] = 1]
       /\ used' = [used EXCEPT ![r] = count]
       /\ result' = [result EXCEPT ![r] = lastError]
  ELSE /\ Ends(r, lastError)
       /\ UNCHANGED <<pos, tries, used, onWire, sent>>

\* The for loop from candidate i on: endpoints that cool down are skipped, and
\* a skipped endpoint counts as an attempt.
TryFrom(r, seq, i, count, cools, lastError) ==
  LET healthy == {j \in i .. Len(seq) : ~cools[seq[j]]}
      next == Min(healthy)
  IN IF healthy # {} /\ count + next - i < Len(seq)
     THEN /\ Dispatches(r, seq, next)
          /\ tries' = [tries EXCEPT ![r] = 1]
          /\ used' = [used EXCEPT ![r] = count + next - i]
          /\ result' = [result EXCEPT ![r] = lastError]
     ELSE /\ Ends(r, lastError)
          /\ UNCHANGED <<pos, tries, used, onWire, sent>>

Generate(r) ==
  /\ pc[r] = "idle" /\ r \notin IsEdit
  /\ \E order \in EndpointOrders :
       /\ plan' = [plan EXCEPT ![r] = order]
       /\ TryFrom(r, order, 1, 0, cooling, "no_candidate")
  /\ UNCHANGED <<automatic, retries, executed, aborted, health>>

GenerateSucceeds(r) ==
  /\ r \notin IsEdit
  /\ Answered(r, "ok")
  /\ Ends(r, "ok")
  /\ LET e == CurrentEndpoint(r) IN
       /\ cooling' = [cooling EXCEPT ![e] = FALSE]
       /\ failures' = [failures EXCEPT ![e] = 0]
       /\ lastSuccess' = [lastSuccess EXCEPT ![e] = 1 + Max({lastSuccess[f] : f \in Endpoints})]
  /\ UNCHANGED <<automatic, pos, tries, used, retries, onWire, sent>>

ShouldFailover(kind) ==
  AllowsFailover /\ kind \in {"network_error", "upstream_unavailable", "not_found"}

\* MUTANT of RetriesEndpoint: the retries do not count as attempts.
RetriesEndpointFreely(r, kind) == kind = "rate_limited" /\ tries[r] <= MaxRetries

\* shouldRetryCurrentEndpoint, while the attempts are not used up.
RetriesEndpoint(r, kind) ==
  kind = "rate_limited" /\ tries[r] <= MaxRetries /\ used[r] + 1 < Len(plan[r])

GenerateFails(r) ==
  /\ r \notin IsEdit
  /\ \E kind \in FailureKinds :
       LET e == CurrentEndpoint(r)
           cools == [cooling EXCEPT ![e] = @ \/ ShouldFailover(kind)]
       IN /\ Answered(r, kind)
          /\ cooling' = cools
          /\ failures' = [failures EXCEPT ![e] = @ + 1]
          /\ \/ /\ RetriesEndpoint(r, kind)
                /\ pc' = [pc EXCEPT ![r] = "backoff"]
                /\ used' = [used EXCEPT ![r] = @ + 1]
                /\ result' = [result EXCEPT ![r] = kind]
                /\ UNCHANGED <<pos, tries, onWire, sent>>
             \/ /\ ShouldFailover(kind)
                /\ TryFrom(r, plan[r], pos[r] + 1, used[r] + 1, cools, kind)
             \/ /\ ~RetriesEndpoint(r, kind) /\ ~ShouldFailover(kind)
                /\ Ends(r, kind)
                /\ UNCHANGED <<pos, tries, used, onWire, sent>>
  /\ UNCHANGED <<automatic, retries, lastSuccess>>

\* The back-off is over: the same endpoint again, even if it cools down by now.
GenerateAgain(r) ==
  /\ pc[r] = "backoff" /\ r \notin IsEdit
  /\ Dispatches(r, plan[r], pos[r])
  /\ tries' = [tries EXCEPT ![r] = @ + 1]
  /\ UNCHANGED <<automatic, plan, used, retries, executed, aborted, result, health>>

-----------------------------------------------------------------------------
(* executeAttemptPlan over withRetry. *)

\* DispatchAttemptLedger.exhausted under deriveDispatchBudget.
Exhausted(r) == used[r] >= Len(plan[r]) + MaxRetries \/ retries[r] > MaxRetries

\* MUTANT of WithRetry: one retry more than the policy allows.
WithRetryOffByOne(r, answer) ==
  answer = "rate_limited" /\ tries[r] <= MaxRetries + 1 /\ ~aborted[r]

\* withRetry tries again: classifyPaidRetry, and the delay is not refused.
WithRetry(r, answer) ==
  answer = "rate_limited" /\ tries[r] <= MaxRetries /\ ~aborted[r]

\* An attempt of withRetry: consume, then dispatch.  A ledger that is exhausted
\* throws, which ends the request.
EditAttempt(r, seq, i, isRetry) ==
  IF ~aborted[r] /\ pc[r] # "idle" /\ Exhausted(r)
  THEN /\ Ends(r, "network_error")
       /\ UNCHANGED <<pos, used, retries, onWire, sent>>
  ELSE /\ Dispatches(r, seq, i)
       /\ used' = IF aborted[r] THEN used ELSE [used EXCEPT ![r] = @ + 1]
       /\ retries' = IF aborted[r] \/ ~isRetry THEN retries ELSE [retries EXCEPT ![r] = @ + 1]
       /\ UNCHANGED result

Edit(r) ==
  /\ pc[r] = "idle" /\ r \in IsEdit
  /\ plan' = [plan EXCEPT ![r] = AttemptPlan]
  /\ tries' = [tries EXCEPT ![r] = 1]
  /\ EditAttempt(r, AttemptPlan, 1, FALSE)
  /\ UNCHANGED <<automatic, executed, aborted, health>>

\* MUTANT of MayTryNextCodec: any request_invalid allows the other codec.
MayTryNextCodecAnyShape(r, kind) ==
  /\ kind \in {"wire_rejected", "request_invalid"}
  /\ ~AllowsFailover /\ pos[r] < Len(plan[r]) /\ ~Exhausted(r)

\* decideNextAction allows a codec fallback: a 415 that the other codec may avoid.
MayTryNextCodec(r, kind) ==
  kind = "wire_rejected" /\ ~AllowsFailover /\ pos[r] < Len(plan[r]) /\ ~Exhausted(r)

EditAnswered(r) ==
  /\ r \in IsEdit
  /\ \E answer \in FailureKinds \cup {"ok"} :
       /\ Answered(r, answer)
       /\ \/ /\ WithRetry(r, answer)
             /\ pc' = [pc EXCEPT ![r] = "backoff"]
             /\ UNCHANGED <<pos, tries, used, retries, onWire, sent, result>>
          \/ /\ MayTryNextCodec(r, answer)
             /\ tries' = [tries EXCEPT ![r] = 1]
             /\ EditAttempt(r, plan[r], pos[r] + 1, FALSE)
          \/ /\ ~WithRetry(r, answer)
             /\ Ends(r, answer)
             /\ UNCHANGED <<pos, tries, used, retries, onWire, sent>>
  /\ UNCHANGED <<automatic, health>>

EditAgain(r) ==
  /\ pc[r] = "backoff" /\ r \in IsEdit
  /\ tries' = [tries EXCEPT ![r] = @ + 1]
  /\ EditAttempt(r, plan[r], pos[r], TRUE)
  /\ UNCHANGED <<automatic, plan, executed, aborted, health>>

-----------------------------------------------------------------------------
\* The signal aborts; a request in its back-off ends at once.
Abort(r) ==
  /\ pc[r] # "done" /\ ~aborted[r]
  /\ aborted' = [aborted EXCEPT ![r] = TRUE]
  /\ IF pc[r] = "backoff" THEN Ends(r, "timeout") ELSE UNCHANGED <<pc, result>>
  /\ UNCHANGED <<automatic, plan, pos, tries, used, retries, onWire, sent, executed, health>>

\* Time passes health.openUntil.
CooldownEnds(e) ==
  /\ cooling[e]
  /\ cooling' = [cooling EXCEPT ![e] = FALSE]
  /\ UNCHANGED <<automatic, pc, plan, pos, tries, used, retries, onWire, sent, executed, aborted,
                 result, failures, lastSuccess>>

Step(r) ==
  \/ Generate(r) \/ GenerateSucceeds(r) \/ GenerateFails(r) \/ GenerateAgain(r)
  \/ Edit(r) \/ EditAnswered(r) \/ EditAgain(r)

Next ==
  \/ \E r \in Requests : Step(r) \/ Abort(r)
  \/ \E e \in Endpoints : CooldownEnds(e)

Spec == Init /\ [][Next]_vars

-----------------------------------------------------------------------------
(* Properties. *)

\* packages/providers/ARCHITECTURE.md, "Unknown execution state stops automatic
\* replay for openai edit execution": whatever the codecs, retries and answers,
\* an edit is executed, and charged, at most once.
EditExecutedOnce == \A r \in IsEdit : Len(executed[r]) <= 1

\* No endpoint executes one paid request twice: what may have been executed is
\* not sent to the endpoint again, by retry or by codec fallback.
NoReplayAtEndpoint == \A r \in Requests : IsInjective(executed[r])

\* What may have been executed is not sent again where the code promises that.
NoReplay == EditExecutedOnce /\ NoReplayAtEndpoint

\* A request dispatches at most once per candidate, plus the retries of the
\* policy when it is an edit.
DispatchBudget ==
  \A r \in Requests :
    Len(sent[r]) <= IF r \in IsEdit THEN Len(plan[r]) + MaxRetries ELSE Len(plan[r])

\* Nothing is dispatched for a request whose signal is aborted, though the
\* back-off of failover.ts does not see a signal that aborted before it began.
AbortIsFinal == [][\A r \in Requests : aborted[r] => sent'[r] = sent[r]]_vars

\* A generation request goes to an endpoint that cools down, because of any
\* request, only when it is the endpoint it is trying already: the order of the
\* candidates is old by then, the health is not.
CooldownRespected ==
  [][\A r \in Requests \ IsEdit, e \in Endpoints :
       sent'[r] = Append(sent[r], e) /\ cooling[e]
         => pc[r] = "backoff" /\ CurrentEndpoint(r) = e]_vars

\* docs/adr/provider-attempt-and-replay-safety.md:25-27: after "502 / 503 / 504 /
\* timeout / connection_lost / response_lost" the execution state is unknown, so
\* "stop immediately; no automatic replay; no cross-endpoint failover".
NoReplayOfUnknown == \A r \in Requests : Len(executed[r]) <= 1

\* docs/adr/provider-attempt-and-replay-safety.md:16: "429 -> same-endpoint bounded
\* retry, governed by paid retry policy alone".
RateLimitRetried ==
  \A r \in Requests :
    pc[r] = "done" /\ result[r] = "rate_limited" /\ ~aborted[r] => tries[r] > MaxRetries

=============================================================================
