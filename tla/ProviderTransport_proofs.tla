------------------------ MODULE ProviderTransport_proofs ------------------------
(***************************************************************************)
(* Proofs about ProviderTransport.  What a request dispatched and what it  *)
(* may have executed follow from where it stands: a request that may still *)
(* dispatch executed nothing at its present candidate or a later one, and  *)
(* an edit nothing at all (Progress); its dispatches are at most what its  *)
(* counter says, and the counter is within the budget (Counted).           *)
(***************************************************************************)
EXTENDS ProviderTransport, SequenceTheorems, WellFoundedInduction, TLAPS

Busy(r) == pc[r] \in {"sent", "backoff"}

\* A request not begun has no dispatch, no execution and no count.
Fresh(r) ==
  pc[r] = "idle" => sent[r] = << >> /\ executed[r] = << >> /\ used[r] = 0 /\ retries[r] = 0

\* A request on its way stands at a candidate of its plan.
AtCandidate(r) ==
  /\ Busy(r) => pos[r] \in 1 .. Len(plan[r])
  /\ pc[r] = "backoff" => tries[r] <= MaxRetries

Progress(r) ==
  IF r \in IsEdit
  THEN /\ pc[r] # "done" => executed[r] = << >>
       /\ Len(executed[r]) <= 1
  ELSE /\ IsInjective(plan[r])
       /\ IsInjective(executed[r])
       /\ Busy(r) => \A k \in 1 .. Len(executed[r]) :
                       \E p \in 1 .. Len(plan[r]) : p < pos[r] /\ executed[r][k] = plan[r][p]

Counted(r) ==
  IF r \in IsEdit
  THEN /\ Len(sent[r]) <= used[r]
       /\ pc[r] # "idle" => used[r] <= Len(plan[r]) + MaxRetries
  ELSE /\ Busy(r) => used[r] < Len(plan[r])
       /\ pc[r] = "sent" => Len(sent[r]) <= used[r] + 1
       /\ pc[r] = "backoff" => Len(sent[r]) <= used[r]
       /\ Len(sent[r]) <= Len(plan[r])

Sound(r) == Fresh(r) /\ AtCandidate(r) /\ Progress(r) /\ Counted(r)

IInv == TypeOK /\ \A r \in Requests : Sound(r)

-----------------------------------------------------------------------------
(* Least and greatest elements. *)

Below == OpToRel(<, Nat)

\* < is well-founded on the naturals.
LEMMA BelowIsWellFounded == IsWellFoundedOn(Below, Nat)
  BY NatLessThanWellFounded, Zenon DEF Below

LEMMA BelowIsLess == \A m, n \in Nat : m < n => <<m, n>> \in Below
  BY DEF Below, OpToRel

\* A non-empty set of naturals has a least element.
LEMMA LeastNat ==
  ASSUME NEW S \in SUBSET Nat, S # {}
  PROVE  \E x \in S : \A y \in S : x <= y
<1>1. PICK x \in S : \A y \in S : ~(<<y, x>> \in Below)
  BY BelowIsWellFounded, WFMin, Zenon
<1>2. ASSUME NEW y \in S
      PROVE  x <= y
  <2>1. x \in Nat /\ y \in Nat
    OBVIOUS
  <2>2. ~(y < x)
    BY <1>1, <2>1, BelowIsLess
  <2> QED
    BY <2>1, <2>2
<1> QED
  BY <1>2

LEMMA MinIsElement ==
  ASSUME NEW S \in SUBSET Nat, S # {}
  PROVE  Min(S) \in S /\ \A y \in S : Min(S) <= y
<1>1. \E x \in S : \A y \in S : x <= y
  BY LeastNat
<1> QED
  BY <1>1, Zenon DEF Min

\* A function on 1 .. n with natural values is bounded.
LEMMA Bounded ==
  ASSUME NEW n \in Nat, NEW f \in [1 .. n -> Nat]
  PROVE  \E b \in Nat : \A i \in 1 .. n : f[i] <= b
<1> DEFINE Bad == {k \in 0 .. n : ~ \E b \in Nat : \A i \in 1 .. k : f[i] <= b}
<1>1. SUFFICES ASSUME Bad # {} PROVE FALSE
  <2>1. n \in Bad \/ \E b \in Nat : \A i \in 1 .. n : f[i] <= b
    OBVIOUS
  <2> QED
    BY <2>1
<1>2. Bad \in SUBSET Nat
  OBVIOUS
<1>3. PICK k \in Bad : \A j \in Bad : k <= j
  <2> HIDE DEF Bad
  <2> QED
    BY <1>1, <1>2, LeastNat
<1>4. k \in 0 .. n /\ k # 0
  <2>1. \A i \in 1 .. 0 : f[i] <= 0
    OBVIOUS
  <2> QED
    BY <2>1
<1>5. k - 1 \in 0 .. n /\ k - 1 \notin Bad
  <2>1. k \in Nat /\ n \in Nat /\ k - 1 \in 0 .. n
    BY <1>4
  <2>2. ~(k <= k - 1)
    BY <2>1
  <2> HIDE DEF Bad
  <2> QED
    BY <1>3, <2>1, <2>2
<1>6. PICK b \in Nat : \A i \in 1 .. k - 1 : f[i] <= b
  BY <1>5
<1>7. f[k] \in Nat
  BY <1>4
<1>8. PICK c \in Nat : c >= b /\ c >= f[k]
  <2>1. b + f[k] \in Nat /\ b + f[k] >= b /\ b + f[k] >= f[k]
    BY <1>7
  <2> QED
    BY <2>1
<1>9. ASSUME NEW i \in 1 .. k
      PROVE  f[i] <= c
  <2>1. i \in 1 .. n /\ f[i] \in Nat /\ (i = k \/ i \in 1 .. k - 1)
    BY <1>4
  <2> QED
    BY <1>6, <1>7, <1>8, <2>1
<1> QED
  BY <1>9

\* Max is a natural, whatever the endpoints did so far.
LEMMA MaxIsNat ==
  ASSUME NEW n \in Nat \ {0}, NEW f \in [1 .. n -> Nat]
  PROVE  Max({f[i] : i \in 1 .. n}) \in Nat
<1> DEFINE S == {f[i] : i \in 1 .. n}
           Bounds == {b \in Nat : \A i \in 1 .. n : f[i] <= b}
<1>1. Bounds # {} /\ Bounds \in SUBSET Nat
  BY Bounded
<1>2. PICK m \in Bounds : \A b \in Bounds : m <= b
  <2> HIDE DEF Bounds
  <2> QED
    BY <1>1, LeastNat
<1>3. m \in Nat /\ \A i \in 1 .. n : f[i] <= m
  OBVIOUS
<1>4. \E i \in 1 .. n : f[i] = m
  <2>1. SUFFICES ASSUME \A i \in 1 .. n : f[i] # m PROVE FALSE
    OBVIOUS
  <2>2. f[1] \in Nat /\ 1 \in 1 .. n
    OBVIOUS
  <2>3. m - 1 \in Nat
    BY <1>3, <2>1, <2>2
  <2>4. \A i \in 1 .. n : f[i] <= m - 1
    BY <1>3, <2>1
  <2>5. m - 1 \in Bounds
    BY <2>3, <2>4
  <2> QED
    BY <1>2, <1>3, <2>5
<1>5. m \in S /\ \A y \in S : m >= y
  BY <1>3, <1>4
<1>6. Max(S) \in S
  <2> HIDE DEF S
  <2> QED
    BY <1>5, Zenon DEF Max
<1> QED
  BY <1>6

-----------------------------------------------------------------------------
(* Sequences of endpoints. *)

\* An endpoint that is not in the log yet leaves it free of repetitions.
LEMMA InjectiveAppend ==
  ASSUME NEW log \in Seq(Endpoints), IsInjective(log), NEW e \in Endpoints,
         \A k \in 1 .. Len(log) : log[k] # e
  PROVE  IsInjective(Append(log, e))
<1> DEFINE more == Append(log, e)
<1>1. /\ Len(more) = Len(log) + 1 /\ Len(log) \in Nat
      /\ DOMAIN more = 1 .. Len(log) + 1 /\ DOMAIN log = 1 .. Len(log)
      /\ \A i \in 1 .. Len(log) : more[i] = log[i]
      /\ more[Len(log) + 1] = e
  BY AppendProperties, LenProperties
<1> HIDE DEF more
<1>2. ASSUME NEW i \in DOMAIN more, NEW j \in DOMAIN more, more[i] = more[j]
      PROVE  i = j
  <2>1. (i \in 1 .. Len(log) \/ i = Len(log) + 1) /\ (j \in 1 .. Len(log) \/ j = Len(log) + 1)
    BY <1>1
  <2> QED
    BY <1>1, <1>2, <2>1 DEF IsInjective
<1>3. IsInjective(more)
  BY <1>2 DEF IsInjective
<1> QED
  BY <1>3 DEF more

LEMMA ShortIsInjective ==
  ASSUME NEW log \in Seq(Endpoints), Len(log) <= 1
  PROVE  IsInjective(log)
<1>1. DOMAIN log = 1 .. Len(log) /\ Len(log) \in Nat
  BY LenProperties
<1> QED
  BY <1>1 DEF IsInjective

LEMMA OneExecution ==
  ASSUME NEW e \in Endpoints, NEW log, log = << >> \/ log = Append(<< >>, e)
  PROVE  Len(log) <= 1
<1>1. Append(<< >>, e) = <<e>>
  OBVIOUS
<1>2. Len(<< >>) <= 1 /\ Len(<<e>>) <= 1
  OBVIOUS
<1> QED
  BY <1>1, <1>2, Zenon

\* The candidates of a generation request are endpoints, none of them twice.
LEMMA OrdersFacts ==
  ASSUME TypeOK, NEW order \in EndpointOrders
  PROVE  order \in Seq(Endpoints) /\ IsInjective(order)
<1> USE TransportAssumption
<1>1. CASE automatic
  <2>1. /\ order \in [1 .. EndpointCount -> Endpoints]
        /\ \A i, j \in Endpoints : i < j => ComesBefore(order[i], order[j])
    BY <1>1 DEF EndpointOrders, Endpoints
  <2>2. order \in Seq(Endpoints)
    BY <2>1, SeqDef
  <2>3. \A e \in Endpoints : ~ComesBefore(e, e)
    BY DEF ComesBefore, Endpoints
  <2>4. ASSUME NEW i \in DOMAIN order, NEW j \in DOMAIN order, order[i] = order[j]
        PROVE  i = j
    <3>1. i \in Endpoints /\ j \in Endpoints /\ i \in Nat /\ j \in Nat
      BY <2>1 DEF Endpoints
    <3>2. order[i] \in Endpoints /\ order[j] \in Endpoints
      BY <2>1 DEF Endpoints
    <3>3. ~(i < j)
      BY <2>1, <2>3, <2>4, <3>1, <3>2
    <3>4. ~(j < i)
      BY <2>1, <2>3, <2>4, <3>1, <3>2
    <3> QED
      BY <3>1, <3>3, <3>4
  <2> QED
    BY <2>2, <2>4 DEF IsInjective
<1>2. CASE ~automatic
  <2>1. order = <<EndpointCount>> /\ EndpointCount \in Endpoints
    BY <1>2 DEF EndpointOrders, Endpoints
  <2>2. order \in Seq(Endpoints) /\ Len(order) <= 1
    BY <2>1
  <2> QED
    BY <2>2, ShortIsInjective, Zenon
<1> QED
  BY <1>1, <1>2

\* The plan of an edit holds endpoints, and at least one.
LEMMA PlanFacts ==
  AttemptPlan \in Seq(Endpoints) /\ Len(AttemptPlan) >= 1 /\ Len(AttemptPlan) \in Nat
<1> USE TransportAssumption
<1>1. CASE AllowsFailover
  <2>1. AttemptPlan = [i \in 1 .. EndpointCount |-> i]
    BY <1>1 DEF AttemptPlan, Endpoints
  <2>2. AttemptPlan \in [1 .. EndpointCount -> Endpoints]
    BY <2>1 DEF Endpoints
  <2>3. AttemptPlan \in Seq(Endpoints)
    BY <2>2, SeqDef
  <2>4. Len(AttemptPlan) = EndpointCount
    BY <2>2, <2>3, LenProperties
  <2> QED
    BY <2>3, <2>4
<1>2. CASE ~AllowsFailover
  <2>1. AttemptPlan = [i \in 1 .. CodecCount |-> 1]
    BY <1>2 DEF AttemptPlan
  <2>2. AttemptPlan \in [1 .. CodecCount -> Endpoints]
    BY <2>1 DEF Endpoints
  <2>3. AttemptPlan \in Seq(Endpoints)
    BY <2>2, SeqDef
  <2>4. Len(AttemptPlan) = CodecCount
    BY <2>2, <2>3, LenProperties
  <2> QED
    BY <2>3, <2>4
<1> QED
  BY <1>1, <1>2

-----------------------------------------------------------------------------
(* What one step does to the request it is about.  Kept says that a step left *)
(* a request as it was.                                                      *)

Kept(q) ==
  /\ pc'[q] = pc[q] /\ plan'[q] = plan[q] /\ pos'[q] = pos[q] /\ tries'[q] = tries[q]
  /\ used'[q] = used[q] /\ retries'[q] = retries[q]
  /\ sent'[q] = sent[q] /\ executed'[q] = executed[q]

\* The types of what TryFrom, EditAttempt and Ends assign.
AttemptTypes ==
  /\ pc' \in [Requests -> {"idle", "sent", "backoff", "done"}]
  /\ pos' \in [Requests -> Nat] /\ used' \in [Requests -> Nat]
  /\ onWire' \in [Requests -> BOOLEAN]
  /\ sent' \in [Requests -> Seq(Endpoints)]
  /\ result' \in [Requests -> {"none", "ok", "no_candidate"} \cup FailureKinds]

\* The attempt of r ended without a dispatch.
EndsHere(r) == pc'[r] = "done" /\ sent'[r] = sent[r] /\ used'[r] = used[r]

\* r is dispatched to candidate i of seq, unless its signal is aborted.
SendsTo(r, seq, i) ==
  /\ pc'[r] = "sent" /\ pos'[r] = i
  /\ sent'[r] = sent[r] \/ sent'[r] = Append(sent[r], seq[i])

LEMMA DispatchesFacts ==
  ASSUME TypeOK, NEW r \in Requests, NEW seq \in Seq(Endpoints), NEW i \in 1 .. Len(seq),
         Dispatches(r, seq, i)
  PROVE  /\ SendsTo(r, seq, i)
         /\ aborted[r] => sent'[r] = sent[r]
         /\ ~aborted[r] => sent'[r] = Append(sent[r], seq[i])
         /\ pc' \in [Requests -> {"idle", "sent", "backoff", "done"}]
         /\ pos' \in [Requests -> Nat]
         /\ onWire' \in [Requests -> BOOLEAN]
         /\ sent' \in [Requests -> Seq(Endpoints)]
         /\ \A q \in Requests \ {r} : pc'[q] = pc[q] /\ pos'[q] = pos[q] /\ sent'[q] = sent[q]
<1>1. seq[i] \in Endpoints /\ i \in Nat
  BY LenProperties
<1>2. Append(sent[r], seq[i]) \in Seq(Endpoints)
  BY <1>1, AppendProperties DEF TypeOK
<1>3. /\ pc' = [pc EXCEPT ![r] = "sent"]
      /\ pos' = [pos EXCEPT ![r] = i]
      /\ onWire' = [onWire EXCEPT ![r] = ~aborted[r]]
      /\ sent' = IF aborted[r] THEN sent ELSE [sent EXCEPT ![r] = Append(@, seq[i])]
  BY DEF Dispatches
<1>4. aborted[r] \in BOOLEAN
  BY DEF TypeOK
<1>5. CASE aborted[r]
  BY <1>1, <1>3, <1>5 DEF TypeOK, SendsTo
<1>6. CASE ~aborted[r]
  BY <1>1, <1>2, <1>3, <1>6 DEF TypeOK, SendsTo
<1> QED
  BY <1>4, <1>5, <1>6

LEMMA EndsFacts ==
  ASSUME TypeOK, NEW r \in Requests,
         NEW outcome \in {"none", "ok", "no_candidate"} \cup FailureKinds, Ends(r, outcome)
  PROVE  /\ pc'[r] = "done"
         /\ pc' \in [Requests -> {"idle", "sent", "backoff", "done"}]
         /\ result' \in [Requests -> {"none", "ok", "no_candidate"} \cup FailureKinds]
         /\ \A q \in Requests \ {r} : pc'[q] = pc[q]
  BY DEF Ends, TypeOK

\* The for loop of failover.ts either ends the request or goes on to a candidate
\* that does not cool down, counting the ones it passes over.
LEMMA TryFromFacts ==
  ASSUME TypeOK, NEW r \in Requests, NEW seq \in Seq(Endpoints), NEW i \in Nat \ {0},
         NEW count \in Nat, NEW cools \in [Endpoints -> BOOLEAN],
         NEW lastError \in {"none", "ok", "no_candidate"} \cup FailureKinds,
         TryFrom(r, seq, i, count, cools, lastError)
  PROVE  /\ AttemptTypes
         /\ tries' \in [Requests -> 0 .. MaxRetries + 1]
         /\ \A q \in Requests \ {r} :
              /\ pc'[q] = pc[q] /\ pos'[q] = pos[q] /\ tries'[q] = tries[q]
              /\ used'[q] = used[q] /\ sent'[q] = sent[q]
         /\ aborted[r] => sent'[r] = sent[r]
         /\ \/ EndsHere(r)
            \/ \E next \in 1 .. Len(seq) :
                 /\ next >= i /\ ~cools[seq[next]]
                 /\ SendsTo(r, seq, next)
                 /\ used'[r] = count + next - i /\ used'[r] < Len(seq)
<1> DEFINE healthy == {j \in i .. Len(seq) : ~cools[seq[j]]}
           next == Min(healthy)
<1>1. CASE healthy # {} /\ count + next - i < Len(seq)
  <2>1. next \in healthy
    <3>1. healthy \in SUBSET Nat /\ healthy # {}
      BY <1>1, LenProperties
    <3> HIDE DEF healthy
    <3> QED
      BY <3>1, MinIsElement
  <2>2. next \in 1 .. Len(seq) /\ next >= i /\ ~cools[seq[next]] /\ next \in Nat
    BY <2>1, LenProperties
  <2>3. /\ Dispatches(r, seq, next)
        /\ tries' = [tries EXCEPT ![r] = 1]
        /\ used' = [used EXCEPT ![r] = count + next - i]
        /\ result' = [result EXCEPT ![r] = lastError]
    BY <1>1 DEF TryFrom
  <2> HIDE DEF next, healthy
  <2>4. count + next - i \in Nat
    BY <2>2
  <2>5. 1 \in 0 .. MaxRetries + 1
    BY TransportAssumption
  <2>6. used' \in [Requests -> Nat] /\ used'[r] = count + next - i
    BY <2>3, <2>4 DEF TypeOK
  <2>7. result' \in [Requests -> {"none", "ok", "no_candidate"} \cup FailureKinds]
    BY <2>3 DEF TypeOK
  <2>8. tries' \in [Requests -> 0 .. MaxRetries + 1]
    BY <2>3, <2>5 DEF TypeOK
  <2>9. \A q \in Requests \ {r} : tries'[q] = tries[q] /\ used'[q] = used[q]
    BY <2>3 DEF TypeOK
  <2> QED
    BY <1>1, <2>2, <2>3, <2>6, <2>7, <2>8, <2>9, DispatchesFacts DEF AttemptTypes
<1>2. CASE ~(healthy # {} /\ count + next - i < Len(seq))
  <2>1. Ends(r, lastError) /\ UNCHANGED <<pos, tries, used, onWire, sent>>
    BY <1>2 DEF TryFrom
  <2> QED
    BY <2>1, EndsFacts DEF AttemptTypes, EndsHere, TypeOK
<1> QED
  BY <1>1, <1>2

\* An attempt of withRetry dispatches within the budget, counting what it sends,
\* or ends the request.
LEMMA EditAttemptFacts ==
  ASSUME TypeOK, NEW r \in Requests, NEW seq \in Seq(Endpoints), NEW i \in 1 .. Len(seq),
         NEW isRetry \in BOOLEAN, EditAttempt(r, seq, i, isRetry),
         isRetry => pc[r] # "idle"
  PROVE  /\ AttemptTypes
         /\ retries' \in [Requests -> 0 .. MaxRetries + 1]
         /\ \A q \in Requests \ {r} :
              /\ pc'[q] = pc[q] /\ pos'[q] = pos[q] /\ retries'[q] = retries[q]
              /\ used'[q] = used[q] /\ sent'[q] = sent[q]
         /\ aborted[r] => sent'[r] = sent[r]
         /\ \/ EndsHere(r)
            \/ SendsTo(r, seq, i) /\ sent'[r] = sent[r] /\ used'[r] = used[r]
            \/ /\ SendsTo(r, seq, i) /\ sent'[r] = Append(sent[r], seq[i])
               /\ used'[r] = used[r] + 1
               /\ pc[r] = "idle" \/ used[r] < Len(plan[r]) + MaxRetries
<1> DEFINE Stops == ~aborted[r] /\ pc[r] # "idle" /\ Exhausted(r)
<1>1. aborted[r] \in BOOLEAN /\ used[r] \in Nat /\ retries[r] \in 0 .. MaxRetries + 1
  BY DEF TypeOK
<1>2. CASE Stops
  <2>1. Ends(r, "network_error") /\ UNCHANGED <<pos, used, retries, onWire, sent>>
    BY <1>2 DEF EditAttempt
  <2>2. "network_error" \in {"none", "ok", "no_candidate"} \cup FailureKinds
    BY DEF FailureKinds, Ambiguous
  <2> QED
    BY <2>1, <2>2, EndsFacts DEF AttemptTypes, EndsHere, TypeOK
<1>3. CASE ~Stops
  <2>1. /\ Dispatches(r, seq, i)
        /\ used' = IF aborted[r] THEN used ELSE [used EXCEPT ![r] = @ + 1]
        /\ retries' = IF aborted[r] \/ ~isRetry THEN retries
                      ELSE [retries EXCEPT ![r] = @ + 1]
        /\ result' = result
    BY <1>3 DEF EditAttempt
  <2>2. /\ SendsTo(r, seq, i)
        /\ aborted[r] => sent'[r] = sent[r]
        /\ ~aborted[r] => sent'[r] = Append(sent[r], seq[i])
        /\ pc' \in [Requests -> {"idle", "sent", "backoff", "done"}]
        /\ pos' \in [Requests -> Nat]
        /\ onWire' \in [Requests -> BOOLEAN]
        /\ sent' \in [Requests -> Seq(Endpoints)]
        /\ \A q \in Requests \ {r} : pc'[q] = pc[q] /\ pos'[q] = pos[q] /\ sent'[q] = sent[q]
    BY <2>1, DispatchesFacts
  <2>3. result' \in [Requests -> {"none", "ok", "no_candidate"} \cup FailureKinds]
    BY <2>1 DEF TypeOK
  <2>4. CASE aborted[r]
    <3>1. used' = used /\ retries' = retries
      BY <2>1, <2>4
    <3>2. used' \in [Requests -> Nat] /\ retries' \in [Requests -> 0 .. MaxRetries + 1]
      BY <3>1 DEF TypeOK
    <3> QED
      BY <2>2, <2>3, <2>4, <3>1, <3>2 DEF AttemptTypes
  <2>5. CASE ~aborted[r]
    <3>1. used' = [used EXCEPT ![r] = @ + 1]
      BY <2>1, <2>5
    <3>2. used' \in [Requests -> Nat] /\ used'[r] = used[r] + 1
      BY <3>1, SMTT(30) DEF TypeOK
    <3>3. \A q \in Requests \ {r} : used'[q] = used[q]
      BY <3>1 DEF TypeOK
    <3>4. pc[r] = "idle" \/ ~Exhausted(r)
      BY <1>3, <2>5
    <3>5. pc[r] = "idle" \/ (retries[r] <= MaxRetries /\ ~(used[r] >= Len(plan[r]) + MaxRetries))
      BY <3>4, <1>1, TransportAssumption DEF Exhausted
    <3>6. Len(plan[r]) \in Nat
      BY LenProperties DEF TypeOK
    <3>7. pc[r] = "idle" \/ used[r] < Len(plan[r]) + MaxRetries
      BY <3>5, <3>6, <1>1, TransportAssumption
    <3>8. /\ retries' \in [Requests -> 0 .. MaxRetries + 1]
          /\ \A q \in Requests \ {r} : retries'[q] = retries[q]
      <4>1. CASE isRetry
        <5>1. retries' = [retries EXCEPT ![r] = @ + 1]
          BY <2>1, <2>5, <4>1
        <5>2. retries[r] + 1 \in 0 .. MaxRetries + 1
          BY <1>1, <3>5, <4>1, TransportAssumption
        <5> QED
          BY <5>1, <5>2 DEF TypeOK
      <4>2. CASE ~isRetry
        <5>1. retries' = retries
          BY <2>1, <4>2
        <5> QED
          BY <5>1 DEF TypeOK
      <4> QED
        BY <4>1, <4>2
    <3> QED
      BY <2>2, <2>3, <2>5, <3>2, <3>3, <3>7, <3>8 DEF AttemptTypes
  <2> QED
    BY <1>1, <2>4, <2>5
<1> QED
  BY <1>2, <1>3

\* What may have been executed grows by the present endpoint, unless the attempt
\* was rejected or never sent.
LEMMA AnsweredFacts ==
  ASSUME TypeOK, NEW r \in Requests, AtCandidate(r), NEW answer, Answered(r, answer)
  PROVE  /\ pc[r] = "sent" /\ plan' = plan /\ aborted' = aborted
         /\ CurrentEndpoint(r) = plan[r][pos[r]] /\ CurrentEndpoint(r) \in Endpoints
         /\ executed' \in [Requests -> Seq(Endpoints)]
         /\ \A q \in Requests \ {r} : executed'[q] = executed[q]
         /\ answer \in Rejected => executed'[r] = executed[r]
         /\ \/ executed'[r] = executed[r]
            \/ executed'[r] = Append(executed[r], CurrentEndpoint(r))
<1>1. pc[r] = "sent" /\ plan' = plan /\ aborted' = aborted
  BY DEF Answered
<1>2. plan[r] \in Seq(Endpoints) /\ executed[r] \in Seq(Endpoints)
  BY DEF TypeOK
<1>3. pos[r] \in 1 .. Len(plan[r])
  BY <1>1 DEF AtCandidate, Busy
<1>4. CurrentEndpoint(r) = plan[r][pos[r]] /\ CurrentEndpoint(r) \in Endpoints
  BY <1>2, <1>3, LenProperties DEF CurrentEndpoint
<1>5. Append(executed[r], CurrentEndpoint(r)) \in Seq(Endpoints)
  BY <1>2, <1>4, AppendProperties
<1>6. executed' = IF onWire[r] /\ answer \notin Rejected
                  THEN [executed EXCEPT ![r] = Append(@, CurrentEndpoint(r))] ELSE executed
  BY DEF Answered
<1>7. CASE onWire[r] /\ answer \notin Rejected
  <2>1. executed' = [executed EXCEPT ![r] = Append(@, CurrentEndpoint(r))]
    BY <1>6, <1>7
  <2> QED
    BY <1>1, <1>4, <1>5, <1>7, <2>1 DEF TypeOK
<1>8. CASE ~(onWire[r] /\ answer \notin Rejected)
  <2>1. executed' = executed
    BY <1>6, <1>8
  <2> QED
    BY <1>1, <1>4, <2>1 DEF TypeOK
<1> QED
  BY <1>7, <1>8

-----------------------------------------------------------------------------
(* The inductive step. *)

LEMMA InitKeeps == Init => IInv
<1> SUFFICES ASSUME Init PROVE IInv
  OBVIOUS
<1> USE TransportAssumption
<1>1. << >> \in Seq(Endpoints) /\ Len(<< >>) = 0 /\ IsInjective(<< >>)
  BY DEF IsInjective
<1>2. TypeOK
  <2>1. 0 \in Nat /\ 0 \in 0 .. MaxRetries + 1
    OBVIOUS
  <2>2. /\ plan \in [Requests -> Seq(Endpoints)]
        /\ sent \in [Requests -> Seq(Endpoints)]
        /\ executed \in [Requests -> Seq(Endpoints)]
    BY <1>1 DEF Init
  <2>3. /\ pos \in [Requests -> Nat] /\ used \in [Requests -> Nat]
        /\ tries \in [Requests -> 0 .. MaxRetries + 1]
        /\ retries \in [Requests -> 0 .. MaxRetries + 1]
    BY <2>1 DEF Init, Zero
  <2>4. /\ automatic \in BOOLEAN
        /\ pc \in [Requests -> {"idle", "sent", "backoff", "done"}]
        /\ onWire \in [Requests -> BOOLEAN] /\ aborted \in [Requests -> BOOLEAN]
        /\ result \in [Requests -> {"none", "ok", "no_candidate"} \cup FailureKinds]
        /\ cooling \in [Endpoints -> BOOLEAN]
        /\ failures \in [Endpoints -> Nat] /\ lastSuccess \in [Endpoints -> Nat]
    BY DEF Init
  <2> QED
    BY <2>2, <2>3, <2>4 DEF TypeOK
<1>3. ASSUME NEW r \in Requests
      PROVE  Sound(r)
  <2>1. /\ pc[r] = "idle" /\ plan[r] = << >> /\ sent[r] = << >> /\ executed[r] = << >>
        /\ used[r] = 0 /\ retries[r] = 0
    BY DEF Init, Zero
  <2>2. Fresh(r) /\ AtCandidate(r) /\ ~Busy(r)
    BY <2>1 DEF Fresh, AtCandidate, Busy
  <2>3. Progress(r)
    BY <1>1, <2>1, <2>2 DEF Progress
  <2>4. Counted(r)
    BY <1>1, <2>1, <2>2 DEF Counted
  <2> QED
    BY <2>2, <2>3, <2>4 DEF Sound
<1> QED
  BY <1>2, <1>3 DEF IInv

LEMMA KeptIsSound ==
  ASSUME NEW q \in Requests, Sound(q), Kept(q)
  PROVE  Sound(q)'
<1>1. Fresh(q)' /\ AtCandidate(q)' /\ (Busy(q)' <=> Busy(q))
  BY DEF Sound, Kept, Fresh, AtCandidate, Busy
<1>2. Progress(q)'
  BY <1>1 DEF Sound, Kept, Progress
<1>3. Counted(q)'
  BY <1>1 DEF Sound, Kept, Counted
<1> QED
  BY <1>1, <1>2, <1>3 DEF Sound

\* What a generation request may have executed is at candidates up to its present
\* one, each once.
LEMMA AnsweredGeneration ==
  ASSUME TypeOK, NEW r \in Requests, r \notin IsEdit, Sound(r), NEW answer, Answered(r, answer)
  PROVE  /\ IsInjective(executed'[r])
         /\ \A k \in 1 .. Len(executed'[r]) :
              \E p \in 1 .. Len(plan[r]) : p <= pos[r] /\ executed'[r][k] = plan[r][p]
<1> DEFINE e == plan[r][pos[r]]
<1>1. /\ pc[r] = "sent" /\ Busy(r) /\ e \in Endpoints
      /\ executed'[r] = executed[r] \/ executed'[r] = Append(executed[r], e)
  BY AnsweredFacts DEF Sound, Busy
<1>2. /\ IsInjective(plan[r]) /\ IsInjective(executed[r])
      /\ \A k \in 1 .. Len(executed[r]) :
           \E p \in 1 .. Len(plan[r]) : p < pos[r] /\ executed[r][k] = plan[r][p]
  BY <1>1 DEF Sound, Progress
<1>3. pos[r] \in 1 .. Len(plan[r]) /\ pos[r] \in Nat
  BY <1>1 DEF Sound, AtCandidate, TypeOK
<1>4. /\ executed[r] \in Seq(Endpoints) /\ plan[r] \in Seq(Endpoints)
      /\ DOMAIN plan[r] = 1 .. Len(plan[r]) /\ Len(plan[r]) \in Nat
      /\ Len(executed[r]) \in Nat
  BY LenProperties DEF TypeOK
<1>5. ASSUME NEW k \in 1 .. Len(executed[r])
      PROVE  executed[r][k] # e
  <2>1. PICK p \in 1 .. Len(plan[r]) : p < pos[r] /\ executed[r][k] = plan[r][p]
    BY <1>2
  <2>2. p # pos[r]
    BY <1>3, <1>4, <2>1
  <2> QED
    BY <1>2, <1>3, <1>4, <2>1, <2>2 DEF IsInjective
<1>6. CASE executed'[r] = executed[r]
  <2>1. \A p \in 1 .. Len(plan[r]) : p < pos[r] => p <= pos[r]
    BY <1>3, <1>4
  <2>2. IsInjective(executed'[r])
    BY <1>2, <1>6
  <2> QED
    BY <1>2, <1>6, <2>1, <2>2
<1>7. CASE executed'[r] = Append(executed[r], e)
  <2>1. IsInjective(Append(executed[r], e))
    BY <1>1, <1>2, <1>4, <1>5, InjectiveAppend
  <2>2. /\ Len(executed'[r]) = Len(executed[r]) + 1
        /\ \A k \in 1 .. Len(executed[r]) : executed'[r][k] = executed[r][k]
        /\ executed'[r][Len(executed[r]) + 1] = e
    BY <1>1, <1>4, <1>7, AppendProperties
  <2>3. ASSUME NEW k \in 1 .. Len(executed'[r])
        PROVE  \E p \in 1 .. Len(plan[r]) : p <= pos[r] /\ executed'[r][k] = plan[r][p]
    <3>1. CASE k \in 1 .. Len(executed[r])
      <4>1. PICK p \in 1 .. Len(plan[r]) : p < pos[r] /\ executed[r][k] = plan[r][p]
        BY <1>2, <3>1
      <4>2. p <= pos[r]
        BY <1>3, <1>4, <4>1
      <4> QED
        BY <2>2, <3>1, <4>1, <4>2
    <3>2. CASE k = Len(executed[r]) + 1
      BY <1>3, <2>2, <3>2
    <3> QED
      BY <1>4, <2>2, <3>1, <3>2
  <2>4. IsInjective(executed'[r])
    BY <1>7, <2>1
  <2> QED
    BY <2>3, <2>4
<1> QED
  BY <1>1, <1>6, <1>7

\* A request that ended within its budget is sound, and stays so.
LEMMA DoneIsSound ==
  ASSUME NEW r \in Requests, pc'[r] = "done",
         IF r \in IsEdit
         THEN Len(executed'[r]) <= 1 /\ Len(sent'[r]) <= used'[r]
              /\ used'[r] <= Len(plan'[r]) + MaxRetries
         ELSE IsInjective(plan'[r]) /\ IsInjective(executed'[r])
              /\ Len(sent'[r]) <= Len(plan'[r])
  PROVE  Sound(r)'
<1>1. Fresh(r)' /\ AtCandidate(r)' /\ ~Busy(r)'
  BY DEF Fresh, AtCandidate, Busy
<1> QED
  BY <1>1 DEF Sound, Progress, Counted

\* What every step about request r establishes.
StepKeeps(r) == TypeOK' /\ Sound(r)' /\ \A q \in Requests \ {r} : Kept(q)

\* A dispatch after which the counter is within the plan.
LEMMA SendingIsCounted ==
  ASSUME TypeOK, NEW r \in Requests, NEW seq \in Seq(Endpoints), NEW i \in 1 .. Len(seq),
         SendsTo(r, seq, i), NEW n \in Nat, Len(sent[r]) <= n
  PROVE  Len(sent'[r]) <= n + 1
<1>1. seq[i] \in Endpoints /\ sent[r] \in Seq(Endpoints)
  BY LenProperties DEF TypeOK
<1>2. Len(sent[r]) \in Nat /\ Len(Append(sent[r], seq[i])) = Len(sent[r]) + 1
  BY <1>1, AppendProperties, LenProperties
<1> QED
  BY <1>2 DEF SendsTo

LEMMA GenerateKeeps ==
  ASSUME IInv, NEW r \in Requests, Generate(r)
  PROVE  StepKeeps(r)
<1>1. TypeOK /\ Sound(r) /\ pc[r] = "idle" /\ r \notin IsEdit
  BY DEF IInv, Generate
<1>2. PICK order \in EndpointOrders :
        /\ plan' = [plan EXCEPT ![r] = order]
        /\ TryFrom(r, order, 1, 0, cooling, "no_candidate")
  BY DEF Generate
<1>3. order \in Seq(Endpoints) /\ IsInjective(order) /\ Len(order) \in Nat
  BY <1>1, OrdersFacts, LenProperties
<1>4. /\ automatic' = automatic /\ retries' = retries /\ executed' = executed
      /\ aborted' = aborted
      /\ cooling' = cooling /\ failures' = failures /\ lastSuccess' = lastSuccess
  BY DEF Generate, health
<1>5. sent[r] = << >> /\ executed[r] = << >> /\ used[r] = 0 /\ Len(<< >>) = 0
  BY <1>1 DEF Sound, Fresh
<1>6. /\ AttemptTypes
      /\ tries' \in [Requests -> 0 .. MaxRetries + 1]
      /\ \A q \in Requests \ {r} :
           /\ pc'[q] = pc[q] /\ pos'[q] = pos[q] /\ tries'[q] = tries[q]
           /\ used'[q] = used[q] /\ sent'[q] = sent[q]
      /\ \/ EndsHere(r)
         \/ \E next \in 1 .. Len(order) :
              /\ SendsTo(r, order, next)
              /\ used'[r] = 0 + next - 1 /\ used'[r] < Len(order)
  <2>1. cooling \in [Endpoints -> BOOLEAN] /\ 1 \in Nat \ {0} /\ 0 \in Nat
    BY <1>1 DEF TypeOK
  <2> QED
    BY <1>1, <1>2, <1>3, <2>1, TryFromFacts
<1>7. plan' \in [Requests -> Seq(Endpoints)] /\ plan'[r] = order
      /\ \A q \in Requests \ {r} : plan'[q] = plan[q]
  BY <1>1, <1>2, <1>3 DEF TypeOK
<1>8. TypeOK'
  BY <1>1, <1>4, <1>6, <1>7 DEF TypeOK, AttemptTypes
<1>9. \A q \in Requests \ {r} : Kept(q)
  BY <1>4, <1>6, <1>7 DEF Kept
<1>10. IsInjective(executed'[r]) /\ executed'[r] = << >>
  BY <1>4, <1>5 DEF IsInjective
<1>11. CASE EndsHere(r)
  <2>1. Len(sent'[r]) <= Len(plan'[r])
    BY <1>3, <1>5, <1>7, <1>11 DEF EndsHere
  <2> QED
    BY <1>1, <1>3, <1>7, <1>8, <1>9, <1>10, <1>11, <2>1, DoneIsSound DEF EndsHere, StepKeeps
<1>12. ASSUME NEW next \in 1 .. Len(order), SendsTo(r, order, next),
              used'[r] = 0 + next - 1, used'[r] < Len(order)
       PROVE  Sound(r)'
  <2>1. pc'[r] = "sent" /\ pos'[r] = next
    BY <1>12 DEF SendsTo
  <2>2. Len(sent'[r]) <= 1
    <3>1. 0 \in Nat /\ Len(sent[r]) <= 0
      BY <1>5
    <3>2. Len(sent'[r]) <= 0 + 1
      BY <1>1, <1>3, <1>12, <3>1, SendingIsCounted, Zenon
    <3> QED
      BY <3>2
  <2>3. Len(sent'[r]) \in Nat /\ used'[r] \in Nat
    BY <1>8, LenProperties DEF TypeOK
  <2>4. Fresh(r)' /\ AtCandidate(r)'
    BY <1>7, <2>1 DEF Fresh, AtCandidate, Busy
  <2>5. Progress(r)'
    BY <1>1, <1>3, <1>7, <1>10 DEF Progress
  <2>6. Counted(r)'
    BY <1>1, <1>3, <1>7, <1>12, <2>1, <2>2, <2>3 DEF Counted, Busy
  <2> QED
    BY <2>4, <2>5, <2>6 DEF Sound
<1> QED
  BY <1>6, <1>8, <1>9, <1>11, <1>12 DEF StepKeeps

LEMMA GenerateSucceedsKeeps ==
  ASSUME IInv, NEW r \in Requests, GenerateSucceeds(r)
  PROVE  StepKeeps(r)
<1> USE TransportAssumption
<1>1. TypeOK /\ Sound(r) /\ r \notin IsEdit
  BY DEF IInv, GenerateSucceeds
<1>2. PICK answer \in {"ok"} : Answered(r, answer) /\ Ends(r, answer)
  BY DEF GenerateSucceeds
<1> DEFINE e == CurrentEndpoint(r)
           m == Max({lastSuccess[f] : f \in Endpoints})
<1>4. /\ cooling' = [cooling EXCEPT ![e] = FALSE]
      /\ failures' = [failures EXCEPT ![e] = 0]
      /\ lastSuccess' = [lastSuccess EXCEPT ![e] = 1 + m]
      /\ automatic' = automatic /\ pos' = pos /\ tries' = tries /\ used' = used
      /\ retries' = retries /\ onWire' = onWire /\ sent' = sent
  BY DEF GenerateSucceeds
<1>5. pc[r] = "sent" /\ plan' = plan /\ aborted' = aborted /\ e \in Endpoints
      /\ executed' \in [Requests -> Seq(Endpoints)]
      /\ \A q \in Requests \ {r} : executed'[q] = executed[q]
  BY <1>1, <1>2, AnsweredFacts DEF Sound
<1>6. m \in Nat
  <2>1. lastSuccess \in [1 .. EndpointCount -> Nat]
    BY <1>1 DEF TypeOK, Endpoints
  <2> QED
    BY <2>1, MaxIsNat DEF Endpoints
<1> HIDE DEF e, m
<1>7. lastSuccess' \in [Endpoints -> Nat]
  BY <1>1, <1>4, <1>5, <1>6 DEF TypeOK
<1>8. cooling' \in [Endpoints -> BOOLEAN] /\ failures' \in [Endpoints -> Nat]
  BY <1>1, <1>4, <1>5 DEF TypeOK
<1>9. /\ pc'[r] = "done"
      /\ pc' \in [Requests -> {"idle", "sent", "backoff", "done"}]
      /\ result' \in [Requests -> {"none", "ok", "no_candidate"} \cup FailureKinds]
      /\ \A q \in Requests \ {r} : pc'[q] = pc[q]
  BY <1>1, <1>2, EndsFacts
<1>10. TypeOK'
  BY <1>1, <1>4, <1>5, <1>7, <1>8, <1>9, ZenonT(30) DEF TypeOK
<1>11. \A q \in Requests \ {r} : Kept(q)
  BY <1>4, <1>5, <1>9 DEF Kept
<1>12. IsInjective(executed'[r])
  BY <1>1, <1>2, AnsweredGeneration
<1>13. IsInjective(plan[r]) /\ Len(sent[r]) <= Len(plan[r])
  BY <1>1 DEF Sound, Progress, Counted
<1> QED
  BY <1>1, <1>4, <1>5, <1>9, <1>10, <1>11, <1>12, <1>13, DoneIsSound DEF StepKeeps

LEMMA GenerateAgainKeeps ==
  ASSUME IInv, NEW r \in Requests, GenerateAgain(r)
  PROVE  StepKeeps(r)
<1>1. TypeOK /\ Sound(r) /\ r \notin IsEdit /\ pc[r] = "backoff"
  BY DEF IInv, GenerateAgain
<1>2. /\ pos[r] \in 1 .. Len(plan[r]) /\ tries[r] <= MaxRetries
      /\ plan[r] \in Seq(Endpoints) /\ Len(plan[r]) \in Nat
  BY <1>1, LenProperties DEF Sound, AtCandidate, Busy, TypeOK
<1>3. /\ Dispatches(r, plan[r], pos[r])
      /\ tries' = [tries EXCEPT ![r] = @ + 1]
      /\ automatic' = automatic /\ plan' = plan /\ used' = used /\ retries' = retries
      /\ executed' = executed /\ aborted' = aborted /\ result' = result
      /\ cooling' = cooling /\ failures' = failures /\ lastSuccess' = lastSuccess
  BY DEF GenerateAgain, health
<1>4. tries[r] + 1 \in 0 .. MaxRetries + 1
  BY <1>1, <1>2, TransportAssumption, SMTT(30) DEF TypeOK
<1>5. tries' \in [Requests -> 0 .. MaxRetries + 1]
      /\ \A q \in Requests \ {r} : tries'[q] = tries[q]
  BY <1>1, <1>3, <1>4 DEF TypeOK
<1>6. /\ SendsTo(r, plan[r], pos[r])
      /\ pc' \in [Requests -> {"idle", "sent", "backoff", "done"}]
      /\ pos' \in [Requests -> Nat]
      /\ onWire' \in [Requests -> BOOLEAN]
      /\ sent' \in [Requests -> Seq(Endpoints)]
      /\ \A q \in Requests \ {r} : pc'[q] = pc[q] /\ pos'[q] = pos[q] /\ sent'[q] = sent[q]
  BY <1>1, <1>2, <1>3, DispatchesFacts
<1>7. TypeOK'
  BY <1>1, <1>3, <1>5, <1>6, SMTT(30) DEF TypeOK
<1>8. \A q \in Requests \ {r} : Kept(q)
  BY <1>3, <1>5, <1>6 DEF Kept
<1>9. pc'[r] = "sent" /\ pos'[r] = pos[r]
  BY <1>6 DEF SendsTo
<1>10. Len(sent[r]) <= used[r] /\ used[r] < Len(plan[r]) /\ used[r] \in Nat
  BY <1>1 DEF Sound, Counted, Busy, TypeOK
<1>11. Len(sent'[r]) <= used[r] + 1
  BY <1>1, <1>2, <1>6, <1>10, SendingIsCounted
<1>12. Len(sent'[r]) \in Nat
  BY <1>7, LenProperties DEF TypeOK
<1>13. Fresh(r)' /\ AtCandidate(r)'
  BY <1>2, <1>3, <1>9 DEF Fresh, AtCandidate, Busy
<1>14. Progress(r)'
  BY <1>1, <1>3, <1>9 DEF Sound, Progress, Busy
<1>15. Counted(r)'
  BY <1>1, <1>2, <1>3, <1>9, <1>10, <1>11, <1>12 DEF Counted, Busy
<1> QED
  BY <1>7, <1>8, <1>13, <1>14, <1>15 DEF Sound, StepKeeps

\* Rejections are the only answers after which a generation request stays at its
\* endpoint; a failover leaves it behind.
LEMMA GenerateFailsKeeps ==
  ASSUME IInv, NEW r \in Requests, GenerateFails(r)
  PROVE  StepKeeps(r)
<1>1. TypeOK /\ Sound(r) /\ r \notin IsEdit
  BY DEF IInv, GenerateFails
<1> DEFINE e == CurrentEndpoint(r)
           Cools(kind) == [cooling EXCEPT ![e] = @ \/ ShouldFailover(kind)]
<1>2. PICK kind \in FailureKinds :
        /\ Answered(r, kind)
        /\ cooling' = Cools(kind)
        /\ failures' = [failures EXCEPT ![e] = @ + 1]
        /\ \/ /\ RetriesEndpoint(r, kind)
              /\ pc' = [pc EXCEPT ![r] = "backoff"]
              /\ used' = [used EXCEPT ![r] = @ + 1]
              /\ result' = [result EXCEPT ![r] = kind]
              /\ UNCHANGED <<pos, tries, onWire, sent>>
           \/ /\ ShouldFailover(kind)
              /\ TryFrom(r, plan[r], pos[r] + 1, used[r] + 1, Cools(kind), kind)
           \/ /\ ~RetriesEndpoint(r, kind) /\ ~ShouldFailover(kind)
              /\ Ends(r, kind)
              /\ UNCHANGED <<pos, tries, used, onWire, sent>>
  BY DEF GenerateFails
<1>3. automatic' = automatic /\ retries' = retries /\ lastSuccess' = lastSuccess
  BY DEF GenerateFails
<1>4. /\ pc[r] = "sent" /\ plan' = plan /\ aborted' = aborted
      /\ e = plan[r][pos[r]] /\ e \in Endpoints
      /\ executed' \in [Requests -> Seq(Endpoints)]
      /\ \A q \in Requests \ {r} : executed'[q] = executed[q]
      /\ kind \in Rejected => executed'[r] = executed[r]
  BY <1>1, <1>2, AnsweredFacts DEF Sound
<1>5. /\ IsInjective(executed'[r])
      /\ \A k \in 1 .. Len(executed'[r]) :
           \E p \in 1 .. Len(plan[r]) : p <= pos[r] /\ executed'[r][k] = plan[r][p]
  BY <1>1, <1>2, AnsweredGeneration
<1>6. /\ pos[r] \in 1 .. Len(plan[r]) /\ pos[r] \in Nat /\ IsInjective(plan[r])
      /\ plan[r] \in Seq(Endpoints) /\ Len(plan[r]) \in Nat /\ used[r] \in Nat
      /\ Len(sent[r]) \in Nat /\ tries[r] \in 0 .. MaxRetries + 1
      /\ Len(sent[r]) <= used[r] + 1 /\ Len(sent[r]) <= Len(plan[r]) /\ used[r] < Len(plan[r])
  BY <1>1, <1>4, LenProperties DEF Sound, Progress, AtCandidate, Counted, Busy, TypeOK
<1>7. Cools(kind) \in [Endpoints -> BOOLEAN]
  <2>1. (cooling[e] \/ ShouldFailover(kind)) \in BOOLEAN
    OBVIOUS
  <2> QED
    BY <1>1, <2>1 DEF TypeOK
<1> DEFINE cools == Cools(kind)
<1> HIDE DEF Cools, cools, e
<1>8. cooling' \in [Endpoints -> BOOLEAN] /\ failures' \in [Endpoints -> Nat]
      /\ lastSuccess' \in [Endpoints -> Nat] /\ automatic' \in BOOLEAN
      /\ aborted' \in [Requests -> BOOLEAN] /\ plan' \in [Requests -> Seq(Endpoints)]
      /\ retries' \in [Requests -> 0 .. MaxRetries + 1]
  <2>1. cooling' \in [Endpoints -> BOOLEAN]
    BY <1>2, <1>7
  <2>2. failures' \in [Endpoints -> Nat]
    <3>1. failures' = [failures EXCEPT ![e] = @ + 1]
      BY <1>2
    <3> QED
      BY <1>1, <1>4, <3>1 DEF TypeOK
  <2> QED
    BY <1>1, <1>3, <1>4, <2>1, <2>2 DEF TypeOK
<1>9. kind \in {"none", "ok", "no_candidate"} \cup FailureKinds
  OBVIOUS
<1>10. CASE /\ RetriesEndpoint(r, kind)
            /\ pc' = [pc EXCEPT ![r] = "backoff"]
            /\ used' = [used EXCEPT ![r] = @ + 1]
            /\ result' = [result EXCEPT ![r] = kind]
            /\ UNCHANGED <<pos, tries, onWire, sent>>
  <2>1. kind = "rate_limited" /\ tries[r] <= MaxRetries /\ used[r] + 1 < Len(plan[r])
    BY <1>10 DEF RetriesEndpoint
  <2>2. executed'[r] = executed[r]
    BY <1>4, <2>1 DEF Rejected
  <2>3. used' \in [Requests -> Nat] /\ used'[r] = used[r] + 1
        /\ \A q \in Requests \ {r} : used'[q] = used[q]
    BY <1>1, <1>10 DEF TypeOK
  <2>4. pc' \in [Requests -> {"idle", "sent", "backoff", "done"}] /\ pc'[r] = "backoff"
        /\ \A q \in Requests \ {r} : pc'[q] = pc[q]
    BY <1>1, <1>10 DEF TypeOK
  <2>5. result' \in [Requests -> {"none", "ok", "no_candidate"} \cup FailureKinds]
    BY <1>1, <1>9, <1>10 DEF TypeOK
  <2>6. TypeOK'
    <3>1. pos' = pos /\ tries' = tries /\ onWire' = onWire /\ sent' = sent
      BY <1>10
    <3> QED
      BY <1>1, <1>4, <1>8, <2>3, <2>4, <2>5, <3>1 DEF TypeOK
  <2>7. \A q \in Requests \ {r} : Kept(q)
    BY <1>3, <1>4, <1>10, <2>3, <2>4 DEF Kept
  <2>8. Fresh(r)' /\ AtCandidate(r)'
    BY <1>4, <1>6, <1>10, <2>1, <2>4 DEF Fresh, AtCandidate, Busy
  <2>9. Progress(r)'
    BY <1>1, <1>4, <1>10, <2>2 DEF Sound, Progress, Busy
  <2>10. Counted(r)'
    BY <1>1, <1>4, <1>6, <1>10, <2>1, <2>3, <2>4 DEF Counted, Busy
  <2> QED
    BY <2>6, <2>7, <2>8, <2>9, <2>10 DEF Sound, StepKeeps
<1>11. CASE TryFrom(r, plan[r], pos[r] + 1, used[r] + 1, Cools(kind), kind)
  <2>1. pos[r] + 1 \in Nat \ {0} /\ used[r] + 1 \in Nat
    BY <1>6
  <2>2. /\ AttemptTypes
        /\ tries' \in [Requests -> 0 .. MaxRetries + 1]
        /\ \A q \in Requests \ {r} :
             /\ pc'[q] = pc[q] /\ pos'[q] = pos[q] /\ tries'[q] = tries[q]
             /\ used'[q] = used[q] /\ sent'[q] = sent[q]
        /\ \/ EndsHere(r)
           \/ \E next \in 1 .. Len(plan[r]) :
                /\ next >= pos[r] + 1
                /\ SendsTo(r, plan[r], next)
                /\ used'[r] = used[r] + 1 + next - (pos[r] + 1) /\ used'[r] < Len(plan[r])
    BY <1>1, <1>6, <1>7, <1>9, <1>11, <2>1, TryFromFacts
  <2>3. TypeOK'
    BY <1>4, <1>8, <2>2 DEF TypeOK, AttemptTypes
  <2>4. \A q \in Requests \ {r} : Kept(q)
    BY <1>3, <1>4, <2>2 DEF Kept
  <2>5. CASE EndsHere(r)
    BY <1>1, <1>4, <1>5, <1>6, <2>3, <2>4, <2>5, DoneIsSound DEF EndsHere, StepKeeps
  <2>6. ASSUME NEW next \in 1 .. Len(plan[r]), next >= pos[r] + 1,
               SendsTo(r, plan[r], next),
               used'[r] = used[r] + 1 + next - (pos[r] + 1), used'[r] < Len(plan[r])
        PROVE  Sound(r)'
    <3>1. pc'[r] = "sent" /\ pos'[r] = next /\ next \in Nat
      BY <1>6, <2>6 DEF SendsTo
    <3>2. Len(sent'[r]) <= used[r] + 1 + 1
      BY <1>1, <1>6, <2>1, <2>6, SendingIsCounted
    <3>3. Len(sent'[r]) \in Nat /\ used'[r] >= used[r] + 1 /\ used'[r] \in Nat
      BY <1>6, <2>3, <2>6, <3>1, LenProperties DEF TypeOK
    <3>4. Fresh(r)' /\ AtCandidate(r)'
      BY <1>4, <3>1 DEF Fresh, AtCandidate, Busy
    <3>5. ASSUME NEW k \in 1 .. Len(executed'[r])
          PROVE  \E p \in 1 .. Len(plan[r]) : p < next /\ executed'[r][k] = plan[r][p]
      <4>1. PICK p \in 1 .. Len(plan[r]) : p <= pos[r] /\ executed'[r][k] = plan[r][p]
        BY <1>5
      <4>2. p < next
        BY <1>6, <2>6, <3>1, <4>1
      <4> QED
        BY <4>1, <4>2
    <3>6. Progress(r)'
      BY <1>1, <1>4, <1>5, <1>6, <3>1, <3>5 DEF Progress
    <3>7. Counted(r)'
      <4>1. plan'[r] = plan[r] /\ r \notin IsEdit
        BY <1>1, <1>4
      <4>2. Len(sent'[r]) <= used'[r] + 1 /\ Len(sent'[r]) <= Len(plan[r])
        <5>1. used[r] \in Nat /\ Len(plan[r]) \in Nat
          BY <1>6
        <5> QED
          BY <2>6, <3>2, <3>3, <5>1
      <4> QED
        BY <2>6, <3>1, <4>1, <4>2 DEF Counted, Busy
    <3> QED
      BY <3>4, <3>6, <3>7 DEF Sound
  <2> QED
    BY <2>2, <2>3, <2>4, <2>5, <2>6 DEF StepKeeps
<1>12. CASE Ends(r, kind) /\ UNCHANGED <<pos, tries, used, onWire, sent>>
  <2>1. /\ pc'[r] = "done"
        /\ pc' \in [Requests -> {"idle", "sent", "backoff", "done"}]
        /\ result' \in [Requests -> {"none", "ok", "no_candidate"} \cup FailureKinds]
        /\ \A q \in Requests \ {r} : pc'[q] = pc[q]
    BY <1>1, <1>9, <1>12, EndsFacts
  <2>2. TypeOK'
    BY <1>1, <1>4, <1>8, <1>12, <2>1 DEF TypeOK
  <2>3. \A q \in Requests \ {r} : Kept(q)
    BY <1>3, <1>4, <1>12, <2>1 DEF Kept
  <2> QED
    BY <1>1, <1>4, <1>5, <1>6, <1>12, <2>1, <2>2, <2>3, DoneIsSound DEF StepKeeps
<1> QED
  BY <1>2, <1>10, <1>11, <1>12

\* What a dispatch of an edit, or its end, leaves sound, as nothing was executed
\* or the edit is over.
LEMMA EditAttemptKeeps ==
  ASSUME TypeOK, TypeOK', NEW r \in Requests, r \in IsEdit, Len(sent[r]) <= used[r],
         pc[r] # "idle" => used[r] <= Len(plan[r]) + MaxRetries,
         NEW seq \in Seq(Endpoints), NEW i \in 1 .. Len(seq), plan'[r] = seq,
         pc[r] = "idle" \/ plan[r] = seq,
         pc[r] = "idle" => used[r] = 0,
         Len(executed'[r]) <= 1, pc'[r] # "done" => executed'[r] = << >>,
         \/ EndsHere(r) /\ pc[r] # "idle"
         \/ SendsTo(r, seq, i) /\ sent'[r] = sent[r] /\ used'[r] = used[r]
         \/ /\ SendsTo(r, seq, i) /\ sent'[r] = Append(sent[r], seq[i])
            /\ used'[r] = used[r] + 1
            /\ pc[r] = "idle" \/ used[r] < Len(plan[r]) + MaxRetries
  PROVE  Sound(r)'
<1> USE TransportAssumption
<1>1. /\ Len(seq) \in Nat /\ seq[i] \in Endpoints /\ Len(sent[r]) \in Nat /\ used[r] \in Nat
      /\ Len(Append(sent[r], seq[i])) = Len(sent[r]) + 1 /\ MaxRetries \in Nat
  <2>1. sent[r] \in Seq(Endpoints) /\ used[r] \in Nat
    BY DEF TypeOK
  <2>2. seq[i] \in Endpoints /\ Len(seq) \in Nat
    BY LenProperties
  <2> QED
    BY <2>1, <2>2, LenProperties, AppendProperties
<1>2. CASE EndsHere(r) /\ pc[r] # "idle"
  BY <1>1, <1>2, DoneIsSound DEF EndsHere
<1>3. CASE SendsTo(r, seq, i)
  <2>1. pc'[r] = "sent" /\ pos'[r] = i
    BY <1>3 DEF SendsTo
  <2>2. Fresh(r)' /\ AtCandidate(r)'
    BY <2>1 DEF Fresh, AtCandidate, Busy
  <2>3. Progress(r)'
    BY <2>1 DEF Progress
  <2>4. Len(sent'[r]) <= used'[r] /\ used'[r] <= Len(seq) + MaxRetries
    <3>1. CASE sent'[r] = sent[r] /\ used'[r] = used[r]
      BY <1>1, <3>1
    <3>2. CASE /\ sent'[r] = Append(sent[r], seq[i]) /\ used'[r] = used[r] + 1
               /\ pc[r] = "idle" \/ used[r] < Len(plan[r]) + MaxRetries
      BY <1>1, <3>2
    <3>3. pc[r] = "idle" \/ pc[r] # "idle"
      OBVIOUS
    <3> QED
      BY <2>1, <3>1, <3>2 DEF EndsHere
  <2>5. Counted(r)'
    BY <2>4 DEF Counted
  <2> QED
    BY <2>2, <2>3, <2>5 DEF Sound
<1> QED
  BY <1>2, <1>3

LEMMA EditKeeps ==
  ASSUME IInv, NEW r \in Requests, Edit(r)
  PROVE  StepKeeps(r)
<1> USE TransportAssumption
<1>1. TypeOK /\ Sound(r) /\ pc[r] = "idle" /\ r \in IsEdit
  BY DEF IInv, Edit
<1>2. /\ plan' = [plan EXCEPT ![r] = AttemptPlan]
      /\ tries' = [tries EXCEPT ![r] = 1]
      /\ automatic' = automatic /\ executed' = executed /\ aborted' = aborted
      /\ cooling' = cooling /\ failures' = failures /\ lastSuccess' = lastSuccess
  BY DEF Edit, health
<1>3. PICK isRetry \in BOOLEAN : ~isRetry /\ EditAttempt(r, AttemptPlan, 1, isRetry)
  BY Zenon DEF Edit
<1>4. AttemptPlan \in Seq(Endpoints) /\ 1 \in 1 .. Len(AttemptPlan)
  BY PlanFacts
<1>5. /\ sent[r] = << >> /\ executed[r] = << >> /\ used[r] = 0 /\ retries[r] = 0
      /\ Len(<< >>) = 0 /\ executed'[r] = << >>
  BY <1>1, <1>2 DEF Sound, Fresh
<1>6. /\ AttemptTypes
      /\ retries' \in [Requests -> 0 .. MaxRetries + 1]
      /\ \A q \in Requests \ {r} :
           /\ pc'[q] = pc[q] /\ pos'[q] = pos[q] /\ retries'[q] = retries[q]
           /\ used'[q] = used[q] /\ sent'[q] = sent[q]
      /\ \/ EndsHere(r)
         \/ SendsTo(r, AttemptPlan, 1) /\ sent'[r] = sent[r] /\ used'[r] = used[r]
         \/ /\ SendsTo(r, AttemptPlan, 1) /\ sent'[r] = Append(sent[r], AttemptPlan[1])
            /\ used'[r] = used[r] + 1
            /\ pc[r] = "idle" \/ used[r] < Len(plan[r]) + MaxRetries
  BY <1>1, <1>3, <1>4, EditAttemptFacts
<1>7. pc'[r] = "sent"
  <2>1. Dispatches(r, AttemptPlan, 1)
    BY <1>1, <1>3 DEF EditAttempt
  <2> QED
    BY <1>1, <1>4, <2>1, DispatchesFacts DEF SendsTo
<1>8. plan' \in [Requests -> Seq(Endpoints)] /\ plan'[r] = AttemptPlan
      /\ \A q \in Requests \ {r} : plan'[q] = plan[q]
  BY <1>1, <1>2, <1>4 DEF TypeOK
<1>9. tries' \in [Requests -> 0 .. MaxRetries + 1]
      /\ \A q \in Requests \ {r} : tries'[q] = tries[q]
  <2>1. 1 \in 0 .. MaxRetries + 1
    OBVIOUS
  <2> QED
    BY <1>1, <1>2, <2>1 DEF TypeOK
<1>10. TypeOK'
  <2>1. /\ automatic' \in BOOLEAN /\ aborted' \in [Requests -> BOOLEAN]
        /\ executed' \in [Requests -> Seq(Endpoints)]
        /\ cooling' \in [Endpoints -> BOOLEAN]
        /\ failures' \in [Endpoints -> Nat] /\ lastSuccess' \in [Endpoints -> Nat]
    BY <1>1, <1>2 DEF TypeOK
  <2>2. /\ retries' \in [Requests -> 0 .. MaxRetries + 1]
        /\ tries' \in [Requests -> 0 .. MaxRetries + 1]
        /\ plan' \in [Requests -> Seq(Endpoints)]
    BY <1>6, <1>8, <1>9
  <2> QED
    BY <1>6, <2>1, <2>2 DEF TypeOK, AttemptTypes
<1>11. \A q \in Requests \ {r} : Kept(q)
  BY <1>2, <1>6, <1>8, <1>9 DEF Kept
<1>12. Sound(r)'
  <2>1. Len(sent[r]) <= used[r] /\ Len(executed'[r]) <= 1 /\ ~EndsHere(r)
    BY <1>5, <1>7 DEF EndsHere
  <2> QED
    BY <1>1, <1>4, <1>5, <1>6, <1>8, <1>10, <2>1, EditAttemptKeeps
<1> QED
  BY <1>10, <1>11, <1>12 DEF StepKeeps

\* An edit goes on only after a rejection, or over a codec that was rejected.
LEMMA EditAnsweredKeeps ==
  ASSUME IInv, NEW r \in Requests, EditAnswered(r)
  PROVE  StepKeeps(r)
<1> USE TransportAssumption
<1>1. TypeOK /\ Sound(r) /\ r \in IsEdit
  BY DEF IInv, EditAnswered
<1>2. PICK answer \in FailureKinds \cup {"ok"} :
        /\ Answered(r, answer)
        /\ \/ /\ WithRetry(r, answer)
              /\ pc' = [pc EXCEPT ![r] = "backoff"]
              /\ UNCHANGED <<pos, tries, used, retries, onWire, sent, result>>
           \/ /\ MayTryNextCodec(r, answer)
              /\ tries' = [tries EXCEPT ![r] = 1]
              /\ EditAttempt(r, plan[r], pos[r] + 1, FALSE)
           \/ /\ ~WithRetry(r, answer)
              /\ Ends(r, answer)
              /\ UNCHANGED <<pos, tries, used, retries, onWire, sent>>
  BY DEF EditAnswered
<1>3. automatic' = automatic
      /\ cooling' = cooling /\ failures' = failures /\ lastSuccess' = lastSuccess
  BY DEF EditAnswered, health
<1>4. /\ pc[r] = "sent" /\ plan' = plan /\ aborted' = aborted
      /\ executed' \in [Requests -> Seq(Endpoints)]
      /\ \A q \in Requests \ {r} : executed'[q] = executed[q]
      /\ answer \in Rejected => executed'[r] = executed[r]
      /\ \/ executed'[r] = executed[r]
         \/ executed'[r] = Append(executed[r], CurrentEndpoint(r))
      /\ CurrentEndpoint(r) \in Endpoints
  BY <1>1, <1>2, AnsweredFacts DEF Sound
<1>5. /\ executed[r] = << >> /\ Len(sent[r]) <= used[r] /\ used[r] <= Len(plan[r]) + MaxRetries
      /\ pos[r] \in 1 .. Len(plan[r]) /\ plan[r] \in Seq(Endpoints) /\ Len(plan[r]) \in Nat
  BY <1>1, <1>4, LenProperties DEF Sound, Progress, Counted, AtCandidate, Busy, TypeOK
<1>6. Len(executed'[r]) <= 1
  <2>1. executed'[r] = << >> \/ executed'[r] = Append(<< >>, CurrentEndpoint(r))
    BY <1>4, <1>5
  <2> QED
    BY <1>4, <2>1, OneExecution, Zenon
<1>7. CASE /\ WithRetry(r, answer)
           /\ pc' = [pc EXCEPT ![r] = "backoff"]
           /\ UNCHANGED <<pos, tries, used, retries, onWire, sent, result>>
  <2>1. answer = "rate_limited" /\ tries[r] <= MaxRetries
    BY <1>7 DEF WithRetry
  <2>2. executed'[r] = << >>
    BY <1>4, <1>5, <2>1 DEF Rejected
  <2>3. pos' = pos /\ tries' = tries /\ used' = used /\ retries' = retries
        /\ onWire' = onWire /\ sent' = sent /\ result' = result
    BY <1>7
  <2>4. pc' \in [Requests -> {"idle", "sent", "backoff", "done"}] /\ pc'[r] = "backoff"
        /\ \A q \in Requests \ {r} : pc'[q] = pc[q]
    BY <1>1, <1>7 DEF TypeOK
  <2>5. TypeOK'
    BY <1>1, <1>3, <1>4, <2>3, <2>4 DEF TypeOK
  <2>6. \A q \in Requests \ {r} : Kept(q)
    BY <1>4, <2>3, <2>4 DEF Kept
  <2>7. Fresh(r)' /\ AtCandidate(r)'
    BY <1>4, <1>5, <2>1, <2>3, <2>4 DEF Fresh, AtCandidate, Busy
  <2>8. Progress(r)' /\ Counted(r)'
    BY <1>1, <1>4, <1>5, <1>6, <2>2, <2>3, <2>4 DEF Progress, Counted
  <2> QED
    BY <2>5, <2>6, <2>7, <2>8 DEF Sound, StepKeeps
<1>8. CASE /\ MayTryNextCodec(r, answer)
           /\ tries' = [tries EXCEPT ![r] = 1]
           /\ EditAttempt(r, plan[r], pos[r] + 1, FALSE)
  <2>1. answer = "wire_rejected" /\ pos[r] < Len(plan[r])
    BY <1>8 DEF MayTryNextCodec
  <2>2. pos[r] + 1 \in 1 .. Len(plan[r])
    BY <1>5, <2>1
  <2>3. PICK isRetry \in BOOLEAN : ~isRetry /\ EditAttempt(r, plan[r], pos[r] + 1, isRetry)
    BY <1>8, Zenon
  <2>4. executed'[r] = << >>
    BY <1>4, <1>5, <2>1 DEF Rejected
  <2>5. /\ AttemptTypes
        /\ retries' \in [Requests -> 0 .. MaxRetries + 1]
        /\ \A q \in Requests \ {r} :
             /\ pc'[q] = pc[q] /\ pos'[q] = pos[q] /\ retries'[q] = retries[q]
             /\ used'[q] = used[q] /\ sent'[q] = sent[q]
        /\ \/ EndsHere(r)
           \/ SendsTo(r, plan[r], pos[r] + 1) /\ sent'[r] = sent[r] /\ used'[r] = used[r]
           \/ /\ SendsTo(r, plan[r], pos[r] + 1)
              /\ sent'[r] = Append(sent[r], plan[r][pos[r] + 1])
              /\ used'[r] = used[r] + 1
              /\ pc[r] = "idle" \/ used[r] < Len(plan[r]) + MaxRetries
    BY <1>1, <1>5, <2>2, <2>3, EditAttemptFacts
  <2>6. tries' \in [Requests -> 0 .. MaxRetries + 1]
        /\ \A q \in Requests \ {r} : tries'[q] = tries[q]
    <3>1. 1 \in 0 .. MaxRetries + 1
      OBVIOUS
    <3> QED
      BY <1>1, <1>8, <3>1 DEF TypeOK
  <2>7. TypeOK'
    BY <1>1, <1>3, <1>4, <2>5, <2>6 DEF TypeOK, AttemptTypes
  <2>8. \A q \in Requests \ {r} : Kept(q)
    BY <1>4, <2>5, <2>6 DEF Kept
  <2>9. Sound(r)'
    BY <1>1, <1>4, <1>5, <1>6, <2>2, <2>4, <2>5, <2>7, EditAttemptKeeps
  <2> QED
    BY <2>7, <2>8, <2>9 DEF StepKeeps
<1>9. CASE Ends(r, answer) /\ UNCHANGED <<pos, tries, used, retries, onWire, sent>>
  <2>1. answer \in {"none", "ok", "no_candidate"} \cup FailureKinds
    OBVIOUS
  <2>2. /\ pc'[r] = "done"
        /\ pc' \in [Requests -> {"idle", "sent", "backoff", "done"}]
        /\ result' \in [Requests -> {"none", "ok", "no_candidate"} \cup FailureKinds]
        /\ \A q \in Requests \ {r} : pc'[q] = pc[q]
    BY <1>1, <1>9, <2>1, EndsFacts
  <2>3. pos' = pos /\ tries' = tries /\ used' = used /\ retries' = retries
        /\ onWire' = onWire /\ sent' = sent
    BY <1>9
  <2>4. TypeOK'
    BY <1>1, <1>3, <1>4, <2>2, <2>3 DEF TypeOK
  <2>5. \A q \in Requests \ {r} : Kept(q)
    BY <1>4, <2>2, <2>3 DEF Kept
  <2> QED
    BY <1>1, <1>4, <1>5, <1>6, <2>2, <2>3, <2>4, <2>5, DoneIsSound DEF StepKeeps
<1> QED
  BY <1>2, <1>7, <1>8, <1>9

LEMMA EditAgainKeeps ==
  ASSUME IInv, NEW r \in Requests, EditAgain(r)
  PROVE  StepKeeps(r)
<1>1. TypeOK /\ Sound(r) /\ r \in IsEdit /\ pc[r] = "backoff"
  BY DEF IInv, EditAgain
<1>2. /\ tries' = [tries EXCEPT ![r] = @ + 1]
      /\ automatic' = automatic /\ plan' = plan /\ executed' = executed /\ aborted' = aborted
      /\ cooling' = cooling /\ failures' = failures /\ lastSuccess' = lastSuccess
  BY DEF EditAgain, health
<1>3. PICK isRetry \in BOOLEAN : isRetry /\ EditAttempt(r, plan[r], pos[r], isRetry)
  BY Zenon DEF EditAgain
<1>4. /\ executed[r] = << >> /\ Len(<< >>) = 0
      /\ Len(sent[r]) <= used[r] /\ used[r] <= Len(plan[r]) + MaxRetries
      /\ pos[r] \in 1 .. Len(plan[r]) /\ plan[r] \in Seq(Endpoints) /\ Len(plan[r]) \in Nat
      /\ tries[r] <= MaxRetries
  BY <1>1, LenProperties DEF Sound, Progress, Counted, AtCandidate, Busy, TypeOK
<1>5. /\ AttemptTypes
      /\ retries' \in [Requests -> 0 .. MaxRetries + 1]
      /\ \A q \in Requests \ {r} :
           /\ pc'[q] = pc[q] /\ pos'[q] = pos[q] /\ retries'[q] = retries[q]
           /\ used'[q] = used[q] /\ sent'[q] = sent[q]
      /\ \/ EndsHere(r)
         \/ SendsTo(r, plan[r], pos[r]) /\ sent'[r] = sent[r] /\ used'[r] = used[r]
         \/ /\ SendsTo(r, plan[r], pos[r])
            /\ sent'[r] = Append(sent[r], plan[r][pos[r]])
            /\ used'[r] = used[r] + 1
            /\ pc[r] = "idle" \/ used[r] < Len(plan[r]) + MaxRetries
  BY <1>1, <1>3, <1>4, EditAttemptFacts, ZenonT(30)
<1>6. tries' \in [Requests -> 0 .. MaxRetries + 1]
      /\ \A q \in Requests \ {r} : tries'[q] = tries[q]
  <2>1. tries[r] + 1 \in 0 .. MaxRetries + 1
    <3>1. tries[r] \in 0 .. MaxRetries + 1
      BY <1>1 DEF TypeOK
    <3> QED
      BY <1>4, <3>1, TransportAssumption
  <2>2. tries \in [Requests -> 0 .. MaxRetries + 1]
    BY <1>1 DEF TypeOK
  <2> QED
    BY <1>2, <2>1, <2>2
<1>7. TypeOK'
  <2>1. /\ automatic' \in BOOLEAN /\ aborted' \in [Requests -> BOOLEAN]
        /\ executed' \in [Requests -> Seq(Endpoints)]
        /\ cooling' \in [Endpoints -> BOOLEAN]
        /\ failures' \in [Endpoints -> Nat] /\ lastSuccess' \in [Endpoints -> Nat]
    BY <1>1, <1>2 DEF TypeOK
  <2>2. /\ retries' \in [Requests -> 0 .. MaxRetries + 1]
        /\ tries' \in [Requests -> 0 .. MaxRetries + 1]
        /\ plan' \in [Requests -> Seq(Endpoints)]
    BY <1>1, <1>2, <1>5, <1>6 DEF TypeOK
  <2> QED
    BY <1>5, <2>1, <2>2 DEF TypeOK, AttemptTypes
<1>8. \A q \in Requests \ {r} : Kept(q)
  BY <1>2, <1>5, <1>6 DEF Kept
<1>9. Sound(r)'
  <2>1. plan'[r] = plan[r] /\ executed'[r] = << >> /\ Len(executed'[r]) <= 1
    BY <1>2, <1>4
  <2> QED
    BY <1>1, <1>4, <1>5, <1>7, <2>1, EditAttemptKeeps
<1> QED
  BY <1>7, <1>8, <1>9 DEF StepKeeps

LEMMA AbortKeeps ==
  ASSUME IInv, NEW r \in Requests, Abort(r)
  PROVE  StepKeeps(r)
<1> USE TransportAssumption
<1>1. TypeOK /\ Sound(r)
  BY DEF IInv
<1>2. /\ aborted' = [aborted EXCEPT ![r] = TRUE]
      /\ automatic' = automatic /\ plan' = plan /\ pos' = pos /\ tries' = tries
      /\ used' = used /\ retries' = retries /\ onWire' = onWire /\ sent' = sent
      /\ executed' = executed
      /\ cooling' = cooling /\ failures' = failures /\ lastSuccess' = lastSuccess
  BY DEF Abort, health
<1>3. aborted' \in [Requests -> BOOLEAN]
  BY <1>1, <1>2 DEF TypeOK
<1>4. CASE pc[r] = "backoff"
  <2>1. Ends(r, "timeout")
    BY <1>4 DEF Abort
  <2>2. "timeout" \in {"none", "ok", "no_candidate"} \cup FailureKinds
    BY DEF FailureKinds, Ambiguous
  <2>3. /\ pc'[r] = "done"
        /\ pc' \in [Requests -> {"idle", "sent", "backoff", "done"}]
        /\ result' \in [Requests -> {"none", "ok", "no_candidate"} \cup FailureKinds]
        /\ \A q \in Requests \ {r} : pc'[q] = pc[q]
    BY <1>1, <2>1, <2>2, EndsFacts
  <2>4. TypeOK'
    BY <1>1, <1>2, <1>3, <2>3 DEF TypeOK
  <2>5. \A q \in Requests \ {r} : Kept(q)
    BY <1>2, <2>3 DEF Kept
  <2>6. IF r \in IsEdit
        THEN Len(executed[r]) <= 1 /\ Len(sent[r]) <= used[r]
             /\ used[r] <= Len(plan[r]) + MaxRetries
        ELSE IsInjective(plan[r]) /\ IsInjective(executed[r]) /\ Len(sent[r]) <= Len(plan[r])
    BY <1>1, <1>4 DEF Sound, Progress, Counted
  <2> QED
    BY <1>2, <2>3, <2>4, <2>5, <2>6, DoneIsSound DEF StepKeeps
<1>5. CASE pc[r] # "backoff"
  <2>1. pc' = pc /\ result' = result
    BY <1>5 DEF Abort
  <2>2. TypeOK'
    BY <1>1, <1>2, <1>3, <2>1 DEF TypeOK
  <2>3. \A q \in Requests : Kept(q)
    BY <1>2, <2>1 DEF Kept
  <2> QED
    BY <1>1, <2>2, <2>3, KeptIsSound DEF StepKeeps
<1> QED
  BY <1>4, <1>5

LEMMA NextKeeps == IInv /\ [Next]_vars => IInv'
<1> SUFFICES ASSUME IInv, [Next]_vars PROVE IInv'
  OBVIOUS
<1>1. TypeOK /\ \A q \in Requests : Sound(q)
  BY DEF IInv
<1>2. ASSUME NEW r \in Requests, StepKeeps(r)
      PROVE  IInv'
  <2>1. ASSUME NEW q \in Requests
        PROVE  Sound(q)'
    BY <1>1, <1>2, <2>1, KeptIsSound DEF StepKeeps
  <2> QED
    BY <1>2, <2>1 DEF IInv, StepKeeps
<1>3. CASE \E r \in Requests : Step(r) \/ Abort(r)
  <2>1. PICK r \in Requests : Step(r) \/ Abort(r)
    BY <1>3
  <2>2. StepKeeps(r)
    BY <2>1, GenerateKeeps, GenerateSucceedsKeeps, GenerateFailsKeeps, GenerateAgainKeeps,
       EditKeeps, EditAnsweredKeeps, EditAgainKeeps, AbortKeeps, Zenon DEF Step
  <2> QED
    BY <1>2, <2>2
<1>4. CASE \E e \in Endpoints : CooldownEnds(e)
  <2>1. PICK e \in Endpoints : CooldownEnds(e)
    BY <1>4
  <2>2. /\ cooling' = [cooling EXCEPT ![e] = FALSE]
        /\ automatic' = automatic /\ pc' = pc /\ plan' = plan /\ pos' = pos /\ tries' = tries
        /\ used' = used /\ retries' = retries /\ onWire' = onWire /\ sent' = sent
        /\ executed' = executed /\ aborted' = aborted /\ result' = result
        /\ failures' = failures /\ lastSuccess' = lastSuccess
    BY <2>1 DEF CooldownEnds
  <2>3. TypeOK'
    BY <1>1, <2>2 DEF TypeOK
  <2>4. \A q \in Requests : Kept(q)
    BY <2>2 DEF Kept
  <2> QED
    BY <1>1, <2>3, <2>4, KeptIsSound DEF IInv
<1>5. CASE UNCHANGED vars
  <2>1. /\ automatic' = automatic /\ pc' = pc /\ plan' = plan /\ pos' = pos /\ tries' = tries
        /\ used' = used /\ retries' = retries /\ onWire' = onWire /\ sent' = sent
        /\ executed' = executed /\ aborted' = aborted /\ result' = result
        /\ cooling' = cooling /\ failures' = failures /\ lastSuccess' = lastSuccess
    BY <1>5 DEF vars, health
  <2>2. TypeOK'
    BY <1>1, <2>1 DEF TypeOK
  <2>3. \A q \in Requests : Kept(q)
    BY <2>1 DEF Kept
  <2> QED
    BY <1>1, <2>2, <2>3, KeptIsSound DEF IInv
<1> QED
  BY <1>3, <1>4, <1>5 DEF Next

LEMMA Invariance == Spec => []IInv
  BY InitKeeps, NextKeeps, PTL DEF Spec

-----------------------------------------------------------------------------
(* The theorems. *)

\* Type correctness of the transport, whatever is answered, aborted or retried.
THEOREM TransportTypes == Spec => []TypeOK
<1>1. IInv => TypeOK
  BY DEF IInv
<1> QED
  BY <1>1, Invariance, PTL

\* NoReplay, for any number of requests, endpoints, codecs and retries: an edit is
\* executed at most once, and no endpoint executes a paid request twice.
THEOREM NoReplayAlways == Spec => []NoReplay
<1>1. IInv => NoReplay
  <2> SUFFICES ASSUME IInv PROVE NoReplay
    OBVIOUS
  <2>1. ASSUME NEW r \in IsEdit
        PROVE  Len(executed[r]) <= 1
    BY TransportAssumption DEF IInv, Sound, Progress
  <2>2. ASSUME NEW r \in Requests
        PROVE  IsInjective(executed[r])
    <3>1. CASE r \in IsEdit
      <4>1. executed[r] \in Seq(Endpoints)
        BY DEF IInv, TypeOK
      <4> QED
        BY <2>1, <3>1, <4>1, ShortIsInjective
    <3>2. CASE r \notin IsEdit
      BY <3>2 DEF IInv, Sound, Progress
    <3> QED
      BY <3>1, <3>2
  <2> QED
    BY <2>1, <2>2 DEF NoReplay, EditExecutedOnce, NoReplayAtEndpoint
<1> QED
  BY <1>1, Invariance, PTL

\* DispatchBudget: the attempts that leave the client are within the plan, plus the
\* retries of the policy when the request is an edit.
THEOREM DispatchBudgetAlways == Spec => []DispatchBudget
<1>1. IInv => DispatchBudget
  <2> SUFFICES ASSUME IInv, NEW r \in Requests
               PROVE  Len(sent[r]) <= IF r \in IsEdit THEN Len(plan[r]) + MaxRetries
                                                      ELSE Len(plan[r])
    BY DEF DispatchBudget
  <2>1. /\ Len(sent[r]) \in Nat /\ Len(plan[r]) \in Nat /\ used[r] \in Nat /\ MaxRetries \in Nat
    BY LenProperties, TransportAssumption DEF IInv, TypeOK
  <2>2. CASE r \in IsEdit
    <3>1. Len(sent[r]) <= used[r]
      BY <2>2 DEF IInv, Sound, Counted
    <3>2. CASE pc[r] = "idle"
      <4>1. used[r] = 0
        BY <3>2 DEF IInv, Sound, Fresh
      <4> QED
        BY <2>1, <2>2, <3>1, <4>1
    <3>3. CASE pc[r] # "idle"
      <4>1. used[r] <= Len(plan[r]) + MaxRetries
        BY <2>2, <3>3 DEF IInv, Sound, Counted
      <4> QED
        BY <2>1, <2>2, <3>1, <4>1
    <3> QED
      BY <3>2, <3>3
  <2>3. CASE r \notin IsEdit
    BY <2>3 DEF IInv, Sound, Counted
  <2> QED
    BY <2>2, <2>3
<1> QED
  BY <1>1, Invariance, PTL

-----------------------------------------------------------------------------
(* The action properties. *)

\* What AbortIsFinal and CooldownRespected ask of a step about request r.
Cautious(r) ==
  /\ aborted[r] => sent'[r] = sent[r]
  /\ r \notin IsEdit =>
       \A e \in Endpoints : sent'[r] = Append(sent[r], e) /\ cooling[e]
                              => pc[r] = "backoff" /\ CurrentEndpoint(r) = e

\* A log that grew by an endpoint grew, and by that endpoint alone.
LEMMA GrownLog ==
  ASSUME NEW log \in Seq(Endpoints), NEW e \in Endpoints
  PROVE  Append(log, e) # log /\ \A f \in Endpoints : Append(log, f) = Append(log, e) => f = e
<1>1. /\ Len(log) \in Nat /\ Len(Append(log, e)) = Len(log) + 1
      /\ Append(log, e)[Len(log) + 1] = e
  BY AppendProperties, LenProperties
<1>2. ASSUME NEW f \in Endpoints
      PROVE  Append(log, f)[Len(log) + 1] = f
  BY AppendProperties
<1>3. Append(log, e) # log
  <2>1. Len(Append(log, e)) # Len(log)
    BY <1>1
  <2> QED
    BY <2>1
<1> QED
  BY <1>1, <1>2, <1>3, Zenon

LEMMA NotSent ==
  ASSUME TypeOK, NEW r \in Requests, sent'[r] = sent[r]
  PROVE  Cautious(r)
<1>1. sent[r] \in Seq(Endpoints)
  BY DEF TypeOK
<1> QED
  BY <1>1, GrownLog, Zenon DEF Cautious

\* A dispatch to an endpoint that does not cool down.
LEMMA SentToHealthy ==
  ASSUME TypeOK, NEW r \in Requests, NEW seq \in Seq(Endpoints), NEW i \in 1 .. Len(seq),
         SendsTo(r, seq, i), aborted[r] => sent'[r] = sent[r], ~cooling[seq[i]]
  PROVE  Cautious(r)
<1>1. sent[r] \in Seq(Endpoints) /\ seq[i] \in Endpoints
  BY LenProperties DEF TypeOK
<1>2. CASE sent'[r] = sent[r]
  BY <1>2, NotSent
<1>3. CASE sent'[r] = Append(sent[r], seq[i])
  <2>1. ASSUME NEW e \in Endpoints, sent'[r] = Append(sent[r], e)
        PROVE  e = seq[i]
    BY <1>1, <1>3, <2>1, GrownLog, Zenon
  <2> QED
    BY <2>1, Zenon DEF Cautious
<1> QED
  BY <1>2, <1>3, Zenon DEF SendsTo

LEMMA StepIsCautious ==
  ASSUME IInv, NEW r \in Requests, Step(r)
  PROVE  Cautious(r)
<1>1. TypeOK /\ Sound(r)
  BY DEF IInv
<1>2. cooling \in [Endpoints -> BOOLEAN] /\ 0 \in Nat /\ 1 \in Nat \ {0}
  BY <1>1 DEF TypeOK
<1>3. CASE Generate(r)
  <2>1. PICK order \in EndpointOrders : TryFrom(r, order, 1, 0, cooling, "no_candidate")
    BY <1>3 DEF Generate
  <2>2. order \in Seq(Endpoints)
    BY <1>1, OrdersFacts
  <2>3. /\ aborted[r] => sent'[r] = sent[r]
        /\ \/ EndsHere(r)
           \/ \E next \in 1 .. Len(order) : ~cooling[order[next]] /\ SendsTo(r, order, next)
    BY <1>1, <1>2, <2>1, <2>2, TryFromFacts
  <2> QED
    BY <1>1, <2>2, <2>3, NotSent, SentToHealthy, Zenon DEF EndsHere
<1>4. CASE GenerateSucceeds(r)
  BY <1>1, <1>4, NotSent DEF GenerateSucceeds
<1>5. CASE GenerateFails(r)
  <2> DEFINE e == CurrentEndpoint(r)
             Cools(kind) == [cooling EXCEPT ![e] = @ \/ ShouldFailover(kind)]
  <2>1. PICK kind \in FailureKinds :
          /\ Answered(r, kind)
          /\ sent' = sent \/ TryFrom(r, plan[r], pos[r] + 1, used[r] + 1, Cools(kind), kind)
    BY <1>5 DEF GenerateFails
  <2>2. pc[r] = "sent" /\ e \in Endpoints
    BY <1>1, <2>1, AnsweredFacts DEF Sound
  <2>3. Cools(kind) \in [Endpoints -> BOOLEAN]
    <3>1. (cooling[e] \/ ShouldFailover(kind)) \in BOOLEAN
      OBVIOUS
    <3> QED
      BY <1>2, <3>1
  <2>4. \A f \in Endpoints : ~Cools(kind)[f] => ~cooling[f]
    BY <1>2, <2>2
  <2> HIDE DEF Cools, e
  <2>5. /\ pos[r] + 1 \in Nat \ {0} /\ used[r] + 1 \in Nat /\ plan[r] \in Seq(Endpoints)
        /\ kind \in {"none", "ok", "no_candidate"} \cup FailureKinds
    BY <1>1 DEF TypeOK
  <2>6. CASE TryFrom(r, plan[r], pos[r] + 1, used[r] + 1, Cools(kind), kind)
    <3>1. /\ aborted[r] => sent'[r] = sent[r]
          /\ \/ EndsHere(r)
             \/ \E next \in 1 .. Len(plan[r]) :
                  ~Cools(kind)[plan[r][next]] /\ SendsTo(r, plan[r], next)
      BY <1>1, <2>3, <2>5, <2>6, TryFromFacts
    <3>2. \A next \in 1 .. Len(plan[r]) : plan[r][next] \in Endpoints
      BY <2>5, LenProperties
    <3> QED
      BY <1>1, <2>4, <2>5, <3>1, <3>2, NotSent, SentToHealthy, Zenon DEF EndsHere
  <2>7. CASE sent' = sent
    BY <1>1, <2>7, NotSent
  <2> QED
    BY <2>1, <2>6, <2>7
<1>6. CASE GenerateAgain(r)
  <2>1. pc[r] = "backoff" /\ Dispatches(r, plan[r], pos[r])
    BY <1>6 DEF GenerateAgain
  <2>2. pos[r] \in 1 .. Len(plan[r]) /\ plan[r] \in Seq(Endpoints)
    BY <1>1, <2>1 DEF Sound, AtCandidate, Busy, TypeOK
  <2>3. SendsTo(r, plan[r], pos[r]) /\ (aborted[r] => sent'[r] = sent[r])
    BY <1>1, <2>1, <2>2, DispatchesFacts
  <2>4. sent[r] \in Seq(Endpoints) /\ plan[r][pos[r]] \in Endpoints
    BY <1>1, <2>2, LenProperties DEF TypeOK
  <2>5. CASE sent'[r] = sent[r]
    BY <1>1, <2>5, NotSent
  <2>6. CASE sent'[r] = Append(sent[r], plan[r][pos[r]])
    <3>1. ASSUME NEW f \in Endpoints, sent'[r] = Append(sent[r], f)
          PROVE  f = CurrentEndpoint(r)
      BY <2>4, <2>6, <3>1, GrownLog, Zenon DEF CurrentEndpoint
    <3> QED
      BY <2>1, <2>3, <3>1, Zenon DEF Cautious
  <2> QED
    BY <2>3, <2>5, <2>6 DEF SendsTo
<1>7. CASE Edit(r) \/ EditAnswered(r) \/ EditAgain(r)
  <2>1. r \in IsEdit
    BY <1>7 DEF Edit, EditAnswered, EditAgain
  <2>2. SUFFICES ASSUME aborted[r] PROVE sent'[r] = sent[r]
    BY <2>1, Zenon DEF Cautious
  <2>3. \/ sent' = sent
        \/ \E seq, i, isRetry : EditAttempt(r, seq, i, isRetry)
    BY <1>7, Zenon DEF Edit, EditAnswered, EditAgain
  <2>4. ASSUME NEW seq, NEW i, NEW isRetry, EditAttempt(r, seq, i, isRetry)
        PROVE  sent' = sent
    BY <2>2, <2>4 DEF EditAttempt, Dispatches
  <2> QED
    BY <2>3, <2>4
<1> QED
  BY <1>3, <1>4, <1>5, <1>6, <1>7 DEF Step

\* A step is about one request, or about none.
LEMMA NextIsCautious ==
  ASSUME IInv, [Next]_vars, NEW q \in Requests
  PROVE  Cautious(q)
<1>1. TypeOK
  BY DEF IInv
<1>2. SUFFICES ASSUME sent'[q] # sent[q] PROVE Cautious(q)
  BY <1>1, NotSent
<1>3. PICK r \in Requests : Step(r)
  BY <1>2, Zenon DEF Next, Abort, CooldownEnds, vars
<1>4. StepKeeps(r)
  BY <1>3, GenerateKeeps, GenerateSucceedsKeeps, GenerateFailsKeeps, GenerateAgainKeeps,
     EditKeeps, EditAnsweredKeeps, EditAgainKeeps, Zenon DEF Step
<1>5. q = r
  BY <1>2, <1>4 DEF StepKeeps, Kept
<1> QED
  BY <1>3, <1>5, StepIsCautious

\* AbortIsFinal: whatever the request waits for when its signal aborts, nothing of it
\* leaves the client any more.
THEOREM AbortIsFinalAlways == Spec => AbortIsFinal
<1>1. IInv /\ [Next]_vars => \A r \in Requests : aborted[r] => sent'[r] = sent[r]
  BY NextIsCautious, Zenon DEF Cautious
<1> QED
  BY <1>1, Invariance, PTL DEF Spec, AbortIsFinal

\* CooldownRespected: the health of the endpoints is read when the candidate is tried,
\* whatever other requests made of it since the candidates were put in order.
THEOREM CooldownRespectedAlways == Spec => CooldownRespected
<1>1. IInv /\ [Next]_vars =>
        \A r \in Requests \ IsEdit, e \in Endpoints :
          sent'[r] = Append(sent[r], e) /\ cooling[e]
            => pc[r] = "backoff" /\ CurrentEndpoint(r) = e
  BY NextIsCautious, Zenon DEF Cautious
<1> QED
  BY <1>1, Invariance, PTL DEF Spec, CooldownRespected

=============================================================================
