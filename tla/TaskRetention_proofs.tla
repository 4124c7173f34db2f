-------------------------- MODULE TaskRetention_proofs --------------------------
(***************************************************************************)
(* LastReferenceKept and RunningAssetsKept for any Tasks, Masks, limits and *)
(* number of requests.  Records and assets are deleted in separate steps,   *)
(* long after the history was listed: the argument is that what the sweep   *)
(* is about to delete stays spent, because a put never takes a reference    *)
(* away from an asset that is stored, except into the orphans, and never    *)
(* gives one back to a record that was listed as trimmed.                   *)
(***************************************************************************)
EXTENDS TaskRetention, SequenceTheorems, TLAPS

\* The constants: the old Tasks are distinct, and no Mask has the name of a Task's output.
Given ==
  /\ MaxRequests \in Nat
  /\ OldTasks \in Seq(Tasks) /\ IsInjective(OldTasks)
  /\ DOMAIN MaskOf = Tasks /\ Tasks \cap UNION Range(MaskOf) = {}

\* One record for each task, in a history and in what a sweep has listed of it.
OneEach(h) ==
  /\ h \in Seq(Records)
  /\ \A i, k \in DOMAIN h : h[i].task = h[k].task => i = k

Typed ==
  /\ OneEach(history) /\ OneEach(listed)
  /\ stored \subseteq Assets /\ live \subseteq known /\ known \subseteq Tasks
  /\ loop \in {"idle", "listing", "trimming", "forgetting", "watermark", "resolved"}
  /\ left \subseteq Assets /\ undeleted \subseteq Assets
  /\ deleted \subseteq Tasks /\ requests \in 0 .. MaxRequests
  /\ rerunRequested \in BOOLEAN /\ asked \in BOOLEAN
  /\ reconcile \in {"idle", "listing", "putting", "done"}
  /\ active \subseteq Tasks /\ stale \subseteq Records /\ orphans \subseteq Assets

\* Every record is that of a Task of this Session or of the previous run; the one of a
\* live Task is not completed, and a Task that was listed as completed is never retried.
Lives ==
  /\ \A r \in Range(history) \cup Range(listed) \cup stale : r.task \in known \cup Range(OldTasks)
  /\ \A r \in Range(history) : r.task \in live => r.status # "completed"
  /\ \A r \in stale : r.status = "running"
  /\ \A r \in Range(listed) : r.status = "completed" =>
       r.task \notin live /\ Record(r.task, "failed") \notin Range(history)

\* What a sweep is about to delete is not of a Task that was running when it was listed.
SparesRunning ==
  loop \in {"trimming", "watermark"} => left \cap Refs(With(listed, "running")) = {}

TrimmedTasks == {r.task : r \in Trimmed(listed)}

\* Another Task, whose record the sweep will not delete, names a Mask.
NamedElsewhere(a) ==
  \E s \in Range(history) : s.task \notin TrimmedTasks /\ a \in MaskOf[s.task]

\* The assets of r that are still stored when the record of r may be deleted are
\* named by another record or known to be orphans; those in rest are not decided yet.
Spent(r, rest) ==
  \A a \in RefsOf(r) \cap stored : a \in rest \cup orphans \/ NamedElsewhere(a)

Forgettable ==
  /\ loop = "trimming" => \A r \in Trimmed(listed) : Spent(r, left \cup undeleted)
  /\ loop = "forgetting" =>
       /\ left \subseteq TrimmedTasks
       /\ \A r \in Trimmed(listed) : r.task \in left => Spent(r, {})

IInv == Given /\ Typed /\ Lives /\ SparesRunning /\ Forgettable /\ LastReferenceKept

-----------------------------------------------------------------------------
LEMMA RecordIs ==
  /\ \A t \in Tasks, status \in Statuses :
       /\ Record(t, status) \in Records
       /\ Record(t, status).task = t /\ Record(t, status).status = status
  /\ \A r \in Records : r.task \in Tasks /\ r.status \in Statuses /\ r = Record(r.task, r.status)
  BY DEF Record, Records

LEMMA RefsAre ==
  ASSUME Given
  PROVE
  /\ \A t \in Tasks : MaskOf[t] \subseteq Assets /\ Tasks \subseteq Assets
  /\ \A t \in Tasks : MaskOf[t] \cap Tasks = {}
  /\ \A r \in Records : RefsOf(r) \subseteq Assets /\ MaskOf[r.task] \subseteq RefsOf(r)
  /\ \A r \in Records : r.status # "completed" => RefsOf(r) = MaskOf[r.task]
  /\ \A S \in SUBSET Records : Refs(S) \subseteq Assets
<1>1. \A t \in Tasks : MaskOf[t] \in Range(MaskOf)
  BY DEF Given, Range
<1>2. \A t \in Tasks : MaskOf[t] \subseteq Assets /\ MaskOf[t] \cap Tasks = {}
  BY <1>1 DEF Given, Assets
<1>3. Tasks \subseteq Assets
  BY DEF Assets
<1>4. \A r \in Records : r.task \in Tasks
  BY RecordIs
<1>5. \A r \in Records : RefsOf(r) \subseteq Assets /\ MaskOf[r.task] \subseteq RefsOf(r)
  BY <1>2, <1>3, <1>4 DEF RefsOf
<1>6. \A S \in SUBSET Records : Refs(S) \subseteq Assets
  BY <1>5 DEF Refs
<1> QED
  BY <1>2, <1>3, <1>5, <1>6 DEF RefsOf

LEMMA RefsHas == \A S, a : a \in Refs(S) <=> \E r \in S : a \in RefsOf(r)
  BY DEF Refs

LEMMA OneRecord ==
  ASSUME NEW h, OneEach(h)
  PROVE  /\ Range(h) \subseteq Records
         /\ \A r, s \in Range(h) : r.task = s.task => r = s
  BY DEF OneEach, Range

\* A sequence without its i-th element.
LEMMA RemoveAtIs ==
  ASSUME NEW S, NEW s \in Seq(S), NEW i \in 1 .. Len(s)
  PROVE  /\ RemoveAt(s, i) \in Seq(S) /\ Len(RemoveAt(s, i)) = Len(s) - 1
         /\ DOMAIN RemoveAt(s, i) = 1 .. Len(RemoveAt(s, i))
         /\ \A k \in 1 .. Len(RemoveAt(s, i)) :
              RemoveAt(s, i)[k] = IF k < i THEN s[k] ELSE s[k + 1]
<1> DEFINE before == SubSeq(s, 1, i - 1)
           after == SubSeq(s, i + 1, Len(s))
           w == RemoveAt(s, i)
<1>1. Len(s) \in Nat /\ i \in Int /\ i - 1 \in Int /\ i + 1 \in Int /\ Len(s) \in Int
      /\ 1 \in Int /\ 1 <= i /\ i <= Len(s)
  OBVIOUS
<1>2. /\ \A k \in 1 .. i - 1 : s[k] \in S
      /\ \A k \in i + 1 .. Len(s) : s[k] \in S
  BY <1>1
<1>3. /\ before \in Seq(S) /\ Len(before) = IF 1 <= i - 1 THEN (i - 1) - 1 + 1 ELSE 0
      /\ \A k \in 1 .. (i - 1) - 1 + 1 : before[k] = s[1 + k - 1]
  BY <1>1, <1>2, SubSeqProperties
<1>4. /\ after \in Seq(S) /\ Len(after) = IF i + 1 <= Len(s) THEN Len(s) - (i + 1) + 1 ELSE 0
      /\ \A k \in 1 .. Len(s) - (i + 1) + 1 : after[k] = s[(i + 1) + k - 1]
  BY <1>1, <1>2, SubSeqProperties
<1>5. w = before \o after
  BY DEF RemoveAt
<1> HIDE DEF before, after, w
<1>6. /\ w \in Seq(S) /\ Len(w) = Len(before) + Len(after)
      /\ \A k \in 1 .. Len(before) + Len(after) :
            w[k] = IF k <= Len(before) THEN before[k] ELSE after[k - Len(before)]
  BY <1>3, <1>4, <1>5, ConcatProperties
<1>7. Len(before) = i - 1 /\ Len(after) = Len(s) - i
  BY <1>1, <1>3, <1>4
<1>8. \A k \in 1 .. Len(s) - 1 : w[k] = IF k < i THEN s[k] ELSE s[k + 1]
  <2> SUFFICES ASSUME NEW k \in 1 .. Len(s) - 1
               PROVE  w[k] = IF k < i THEN s[k] ELSE s[k + 1]
    OBVIOUS
  <2>1. CASE k < i
    <3>1. k \in 1 .. (i - 1) - 1 + 1 /\ 1 + k - 1 = k /\ k <= Len(before)
          /\ k \in 1 .. Len(before) + Len(after)
      BY <1>1, <1>7, <2>1
    <3> QED
      BY <1>3, <1>6, <2>1, <3>1
  <2>2. CASE ~(k < i)
    <3>1. /\ k - (i - 1) \in 1 .. Len(s) - (i + 1) + 1 /\ (i + 1) + (k - (i - 1)) - 1 = k + 1
          /\ ~(k <= Len(before)) /\ k \in 1 .. Len(before) + Len(after)
      BY <1>1, <1>7, <2>2
    <3> QED
      BY <1>4, <1>6, <1>7, <2>2, <3>1
  <2> QED
    BY <2>1, <2>2
<1>9. Len(w) = Len(s) - 1
  BY <1>1, <1>6, <1>7
<1> QED
  BY <1>6, <1>8, <1>9, LenProperties DEF w

\* The history without the record of a Task.
LEMMA WithoutIs ==
  ASSUME NEW h, OneEach(h), NEW t
  PROVE  /\ OneEach(Without(h, t))
         /\ Range(Without(h, t)) = {r \in Range(h) : r.task # t}
<1>1. CASE t \notin {r.task : r \in Range(h)}
  BY <1>1 DEF Without
<1>2. CASE t \in {r.task : r \in Range(h)}
  <2> DEFINE i == CHOOSE k \in DOMAIN h : h[k].task = t
             w == Without(h, t)
  <2>1. h \in Seq(Records) /\ DOMAIN h = 1 .. Len(h) /\ Len(h) \in Nat
    BY DEF OneEach
  <2>2. i \in 1 .. Len(h) /\ h[i].task = t
    BY <1>2, <2>1 DEF Range
  <2>3. w = SubSeq(h, 1, i - 1) \o SubSeq(h, i + 1, Len(h))
    BY <1>2 DEF Without, RemoveAt
  <2> HIDE DEF i, w
  <2>4. /\ w \in Seq(Records) /\ Len(w) = Len(h) - 1 /\ DOMAIN w = 1 .. Len(w)
        /\ \A k \in 1 .. Len(w) : w[k] = IF k < i THEN h[k] ELSE h[k + 1]
    BY <2>1, <2>2, <2>3, RemoveAtIs DEF RemoveAt
  <2>5. \A k \in 1 .. Len(w) : w[k] = IF k < i THEN h[k] ELSE h[k + 1]
    BY <2>4
  <2>6. \A j \in 1 .. Len(h) : j # i => h[j].task # t
    BY <2>1, <2>2 DEF OneEach
  <2>7. OneEach(w)
    <3> SUFFICES ASSUME NEW k \in 1 .. Len(w), NEW l \in 1 .. Len(w), w[k].task = w[l].task
                 PROVE  k = l
      BY <2>4 DEF OneEach
    <3>1. \E j \in 1 .. Len(h) : j = (IF k < i THEN k ELSE k + 1) /\ w[k] = h[j]
      BY <2>1, <2>2, <2>4, <2>5
    <3>2. \E j \in 1 .. Len(h) : j = (IF l < i THEN l ELSE l + 1) /\ w[l] = h[j]
      BY <2>1, <2>2, <2>4, <2>5
    <3>3. PICK j \in 1 .. Len(h) : j = (IF k < i THEN k ELSE k + 1) /\ w[k] = h[j]
      BY <3>1
    <3>4. PICK m \in 1 .. Len(h) : m = (IF l < i THEN l ELSE l + 1) /\ w[l] = h[m]
      BY <3>2
    <3>5. j = m
      BY <2>1, <3>3, <3>4 DEF OneEach
    <3>6. k \in Nat /\ l \in Nat /\ i \in Nat
      BY <2>2, <2>4
    <3> QED
      BY <3>3, <3>4, <3>5, <3>6
  <2>8. ASSUME NEW r \in Range(w)
        PROVE  r \in Range(h) /\ r.task # t
    <3>1. PICK k \in 1 .. Len(w) : r = w[k]
      BY <2>4 DEF Range
    <3>2. PICK j \in 1 .. Len(h) : j # i /\ r = h[j]
      BY <2>1, <2>2, <2>4, <2>5, <3>1
    <3> QED
      BY <2>1, <2>6, <3>2 DEF Range
  <2>9. ASSUME NEW r \in Range(h), r.task # t
        PROVE  r \in Range(w)
    <3>1. PICK j \in 1 .. Len(h) : r = h[j]
      BY <2>1 DEF Range
    <3>2. PICK k \in 1 .. Len(w) : r = w[k]
      <4>1. j # i
        BY <2>2, <2>9, <3>1
      <4>2. CASE j < i
        BY <2>1, <2>2, <2>4, <2>5, <3>1, <4>2
      <4>3. CASE j > i
        <5>1. j - 1 \in 1 .. Len(w) /\ ~(j - 1 < i) /\ (j - 1) + 1 = j
          BY <2>1, <2>2, <2>4, <4>3
        <5> QED
          BY <2>5, <3>1, <5>1
      <4> QED
        BY <2>1, <2>2, <4>1, <4>2, <4>3
    <3> QED
      BY <2>4, <3>2 DEF Range
  <2> QED
    BY <2>7, <2>8, <2>9 DEF w
<1> QED
  BY <1>1, <1>2

\* A put replaces the record of the Task.
LEMMA PutIs ==
  ASSUME OneEach(history), NEW r \in Records, Put(r)
  PROVE  /\ OneEach(history')
         /\ Range(history') = {r} \cup {s \in Range(history) : s.task # r.task}
<1> DEFINE w == Without(history, r.task)
<1>1. OneEach(w) /\ Range(w) = {s \in Range(history) : s.task # r.task}
  BY WithoutIs
<1>2. history' = <<r>> \o w
  BY DEF Put
<1> HIDE DEF w
<1>3. w \in Seq(Records) /\ DOMAIN w = 1 .. Len(w) /\ Len(w) \in Nat
  BY <1>1 DEF OneEach
<1>4. /\ history' \in Seq(Records) /\ Len(history') = Len(w) + 1
      /\ DOMAIN history' = 1 .. Len(w) + 1
  BY <1>2, <1>3
<1>5. history'[1] = r /\ \A k \in 2 .. Len(w) + 1 : history'[k] = w[k - 1]
  BY <1>2, <1>3
<1>6. Range(history') = {r} \cup Range(w)
  <2>1. ASSUME NEW s \in Range(history')
        PROVE  s \in {r} \cup Range(w)
    <3>1. PICK k \in 1 .. Len(w) + 1 : s = history'[k]
      BY <1>4 DEF Range
    <3>2. CASE k = 1
      BY <1>5, <3>1, <3>2
    <3>3. CASE k # 1
      <4>1. k - 1 \in 1 .. Len(w) /\ s = w[k - 1]
        BY <1>3, <1>5, <3>1, <3>3
      <4> QED
        BY <1>3, <4>1 DEF Range
    <3> QED
      BY <3>2, <3>3
  <2>2. r \in Range(history')
    BY <1>3, <1>4, <1>5 DEF Range
  <2>3. ASSUME NEW s \in Range(w)
        PROVE  s \in Range(history')
    <3>1. PICK k \in 1 .. Len(w) : s = w[k]
      BY <1>3 DEF Range
    <3>2. k + 1 \in 2 .. Len(w) + 1 /\ (k + 1) - 1 = k
      BY <1>3
    <3>3. k + 1 \in DOMAIN history' /\ history'[k + 1] = s
      BY <1>4, <1>5, <3>1, <3>2
    <3> QED
      BY <3>3 DEF Range
  <2> QED
    BY <2>1, <2>2, <2>3
<1>7. \A k \in 1 .. Len(w) : w[k] \in Range(w)
  BY <1>3 DEF Range
<1>8. OneEach(history')
  <2> SUFFICES ASSUME NEW k \in 1 .. Len(w) + 1, NEW l \in 1 .. Len(w) + 1,
                      history'[k].task = history'[l].task
               PROVE  k = l
    BY <1>4 DEF OneEach
  <2>1. \A n \in 2 .. Len(w) + 1 : n - 1 \in 1 .. Len(w) /\ history'[n].task # r.task
    BY <1>1, <1>3, <1>5, <1>7
  <2>2. CASE k = 1 \/ l = 1
    BY <1>3, <1>5, <2>1, <2>2
  <2>3. CASE k # 1 /\ l # 1
    <3>1. k - 1 \in 1 .. Len(w) /\ l - 1 \in 1 .. Len(w) /\ w[k - 1].task = w[l - 1].task
      BY <1>3, <1>5, <2>3
    <3>2. k - 1 = l - 1
      BY <1>1, <1>3, <3>1 DEF OneEach
    <3> QED
      BY <1>3, <3>2
  <2> QED
    BY <2>2, <2>3
<1> QED
  BY <1>1, <1>6, <1>8

-----------------------------------------------------------------------------
(* The steps that put a record: they lose no reference of the one they replace. *)

PutStep(r) ==
  /\ r \in Records /\ Put(r) /\ r.task \in known' \cup Range(OldTasks)
  /\ UNCHANGED sweepVars /\ reconcile' = reconcile /\ active' = active /\ stale' \subseteq stale
  /\ live' \subseteq live \cup {r.task} /\ live' \subseteq known'
  /\ known \subseteq known' /\ known' \subseteq Tasks
  /\ r.task \in live' => r.status # "completed"
  /\ \A q \in Range(listed) : q.status = "completed" /\ q.task = r.task =>
       r.task \notin live' /\ r.status # "failed"
  /\ stored \subseteq stored'
  /\ \A a \in stored' \ stored :
       /\ a \in RefsOf(r)
       /\ \A q \in Trimmed(listed) : a \in RefsOf(q) =>
            r.task \notin TrimmedTasks /\ a \in MaskOf[r.task]
  /\ orphans \subseteq orphans' /\ orphans' \subseteq Assets
  /\ \A s \in Range(history) : s.task = r.task => RefsOf(s) \subseteq RefsOf(r) \cup orphans'

LEMMA PutKeeps ==
  ASSUME IInv, NEW r, PutStep(r)
  PROVE  IInv'
<1> USE DEF IInv
<1>1. /\ OneEach(history') /\ r \in Records /\ r \in Range(history')
      /\ Range(history') = {r} \cup {s \in Range(history) : s.task # r.task}
  BY PutIs DEF PutStep, Typed
<1>2. stored' \subseteq Assets
  BY RefsAre DEF PutStep, Typed
<1>3. /\ TrimmedTasks' = TrimmedTasks /\ listed' = listed /\ left' = left
      /\ undeleted' = undeleted /\ loop' = loop
  BY DEF PutStep, sweepVars, TrimmedTasks
<1>4. Typed'
  BY <1>1, <1>2 DEF PutStep, sweepVars, Typed
<1>5. Lives'
  <2>1. \A t, u \in Tasks : Record(t, "failed") = Record(u, "failed") => t = u
    BY RecordIs DEF Statuses
  <2>2. \A q \in Range(listed) : q \in Records
    BY OneRecord DEF Typed
  <2>3. \A q \in Range(listed) : q.status = "completed" =>
          q.task \notin live' /\ Record(q.task, "failed") \notin Range(history')
    <3> SUFFICES ASSUME NEW q \in Range(listed), q.status = "completed"
                 PROVE  q.task \notin live' /\ Record(q.task, "failed") \notin Range(history')
      OBVIOUS
    <3>1. q.task \notin live /\ Record(q.task, "failed") \notin Range(history)
      BY DEF Lives
    <3>2. q.task \in Tasks /\ Record(q.task, "failed").task = q.task
          /\ Record(q.task, "failed").status = "failed"
      BY <2>2, RecordIs DEF Statuses
    <3>3. q.task = r.task => r.task \notin live' /\ r.status # "failed"
      BY DEF PutStep
    <3> QED
      BY <1>1, <3>1, <3>2, <3>3 DEF PutStep
  <2>4. \A q \in Range(history') : q.task \in live' => q.status # "completed"
    BY <1>1 DEF Lives, PutStep
  <2>5. \A q \in Range(history') \cup Range(listed') \cup stale' :
          q.task \in known' \cup Range(OldTasks)
    BY <1>1, <1>3 DEF Lives, PutStep
  <2>6. \A q \in stale' : q.status = "running"
    BY DEF Lives, PutStep
  <2> QED
    BY <1>3, <2>3, <2>4, <2>5, <2>6 DEF Lives
<1>6. SparesRunning'
  BY <1>3 DEF SparesRunning
<1>7. \A a : NamedElsewhere(a) => NamedElsewhere(a)'
  BY <1>1, <1>3 DEF NamedElsewhere
<1>8. ASSUME NEW q \in Trimmed(listed), NEW rest, Spent(q, rest)
      PROVE  Spent(q, rest)'
  <2> SUFFICES ASSUME NEW a \in RefsOf(q) \cap stored'
               PROVE  a \in rest \cup orphans' \/ NamedElsewhere(a)'
    BY DEF Spent
  <2>1. CASE a \in stored
    BY <1>7, <1>8, <2>1 DEF Spent, PutStep
  <2>2. CASE a \notin stored
    <3>1. r.task \notin TrimmedTasks /\ a \in MaskOf[r.task]
      BY <2>2 DEF PutStep
    <3> QED
      BY <1>1, <1>3, <3>1 DEF NamedElsewhere
  <2> QED
    BY <2>1, <2>2
<1>9. Forgettable'
  BY <1>3, <1>8 DEF Forgettable
<1>10. LastReferenceKept'
  <2> SUFFICES ASSUME NEW a \in stored'
               PROVE  a \in orphans' \/ \E s \in Range(history') : a \in RefsOf(s)
    BY RefsHas DEF LastReferenceKept
  <2>1. CASE a \in stored
    <3>1. a \in orphans \/ \E s \in Range(history) : a \in RefsOf(s)
      BY <2>1, RefsHas DEF LastReferenceKept
    <3> QED
      BY <1>1, <3>1 DEF PutStep
  <2>2. CASE a \notin stored
    BY <1>1, <2>2 DEF PutStep
  <2> QED
    BY <2>1, <2>2
<1> QED
  BY <1>4, <1>5, <1>6, <1>9, <1>10

\* What a trimmed record refers to, and whose it is.
LEMMA TrimmedIs ==
  ASSUME Typed
  PROVE  /\ \A r \in Trimmed(listed) : r \in Range(listed) /\ r \in Records /\ r.status # "running"
         /\ \A r \in Range(listed) : r \in Records
         /\ \A r \in Range(listed) : r.task \in TrimmedTasks => r \in Trimmed(listed)
  BY OneRecord DEF Trimmed, Terminal, TrimmedTasks, Typed

LEMMA SessionPuts ==
  ASSUME IInv, NEW t \in Tasks,
         Start(t) \/ Retry(t) \/ Finish(t, "completed") \/ Finish(t, "failed")
  PROVE  \E r : PutStep(r)
<1> USE DEF IInv
<1>1. CASE Start(t)
  <2> DEFINE r == Record(t, "running")
  <2>1. r \in Records /\ r.task = t /\ r.status = "running" /\ RefsOf(r) = MaskOf[t]
    BY RecordIs, RefsAre DEF Statuses
  <2>2. \A q \in Range(history) \cup Range(listed) : q.task # t
    BY <1>1 DEF Start, Lives
  <2>3. t \notin TrimmedTasks
    BY <2>2, TrimmedIs DEF TrimmedTasks
  <2> HIDE DEF r
  <2>4. /\ Put(r) /\ stored' = stored \cup MaskOf[t] /\ live' = live \cup {t}
        /\ known' = known \cup {t} /\ UNCHANGED <<sweepVars, reconcileVars, orphans>>
    BY <1>1 DEF Start, r
  <2>5. PutStep(r)
    BY <2>1, <2>2, <2>3, <2>4 DEF PutStep, Typed, reconcileVars
  <2> QED
    BY <2>5
<1>2. CASE Retry(t)
  <2> DEFINE r == Record(t, "running")
             f == Record(t, "failed")
  <2>1. r \in Records /\ r.task = t /\ r.status = "running" /\ RefsOf(r) = MaskOf[t]
    BY RecordIs, RefsAre DEF Statuses
  <2>2. f \in Records /\ f.task = t /\ f.status = "failed" /\ RefsOf(f) = MaskOf[t]
    BY RecordIs, RefsAre DEF Statuses
  <2>3. f \in Range(history) /\ \A s \in Range(history) : s.task = t => s = f
    BY <1>2, <2>2, OneRecord DEF Retry, Typed
  <2>4. \A q \in Range(listed) : q.status = "completed" => q.task # t
    BY <2>3 DEF Lives
  <2>5. /\ Put(r) /\ stored' = stored /\ live' = live \cup {t} /\ known' = known /\ t \in known
        /\ UNCHANGED <<sweepVars, reconcileVars, orphans>>
    BY <1>2 DEF Retry
  <2> HIDE DEF r, f
  <2>6. PutStep(r)
    BY <2>1, <2>2, <2>3, <2>4, <2>5 DEF PutStep, Typed, reconcileVars
  <2> QED
    BY <2>6
<1>3. ASSUME NEW status \in {"completed", "failed"}, Finish(t, status)
      PROVE  \E r : PutStep(r)
  <2> DEFINE r == Record(t, status)
  <2>1. /\ r \in Records /\ r.task = t /\ r.status = status
        /\ RefsOf(r) = MaskOf[t] \cup (IF status = "completed" THEN {t} ELSE {})
    BY RecordIs DEF Statuses, RefsOf
  <2>2. /\ Put(r) /\ t \in live /\ live' = live \ {t} /\ known' = known
        /\ stored' = (IF status = "completed" THEN stored \cup {t} ELSE stored)
        /\ UNCHANGED <<sweepVars, reconcileVars, orphans>>
    BY <1>3 DEF Finish
  <2> HIDE DEF r
  <2>3. \A s \in Range(history) : s.task = t => RefsOf(s) \subseteq RefsOf(r)
    <3>1. \A s \in Range(history) : s \in Records /\ (s.task = t => s.status # "completed")
      BY <2>2, OneRecord DEF Lives, Typed
    <3> QED
      BY <2>1, <3>1, RefsAre
  <2>4. \A q \in Range(listed) : q.status = "completed" => q.task # t
    BY <2>2 DEF Lives
  <2>5. \A q \in Trimmed(listed) : t \notin RefsOf(q)
    <3> SUFFICES ASSUME NEW q \in Trimmed(listed)
                 PROVE  t \notin RefsOf(q)
      OBVIOUS
    <3>1. q \in Records /\ q.task \in Tasks /\ t \notin MaskOf[q.task]
      BY TrimmedIs, RecordIs, RefsAre
    <3>2. q.status = "completed" => q.task # t
      BY <2>4, TrimmedIs
    <3> QED
      BY <3>1, <3>2 DEF RefsOf
  <2>6. \A a \in stored' \ stored : a = t /\ status = "completed"
    BY <2>2
  <2>7. PutStep(r)
    BY <2>1, <2>2, <2>3, <2>4, <2>5, <2>6 DEF PutStep, Typed, reconcileVars
  <2> QED
    BY <2>7
<1> QED
  BY <1>1, <1>2, <1>3

LEMMA ReconcilePuts ==
  ASSUME IInv, NEW q, ReconcilePut(q)
  PROVE  \E r : PutStep(r)
<1> USE DEF IInv
<1> DEFINE r == Record(q.task, "interrupted")
<1>1. q \in stale /\ q \in Records /\ q.task \in Tasks
  BY RecordIs DEF ReconcilePut, Typed
<1>2. r \in Records /\ r.task = q.task /\ r.status = "interrupted" /\ RefsOf(r) = MaskOf[q.task]
  BY <1>1, RecordIs, RefsAre DEF Statuses
<1>3. /\ Put(r) /\ stale' = stale \ {q} /\ orphans' = orphans \cup Overtaken(q)
      /\ UNCHANGED <<stored, live, known, sweepVars, reconcile, active>>
  BY DEF ReconcilePut
<1>4. Overtaken(q) \subseteq Assets
  BY OneRecord, RefsAre DEF Overtaken, Typed
<1> HIDE DEF r
<1>5. \A s \in Range(history) : s.task = q.task => RefsOf(s) \subseteq RefsOf(r) \cup orphans'
  <2> SUFFICES ASSUME NEW s \in Range(history), s.task = q.task
               PROVE  RefsOf(s) \subseteq RefsOf(r) \cup orphans'
    OBVIOUS
  <2>1. CASE s = q
    BY <1>1, <1>2, <2>1, RefsAre DEF Lives
  <2>2. CASE s # q
    <3>1. RefsOf(s) \subseteq Overtaken(q)
      BY <2>2 DEF Overtaken, Refs
    <3> QED
      BY <1>3, <3>1
  <2> QED
    BY <2>1, <2>2
<1>6. \A p \in Range(listed) : p.status = "completed" => p.task \notin live
  BY DEF Lives
<1>7. PutStep(r)
  BY <1>1, <1>2, <1>3, <1>4, <1>5, <1>6 DEF PutStep, Lives, Typed
<1> QED
  BY <1>7

-----------------------------------------------------------------------------
(* The other steps. *)

\* Nothing that the invariant speaks about changes, except where a reconciliation stands.
LEMMA ReconcileKeeps ==
  ASSUME IInv, ReconcileCalled \/ ReconcileListed \/ ReconcileEnds
  PROVE  IInv'
<1> USE DEF IInv
<1>1. /\ UNCHANGED <<history, stored, live, known, sweepVars, orphans>>
      /\ reconcile' \in {"listing", "putting", "done"} /\ active' \in {active, live}
      /\ stale' \subseteq stale \cup {r \in Range(history) : r.status = "running"}
  BY DEF ReconcileCalled, ReconcileListed, ReconcileEnds, IsStale
<1>2. /\ UNCHANGED <<history, stored, live, known, orphans, loop, rerunRequested, listed>>
      /\ UNCHANGED <<left, undeleted, deleted, requests, asked>>
  BY <1>1 DEF sweepVars
<1>3. stale' \subseteq Records /\ active' \subseteq Tasks
  BY <1>1, OneRecord DEF Typed
<1>4. Typed'
  BY <1>1, <1>2, <1>3 DEF Typed
<1>5. Lives'
  BY <1>1, <1>2 DEF Lives
<1>6. SparesRunning' /\ Forgettable' /\ LastReferenceKept'
  BY <1>2 DEF SparesRunning, Forgettable, Spent, NamedElsewhere, TrimmedTasks, LastReferenceKept
<1> QED
  BY <1>4, <1>5, <1>6

\* The sweep begins, waits or ends: it holds nothing.
LEMMA LoopKeeps ==
  ASSUME IInv, RequestSweep \/ SweepEnds \/ LoopFinally
  PROVE  IInv'
<1> USE DEF IInv
<1>1. /\ UNCHANGED <<history, stored, live, known, reconcileVars, orphans>>
      /\ rerunRequested' \in BOOLEAN /\ asked' \in BOOLEAN /\ requests' \in 0 .. MaxRequests
      /\ deleted' \in {deleted, {}}
      /\ \/ /\ UNCHANGED <<listed, left, undeleted>>
            /\ loop' = loop \/ loop' \in {"idle", "listing"}
         \/ /\ listed' = <<>> /\ left' = {} /\ undeleted' = {}
            /\ loop' \in {"listing", "resolved"}
  <2>1. requests \in 0 .. MaxRequests /\ MaxRequests \in Nat
        /\ rerunRequested \in BOOLEAN /\ asked \in BOOLEAN
    BY DEF Given, Typed
  <2>2. CASE RequestSweep
    <3>1. requests' \in 0 .. MaxRequests
      BY <2>1, <2>2 DEF RequestSweep
    <3>2. rerunRequested' \in BOOLEAN /\ asked' \in BOOLEAN
      BY <2>2 DEF RequestSweep, Begins
    <3> QED
      BY <2>2, <3>1, <3>2 DEF RequestSweep, Begins
  <2>3. CASE SweepEnds
    BY <2>1, <2>3 DEF SweepEnds, Begins, NextRound
  <2>4. CASE LoopFinally
    BY <2>1, <2>4 DEF LoopFinally
  <2> QED
    BY <2>2, <2>3, <2>4
<1>2. OneEach(<<>>) /\ Range(<<>>) = {}
  BY DEF OneEach, Range
<1>3. OneEach(listed') /\ Range(listed') \subseteq Range(listed)
  BY <1>1, <1>2 DEF Typed
<1>4. Typed'
  BY <1>1, <1>3 DEF Typed, reconcileVars
<1>5. Lives'
  BY <1>1, <1>3 DEF Lives, reconcileVars
<1>6. SparesRunning' /\ Forgettable'
  BY <1>1 DEF SparesRunning, Forgettable, Spent, NamedElsewhere, TrimmedTasks
<1>7. LastReferenceKept'
  BY <1>1 DEF LastReferenceKept
<1> QED
  BY <1>4, <1>5, <1>6, <1>7

LEMMA ListedKeeps ==
  ASSUME IInv, SweepListed
  PROVE  IInv'
<1> USE DEF IInv
<1>1. /\ UNCHANGED <<history, stored, live, known, rerunRequested, requests, asked>>
      /\ UNCHANGED <<reconcile, active, stale, orphans>>
      /\ loop' = "trimming" /\ listed' = history
      /\ left' = Refs(Trimmed(history)) \ Retained(history)
      /\ undeleted' = {} /\ deleted' = {}
  BY DEF SweepListed, reconcileVars
<1>2. Range(history) \subseteq Records /\ \A r, s \in Range(history) : r.task = s.task => r = s
  BY OneRecord DEF Typed
<1>3. Trimmed(history) \subseteq Range(history)
  BY DEF Trimmed, Terminal
<1>4. left' \subseteq Assets
  BY <1>1, <1>2, <1>3, RefsAre
<1>5. Typed'
  BY <1>1, <1>4 DEF Typed
<1>6. Lives'
  <2>1. \A q \in Range(history) : q.status = "completed" =>
          q.task \notin live /\ Record(q.task, "failed") \notin Range(history)
    BY <1>2, RecordIs DEF Lives, Statuses
  <2> QED
    BY <1>1, <2>1 DEF Lives
<1>7. SparesRunning'
  BY <1>1, RefsHas DEF SparesRunning, Retained
<1>8. Forgettable'
  <2> SUFFICES ASSUME NEW r \in Trimmed(history), NEW a \in RefsOf(r) \cap stored, a \notin left'
               PROVE  NamedElsewhere(a)'
    BY <1>1 DEF Forgettable, Spent
  <2>1. a \in Retained(history)
    BY <1>1, RefsHas
  <2>2. PICK s \in With(history, "running") \cup RetainedOf(history) : a \in RefsOf(s)
    BY <2>1, RefsHas DEF Retained
  <2>3. s \in Range(history)
    BY <2>2 DEF With, RetainedOf, Newest, Range
  <2>4. s \notin Trimmed(history)
    BY <2>2 DEF Trimmed, Terminal, With
  <2>5. \A q \in Trimmed(history) : q.task # s.task
    BY <1>2, <1>3, <2>3, <2>4
  <2>6. a \in MaskOf[s.task]
    <3>1. r \in Records /\ s \in Records /\ r.task \in Tasks /\ s.task \in Tasks
      BY <1>2, <1>3, <2>3, RecordIs
    <3>2. CASE a = s.task
      <4>1. a \notin MaskOf[r.task]
        BY <3>1, <3>2, RefsAre
      <4> QED
        BY <2>5, <3>2, <4>1 DEF RefsOf
    <3> QED
      BY <2>2, <3>2 DEF RefsOf
  <2> QED
    BY <1>1, <2>3, <2>5, <2>6 DEF NamedElsewhere, TrimmedTasks
<1>9. LastReferenceKept'
  BY <1>1 DEF LastReferenceKept
<1> QED
  BY <1>5, <1>6, <1>7, <1>8, <1>9

LEMMA DeleteAssetKeeps ==
  ASSUME IInv, NEW a, DeleteAsset(a)
  PROVE  IInv'
<1> USE DEF IInv
<1>1. /\ UNCHANGED <<history, live, known, loop, rerunRequested, listed, deleted, requests, asked>>
      /\ UNCHANGED <<reconcile, active, stale, orphans>>
      /\ a \in left /\ left' = left \ {a} /\ loop \in {"trimming", "watermark"}
      /\ \/ stored' = stored \ {a} /\ undeleted' = undeleted
         \/ stored' = stored /\ undeleted' = undeleted \cup {a}
  BY DEF DeleteAsset, reconcileVars
<1>2. Typed'
  BY <1>1 DEF Typed
<1>3. Lives' /\ SparesRunning' /\ LastReferenceKept'
  BY <1>1 DEF Lives, SparesRunning, LastReferenceKept
<1>4. Forgettable'
  <2>1. TrimmedTasks' = TrimmedTasks /\ \A b : NamedElsewhere(b)' <=> NamedElsewhere(b)
    BY <1>1 DEF TrimmedTasks, NamedElsewhere
  <2> QED
    BY <1>1, <2>1 DEF Forgettable, Spent
<1> QED
  BY <1>2, <1>3, <1>4

LEMMA AssetsTrimmedKeeps ==
  ASSUME IInv, AssetsTrimmed
  PROVE  IInv'
<1> USE DEF IInv
<1>1. /\ UNCHANGED <<history, stored, live, known, rerunRequested, listed, undeleted, deleted>>
      /\ UNCHANGED <<requests, asked, reconcile, active, stale, orphans>>
      /\ loop = "trimming" /\ left = {} /\ loop' = "forgetting"
      /\ left' = {r.task : r \in {s \in Trimmed(listed) : CanForget(s)}}
  BY DEF AssetsTrimmed, reconcileVars
<1>2. left' \subseteq TrimmedTasks /\ left' \subseteq Assets
  BY <1>1, TrimmedIs, RecordIs, RefsAre DEF TrimmedTasks
<1>3. Typed'
  BY <1>1, <1>2 DEF Typed
<1>4. Lives' /\ SparesRunning' /\ LastReferenceKept'
  BY <1>1 DEF Lives, SparesRunning, LastReferenceKept
<1>5. TrimmedTasks' = TrimmedTasks /\ \A b : NamedElsewhere(b)' <=> NamedElsewhere(b)
  BY <1>1 DEF TrimmedTasks, NamedElsewhere
<1>6. ASSUME NEW r \in Trimmed(listed), r.task \in left'
      PROVE  Spent(r, {})'
  <2>1. PICK s \in Trimmed(listed) : CanForget(s) /\ s.task = r.task
    BY <1>1, <1>6
  <2>2. s = r
    BY <2>1, TrimmedIs, OneRecord DEF Typed
  <2>3. Spent(r, left \cup undeleted) /\ RefsOf(r) \cap undeleted = {}
    BY <1>1, <2>1, <2>2 DEF Forgettable, CanForget
  <2> QED
    BY <1>1, <1>5, <2>3 DEF Spent
<1>7. Forgettable'
  BY <1>1, <1>2, <1>5, <1>6 DEF Forgettable
<1> QED
  BY <1>3, <1>4, <1>7

LEMMA DeleteRecordKeeps ==
  ASSUME IInv, NEW q, DeleteRecord(q)
  PROVE  IInv'
<1> USE DEF IInv
<1>1. /\ UNCHANGED <<stored, live, known, loop, rerunRequested, listed, undeleted, requests, asked>>
      /\ UNCHANGED <<reconcile, active, stale>>
      /\ loop = "forgetting" /\ q \in Range(listed) /\ q.task \in left
      /\ history' = Without(history, q.task) /\ left' = left \ {q.task}
      /\ deleted' = deleted \cup {q.task} /\ orphans' = orphans \cup Overtaken(q)
  BY DEF DeleteRecord, reconcileVars
<1>2. /\ OneEach(history')
      /\ Range(history') = {s \in Range(history) : s.task # q.task}
  BY <1>1, WithoutIs DEF Typed
<1>3. q \in Records /\ q.task \in Tasks /\ Overtaken(q) \subseteq Assets
  BY <1>1, TrimmedIs, RecordIs, RefsAre, OneRecord DEF Overtaken, Typed
<1>4. q.task \in TrimmedTasks /\ q \in Trimmed(listed) /\ Spent(q, {})
  BY <1>1, TrimmedIs DEF Forgettable
<1>5. TrimmedTasks' = TrimmedTasks
  BY <1>1 DEF TrimmedTasks
<1>6. \A b : NamedElsewhere(b) => NamedElsewhere(b)'
  BY <1>2, <1>4, <1>5 DEF NamedElsewhere
<1>7. Typed'
  BY <1>1, <1>2, <1>3 DEF Typed
<1>8. Lives'
  BY <1>1, <1>2 DEF Lives
<1>9. SparesRunning'
  BY <1>1 DEF SparesRunning
<1>10. Forgettable'
  BY <1>1, <1>5, <1>6 DEF Forgettable, Spent
<1>11. LastReferenceKept'
  <2> SUFFICES ASSUME NEW a \in stored, a \notin orphans'
               PROVE  \E s \in Range(history') : a \in RefsOf(s)
    BY <1>1, RefsHas DEF LastReferenceKept
  <2>1. PICK s \in Range(history) : a \in RefsOf(s)
    BY <1>1, RefsHas DEF LastReferenceKept
  <2>2. CASE s.task # q.task
    BY <1>2, <2>1, <2>2
  <2>3. CASE s.task = q.task /\ s # q
    BY <1>1, <2>1, <2>3, RefsHas DEF Overtaken
  <2>4. CASE s = q
    <3>1. NamedElsewhere(a)
      BY <1>1, <1>4, <2>1, <2>4 DEF Spent
    <3>2. PICK n \in Range(history) : n.task \notin TrimmedTasks /\ a \in MaskOf[n.task]
      BY <3>1 DEF NamedElsewhere
    <3>3. n \in Range(history') /\ a \in RefsOf(n)
      BY <1>2, <1>4, <3>2 DEF RefsOf
    <3> QED
      BY <3>3
  <2> QED
    BY <2>2, <2>3, <2>4
<1> QED
  BY <1>7, <1>8, <1>9, <1>10, <1>11

LEMMA ForgottenKeeps ==
  ASSUME IInv, RecordsForgotten
  PROVE  IInv'
<1> USE DEF IInv
<1> DEFINE remaining == {r \in Range(listed) : r.task \notin deleted}
<1>1. /\ UNCHANGED <<history, stored, live, known, rerunRequested, listed, undeleted, deleted>>
      /\ UNCHANGED <<requests, asked, reconcile, active, stale, orphans>>
      /\ loop' = "watermark" /\ left' \subseteq Assets /\ Surplus(listed, remaining, left')
  BY DEF RecordsForgotten, reconcileVars
<1>2. left' \cap Refs(With(listed, "running")) = {}
  BY <1>1, RefsHas DEF Surplus, Protected
<1>3. Typed'
  BY <1>1 DEF Typed
<1>4. Lives' /\ SparesRunning' /\ Forgettable' /\ LastReferenceKept'
  BY <1>1, <1>2 DEF Lives, SparesRunning, Forgettable, LastReferenceKept
<1> QED
  BY <1>3, <1>4

LEMMA NextKeeps ==
  ASSUME IInv, [Next]_vars
  PROVE  IInv'
<1>1. CASE UNCHANGED vars
  <2>1. /\ UNCHANGED <<history, stored, live, known, loop, rerunRequested, listed, left>>
        /\ UNCHANGED <<undeleted, deleted, requests, asked, reconcile, active, stale, orphans>>
    BY <1>1 DEF vars, sweepVars, reconcileVars
  <2> QED
    BY <2>1 DEF IInv, Typed, Lives, SparesRunning, Forgettable, Spent, NamedElsewhere,
       TrimmedTasks, LastReferenceKept
<1>2. CASE \E t \in Tasks : Start(t) \/ Retry(t) \/ Finish(t, "completed") \/ Finish(t, "failed")
  BY <1>2, SessionPuts, PutKeeps
<1>3. CASE \E r \in Records : ReconcilePut(r)
  BY <1>3, ReconcilePuts, PutKeeps
<1>4. CASE ReconcileCalled \/ ReconcileListed \/ ReconcileEnds
  BY <1>4, ReconcileKeeps
<1>5. CASE RequestSweep
  BY <1>5, LoopKeeps
<1>6. CASE SweepSteps
  BY <1>6, LoopKeeps, ListedKeeps, DeleteAssetKeeps, AssetsTrimmedKeeps, DeleteRecordKeeps,
     ForgottenKeeps DEF SweepSteps
<1> QED
  BY <1>1, <1>2, <1>3, <1>4, <1>5, <1>6 DEF Next

LEMMA InitKeeps ==
  ASSUME Given, Init
  PROVE  IInv
<1>1. PICK status \in [DOMAIN OldTasks -> Statuses] :
        history = [i \in DOMAIN OldTasks |-> Record(OldTasks[i], status[i])]
  BY DEF Init
<1>2. OldTasks \in Seq(Tasks) /\ DOMAIN OldTasks = 1 .. Len(OldTasks) /\ Len(OldTasks) \in Nat
  BY DEF Given
<1>3. /\ DOMAIN history = 1 .. Len(OldTasks)
      /\ \A i \in 1 .. Len(OldTasks) :
           /\ OldTasks[i] \in Tasks /\ status[i] \in Statuses
           /\ history[i] \in Records /\ history[i].task = OldTasks[i]
  BY <1>1, <1>2, RecordIs
<1>4. history \in Seq(Records)
  BY <1>1, <1>2, <1>3
<1>5. OneEach(history)
  BY <1>2, <1>3, <1>4 DEF Given, OneEach, IsInjective
<1>6. OneEach(<<>>) /\ Range(<<>>) = {}
  BY DEF OneEach, Range
<1>7. Range(history) \subseteq Records
  BY <1>5, OneRecord
<1>8. Typed
  <2>1. stored \subseteq Assets
    BY <1>7, RefsAre DEF Init
  <2>2. OneEach(history) /\ OneEach(listed) /\ requests \in 0 .. MaxRequests
    BY <1>5, <1>6 DEF Given, Init
  <2> QED
    BY <2>1, <2>2 DEF Init, Typed
<1>9. \A r \in Range(history) : r.task \in Range(OldTasks)
  BY <1>2, <1>3 DEF Range
<1>10. Lives
  BY <1>6, <1>9 DEF Init, Lives
<1> QED
  BY <1>8, <1>10 DEF Init, IInv, SparesRunning, Forgettable, LastReferenceKept

\* A sweep deletes nothing of a Task that was running when it was listed.
LEMMA RunningKept ==
  ASSUME IInv, [Next]_vars, NEW r \in With(listed, "running")
  PROVE  RefsOf(r) \cap stored \subseteq stored'
<1>1. ASSUME NEW a, DeleteAsset(a)
      PROVE  RefsOf(r) \cap stored \subseteq stored'
  BY <1>1, RefsHas DEF IInv, SparesRunning, DeleteAsset
<1>2. CASE stored \subseteq stored'
  BY <1>2
<1>3. CASE \E t \in Tasks : Start(t) \/ Retry(t) \/ Finish(t, "completed") \/ Finish(t, "failed")
  BY <1>3 DEF Start, Retry, Finish
<1>4. CASE \/ ReconcileCalled \/ ReconcileListed \/ (\E q \in Records : ReconcilePut(q))
           \/ ReconcileEnds \/ RequestSweep \/ UNCHANGED vars
  BY <1>4 DEF ReconcileCalled, ReconcileListed, ReconcilePut, ReconcileEnds, RequestSweep, vars
<1>5. CASE \/ SweepListed \/ AssetsTrimmed \/ (\E q \in Records : DeleteRecord(q))
           \/ RecordsForgotten \/ SweepEnds \/ LoopFinally
  BY <1>5 DEF SweepListed, AssetsTrimmed, DeleteRecord, RecordsForgotten, SweepEnds, LoopFinally
<1> QED
  BY <1>1, <1>3, <1>4, <1>5 DEF Next, SweepSteps

LEMMA Implied ==
  ASSUME IInv
  PROVE  TypeOK /\ LastReferenceKept
BY OneRecord DEF IInv, Typed, TypeOK, OneEach

\* A stored asset is named by a record, or its record was rewritten between a listing and
\* the write or delete based on it: for any Tasks and limits.
THEOREM LastReferenceKeptAlways ==
  ASSUME Given
  PROVE  Spec => [](TypeOK /\ LastReferenceKept)
<1>1. Init => IInv
  BY InitKeeps
<1>2. IInv /\ [Next]_vars => IInv'
  BY NextKeeps
<1>3. IInv => TypeOK /\ LastReferenceKept
  BY Implied
<1> QED
  BY <1>1, <1>2, <1>3, PTL DEF Spec

\* A sweep deletes no asset of a Task that was running when it was listed and is running now:
\* for any Tasks and limits.
THEOREM RunningAssetsKeptAlways ==
  ASSUME Given
  PROVE  Spec => RunningAssetsKept
<1>1. Init => IInv
  BY InitKeeps
<1>2. IInv /\ [Next]_vars => IInv'
  BY NextKeeps
<1>3. IInv /\ [Next]_vars =>
        \A r \in With(listed, "running") :
          r \in Range(history) => RefsOf(r) \cap stored \subseteq stored'
  BY RunningKept
<1> QED
  BY <1>1, <1>2, <1>3, PTL DEF Spec, RunningAssetsKept
=============================================================================
