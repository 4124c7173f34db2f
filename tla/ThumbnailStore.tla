--------------------------- MODULE ThumbnailStore ---------------------------
(***************************************************************************)
(* The previews of the finished rounds: the memory thumbnail store          *)
(* (shared/image/thumbnail-store.ts) and the hook that asks it for one      *)
(* preview per output (shared/ui/hooks/use-conversation.ts).  At most       *)
(* MaxGenerations previews are made at once; the others wait in a queue,    *)
(* and a slot goes from hand to hand without passing through the counter.   *)
(*                                                                         *)
(* A cache key names a round and one of its outputs, so no two requests of  *)
(* the application meet in the cache or in the table of pending ones, and   *)
(* neither is modelled; clear() of the store has no caller.                 *)
(***************************************************************************)
EXTENDS Naturals, Sequences, SequencesExt, FiniteSetsExt

CONSTANTS
  Rounds,
  OutputsOf,       \* round -> the sequence of its cache keys
  MaxGenerations   \* maxConcurrentGenerations

VARIABLES
  round,    \* round -> "new", "loading", "shown", "error" or "closed"
  request,  \* key -> "idle", "queued", "granted", "working", "made" or "failed"
  slots,    \* activeGenerations
  queue,    \* generationQueue
  aborted,  \* the rounds whose controller is aborted
  cache     \* the keys in the cache, each with one reference

vars == <<round, request, slots, queue, aborted, cache>>

Outputs(r) == Range(OutputsOf[r])
Keys == UNION {Outputs(r) : r \in Rounds}
RoundOf(k) == CHOOSE r \in Rounds : k \in Outputs(r)
In(state) == {k \in Keys : request[k] = state}

TypeOK ==
  /\ round \in [Rounds -> {"new", "loading", "shown", "error", "closed"}]
  /\ request \in [Keys -> {"idle", "queued", "granted", "working", "made", "failed"}]
  /\ slots \in 0 .. MaxGenerations
  /\ Range(queue) = In("queued") /\ IsInjective(queue)
  /\ aborted \subseteq Rounds /\ cache \subseteq Keys

Init ==
  /\ round = [r \in Rounds |-> "new"] /\ request = [k \in Keys |-> "idle"]
  /\ slots = 0 /\ queue = <<>> /\ aborted = {} /\ cache = {}

(***************************************************************************)
(* The effect asks for all outputs of a finished round in one turn: the     *)
(* first ones take the free slots, the others are queued.                   *)
(***************************************************************************)
Taken(r) == Min({MaxGenerations - slots, Len(OutputsOf[r])})

Ask(r) ==
  LET taken == Range(SubSeq(OutputsOf[r], 1, Taken(r))) IN
  /\ round[r] = "new"
  /\ round' = [round EXCEPT ![r] = "loading"]
  /\ request' = [k \in Keys |-> IF k \in taken THEN "working"
                                ELSE IF k \in Outputs(r) THEN "queued" ELSE request[k]]
  /\ slots' = slots + Taken(r)
  /\ queue' = queue \o SubSeq(OutputsOf[r], Taken(r) + 1, Len(OutputsOf[r]))
  /\ UNCHANGED <<aborted, cache>>

\* The finally of runWithGenerationSlot, after `k` has ended as `outcome`.
HandsOn(k, outcome) ==
  /\ request' = [q \in Keys |-> IF q = k THEN outcome
                                ELSE IF queue # <<>> /\ q = Head(queue) THEN "granted"
                                ELSE request[q]]
  /\ queue' = IF queue = <<>> THEN queue ELSE Tail(queue)
  /\ slots' = IF queue = <<>> THEN slots - 1 ELSE slots

\* MUTANT of Granted: a waiter that was aborted in the queue throws before the try block.
GrantedLeaky(k) ==
  /\ request[k] = "granted"
  /\ IF RoundOf(k) \in aborted
     THEN request' = [request EXCEPT ![k] = "failed"] /\ UNCHANGED <<slots, queue>>
     ELSE request' = [request EXCEPT ![k] = "working"] /\ UNCHANGED <<slots, queue>>
  /\ UNCHANGED <<round, aborted, cache>>

\* A waiter resumes with the slot it was handed; its signal may be aborted since.
Granted(k) ==
  /\ request[k] = "granted"
  /\ IF RoundOf(k) \in aborted THEN HandsOn(k, "failed")
     ELSE request' = [request EXCEPT ![k] = "working"] /\ UNCHANGED <<slots, queue>>
  /\ UNCHANGED <<round, aborted, cache>>

\* thumbnailUrlFor returns; an aborted signal is looked at after each await.
Made(k) ==
  /\ request[k] = "working" /\ RoundOf(k) \notin aborted
  /\ HandsOn(k, "made")
  /\ cache' = cache \cup {k}
  /\ UNCHANGED <<round, aborted>>

\* resolveStoredRef or createThumbnail throws, or the signal is aborted.
Fails(k) ==
  /\ request[k] = "working"
  /\ HandsOn(k, "failed")
  /\ UNCHANGED <<round, aborted, cache>>

(***************************************************************************)
(* Promise.all of a round: all its previews, or the first failure, after    *)
(* which nobody releases the previews that were or will be made.            *)
(***************************************************************************)
AllMade(r) ==
  /\ round[r] = "loading" /\ Outputs(r) \subseteq In("made")
  /\ IF r \in aborted
     THEN round' = [round EXCEPT ![r] = "closed"] /\ cache' = cache \ Outputs(r)
     ELSE round' = [round EXCEPT ![r] = "shown"] /\ cache' = cache
  /\ UNCHANGED <<request, slots, queue, aborted>>

OneFailed(r) ==
  /\ round[r] = "loading" /\ Outputs(r) \cap In("failed") # {}
  /\ round' = [round EXCEPT ![r] = IF r \in aborted THEN "closed" ELSE "error"]
  /\ UNCHANGED <<request, slots, queue, aborted, cache>>

\* MUTANT of Clear: an aborted waiter is rejected, but stays in the queue.
ClearKeepsQueue ==
  LET loading == {r \in Rounds : round[r] = "loading"} \ aborted IN
  /\ loading # {}
  /\ aborted' = aborted \cup loading
  /\ request' = [k \in Keys |-> IF request[k] = "queued" /\ RoundOf(k) \in loading THEN "failed"
                                ELSE request[k]]
  /\ UNCHANGED <<queue, round, cache, slots>>

\* The places in P, in their order.
InOrder(P) ==
  {at \in [1 .. Cardinality(P) -> P] :
     Range(at) = P /\ \A i, k \in DOMAIN at : i < k => at[i] < at[k]}

\* clear, and the unmount of the hook: the rounds that load are aborted, which
\* takes them out of the queue, and the previews that are shown are released.
Clear ==
  LET loading == {r \in Rounds : round[r] = "loading"} \ aborted
      shown == {r \in Rounds : round[r] = "shown"}
      Stays(k) == RoundOf(k) \notin loading
  IN
  /\ loading \cup shown # {}
  /\ aborted' = aborted \cup loading
  /\ request' = [k \in Keys |-> IF request[k] = "queued" /\ ~Stays(k) THEN "failed"
                                ELSE request[k]]
  /\ \E at \in InOrder({i \in DOMAIN queue : Stays(queue[i])}) :
       queue' = [i \in DOMAIN at |-> queue[at[i]]]
  /\ round' = [r \in Rounds |-> IF r \in shown THEN "closed" ELSE round[r]]
  /\ cache' = cache \ UNION {Outputs(r) : r \in shown}
  /\ UNCHANGED slots

Next ==
  \/ \E r \in Rounds : Ask(r) \/ AllMade(r) \/ OneFailed(r)
  \/ \E k \in Keys : Granted(k) \/ Made(k) \/ Fails(k)
  \/ Clear

Spec == Init /\ [][Next]_vars

\* Every slot counted is held by a request that makes a preview or is about to,
\* nobody waits while a slot is free, and no more than the maximum are held,
\* through every hand-over, failure and abort (thumbnail-store.ts:113-146).
SlotsConserved ==
  /\ slots = Cardinality(In("granted") \cup In("working"))
  /\ slots <= MaxGenerations
  /\ queue # <<>> => slots = MaxGenerations
=============================================================================
