------------------------ MODULE ImagenSessionInductive ------------------------
(***************************************************************************)
(* The inductive invariant behind the safety properties of ImagenSession:  *)
(* what every coroutine knows about the entry, the slot and the durable    *)
(* Task it is about to touch.                                              *)
(***************************************************************************)
EXTENDS ImagenSession

Finalizing == {"projecting", "persisting", "following"}

\* The live entries: in the queue, or past onJobCreated with their slot (see Slots).
Pending == queue \cup correlated

\* A terminal Task is projected before it is persisted, a failed Job as a failed Task.
Projections ==
  \A e \in Entries : terminal[e] \in {"persisting", "following"} =>
    projected[e] \in JobTerminal /\ (job[e] = "failed" => projected[e] = "failed")

\* Numbers are handed out in order.
Numbering ==
  \A d, e \in Entries : d < e /\ pc[e] # "free" => pc[d] # "free"

\* What the dispatch coroutine of an entry says about the entry.
DispatchPhases ==
  \A e \in Entries :
    /\ pc[e] = "free" => job[e] = "none" /\ e \notin queue
    /\ pc[e] # "free" => task[e] \in Tasks
    /\ pc[e] \in {"queued", "readiness"} => job[e] = "none"
    /\ pc[e] \in {"persisting", "failing"} => job[e] = "created"
    /\ pc[e] = "executing" => job[e] = "running"
    /\ pc[e] = "flushing" => job[e] \in JobTerminal
    /\ e \in queue => pc[e] \in {"queued", "readiness"}
    /\ pc[e] = "queued" => e \in queue
    /\ pc[e] = "readiness" => (e \in queue <=> ~disposed)

\* What the terminal coroutine says, and when an entry is correlated.
TerminalPhases ==
  \A e \in Entries :
    /\ terminal[e] # "none" => pc[e] \in {"flushing", "done"} /\ job[e] \in JobTerminal
    /\ e \in correlated <=>
         \/ pc[e] \in {"persisting", "executing", "failing"}
         \/ pc[e] = "flushing" /\ terminal[e] = "none"
         \/ terminal[e] \in Finalizing

\* A slot belongs to the entry that took it: one still waiting for checkReadiness,
\* or one whose Job is correlated, and both always hold theirs.
Slots ==
  /\ \A t \in Tasks : active[t] # NoEntry =>
       /\ task[active[t]] = t
       /\ active[t] \in correlated \/ (active[t] \in queue /\ pc[active[t]] = "readiness")
  /\ \A e \in correlated : active[task[e]] = e
  /\ \A e \in queue : pc[e] = "readiness" => active[task[e]] = e

\* One live attempt per Task, the newest one.
Attempts ==
  /\ \A d, e \in Pending : task[d] = task[e] => d = e
  /\ \A d \in Entries, e \in Pending : pc[d] # "free" /\ task[d] = task[e] => d <= e

\* A first attempt without a Job is the only trace of its Task.
FirstAttempts ==
  \A d, e \in Entries :
    origin[e] = NoEntry /\ pc[e] \in {"queued", "readiness"} /\ d # e /\ task[d] = task[e] =>
      pc[d] \in {"free", "done"} /\ job[d] = "none"

\* The durable record is about a Job of its Task.
Records ==
  \A t \in Tasks :
    /\ record[t].status = "absent" <=> record[t].job = NoEntry
    /\ record[t].job # NoEntry =>
         /\ task[record[t].job] = t
         /\ job[record[t].job] # "none"

\* From markRunning until the terminal Task is written.
Underway(e) ==
  \/ pc[e] = "executing"
  \/ pc[e] = "flushing" /\ terminal[e] = "none"
  \/ terminal[e] \in {"projecting", "persisting"}

\* What each coroutine relies on in the store between two of its writes.
Writes ==
  \A e \in Entries :
    /\ e \in Pending /\ record[task[e]].job # e => record[task[e]].status \in {"absent", "failed"}
    /\ pc[e] = "persisting" => record[task[e]].job # e
    /\ pc[e] = "failing" /\ record[task[e]].job = e => record[task[e]].status = "running"
    /\ Underway(e) => record[task[e]].status = "running" /\ record[task[e]].job = e

\* Between its awaits a Retry keeps what it has checked.
Retries ==
  \A j \in Entries :
    /\ retrying[j] # "none" => job[j] = "failed"
    /\ retrying[j] \in {"reading", "admitting"} => j \notin Pending
    /\ retrying[j] = "admitting" =>
         /\ record[task[j]].status = "failed" /\ record[task[j]].job = j
         /\ \A e \in Pending : task[e] # task[j]
    /\ retrying[j] = "reading" =>
         \A e \in Pending : task[e] = task[j] => record[task[j]].job # j

\* Every path that takes an entry out of the Session settles the Retry waiting for it.
Promises ==
  ~disposed => \A j \in Entries : retrying[j] = "queued" => \E e \in Pending : origin[e] = j

\* A Task with a queued entry or a Job is known.
Known ==
  \A e \in Entries : e \in queue \/ job[e] # "none" => task[e] \in known

\* A published end is behind the write it tells of, and the coroutines have passed it.
Views ==
  \A e \in Entries :
    /\ published[e] # "none" => job[e] # "none"
    /\ published[e] \in JobTerminal => terminal[e] \in {"following", "settled"} \/ pc[e] = "done"
    /\ pc[e] = "failing" \/ terminal[e] \in {"projecting", "persisting"} =>
         published[e] \notin JobTerminal /\ e \notin retryable
    /\ e \in retryable => published[e] = "failed"

\* Slots within their caps; a drain sees no skipped entry.
Caps ==
  /\ Cardinality(ActiveTasks) <= MaxRunning
  /\ \A l \in Lanes : Cardinality({t \in ActiveTasks : LaneOf[t] = l}) <= LaneCap[l]
  /\ draining => skipped = {}

IInv ==
  /\ TypeOK /\ Projections /\ Numbering /\ DispatchPhases /\ TerminalPhases /\ Slots /\ Attempts
  /\ FirstAttempts /\ Records /\ Writes /\ Retries /\ Promises /\ Known /\ Views
  /\ DurableBeforePublished /\ Caps /\ NoLostWakeup

=============================================================================
