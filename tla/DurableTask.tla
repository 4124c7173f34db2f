------------------------------ MODULE DurableTask ------------------------------
(***************************************************************************)
(* What the Session promises about the durable Task history: the life of a *)
(* TaskRecord seen by a reader of the Task store, whatever happens to      *)
(* queues, coroutines, Retry, failing writes or dispose.                   *)
(*                                                                         *)
(* A Task starts an attempt only when it has none or its last one failed,  *)
(* attempts only move forward, an attempt ends at most once, and the       *)
(* record of an ended attempt changes only by a newer attempt.             *)
(***************************************************************************)
EXTENDS Naturals

CONSTANTS
  Tasks,      \* the stable Task ids
  Attempts    \* the Jobs: positive numbers, in the order their entries were queued

VARIABLE record   \* Task -> [status, job]: TaskRecord.status and latestJobId

NoAttempt == 0
Ended == {"completed", "failed"}

Init == record = [t \in Tasks |-> [status |-> "absent", job |-> NoAttempt]]

\* A newer attempt of a Task that has never run, or whose last attempt failed.
MayStart(t, a) == record[t].status \in {"absent", "failed"} /\ a > record[t].job

\* The running Task is written before the execution starts.
Start(t, a) ==
  /\ MayStart(t, a)
  /\ record' = [record EXCEPT ![t] = [status |-> "running", job |-> a]]

\* The running Task was lost, and the failed start is all the store ever sees.
FailToStart(t, a) ==
  /\ MayStart(t, a)
  /\ record' = [record EXCEPT ![t] = [status |-> "failed", job |-> a]]

\* The terminal Task of the attempt the record is about.
Finish(t, s) ==
  /\ record[t].status = "running"
  /\ record' = [record EXCEPT ![t].status = s]

Next ==
  \E t \in Tasks :
    \/ \E a \in Attempts : Start(t, a) \/ FailToStart(t, a)
    \/ \E s \in Ended : Finish(t, s)

Spec == Init /\ [][Next]_record

=============================================================================
