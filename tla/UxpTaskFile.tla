----------------------------- MODULE UxpTaskFile -----------------------------
(***************************************************************************)
(* The Task store of the UXP host (adapters/uxp/uxp-job-history-adapter.ts, *)
(* createUxpTaskStore): all records are in one JSON file, and put and       *)
(* delete each read the whole file, await, and write the whole file.        *)
(*                                                                         *)
(* Callers are the Jobs of the Session, of which five may run at once, the  *)
(* reconciliation and the retention sweep of the start, and the Retries.    *)
(* Every record decodes; a file that cannot be read counts as empty.  The   *)
(* job history store has the same shape with another file.                  *)
(***************************************************************************)
EXTENDS FiniteSets

CONSTANTS
  Callers,
  TaskIds,
  Statuses,
  None,
  Unreadable  \* TRUE when a read of the file may fail

VARIABLES
  file,     \* Task -> the status of its record in task-history.json, or None
  call,     \* caller -> its call of put or delete, or None
  snapshot  \* caller -> the records it has read, or None before

vars == <<file, call, snapshot>>

Files == [TaskIds -> Statuses \cup {None}]
\* A delete is the call that leaves no record.
Calls == [task : TaskIds, status : Statuses \cup {None}]

TypeOK ==
  /\ file \in Files
  /\ call \in [Callers -> Calls \cup {None}]
  /\ snapshot \in [Callers -> Files \cup {None}]
  /\ \A c \in Callers : snapshot[c] # None => call[c] # None

Init ==
  /\ file = [t \in TaskIds |-> None]
  /\ call = [c \in Callers |-> None]
  /\ snapshot = [c \in Callers |-> None]

Called(c, request) ==
  /\ call[c] = None
  /\ call' = [call EXCEPT ![c] = request]
  /\ UNCHANGED <<file, snapshot>>

Empty == [t \in TaskIds |-> None]

\* readAll: its catch answers an empty history.
ReadAll(c) ==
  /\ call[c] # None /\ snapshot[c] = None
  /\ \E records \in {file} \cup (IF Unreadable THEN {Empty} ELSE {}) :
       snapshot' = [snapshot EXCEPT ![c] = records]
  /\ UNCHANGED <<file, call>>

Upserted(records, request) == [records EXCEPT ![request.task] = request.status]

WriteAll(c) ==
  /\ snapshot[c] # None
  /\ file' = Upserted(snapshot[c], call[c])
  /\ call' = [call EXCEPT ![c] = None]
  /\ snapshot' = [snapshot EXCEPT ![c] = None]

Next ==
  \E c \in Callers : (\E request \in Calls : Called(c, request)) \/ ReadAll(c) \/ WriteAll(c)

\* Every access to the file answers.
Fairness == \A c \in Callers : WF_vars(ReadAll(c)) /\ WF_vars(WriteAll(c))

Spec == Init /\ [][Next]_vars /\ Fairness

Store == INSTANCE TaskStore WITH records <- file

\* The Task store is an upsert keyed by the Task ("upsert key 固定为 taskId",
\* task.ts:191): no call of put or delete touches the record of another Task.
ImplementsTaskStore == Store!Spec
=============================================================================
