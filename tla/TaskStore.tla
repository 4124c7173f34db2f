------------------------------ MODULE TaskStore ------------------------------
(***************************************************************************)
(* What a Task store promises its callers (application/src/task.ts, the     *)
(* TaskStore port: an upsert whose key is the Task, and its in-memory       *)
(* implementation): every put and every delete changes the record of its    *)
(* own Task and no other.                                                   *)
(***************************************************************************)
CONSTANTS TaskIds, Statuses, None

VARIABLE records  \* Task -> its status, or None

Init == records \in [TaskIds -> Statuses \cup {None}]

Put(t, status) == records' = [records EXCEPT ![t] = status]
Delete(t) == records' = [records EXCEPT ![t] = None]

Next == \E t \in TaskIds : (\E status \in Statuses : Put(t, status)) \/ Delete(t)

Spec == Init /\ [][Next]_records
=============================================================================
