-------------------------- MODULE ComfyUiStateFile --------------------------
(***************************************************************************)
(* The durable ComfyUI state of the UXP host (adapters/uxp/                 *)
(* uxp-comfyui-persistence.ts): load, save, clear and compareAndSave of one *)
(* state file, which a write replaces by moving a staging file over it.     *)
(* Writes take turns in the write lane; a load waits for the writes called  *)
(* before it and deletes whatever staging file it finds.                    *)
(*                                                                         *)
(* Operations are numbered in the order of their calls; clear is a save of  *)
(* the empty file, which reads as no state.  A crash ends every operation   *)
(* and leaves the files as they are.  moveTo replaces the file in one step. *)
(***************************************************************************)
EXTENDS Naturals, Sequences

CONSTANTS
  Values,      \* persisted states
  None,        \* no state: no file, an empty or an unreadable one
  Partial,     \* the content of a staging file before its write has ended
  MaxOps,      \* bound: operations
  MaxCrashes   \* bound: crashes

States == Values \cup {None}
NoFile == "no file"

VARIABLES
  file,     \* the content of the state file
  staging,  \* the content of the staging file, or NoFile
  ops,      \* the operations called: kind, expected and next state
  pc,       \* operation -> its place
  aborted,  \* the compare-and-saves whose signal is aborted
  crashes

vars == <<file, staging, ops, pc, aborted, crashes>>

Ops == 1 .. MaxOps
Requests ==
  [kind : {"load"}, expected : {None}, next : {None}]
    \cup [kind : {"save"}, expected : {None}, next : States]
    \cup [kind : {"cas"}, expected : States, next : Values]

Places == {"idle", "waiting", "cleaning", "reading", "creating", "writing", "moving", "tidying"}
Results == {"committed", "conflict", "aborted", "failed", "loaded"}

TypeOK ==
  /\ file \in States \cup {Partial} /\ staging \in States \cup {Partial, NoFile}
  /\ Len(ops) <= MaxOps /\ \A n \in DOMAIN ops : ops[n] \in Requests
  /\ pc \in [Ops -> Places \cup Results]
  /\ \A n \in Ops : pc[n] = "idle" <=> n > Len(ops)
  /\ aborted \subseteq Ops /\ crashes \in 0 .. MaxCrashes

Init ==
  /\ file \in States /\ staging = NoFile
  /\ ops = <<>> /\ pc = [n \in Ops |-> "idle"]
  /\ aborted = {} /\ crashes = 0

IsWrite(n) == ops[n].kind # "load"
Settled(n) == pc[n] \in Results
Goes(n, place) == pc' = [pc EXCEPT ![n] = place]
Moves(n, from, to) == pc[n] = from /\ Goes(n, to)

\* MUTANT of LaneFree: load, save and compareAndSave do not wait for the writes before them.
LaneFreeAlways(n) == TRUE
LaneFree(n) == \A m \in 1 .. n - 1 : IsWrite(m) => Settled(m)

Call(request) ==
  /\ Len(ops) < MaxOps
  /\ ops' = Append(ops, request)
  /\ Goes(Len(ops) + 1, "waiting")
  /\ UNCHANGED <<file, staging, aborted, crashes>>

Begin(n) ==
  /\ LaneFree(n) /\ Moves(n, "waiting", "cleaning")
  /\ UNCHANGED <<file, staging, ops, aborted, crashes>>

\* cleanupStaging: the operation fails if a staging file cannot be deleted.
Cleaned(n) ==
  /\ pc[n] = "cleaning"
  /\ \/ staging' = NoFile
        /\ Goes(n, IF ops[n].kind = "save" THEN "creating"
                   ELSE IF n \in aborted THEN "aborted" ELSE "reading")
     \/ staging # NoFile /\ staging' = staging /\ Goes(n, "failed")
  /\ UNCHANGED <<file, ops, aborted, crashes>>

\* readState answers no state, and never throws, when the file cannot be read.
Read(n) ==
  /\ pc[n] = "reading"
  /\ \E state \in {file, None} :
       Goes(n, IF ops[n].kind = "load" THEN "loaded"
               ELSE IF state # ops[n].expected THEN "conflict"
               ELSE IF n \in aborted THEN "aborted" ELSE "creating")
  /\ UNCHANGED <<file, staging, ops, aborted, crashes>>

(***************************************************************************)
(* replacePrimary: each step may fail, the last two when a load has deleted *)
(* the staging file; its finally then tidies the staging file away.         *)
(***************************************************************************)
Created(n) ==
  /\ pc[n] = "creating"
  /\ \/ staging' = Partial /\ Goes(n, IF n \in aborted THEN "tidying" ELSE "writing")
     \/ staging' = staging /\ Goes(n, "tidying")
  /\ UNCHANGED <<file, ops, aborted, crashes>>

Written(n) ==
  /\ pc[n] = "writing"
  /\ \/ /\ staging # NoFile /\ staging' = ops[n].next
        /\ Goes(n, IF n \in aborted THEN "tidying" ELSE "moving")
     \/ staging' = staging /\ Goes(n, "tidying")
  /\ UNCHANGED <<file, ops, aborted, crashes>>

Moved(n) ==
  /\ pc[n] = "moving"
  /\ \/ /\ staging # NoFile
        /\ file' = staging /\ staging' = NoFile /\ Goes(n, "committed")
     \/ UNCHANGED <<file, staging>> /\ Goes(n, "tidying")
  /\ UNCHANGED <<ops, aborted, crashes>>

Tidied(n) ==
  /\ \/ Moves(n, "tidying", "failed")
     \/ n \in aborted /\ Moves(n, "tidying", "aborted")
  /\ staging' \in {staging, NoFile}
  /\ UNCHANGED <<file, ops, aborted, crashes>>

Abort(n) ==
  /\ ops[n].kind = "cas" /\ ~Settled(n) /\ n \notin aborted
  /\ aborted' = aborted \cup {n}
  /\ UNCHANGED <<file, staging, ops, pc, crashes>>

Crash ==
  /\ crashes < MaxCrashes /\ crashes' = crashes + 1
  /\ pc' = [n \in Ops |-> IF n > Len(ops) \/ Settled(n) THEN pc[n] ELSE "failed"]
  /\ UNCHANGED <<file, staging, ops, aborted>>

Steps(n) ==
  \/ Begin(n) \/ Cleaned(n) \/ Read(n) \/ Created(n) \/ Written(n) \/ Moved(n) \/ Tidied(n)
  \/ Abort(n)

Next == (\E request \in Requests : Call(request)) \/ (\E n \in DOMAIN ops : Steps(n)) \/ Crash

Spec == Init /\ [][Next]_vars

\* The state file only ever takes the complete next state of a write that
\* reports "committed", and a compare-and-save replaces exactly the state it
\* expected, or one it could not read when it expected none; and a write that
\* creates its staging file finds none left by a crash or a failed write.  This
\* whatever crashed, was aborted or lost its staging file
\* (uxp-comfyui-persistence.ts:104-163).
CommitReplacesExpected ==
  [][/\ file' # file =>
          \E n \in Ops :
            /\ pc[n] = "moving" /\ pc'[n] = "committed" /\ file' = ops[n].next
            /\ ops[n].kind = "cas" => ops[n].expected \in {file, None}
     /\ \A n \in Ops : pc[n] = "creating" /\ pc'[n] = "writing" => staging = NoFile]_vars
=============================================================================
