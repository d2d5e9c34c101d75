--------------------------- MODULE TaskLifecycle ---------------------------
(***************************************************************************)
(* What the media transfer queue promises about one task, as the           *)
(* documentation and the admin interface present it: a task is created     *)
(* pending, a worker takes it, and the worker's answer - or the expiry of  *)
(* its claim - moves it on.  A completed task is finished for good, a      *)
(* canceled or failed one comes back only by a retry, and a stored object  *)
(* exists exactly for the completed tasks.                                 *)
(***************************************************************************)
EXTENDS Naturals

CONSTANT Task

VARIABLES status,   \* status[t]: the task's status, "absent" before it exists
          stored    \* the tasks that have a storage object on record

vars == <<status, stored>>

Statuses == {"absent", "pending", "processing", "completed", "failed", "canceled"}

TypeOK ==
  /\ status \in [Task -> Statuses]
  /\ stored \in SUBSET Task

Init ==
  /\ status = [t \in Task |-> "absent"]
  /\ stored = {}

Move(t, from, to) ==
  /\ status[t] \in from
  /\ status' = [status EXCEPT ![t] = to]

Create(t)  == Move(t, {"absent"}, "pending") /\ UNCHANGED stored
Take(t)    == Move(t, {"pending"}, "processing") /\ UNCHANGED stored
Finish(t)  == Move(t, {"processing"}, "completed") /\ stored' = stored \cup {t}
Requeue(t) == Move(t, {"processing"}, "pending") /\ UNCHANGED stored
Cancel(t)  == Move(t, {"pending"}, "canceled") /\ UNCHANGED stored
Retry(t)   == Move(t, {"failed", "canceled"}, "pending") /\ UNCHANGED stored

(* One expiry statement may fail several tasks whose claims went stale. *)
Fail(S) ==
  /\ \A t \in S : status[t] = "processing"
  /\ status' = [t \in Task |-> IF t \in S THEN "failed" ELSE status[t]]
  /\ UNCHANGED stored

Next ==
  \/ \E t \in Task :
       Create(t) \/ Take(t) \/ Finish(t) \/ Requeue(t) \/ Cancel(t) \/ Retry(t)
  \/ \E S \in SUBSET Task : Fail(S)

Spec == Init /\ [][Next]_vars

=============================================================================
