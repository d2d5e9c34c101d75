--------------------------- MODULE TransferQueue ---------------------------
(***************************************************************************)
(* The media transfer queue: the rows of media.transfer_task and           *)
(* media.storage_object, the objects in the bucket, the workers that claim *)
(* tasks (server/src/transfer/queue.rs, worker.rs) and the administrators  *)
(* that retry, cancel and release them (server/src/internal_api/v2/        *)
(* transfer.rs).                                                           *)
(*                                                                         *)
(* One action is one SQL statement or transaction, or one whole transfer   *)
(* of a source to the bucket: between two of them any other actor may run. *)
(* Tasks are numbered in the order of their rows (created_at, id), so the  *)
(* ORDER BY of a claim is the order of the numbers.                        *)
(*                                                                         *)
(* Time is abstract.  A claim is "fresh" until its claimed_at falls behind *)
(* the cutoff now - task_stale_timeout_seconds, then "stale".              *)
(***************************************************************************)
EXTENDS Naturals, FiniteSets

CONSTANTS
  NumTasks,      \* rows that may be created, one per (media_id, source_recorded_at)
  Worker,        \* the worker loops of the process
  Ext,           \* file extensions a response may give the object key
  NoExt,         \* the extension before the response is known
  MaxAttempts,   \* transfer.max_attempts
  Overlap,       \* TRUE: a claim may go stale while its worker still runs, that
                 \* is attempt_timeout_seconds is 0 or not below the stale timeout
  LockSets,      \* the sets of rows other statements may hold locked at a claim
  CommitAckLoss, \* TRUE: a committed transaction may be reported as an error
  MaxRetries,    \* bound: administrator retries per task
  MaxReleases,   \* bound: administrator releases per task
  MaxFaults      \* bound: database errors and crashes

Task == 1..NumTasks
NoTask == 0

ASSUME TransferAssumption ==
  /\ NumTasks \in Nat
  /\ MaxAttempts \in Nat \ {0}
  /\ NoExt \notin Ext
  /\ LockSets \subseteq SUBSET Task
  /\ {Overlap, CommitAckLoss} \subseteq BOOLEAN
  /\ {MaxRetries, MaxReleases, MaxFaults} \subseteq Nat

VARIABLES
  status,    \* status[t], "absent" before the row exists
  attempts,  \* attempt_count
  claim,     \* claimed_by and claimed_at: "null", "fresh" or "stale"
  object,    \* storage_object_id: the uploads referenced, {} or a singleton
  rows,      \* rows of media.storage_object, each the upload it records
  bucket,    \* bucket[t][e]: the attempt whose bytes the object key holds, or 0
  pc,        \* pc[w]: the statement the worker loop runs next
  job,       \* job[w]: the task, attempt and key extension the worker is on
  retries,   \* audit events "transfer.retried" of the task
  releases,  \* audit events "transfer.released" of the task
  faults     \* errors and crashes so far (a bound, not state of the program)

tasks   == <<status, attempts, claim>>
objects == <<object, rows, bucket>>
workers == <<pc, job>>
audit   == <<retries, releases>>
vars    == <<tasks, objects, workers, audit, faults>>

Statuses == {"absent", "pending", "processing", "completed", "failed", "canceled"}
Steps == {"expire", "claim", "transfer", "persist", "markFailed"}

(* An upload is known by its task, the attempt that made it (attempt_count *)
(* never decreases, so it stands for the fresh object id) and the          *)
(* extension of its key: the key is {prefix}/{media_id}/{task_id}.{ext}.   *)
Upload == [task : Task, attempt : Nat, ext : Ext]
Job == [task : Task \cup {NoTask}, attempt : Nat, ext : Ext \cup {NoExt}]
NoJob == [task |-> NoTask, attempt |-> 0, ext |-> NoExt]

Init ==
  /\ status = [t \in Task |-> "absent"]
  /\ attempts = [t \in Task |-> 0]
  /\ claim = [t \in Task |-> "null"]
  /\ object = [t \in Task |-> {}]
  /\ rows = {}
  /\ bucket = [t \in Task |-> [e \in Ext |-> 0]]
  /\ pc = [w \in Worker |-> "expire"]
  /\ job = [w \in Worker |-> NoJob]
  /\ retries = [t \in Task |-> 0]
  /\ releases = [t \in Task |-> 0]
  /\ faults = 0

-----------------------------------------------------------------------------
(* Submitters and administrators *)

(* INSERT ... ON CONFLICT (media_id, source_recorded_at) DO NOTHING: a row *)
(* that exists, whatever its status, is left alone.                        *)
RefreshOnConflict(s) == "pending" \* mutant: DO UPDATE SET status = 'pending'
OnConflict(s) == IF s = "absent" THEN "pending" ELSE s

Enqueue(t) ==
  /\ \A u \in Task : u < t => status[u] # "absent"
  /\ status' = [status EXCEPT ![t] = OnConflict(@)]
  /\ UNCHANGED <<attempts, claim, objects, workers, audit, faults>>

(* transition_locked_task: the row is locked, its status checked, the row  *)
(* updated and the audit event written in one transaction.                 *)
Transition(t, from, to) ==
  /\ status[t] \in from
  /\ status' = [status EXCEPT ![t] = to]
  /\ claim' = [claim EXCEPT ![t] = "null"]
  /\ UNCHANGED <<attempts, objects, workers, faults>>

RetryableOnceEnded == {"failed", "canceled", "completed"} \* mutant: any ended task
Retryable == {"failed", "canceled"}

Cancelable == {"pending"}

(* attempt_count and storage_object_id keep their values. *)
Retry(t) ==
  /\ retries[t] < MaxRetries
  /\ Transition(t, Retryable, "pending")
  /\ retries' = [retries EXCEPT ![t] = @ + 1]
  /\ UNCHANGED releases

Cancel(t) == Transition(t, Cancelable, "canceled") /\ UNCHANGED audit

(* Nothing tells the worker that holds the task. *)
Release(t) ==
  /\ releases[t] < MaxReleases
  /\ Transition(t, {"processing"}, "pending")
  /\ releases' = [releases EXCEPT ![t] = @ + 1]
  /\ UNCHANGED retries

-----------------------------------------------------------------------------
(* The worker loop *)

Goto(w, step) == pc' = [pc EXCEPT ![w] = step]

(* The end of an iteration: the loop starts over with no task. *)
Restart(w) == Goto(w, "expire") /\ job' = [job EXCEPT ![w] = NoJob]

StaleWhenProcessing(t) == status[t] = "processing" \* mutant: no cutoff
Stale(t) == status[t] = "processing" /\ claim[t] \in {"null", "stale"}

Busy(w) == pc[w] \in {"transfer", "persist", "markFailed"}

GoStale(t) ==
  /\ status[t] = "processing" /\ claim[t] = "fresh"
  /\ Overlap \/ \A w \in Worker : Busy(w) => job[w].task # t
  /\ claim' = [claim EXCEPT ![t] = "stale"]
  /\ UNCHANGED <<status, attempts, objects, workers, audit, faults>>

ExhaustedPastLimit(t) == Stale(t) /\ attempts[t] > MaxAttempts \* mutant: off by one
Exhausted(t) == Stale(t) /\ attempts[t] >= MaxAttempts

(* expire_stale_tasks: one UPDATE over all rows. *)
ExpireStale(w) ==
  /\ pc[w] = "expire"
  /\ status' = [t \in Task |-> IF Exhausted(t) THEN "failed" ELSE status[t]]
  /\ claim' = [t \in Task |-> IF Exhausted(t) THEN "null" ELSE claim[t]]
  /\ Goto(w, "claim")
  /\ UNCHANGED <<attempts, objects, job, audit, faults>>

ClaimableAtLimit(t) == status[t] = "pending" \/ Stale(t) \* mutant: no attempt limit
Claimable(t) ==
  \/ status[t] = "pending"
  \/ Stale(t) /\ attempts[t] < MaxAttempts

(* Pending rows before stale ones, then in row order. *)
Before(t, u) ==
  \/ status[t] = "pending" /\ status[u] # "pending"
  \/ (status[t] = "pending" <=> status[u] = "pending") /\ t <= u

(* FOR UPDATE SKIP LOCKED LIMIT 1: rows another statement holds are passed *)
(* over.                                                                   *)
IsNext(t, locked) ==
  /\ t \notin locked /\ Claimable(t)
  /\ \A u \in Task \ locked : Claimable(u) => Before(t, u)

ClaimTask(w, t) ==
  /\ pc[w] = "claim"
  /\ \E locked \in LockSets : IsNext(t, locked)
  /\ status' = [status EXCEPT ![t] = "processing"]
  /\ attempts' = [attempts EXCEPT ![t] = @ + 1]
  /\ claim' = [claim EXCEPT ![t] = "fresh"]
  /\ Goto(w, "transfer")
  /\ job' = [job EXCEPT ![w] = [task |-> t, attempt |-> attempts[t] + 1, ext |-> NoExt]]
  /\ UNCHANGED <<objects, audit, faults>>

(* No candidate: sleep(poll_interval). *)
ClaimNothing(w) ==
  /\ pc[w] = "claim"
  /\ \E locked \in LockSets : \A t \in Task : ~IsNext(t, locked)
  /\ Restart(w)
  /\ UNCHANGED <<tasks, objects, audit, faults>>

(* transfer_source_to_storage: the bucket replaces what the key held. *)
TransferOk(w, e) ==
  /\ pc[w] = "transfer"
  /\ bucket' = [bucket EXCEPT ![job[w].task][e] = job[w].attempt]
  /\ job' = [job EXCEPT ![w].ext = e]
  /\ Goto(w, "persist")
  /\ UNCHANGED <<tasks, object, rows, audit, faults>>

(* The download or the upload fails or times out.  A put the client gave   *)
(* up on may still have been applied.                                      *)
TransferFails(w) ==
  /\ pc[w] = "transfer"
  /\ \/ UNCHANGED bucket
     \/ \E e \in Ext : bucket' = [bucket EXCEPT ![job[w].task][e] = job[w].attempt]
  /\ Goto(w, "markFailed")
  /\ UNCHANGED <<tasks, object, rows, job, audit, faults>>

KeyTakenByUpload(u) == u \in rows \* mutant: no unique key on the object key
(* UNIQUE (provider, bucket, object_key) *)
KeyTaken(u) == \E r \in rows : r.task = u.task /\ r.ext = u.ext

(* The transaction of persist_completed_task.  The UPDATE names the task   *)
(* by id only: it does not ask whether the worker still holds the claim.   *)
CommitCompletion(u) ==
  /\ ~KeyTaken(u)
  /\ rows' = rows \cup {u}
  /\ object' = [object EXCEPT ![u.task] = {u}]
  /\ status' = [status EXCEPT ![u.task] = "completed"]
  /\ claim' = [claim EXCEPT ![u.task] = "null"]
  /\ UNCHANGED <<attempts, bucket, audit>>

Persist(w) ==
  /\ pc[w] = "persist"
  /\ CommitCompletion(job[w])
  /\ Restart(w)
  /\ UNCHANGED faults

(* The INSERT violates the unique key: the transaction rolls back. *)
PersistConflict(w) ==
  /\ pc[w] = "persist"
  /\ KeyTaken(job[w])
  /\ Goto(w, "markFailed")
  /\ UNCHANGED <<tasks, objects, job, audit, faults>>

AfterFailure(t) == IF attempts[t] >= MaxAttempts THEN "failed" ELSE "pending"

(* mark_task_failed, by id only. *)
MarkFailed(w) ==
  LET t == job[w].task IN
  /\ pc[w] = "markFailed"
  /\ status' = [status EXCEPT ![t] = AfterFailure(t)]
  /\ claim' = [claim EXCEPT ![t] = "null"]
  /\ Restart(w)
  /\ UNCHANGED <<attempts, objects, audit, faults>>

-----------------------------------------------------------------------------
(* Database errors and crashes *)

Fault == faults < MaxFaults /\ faults' = faults + 1

(* The loop logs a failed expiry and goes on to claim; after a failed      *)
(* claim it sleeps; a persist that fails goes to mark_task_failed; when    *)
(* that fails too the task stays processing until its claim goes stale.    *)
StatementFails(w) ==
  /\ Fault
  /\ \/ pc[w] = "expire" /\ Goto(w, "claim") /\ UNCHANGED job
     \/ pc[w] \in {"claim", "markFailed"} /\ Restart(w)
     \/ pc[w] = "persist" /\ Goto(w, "markFailed") /\ UNCHANGED job
  /\ UNCHANGED <<tasks, objects, audit>>

(* COMMIT took effect but its answer was lost. *)
CommitUnacknowledged(w) ==
  /\ CommitAckLoss /\ Fault
  /\ pc[w] = "persist"
  /\ CommitCompletion(job[w])
  /\ Goto(w, "markFailed")
  /\ UNCHANGED job

(* The process dies and is restarted: every worker starts over. *)
Crash ==
  /\ Fault
  /\ pc' = [w \in Worker |-> "expire"]
  /\ job' = [w \in Worker |-> NoJob]
  /\ UNCHANGED <<tasks, objects, audit>>

-----------------------------------------------------------------------------
WorkerStep(w) ==
  \/ ExpireStale(w)
  \/ \E t \in Task : ClaimTask(w, t)
  \/ ClaimNothing(w)
  \/ \E e \in Ext : TransferOk(w, e)
  \/ TransferFails(w)
  \/ Persist(w) \/ PersistConflict(w) \/ MarkFailed(w)

Next ==
  \/ \E t \in Task :
       Enqueue(t) \/ Retry(t) \/ Cancel(t) \/ Release(t) \/ GoStale(t)
  \/ \E w \in Worker : WorkerStep(w) \/ StatementFails(w) \/ CommitUnacknowledged(w)
  \/ Crash

Spec == Init /\ [][Next]_vars

(* The worker loops never stop, and an abandoned claim ages. *)
Fairness ==
  /\ \A w \in Worker : WF_vars(WorkerStep(w))
  /\ \A t \in Task : WF_vars(GoStale(t))

FairSpec == Spec /\ Fairness

-----------------------------------------------------------------------------
TypeOK ==
  /\ status \in [Task -> Statuses]
  /\ attempts \in [Task -> Nat]
  /\ claim \in [Task -> {"null", "fresh", "stale"}]
  /\ object \in [Task -> SUBSET Upload]
  /\ rows \in SUBSET Upload
  /\ bucket \in [Task -> [Ext -> Nat]]
  /\ pc \in [Worker -> Steps]
  /\ job \in [Worker -> Job]
  /\ \A w \in Worker : Busy(w) => job[w].task \in Task
  /\ \A w \in Worker : pc[w] = "persist" => job[w].ext \in Ext
  /\ retries \in [Task -> Nat]
  /\ releases \in [Task -> Nat]
  /\ faults \in Nat

(***************************************************************************)
(* Properties                                                              *)
(***************************************************************************)

(* max_attempts bounds the automatic attempts: every attempt beyond it was *)
(* paid for by an administrator's retry or release, whatever the workers   *)
(* whose claims were taken away still write into the row.                  *)
AttemptBudget ==
  \A t \in Task : attempts[t] <= MaxAttempts + retries[t] + releases[t]

(* The strengthening that makes AttemptBudget inductive: a pending task    *)
(* has one more attempt to come.                                           *)
AttemptBudgetInv ==
  \A t \in Task :
    /\ status[t] = "absent" => attempts[t] = 0
    /\ attempts[t] <= MaxAttempts + retries[t] + releases[t]
    /\ status[t] = "pending" =>
         attempts[t] + 1 <= MaxAttempts + retries[t] + releases[t]

(* No storage_object row is orphaned: however many workers finish the same *)
(* task, the unique key lets one row in and the task points to that row.   *)
(* (For tasks whose extension is fixed, Ext a singleton.)                  *)
RowsAreReferenced == \A r \in rows : object[r.task] = {r}

(* A worker in the middle of a task is the claim's owner: the row is still *)
(* processing the very attempt the worker was given, so no two workers     *)
(* transfer or update one task.  (Claims that are not taken away.)         *)
ClaimIsOwned ==
  \A w \in Worker : Busy(w) =>
    /\ status[job[w].task] = "processing"
    /\ attempts[job[w].task] = job[w].attempt
    /\ \A v \in Worker \ {w} : Busy(v) => job[v].task # job[w].task

(* The etag, length and digest a storage_object row records are those of   *)
(* the bytes its key holds: no later upload replaced them.                 *)
RowDescribesBucket == \A r \in rows : bucket[r.task][r.ext] = r.attempt

(* Seen as task lifecycles with their stored objects, the queue keeps the  *)
(* documented promise (module TaskLifecycle).                              *)
StoredTasks == {r.task : r \in rows}
Lifecycle == INSTANCE TaskLifecycle WITH stored <- StoredTasks
ImplementsLifecycle == Lifecycle!Spec

(* Nothing takes a claim away from a running worker: an attempt ends       *)
(* before its claim goes stale, no administrator releases a task, and no   *)
(* committed transaction is reported as an error.                          *)
Disciplined == Overlap = FALSE /\ CommitAckLoss = FALSE /\ MaxReleases = 0

(* The strengthening that makes the two inductive: a running worker's      *)
(* claim is fresh, the bytes it uploaded are still there, and a task with  *)
(* a row is over.                                                          *)
DisciplineInv ==
  /\ ClaimIsOwned
  /\ RowDescribesBucket
  /\ \A w \in Worker : Busy(w) => claim[job[w].task] = "fresh"
  /\ \A w \in Worker : pc[w] = "persist" => bucket[job[w].task][job[w].ext] = job[w].attempt
  /\ \A r \in rows : status[r.task] = "completed"

(* A stored object's task is completed: once the upload is on record the   *)
(* task stays completed (docs/architecture.md, media transfer, step 6).    *)
StoredImpliesCompleted == \A t \in StoredTasks : status[t] = "completed"

(* Every task that exists comes to rest, as completed, failed or canceled: *)
(* no crash, lost update or taken claim leaves it processing or pending    *)
(* for ever.                                                               *)
EveryTaskSettles ==
  \A t \in Task :
    status[t] # "absent" ~> status[t] \in {"completed", "failed", "canceled"}

=============================================================================
