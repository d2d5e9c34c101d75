------------------------ MODULE TransferQueueProofs ------------------------
(***************************************************************************)
(* Proofs about TransferQueue, for any number of tasks, workers, retries,  *)
(* releases and faults.                                                    *)
(***************************************************************************)
EXTENDS TransferQueue, TLAPS

LEMMA InitTypeOK == Init => TypeOK
<1> SUFFICES ASSUME Init PROVE TypeOK
  OBVIOUS
<1>1. NoJob \in Job
  BY DEF NoJob, Job
<1>2. job \in [Worker -> Job] /\ \A w \in Worker : ~Busy(w)
  BY <1>1 DEF Init, Busy
<1> QED
  BY <1>2 DEF Init, TypeOK, Statuses, Steps

LEMMA TransitionTypeOK ==
  ASSUME TypeOK, NEW t \in Task,
         Enqueue(t) \/ Retry(t) \/ Cancel(t) \/ Release(t) \/ GoStale(t)
  PROVE  TypeOK'
<1> USE DEF TypeOK, Statuses, Steps, Busy, tasks, objects, workers, audit
<1>1. CASE Enqueue(t)
  BY <1>1 DEF Enqueue, OnConflict
<1>2. CASE Retry(t)
  BY <1>2 DEF Retry, Retryable, Transition
<1>3. CASE Cancel(t)
  BY <1>3 DEF Cancel, Cancelable, Transition
<1>4. CASE Release(t)
  BY <1>4 DEF Release, Transition
<1>5. CASE GoStale(t)
  BY <1>5 DEF GoStale
<1> QED
  BY <1>1, <1>2, <1>3, <1>4, <1>5

(* What the end of an iteration does to the worker's own variables. *)
LEMMA RestartTyped ==
  ASSUME TypeOK, NEW w \in Worker, Restart(w)
  PROVE  /\ pc' \in [Worker -> Steps]
         /\ job' \in [Worker -> Job]
         /\ \A v \in Worker : Busy(v)' => job'[v].task \in Task
         /\ \A v \in Worker : pc'[v] = "persist" => job'[v].ext \in Ext
         /\ \A v \in Worker : Busy(v)' => v # w /\ Busy(v) /\ job'[v] = job[v]
<1>1. NoJob \in Job
  BY DEF NoJob, Job
<1>2. pc' = [pc EXCEPT ![w] = "expire"] /\ job' = [job EXCEPT ![w] = NoJob]
  BY DEF Restart, Goto
<1> QED
  BY <1>1, <1>2 DEF TypeOK, Steps, Busy

LEMMA ClaimTypeOK ==
  ASSUME TypeOK, NEW w \in Worker, NEW t \in Task, ClaimTask(w, t)
  PROVE  TypeOK'
<1> DEFINE j == [task |-> t, attempt |-> attempts[t] + 1, ext |-> NoExt]
<1>1. attempts[t] + 1 \in Nat
  BY DEF TypeOK
<1>2. j \in Job
  BY <1>1 DEF Job
<1>3. pc' = [pc EXCEPT ![w] = "transfer"] /\ job' = [job EXCEPT ![w] = j]
  BY DEF ClaimTask, Goto
<1>4. /\ pc' \in [Worker -> Steps] /\ job' \in [Worker -> Job]
      /\ \A v \in Worker : Busy(v)' => job'[v].task \in Task
      /\ \A v \in Worker : pc'[v] = "persist" => job'[v].ext \in Ext
  BY <1>2, <1>3 DEF TypeOK, Steps, Busy
<1>5. /\ status' \in [Task -> Statuses] /\ attempts' \in [Task -> Nat]
      /\ claim' \in [Task -> {"null", "fresh", "stale"}]
  BY <1>1 DEF ClaimTask, TypeOK, Statuses
<1> QED
  BY <1>4, <1>5 DEF ClaimTask, TypeOK, objects, audit

LEMMA JobIsUpload ==
  ASSUME TypeOK, NEW w \in Worker, pc[w] = "persist"
  PROVE  job[w] \in Upload /\ job[w].task \in Task
  BY DEF TypeOK, Busy, Job, Upload

(* What a step that only moves the worker's program counter needs. *)
LEMMA GotoTyped ==
  ASSUME TypeOK, NEW w \in Worker, NEW step \in Steps \ {"persist"},
         Goto(w, step), job' = job,
         step \in {"transfer", "markFailed"} => Busy(w)
  PROVE  /\ pc' \in [Worker -> Steps]
         /\ \A v \in Worker : Busy(v)' => job'[v].task \in Task
         /\ \A v \in Worker : pc'[v] = "persist" => job'[v].ext \in Ext
  BY DEF TypeOK, Steps, Busy, Goto

LEMMA TransferTypeOK ==
  ASSUME TypeOK, NEW w \in Worker,
         (\E e \in Ext : TransferOk(w, e)) \/ TransferFails(w)
  PROVE  TypeOK'
<1>1. ASSUME NEW e \in Ext, TransferOk(w, e) PROVE TypeOK'
  <2>1. job[w].task \in Task /\ job[w].attempt \in Nat /\ job[w] \in Job
    BY <1>1 DEF TransferOk, TypeOK, Busy, Job
  <2>2. bucket' \in [Task -> [Ext -> Nat]]
    BY <1>1, <2>1 DEF TransferOk, TypeOK
  <2>3. [job[w] EXCEPT !.ext = e] \in Job
    BY <2>1 DEF Job
  <2>4. job' = [job EXCEPT ![w] = [job[w] EXCEPT !.ext = e]]
    BY <1>1 DEF TransferOk, TypeOK
  <2>5. job' \in [Worker -> Job]
    BY <2>3, <2>4 DEF TypeOK
  <2>6. pc' = [pc EXCEPT ![w] = "persist"]
    BY <1>1 DEF TransferOk, Goto
  <2>7. pc' \in [Worker -> Steps] /\ \A v \in Worker : v # w => pc'[v] = pc[v] /\ job'[v] = job[v]
    BY <2>4, <2>6 DEF TypeOK, Steps
  <2>8. job'[w].task = job[w].task /\ job'[w].ext = e
    BY <2>1, <2>4 DEF TypeOK, Job
  <2>9. \A v \in Worker : Busy(v)' => job'[v].task \in Task
    BY <2>1, <2>7, <2>8 DEF TypeOK, Busy
  <2>10. \A v \in Worker : pc'[v] = "persist" => job'[v].ext \in Ext
    BY <2>7, <2>8 DEF TypeOK
  <2> QED
    BY <1>1, <2>2, <2>5, <2>7, <2>9, <2>10 DEF TransferOk, TypeOK, tasks, audit
<1>2. CASE TransferFails(w)
  <2>1. job[w].task \in Task /\ job[w].attempt \in Nat
    BY <1>2 DEF TransferFails, TypeOK, Busy, Job
  <2>2. bucket' \in [Task -> [Ext -> Nat]]
    <3>1. CASE UNCHANGED bucket
      BY <3>1 DEF TypeOK
    <3>2. ASSUME NEW e \in Ext,
                 bucket' = [bucket EXCEPT ![job[w].task][e] = job[w].attempt]
          PROVE  bucket' \in [Task -> [Ext -> Nat]]
      BY <3>2, <2>1 DEF TypeOK
    <3> QED
      BY <1>2, <3>1, <3>2 DEF TransferFails
  <2>3. /\ pc' \in [Worker -> Steps]
        /\ \A v \in Worker : Busy(v)' => job'[v].task \in Task
        /\ \A v \in Worker : pc'[v] = "persist" => job'[v].ext \in Ext
    BY <1>2, GotoTyped DEF TransferFails, Steps, Busy
  <2> QED
    BY <1>2, <2>2, <2>3 DEF TransferFails, TypeOK, tasks, audit
<1> QED
  BY <1>1, <1>2

LEMMA CommitTyped ==
  ASSUME TypeOK, NEW u \in Upload, CommitCompletion(u)
  PROVE  /\ rows' \in SUBSET Upload /\ object' \in [Task -> SUBSET Upload]
         /\ status' \in [Task -> Statuses]
         /\ claim' \in [Task -> {"null", "fresh", "stale"}]
         /\ attempts' = attempts /\ bucket' = bucket
         /\ retries' = retries /\ releases' = releases
  BY DEF CommitCompletion, TypeOK, Statuses, audit

LEMMA PersistTypeOK ==
  ASSUME TypeOK, NEW w \in Worker,
         Persist(w) \/ PersistConflict(w) \/ MarkFailed(w) \/ CommitUnacknowledged(w)
  PROVE  TypeOK'
<1>1. CASE Persist(w)
  <2>1. CommitCompletion(job[w]) /\ Restart(w) /\ faults' = faults /\ pc[w] = "persist"
    BY <1>1 DEF Persist
  <2> QED
    BY <2>1, JobIsUpload, CommitTyped, RestartTyped DEF TypeOK
<1>2. CASE PersistConflict(w)
  <2>1. /\ pc' \in [Worker -> Steps]
        /\ \A v \in Worker : Busy(v)' => job'[v].task \in Task
        /\ \A v \in Worker : pc'[v] = "persist" => job'[v].ext \in Ext
    BY <1>2, GotoTyped DEF PersistConflict, Steps, Busy
  <2> QED
    BY <1>2, <2>1 DEF PersistConflict, TypeOK, tasks, objects, audit
<1>3. CASE MarkFailed(w)
  <2>1. Restart(w) /\ UNCHANGED <<attempts, objects, audit, faults>>
    BY <1>3 DEF MarkFailed, AfterFailure
  <2>2. status' \in [Task -> Statuses] /\ claim' \in [Task -> {"null", "fresh", "stale"}]
    BY <1>3 DEF MarkFailed, AfterFailure, TypeOK, Statuses
  <2> QED
    BY <2>1, <2>2, RestartTyped DEF TypeOK, objects, audit
<1>4. CASE CommitUnacknowledged(w)
  <2>1. /\ CommitCompletion(job[w]) /\ Goto(w, "markFailed") /\ job' = job
        /\ pc[w] = "persist" /\ faults' = faults + 1
    BY <1>4 DEF CommitUnacknowledged, Fault
  <2>2. /\ pc' \in [Worker -> Steps]
        /\ \A v \in Worker : Busy(v)' => job'[v].task \in Task
        /\ \A v \in Worker : pc'[v] = "persist" => job'[v].ext \in Ext
    BY <2>1, GotoTyped DEF Steps, Busy
  <2> QED
    BY <2>1, <2>2, JobIsUpload, CommitTyped DEF TypeOK
<1> QED
  BY <1>1, <1>2, <1>3, <1>4

LEMMA IdleTypeOK ==
  ASSUME TypeOK, NEW w \in Worker,
         ExpireStale(w) \/ ClaimNothing(w) \/ StatementFails(w)
  PROVE  TypeOK'
<1>1. CASE ExpireStale(w)
  <2>1. status' \in [Task -> Statuses] /\ claim' \in [Task -> {"null", "fresh", "stale"}]
    BY <1>1 DEF ExpireStale, TypeOK, Statuses
  <2>2. /\ pc' \in [Worker -> Steps]
        /\ \A v \in Worker : Busy(v)' => job'[v].task \in Task
        /\ \A v \in Worker : pc'[v] = "persist" => job'[v].ext \in Ext
    BY <1>1, GotoTyped DEF ExpireStale, Steps
  <2> QED
    BY <1>1, <2>1, <2>2 DEF ExpireStale, TypeOK, objects, audit
<1>2. CASE ClaimNothing(w)
  <2>1. Restart(w) /\ UNCHANGED <<tasks, objects, audit, faults>>
    BY <1>2 DEF ClaimNothing
  <2> QED
    BY <2>1, RestartTyped DEF TypeOK, tasks, objects, audit
<1>3. CASE StatementFails(w)
  <2>1. faults' \in Nat /\ UNCHANGED <<tasks, objects, audit>>
    BY <1>3 DEF StatementFails, Fault, TypeOK
  <2>2. CASE Restart(w)
    BY <2>1, <2>2, RestartTyped DEF TypeOK, tasks, objects, audit
  <2>3. CASE pc[w] = "expire" /\ Goto(w, "claim") /\ UNCHANGED job
    <3>1. /\ pc' \in [Worker -> Steps]
          /\ \A v \in Worker : Busy(v)' => job'[v].task \in Task
          /\ \A v \in Worker : pc'[v] = "persist" => job'[v].ext \in Ext
      BY <2>3, GotoTyped DEF Steps
    <3> QED
      BY <2>1, <2>3, <3>1 DEF TypeOK, tasks, objects, audit
  <2>4. CASE pc[w] = "persist" /\ Goto(w, "markFailed") /\ UNCHANGED job
    <3>1. /\ pc' \in [Worker -> Steps]
          /\ \A v \in Worker : Busy(v)' => job'[v].task \in Task
          /\ \A v \in Worker : pc'[v] = "persist" => job'[v].ext \in Ext
      BY <2>4, GotoTyped DEF Steps, Busy
    <3> QED
      BY <2>1, <2>4, <3>1 DEF TypeOK, tasks, objects, audit
  <2> QED
    BY <1>3, <2>2, <2>3, <2>4 DEF StatementFails
<1> QED
  BY <1>1, <1>2, <1>3

LEMMA CrashTypeOK ==
  ASSUME TypeOK, Crash
  PROVE  TypeOK'
<1>1. NoJob \in Job
  BY DEF NoJob, Job
<1>2. faults' \in Nat /\ UNCHANGED <<tasks, objects, audit>>
  BY DEF Crash, Fault, TypeOK
<1>3. /\ pc' \in [Worker -> Steps] /\ job' \in [Worker -> Job]
      /\ \A w \in Worker : pc'[w] = "expire"
  BY <1>1 DEF Crash, Steps
<1> QED
  BY <1>2, <1>3 DEF TypeOK, Busy, tasks, objects, audit

LEMMA NextTypeOK == TypeOK /\ [Next]_vars => TypeOK'
<1> SUFFICES ASSUME TypeOK, [Next]_vars PROVE TypeOK'
  OBVIOUS
<1>1. ASSUME NEW t \in Task,
             Enqueue(t) \/ Retry(t) \/ Cancel(t) \/ Release(t) \/ GoStale(t)
      PROVE  TypeOK'
  BY <1>1, TransitionTypeOK
<1>2. ASSUME NEW w \in Worker, WorkerStep(w) PROVE TypeOK'
  <2>1. ASSUME NEW t \in Task, ClaimTask(w, t) PROVE TypeOK'
    BY <2>1, ClaimTypeOK
  <2>2. CASE (\E e \in Ext : TransferOk(w, e)) \/ TransferFails(w)
    BY <2>2, TransferTypeOK
  <2>3. CASE Persist(w) \/ PersistConflict(w) \/ MarkFailed(w)
    BY <2>3, PersistTypeOK
  <2>4. CASE ExpireStale(w) \/ ClaimNothing(w)
    BY <2>4, IdleTypeOK
  <2> QED
    BY <1>2, <2>1, <2>2, <2>3, <2>4 DEF WorkerStep
<1>3. ASSUME NEW w \in Worker, StatementFails(w) PROVE TypeOK'
  BY <1>3, IdleTypeOK
<1>4. ASSUME NEW w \in Worker, CommitUnacknowledged(w) PROVE TypeOK'
  BY <1>4, PersistTypeOK
<1>5. CASE Crash
  BY <1>5, CrashTypeOK
<1>6. CASE UNCHANGED vars
  BY <1>6 DEF TypeOK, Busy, vars, tasks, objects, workers, audit
<1> QED
  BY <1>1, <1>2, <1>3, <1>4, <1>5, <1>6 DEF Next

(* Every state the queue and its workers reach is well typed; a worker in  *)
(* the middle of a task has one.                                           *)
THEOREM TypeTheorem == Spec => []TypeOK
  BY InitTypeOK, NextTypeOK, PTL DEF Spec

-----------------------------------------------------------------------------
(* The attempt budget. *)

LEMMA InitBudget == Init => AttemptBudgetInv
  BY TransferAssumption DEF Init, AttemptBudgetInv

(* The attempts t may have had. *)
Budget(t) == MaxAttempts + retries[t] + releases[t]

LEMMA BudgetTyped ==
  ASSUME TypeOK, NEW t \in Task
  PROVE  Budget(t) \in Nat /\ attempts[t] \in Nat /\ retries[t] \in Nat /\ releases[t] \in Nat
  BY TransferAssumption DEF TypeOK, Budget

(* Steps that start no attempt and lower no budget keep the invariant if a *)
(* task becomes pending only with an attempt to spare.                     *)
LEMMA BudgetKept ==
  ASSUME TypeOK, AttemptBudgetInv, attempts' = attempts,
         retries' = retries, releases' = releases,
         \A t \in Task : status'[t] # status[t] =>
           /\ status'[t] # "absent"
           /\ status'[t] = "pending" => attempts[t] + 1 <= Budget(t)
  PROVE  AttemptBudgetInv'
<1>1. ASSUME NEW t \in Task
      PROVE  /\ status'[t] = "absent" => attempts[t] = 0
             /\ attempts[t] <= Budget(t)
             /\ status'[t] = "pending" => attempts[t] + 1 <= Budget(t)
  BY DEF AttemptBudgetInv, Budget
<1> QED
  BY <1>1 DEF AttemptBudgetInv, Budget

(* An administrator's retry or release pays for one more attempt. *)
LEMMA BudgetRaised ==
  ASSUME TypeOK, AttemptBudgetInv, NEW t \in Task, Retry(t) \/ Release(t)
  PROVE  AttemptBudgetInv'
<1>1. /\ status' = [status EXCEPT ![t] = "pending"] /\ attempts' = attempts
      /\ \/ retries' = [retries EXCEPT ![t] = @ + 1] /\ releases' = releases
         \/ releases' = [releases EXCEPT ![t] = @ + 1] /\ retries' = retries
  BY DEF Retry, Retryable, Release, Transition
<1>2. ASSUME NEW u \in Task, u # t
      PROVE  /\ retries'[u] = retries[u] /\ releases'[u] = releases[u]
             /\ status'[u] = status[u]
  BY <1>1, <1>2 DEF TypeOK
<1>3. \/ retries'[t] = retries[t] + 1 /\ releases'[t] = releases[t]
      \/ releases'[t] = releases[t] + 1 /\ retries'[t] = retries[t]
  BY <1>1 DEF TypeOK
<1>4. status'[t] = "pending"
  BY <1>1 DEF TypeOK
<1>5. attempts[t] <= MaxAttempts + retries[t] + releases[t]
  BY DEF AttemptBudgetInv
<1>6. PICK r \in Nat : retries'[t] = r
  BY <1>3, BudgetTyped
<1>7. PICK s \in Nat : releases'[t] = s
  BY <1>3, BudgetTyped
<1>8. attempts[t] + 1 <= MaxAttempts + r + s
  BY <1>3, <1>5, <1>6, <1>7, BudgetTyped, TransferAssumption
<1>9. attempts[t] <= MaxAttempts + r + s
  BY <1>6, <1>7, <1>8, BudgetTyped, TransferAssumption
<1> QED
  BY <1>1, <1>2, <1>4, <1>6, <1>7, <1>8, <1>9 DEF AttemptBudgetInv

LEMMA ClaimBudget ==
  ASSUME TypeOK, AttemptBudgetInv, NEW w \in Worker, NEW t \in Task, ClaimTask(w, t)
  PROVE  AttemptBudgetInv'
<1>1. /\ status' = [status EXCEPT ![t] = "processing"]
      /\ attempts' = [attempts EXCEPT ![t] = @ + 1]
      /\ retries' = retries /\ releases' = releases
      /\ status[t] = "pending" \/ attempts[t] < MaxAttempts
  BY DEF ClaimTask, IsNext, Claimable, audit
<1>2. status'[t] = "processing" /\ attempts'[t] = attempts[t] + 1
  BY <1>1 DEF TypeOK
<1>3. ASSUME NEW u \in Task, u # t
      PROVE  status'[u] = status[u] /\ attempts'[u] = attempts[u]
  BY <1>1, <1>3 DEF TypeOK
<1>4. attempts[t] + 1 <= MaxAttempts + retries[t] + releases[t]
  <2>1. CASE status[t] = "pending"
    BY <2>1 DEF AttemptBudgetInv
  <2>2. CASE attempts[t] < MaxAttempts
    BY <2>2, BudgetTyped, TransferAssumption
  <2> QED
    BY <1>1, <2>1, <2>2
<1> QED
  BY <1>1, <1>2, <1>3, <1>4 DEF AttemptBudgetInv

LEMMA NextBudget == TypeOK /\ AttemptBudgetInv /\ [Next]_vars => AttemptBudgetInv'
<1> SUFFICES ASSUME TypeOK, AttemptBudgetInv, [Next]_vars PROVE AttemptBudgetInv'
  OBVIOUS
<1>1. ASSUME NEW t \in Task, Enqueue(t) PROVE AttemptBudgetInv'
  <2>1. status[t] = "absent" => attempts[t] + 1 <= Budget(t)
    BY BudgetTyped, TransferAssumption DEF AttemptBudgetInv, Budget
  <2>2. \A u \in Task : status'[u] # status[u] =>
          u = t /\ status[t] = "absent" /\ status'[u] = "pending"
    BY <1>1 DEF Enqueue, OnConflict, TypeOK
  <2> QED
    BY <1>1, <2>1, <2>2, BudgetKept DEF Enqueue, OnConflict, audit
<1>2. ASSUME NEW t \in Task, Retry(t) \/ Release(t) PROVE AttemptBudgetInv'
  BY <1>2, BudgetRaised
<1>3. ASSUME NEW t \in Task, Cancel(t) \/ GoStale(t) PROVE AttemptBudgetInv'
  <2>1. \A u \in Task : status'[u] # status[u] => status'[u] = "canceled"
    BY <1>3 DEF Cancel, Cancelable, Transition, GoStale, TypeOK
  <2> QED
    BY <1>3, <2>1, BudgetKept DEF Cancel, Cancelable, Transition, GoStale, audit
<1>4. ASSUME NEW w \in Worker, NEW t \in Task, ClaimTask(w, t) PROVE AttemptBudgetInv'
  BY <1>4, ClaimBudget
<1>5. ASSUME NEW w \in Worker, ExpireStale(w) PROVE AttemptBudgetInv'
  <2>1. \A u \in Task : status'[u] # status[u] => status'[u] = "failed"
    BY <1>5 DEF ExpireStale
  <2> QED
    BY <1>5, <2>1, BudgetKept DEF ExpireStale, audit
<1>6. ASSUME NEW w \in Worker, Persist(w) \/ CommitUnacknowledged(w)
      PROVE  AttemptBudgetInv'
  <2>1. CommitCompletion(job[w])
    BY <1>6 DEF Persist, CommitUnacknowledged
  <2>2. \A u \in Task : status'[u] # status[u] => status'[u] = "completed"
    BY <2>1 DEF CommitCompletion, TypeOK
  <2> QED
    BY <2>1, <2>2, BudgetKept DEF CommitCompletion, audit
<1>7. ASSUME NEW w \in Worker, MarkFailed(w) PROVE AttemptBudgetInv'
  <2>1. job[w].task \in Task
    BY <1>7 DEF MarkFailed, AfterFailure, TypeOK, Busy
  <2>2. \A u \in Task : status'[u] # status[u] =>
          \/ status'[u] = "failed"
          \/ status'[u] = "pending" /\ ~(attempts[u] >= MaxAttempts)
    BY <1>7, <2>1 DEF MarkFailed, AfterFailure, TypeOK
  <2>3. \A u \in Task : ~(attempts[u] >= MaxAttempts) => attempts[u] + 1 <= Budget(u)
    BY BudgetTyped, TransferAssumption DEF Budget
  <2> QED
    BY <1>7, <2>2, <2>3, BudgetKept DEF MarkFailed, AfterFailure, audit
<1>8. ASSUME UNCHANGED <<tasks, audit>> PROVE AttemptBudgetInv'
  BY <1>8, BudgetKept DEF tasks, audit
<1>9. ASSUME NEW w \in Worker,
             \/ ClaimNothing(w) \/ (\E e \in Ext : TransferOk(w, e)) \/ TransferFails(w)
             \/ PersistConflict(w) \/ StatementFails(w) \/ Crash \/ UNCHANGED vars
      PROVE  UNCHANGED <<tasks, audit>>
  BY <1>9 DEF ClaimNothing, TransferOk, TransferFails, PersistConflict, StatementFails,
              Crash, vars
<1>10. CASE Crash \/ UNCHANGED vars
  BY <1>8, <1>10 DEF Crash, vars
<1> QED
  BY <1>1, <1>2, <1>3, <1>4, <1>5, <1>6, <1>7, <1>8, <1>9, <1>10 DEF Next, WorkerStep

(* Every attempt beyond max_attempts was paid for by an administrator,     *)
(* whatever the workers whose claims were taken away still write.          *)
THEOREM AttemptBudgetTheorem == Spec => []AttemptBudget
<1>1. AttemptBudgetInv => AttemptBudget
  BY DEF AttemptBudgetInv, AttemptBudget
<1> QED
  BY <1>1, InitBudget, NextBudget, TypeTheorem, PTL DEF Spec

-----------------------------------------------------------------------------
(* One row per stored object. *)

LEMMA NextRows ==
  ASSUME \A e, f \in Ext : e = f,
         TypeOK, RowsAreReferenced, [Next]_vars
  PROVE  RowsAreReferenced'
<1>1. ASSUME NEW w \in Worker, Persist(w) \/ CommitUnacknowledged(w)
      PROVE  RowsAreReferenced'
  <2>1. /\ ~KeyTaken(job[w]) /\ rows' = rows \cup {job[w]}
        /\ object' = [object EXCEPT ![job[w].task] = {job[w]}]
        /\ job[w] \in Upload /\ job[w].task \in Task
    BY <1>1, JobIsUpload DEF Persist, CommitUnacknowledged, CommitCompletion
  <2>2. ASSUME NEW r \in rows PROVE r.task # job[w].task /\ r.task \in Task
    BY <2>1 DEF KeyTaken, TypeOK, Upload
  <2> QED
    BY <2>1, <2>2 DEF RowsAreReferenced, TypeOK
<1>2. ASSUME UNCHANGED <<object, rows>> PROVE RowsAreReferenced'
  BY <1>2 DEF RowsAreReferenced
<1>3. CASE \E t \in Task : Enqueue(t) \/ Retry(t) \/ Cancel(t) \/ Release(t) \/ GoStale(t)
  BY <1>2, <1>3 DEF Enqueue, OnConflict, Retry, Retryable, Cancel, Cancelable, Release, GoStale, Transition, objects
<1>4. ASSUME NEW w \in Worker,
             \/ ExpireStale(w) \/ (\E t \in Task : ClaimTask(w, t)) \/ ClaimNothing(w)
             \/ (\E e \in Ext : TransferOk(w, e)) \/ TransferFails(w)
             \/ PersistConflict(w) \/ MarkFailed(w) \/ StatementFails(w)
      PROVE  RowsAreReferenced'
  BY <1>2, <1>4 DEF ExpireStale, ClaimTask, ClaimNothing, TransferOk, TransferFails,
                    PersistConflict, MarkFailed, AfterFailure, StatementFails, objects
<1>5. CASE Crash \/ UNCHANGED vars
  BY <1>2, <1>5 DEF Crash, vars, objects
<1> QED
  BY <1>1, <1>3, <1>4, <1>5 DEF Next, WorkerStep

(* When the key of a task is fixed, no storage_object row is orphaned,     *)
(* however many workers finish the task.                                   *)
THEOREM RowsTheorem ==
  ASSUME \A e, f \in Ext : e = f
  PROVE  Spec => []RowsAreReferenced
<1>1. Init => RowsAreReferenced
  BY DEF Init, RowsAreReferenced
<1>2. TypeOK /\ RowsAreReferenced /\ [Next]_vars => RowsAreReferenced'
  BY NextRows
<1> QED
  BY <1>1, <1>2, TypeTheorem, PTL DEF Spec

-----------------------------------------------------------------------------
(* Claims that are not taken away. *)

(* A step keeps the invariant if it starts no task, leaves the tasks of    *)
(* the workers still busy alone, and keeps rows and bytes together.        *)
LEMMA DisciplineKept ==
  ASSUME TypeOK, DisciplineInv, attempts' = attempts,
         \A w \in Worker : Busy(w)' =>
           /\ Busy(w)
           /\ job'[w].task = job[w].task /\ job'[w].attempt = job[w].attempt
           /\ status'[job[w].task] = status[job[w].task]
           /\ claim'[job[w].task] = claim[job[w].task],
         \A w \in Worker : pc'[w] = "persist" =>
           bucket'[job'[w].task][job'[w].ext] = job'[w].attempt,
         \A r \in rows' :
           status'[r.task] = "completed" /\ bucket'[r.task][r.ext] = r.attempt
  PROVE  DisciplineInv'
<1>1. ClaimIsOwned'
  <2> SUFFICES ASSUME NEW w \in Worker, Busy(w)'
               PROVE  /\ status'[job'[w].task] = "processing"
                      /\ attempts'[job'[w].task] = job'[w].attempt
                      /\ \A v \in Worker \ {w} : Busy(v)' => job'[v].task # job'[w].task
    BY DEF ClaimIsOwned
  <2>1. /\ Busy(w) /\ job'[w].task = job[w].task /\ job'[w].attempt = job[w].attempt
        /\ status'[job[w].task] = status[job[w].task]
    OBVIOUS
  <2>2. /\ status[job[w].task] = "processing" /\ attempts[job[w].task] = job[w].attempt
        /\ \A v \in Worker \ {w} : Busy(v) => job[v].task # job[w].task
    BY <2>1 DEF DisciplineInv, ClaimIsOwned
  <2>3. ASSUME NEW v \in Worker \ {w}, Busy(v)' PROVE job'[v].task # job'[w].task
    BY <2>1, <2>2, <2>3
  <2> QED
    BY <2>1, <2>2, <2>3
<1>2. RowDescribesBucket' /\ \A r \in rows' : status'[r.task] = "completed"
  BY DEF RowDescribesBucket
<1>3. ASSUME NEW w \in Worker, Busy(w)' PROVE claim'[job'[w].task] = "fresh"
  BY <1>3 DEF DisciplineInv
<1> QED
  BY <1>1, <1>2, <1>3 DEF DisciplineInv

(* A step that leaves the workers alone, and the tasks that are processing *)
(* or completed, except for claims no running worker holds.                *)
LEMMA DisciplineAside ==
  ASSUME TypeOK, DisciplineInv, UNCHANGED <<attempts, bucket, rows, pc, job>>,
         \A t \in Task : status[t] \in {"processing", "completed"} => status'[t] = status[t],
         \A w \in Worker : Busy(w) => claim'[job[w].task] = claim[job[w].task]
  PROVE  DisciplineInv'
<1>1. ASSUME NEW w \in Worker, Busy(w)'
      PROVE  Busy(w) /\ status'[job[w].task] = status[job[w].task]
  BY <1>1 DEF Busy, TypeOK, DisciplineInv, ClaimIsOwned
<1>2. ASSUME NEW r \in rows
      PROVE  status'[r.task] = "completed" /\ bucket[r.task][r.ext] = r.attempt
  BY <1>2 DEF DisciplineInv, RowDescribesBucket, TypeOK, Upload
<1>3. \A w \in Worker : pc[w] = "persist" => bucket[job[w].task][job[w].ext] = job[w].attempt
  BY DEF DisciplineInv
<1> QED
  BY <1>1, <1>2, <1>3, DisciplineKept

LEMMA ClaimDiscipline ==
  ASSUME TypeOK, DisciplineInv, NEW w \in Worker, NEW t \in Task, ClaimTask(w, t)
  PROVE  DisciplineInv'
<1>1. /\ status' = [status EXCEPT ![t] = "processing"]
      /\ attempts' = [attempts EXCEPT ![t] = @ + 1]
      /\ claim' = [claim EXCEPT ![t] = "fresh"]
      /\ pc' = [pc EXCEPT ![w] = "transfer"]
      /\ job' = [job EXCEPT ![w] = [task |-> t, attempt |-> attempts[t] + 1, ext |-> NoExt]]
      /\ rows' = rows /\ bucket' = bucket /\ pc[w] = "claim"
      /\ status[t] = "pending" \/ (status[t] = "processing" /\ claim[t] # "fresh")
  BY DEF ClaimTask, Goto, IsNext, Claimable, Stale, objects
<1>2. /\ job'[w].task = t /\ job'[w].attempt = attempts'[t] /\ pc'[w] = "transfer"
      /\ status'[t] = "processing" /\ claim'[t] = "fresh"
  BY <1>1 DEF TypeOK
<1>3. ASSUME NEW v \in Worker \ {w}, Busy(v)'
      PROVE  /\ Busy(v) /\ job'[v] = job[v] /\ job[v].task # t /\ job[v].task \in Task
             /\ status[job[v].task] = "processing" /\ claim[job[v].task] = "fresh"
             /\ attempts[job[v].task] = job[v].attempt
  <2>1. Busy(v) /\ job'[v] = job[v]
    BY <1>1, <1>3 DEF Busy, TypeOK
  <2>2. /\ status[job[v].task] = "processing" /\ claim[job[v].task] = "fresh"
        /\ attempts[job[v].task] = job[v].attempt
    BY <2>1 DEF DisciplineInv, ClaimIsOwned
  <2> QED
    BY <2>1, <2>2, <1>1 DEF TypeOK
<1>4. ASSUME NEW u \in Task, u # t
      PROVE  status'[u] = status[u] /\ claim'[u] = claim[u] /\ attempts'[u] = attempts[u]
  BY <1>1, <1>4 DEF TypeOK
<1>5. ClaimIsOwned'
  <2>1. ASSUME NEW v \in Worker, Busy(v)'
        PROVE  /\ status'[job'[v].task] = "processing"
               /\ attempts'[job'[v].task] = job'[v].attempt
    BY <1>2, <1>3, <1>4, <2>1
  <2>2. ASSUME NEW v \in Worker, NEW x \in Worker \ {v}, Busy(v)', Busy(x)'
        PROVE  job'[x].task # job'[v].task
    <3>1. CASE v = w \/ x = w
      BY <3>1, <2>2, <1>2, <1>3
    <3>2. CASE v # w /\ x # w
      BY <3>2, <2>2, <1>3 DEF DisciplineInv, ClaimIsOwned
    <3> QED
      BY <3>1, <3>2
  <2> QED
    BY <2>1, <2>2 DEF ClaimIsOwned
<1>6. ASSUME NEW v \in Worker, Busy(v)' PROVE claim'[job'[v].task] = "fresh"
  BY <1>2, <1>3, <1>4, <1>6
<1>7. ASSUME NEW v \in Worker, pc'[v] = "persist"
      PROVE  bucket'[job'[v].task][job'[v].ext] = job'[v].attempt
  <2>1. v # w /\ pc[v] = "persist" /\ job'[v] = job[v]
    BY <1>1, <1>2, <1>7 DEF TypeOK
  <2> QED
    BY <2>1, <1>1 DEF DisciplineInv
<1>8. ASSUME NEW r \in rows
      PROVE  status'[r.task] = "completed" /\ bucket'[r.task][r.ext] = r.attempt
  <2>1. status[r.task] = "completed" /\ r.task \in Task /\ bucket[r.task][r.ext] = r.attempt
    BY DEF DisciplineInv, RowDescribesBucket, TypeOK, Upload
  <2> QED
    BY <2>1, <1>1, <1>4
<1> QED
  BY <1>1, <1>5, <1>6, <1>7, <1>8 DEF DisciplineInv, RowDescribesBucket

LEMMA TransferDiscipline ==
  ASSUME TypeOK, DisciplineInv, NEW w \in Worker,
         (\E e \in Ext : TransferOk(w, e)) \/ TransferFails(w)
  PROVE  DisciplineInv'
<1> DEFINE t == job[w].task
<1>1. /\ Busy(w) /\ pc[w] = "transfer" /\ t \in Task
      /\ status' = status /\ claim' = claim /\ attempts' = attempts /\ rows' = rows
  BY DEF TransferOk, TransferFails, Busy, TypeOK, tasks
<1>2. /\ status[t] = "processing"
      /\ \A v \in Worker \ {w} : Busy(v) => job[v].task # t
  BY <1>1 DEF DisciplineInv, ClaimIsOwned
<1>3. \A u \in Task : u # t => bucket'[u] = bucket[u]
  BY <1>1 DEF TransferOk, TransferFails, TypeOK
<1>4. /\ \A v \in Worker : v # w => pc'[v] = pc[v] /\ job'[v] = job[v]
      /\ job'[w].task = t /\ job'[w].attempt = job[w].attempt
  <2>1. CASE TransferFails(w)
    BY <2>1 DEF TransferFails, Goto, TypeOK
  <2>2. ASSUME NEW e \in Ext, TransferOk(w, e)
        PROVE  /\ \A v \in Worker : v # w => pc'[v] = pc[v] /\ job'[v] = job[v]
               /\ job'[w].task = t /\ job'[w].attempt = job[w].attempt
    BY <2>2 DEF TransferOk, Goto, TypeOK, Job
  <2> QED
    BY <2>1, <2>2
<1>5. ASSUME NEW v \in Worker, Busy(v)'
      PROVE  Busy(v) /\ job'[v].task = job[v].task /\ job'[v].attempt = job[v].attempt
  BY <1>1, <1>4, <1>5 DEF Busy
<1>6. ASSUME NEW v \in Worker, pc'[v] = "persist"
      PROVE  bucket'[job'[v].task][job'[v].ext] = job'[v].attempt
  <2>1. CASE v = w
    <3>1. PICK e \in Ext : TransferOk(w, e)
      BY <1>6, <2>1 DEF TransferFails, Goto, TypeOK
    <3>2. job'[w].ext = e
      BY <3>1 DEF TransferOk, TypeOK, Job
    <3>3. bucket'[t][e] = job[w].attempt
      BY <3>1, <1>1 DEF TransferOk, TypeOK
    <3> QED
      BY <2>1, <3>2, <3>3, <1>4
  <2>2. CASE v # w
    <3>1. pc[v] = "persist" /\ job'[v] = job[v] /\ job[v].task # t /\ job[v].task \in Task
      BY <2>2, <1>6, <1>4, <1>2 DEF Busy, TypeOK
    <3> QED
      BY <3>1, <1>3 DEF DisciplineInv
  <2> QED
    BY <2>1, <2>2
<1>7. ASSUME NEW r \in rows
      PROVE  status[r.task] = "completed" /\ bucket'[r.task][r.ext] = r.attempt
  <2>1. status[r.task] = "completed" /\ r.task \in Task /\ bucket[r.task][r.ext] = r.attempt
    BY DEF DisciplineInv, RowDescribesBucket, TypeOK, Upload
  <2> QED
    BY <2>1, <1>2, <1>3
<1> QED
  BY <1>1, <1>5, <1>6, <1>7, DisciplineKept

(* The end of an iteration, or of its transfer, in which at most the       *)
(* worker's own task changes.                                              *)
LEMMA FinishDiscipline ==
  ASSUME TypeOK, DisciplineInv, NEW w \in Worker,
         Persist(w) \/ PersistConflict(w) \/ MarkFailed(w)
  PROVE  DisciplineInv'
<1> DEFINE t == job[w].task
<1>1. Busy(w) /\ t \in Task /\ attempts' = attempts /\ bucket' = bucket
  BY DEF Persist, PersistConflict, MarkFailed, AfterFailure, CommitCompletion, Busy, TypeOK, tasks,
         objects
<1>2. /\ status[t] = "processing"
      /\ \A v \in Worker \ {w} : Busy(v) => job[v].task # t
  BY <1>1 DEF DisciplineInv, ClaimIsOwned
<1>3. \A u \in Task : u # t => status'[u] = status[u] /\ claim'[u] = claim[u]
  BY <1>1 DEF Persist, PersistConflict, MarkFailed, AfterFailure, CommitCompletion, TypeOK, tasks
<1>4. /\ \A v \in Worker : v # w => pc'[v] = pc[v] /\ job'[v] = job[v]
      /\ pc'[w] # "persist"
      /\ Busy(w)' => job' = job /\ status' = status /\ claim' = claim
  BY DEF Persist, PersistConflict, MarkFailed, AfterFailure, Restart, Goto, Busy, TypeOK, tasks
<1>5. ASSUME NEW v \in Worker, Busy(v)'
      PROVE  /\ Busy(v)
             /\ job'[v].task = job[v].task /\ job'[v].attempt = job[v].attempt
             /\ status'[job[v].task] = status[job[v].task]
             /\ claim'[job[v].task] = claim[job[v].task]
  <2>1. CASE v = w
    BY <2>1, <1>1, <1>4, <1>5
  <2>2. CASE v # w
    <3>1. Busy(v) /\ job'[v] = job[v]
      BY <2>2, <1>4, <1>5 DEF Busy
    <3>2. job[v].task # t /\ job[v].task \in Task
      BY <2>2, <3>1, <1>2 DEF TypeOK
    <3> QED
      BY <3>1, <3>2, <1>3
  <2> QED
    BY <2>1, <2>2
<1>6. ASSUME NEW v \in Worker, pc'[v] = "persist"
      PROVE  bucket'[job'[v].task][job'[v].ext] = job'[v].attempt
  BY <1>1, <1>4, <1>6 DEF DisciplineInv
<1>7. ASSUME NEW r \in rows'
      PROVE  status'[r.task] = "completed" /\ bucket'[r.task][r.ext] = r.attempt
  <2>1. CASE r \in rows
    <3>1. status[r.task] = "completed" /\ r.task \in Task /\ bucket[r.task][r.ext] = r.attempt
      BY <2>1 DEF DisciplineInv, RowDescribesBucket, TypeOK, Upload
    <3> QED
      BY <3>1, <1>1, <1>2, <1>3
  <2>2. CASE r \notin rows
    <3>1. CommitCompletion(job[w]) /\ pc[w] = "persist" /\ r = job[w]
      BY <1>7, <2>2 DEF Persist, PersistConflict, MarkFailed, AfterFailure, CommitCompletion, objects
    <3>2. status'[t] = "completed"
      BY <3>1, <1>1 DEF CommitCompletion, TypeOK
    <3> QED
      BY <3>1, <3>2, <1>1 DEF DisciplineInv
  <2> QED
    BY <2>1, <2>2
<1> QED
  BY <1>1, <1>5, <1>6, <1>7, DisciplineKept

LEMMA IdleDiscipline ==
  ASSUME TypeOK, DisciplineInv, NEW w \in Worker,
         ExpireStale(w) \/ ClaimNothing(w) \/ StatementFails(w)
  PROVE  DisciplineInv'
<1>1. attempts' = attempts /\ bucket' = bucket /\ rows' = rows
  BY DEF ExpireStale, ClaimNothing, StatementFails, tasks, objects
<1>2. \A v \in Worker : v # w => pc'[v] = pc[v] /\ job'[v] = job[v]
  BY DEF ExpireStale, ClaimNothing, StatementFails, Restart, Goto, TypeOK
<1>3. /\ pc'[w] # "persist"
      /\ Busy(w)' => Busy(w) /\ job' = job
  BY DEF ExpireStale, ClaimNothing, StatementFails, Restart, Goto, Busy, TypeOK
<1>4. \A t \in Task : status[t] # "processing" \/ claim[t] = "fresh" =>
        status'[t] = status[t] /\ claim'[t] = claim[t]
  BY DEF ExpireStale, ClaimNothing, StatementFails, Exhausted, Stale, tasks
<1>5. ASSUME NEW v \in Worker, Busy(v)'
      PROVE  /\ Busy(v)
             /\ job'[v].task = job[v].task /\ job'[v].attempt = job[v].attempt
             /\ status'[job[v].task] = status[job[v].task]
             /\ claim'[job[v].task] = claim[job[v].task]
  <2>1. Busy(v) /\ job'[v] = job[v]
    BY <1>2, <1>3, <1>5 DEF Busy
  <2>2. claim[job[v].task] = "fresh" /\ job[v].task \in Task
    BY <2>1 DEF DisciplineInv, TypeOK
  <2> QED
    BY <2>1, <2>2, <1>4
<1>6. ASSUME NEW v \in Worker, pc'[v] = "persist"
      PROVE  bucket'[job'[v].task][job'[v].ext] = job'[v].attempt
  BY <1>1, <1>2, <1>3, <1>6 DEF DisciplineInv
<1>7. ASSUME NEW r \in rows
      PROVE  status'[r.task] = "completed" /\ bucket[r.task][r.ext] = r.attempt
  <2>1. status[r.task] = "completed" /\ r.task \in Task /\ bucket[r.task][r.ext] = r.attempt
    BY DEF DisciplineInv, RowDescribesBucket, TypeOK, Upload
  <2> QED
    BY <2>1, <1>4
<1> QED
  BY <1>1, <1>5, <1>6, <1>7, DisciplineKept

LEMMA NextDiscipline ==
  ASSUME Disciplined, TypeOK, DisciplineInv, [Next]_vars
  PROVE  DisciplineInv'
<1>1. ASSUME NEW t \in Task, Enqueue(t) \/ Retry(t) \/ Cancel(t) PROVE DisciplineInv'
  <2>1. /\ UNCHANGED <<attempts, bucket, rows, pc, job>>
        /\ status[t] \notin {"processing", "completed"} \/ status' = status
        /\ \A u \in Task : u # t => status'[u] = status[u] /\ claim'[u] = claim[u]
    BY <1>1 DEF Enqueue, OnConflict, Retry, Retryable, Cancel, Cancelable, Transition, TypeOK, tasks, objects, workers
  <2>2. ASSUME NEW w \in Worker, Busy(w) PROVE claim'[job[w].task] = claim[job[w].task]
    <3>1. status[job[w].task] = "processing" /\ job[w].task \in Task
      BY <2>2 DEF DisciplineInv, ClaimIsOwned, TypeOK
    <3>2. CASE job[w].task = t
      BY <3>1, <3>2, <1>1 DEF Enqueue, OnConflict, Retry, Retryable, Cancel, Cancelable, Transition
    <3> QED
      BY <3>1, <3>2, <2>1
  <2>3. \A u \in Task : status[u] \in {"processing", "completed"} => status'[u] = status[u]
    BY <2>1
  <2> QED
    BY <2>1, <2>2, <2>3, DisciplineAside
<1>2. ASSUME NEW t \in Task, Release(t) PROVE FALSE
  BY <1>2 DEF Release, Disciplined, TypeOK
<1>3. ASSUME NEW t \in Task, GoStale(t) PROVE DisciplineInv'
  <2>1. /\ UNCHANGED <<status, attempts, bucket, rows, pc, job>>
        /\ claim' = [claim EXCEPT ![t] = "stale"]
        /\ \A w \in Worker : Busy(w) => job[w].task # t
    BY <1>3 DEF GoStale, Disciplined, objects, workers
  <2>2. \A w \in Worker : Busy(w) => claim'[job[w].task] = claim[job[w].task]
    BY <2>1 DEF TypeOK
  <2> QED
    BY <2>1, <2>2, DisciplineAside
<1>4. ASSUME NEW w \in Worker, WorkerStep(w) \/ StatementFails(w) PROVE DisciplineInv'
  BY <1>4, ClaimDiscipline, TransferDiscipline, FinishDiscipline, IdleDiscipline
  DEF WorkerStep
<1>5. ASSUME NEW w \in Worker, CommitUnacknowledged(w) PROVE FALSE
  BY <1>5 DEF CommitUnacknowledged, Disciplined
<1>6. CASE Crash
  <2>1. /\ UNCHANGED <<tasks, objects>>
        /\ \A w \in Worker : pc'[w] = "expire"
    BY <1>6 DEF Crash
  <2> QED
    BY <2>1, DisciplineKept DEF DisciplineInv, RowDescribesBucket, Busy, tasks, objects
<1>7. CASE UNCHANGED vars
  BY <1>7, DisciplineAside DEF vars, tasks, objects, workers
<1> QED
  BY <1>1, <1>2, <1>3, <1>4, <1>5, <1>6, <1>7 DEF Next

LEMMA DisciplineInvariant ==
  ASSUME Disciplined
  PROVE  Spec => []DisciplineInv
<1>1. Init => DisciplineInv
  BY DEF Init, DisciplineInv, ClaimIsOwned, RowDescribesBucket, Busy
<1>2. TypeOK /\ DisciplineInv /\ [Next]_vars => DisciplineInv'
  BY NextDiscipline
<1> QED
  BY <1>1, <1>2, TypeTheorem, PTL DEF Spec

(* A worker in the middle of a task owns its claim, and no two workers     *)
(* share a task.                                                           *)
THEOREM ClaimTheorem ==
  ASSUME Disciplined
  PROVE  Spec => []ClaimIsOwned
<1>1. DisciplineInv => ClaimIsOwned
  BY DEF DisciplineInv
<1> QED
  BY <1>1, DisciplineInvariant, PTL

(* What a storage_object row records is what its key holds. *)
THEOREM BucketTheorem ==
  ASSUME Disciplined
  PROVE  Spec => []RowDescribesBucket
<1>1. DisciplineInv => RowDescribesBucket
  BY DEF DisciplineInv
<1> QED
  BY <1>1, DisciplineInvariant, PTL

-----------------------------------------------------------------------------
(* The queue implements the lifecycle of module TaskLifecycle. *)

LEMMA LifecycleStep ==
  ASSUME Disciplined, TypeOK, DisciplineInv, [Next]_vars
  PROVE  Lifecycle!Next \/ UNCHANGED <<status, StoredTasks>>
<1> USE DEF Lifecycle!Move
<1>1. ASSUME rows' = rows PROVE StoredTasks' = StoredTasks
  BY <1>1 DEF StoredTasks
<1>2. ASSUME NEW t \in Task, Enqueue(t)
      PROVE  Lifecycle!Create(t) \/ UNCHANGED <<status, StoredTasks>>
  BY <1>1, <1>2 DEF Enqueue, OnConflict, TypeOK, Lifecycle!Create, objects
<1>3. ASSUME NEW t \in Task, Retry(t) PROVE Lifecycle!Retry(t)
  BY <1>1, <1>3 DEF Retry, Retryable, Transition, Lifecycle!Retry, objects
<1>4. ASSUME NEW t \in Task, Cancel(t) PROVE Lifecycle!Cancel(t)
  BY <1>1, <1>4 DEF Cancel, Cancelable, Transition, Lifecycle!Cancel, objects
<1>5. ASSUME NEW t \in Task, Release(t) PROVE FALSE
  BY <1>5 DEF Release, Disciplined, TypeOK
<1>6. ASSUME NEW w \in Worker, NEW t \in Task, ClaimTask(w, t)
      PROVE  Lifecycle!Take(t) \/ UNCHANGED <<status, StoredTasks>>
  <2>1. status' = [status EXCEPT ![t] = "processing"] /\ StoredTasks' = StoredTasks
    BY <1>1, <1>6 DEF ClaimTask, objects
  <2>2. status[t] = "pending" \/ status[t] = "processing"
    BY <1>6 DEF ClaimTask, IsNext, Claimable, Stale
  <2> QED
    BY <2>1, <2>2 DEF Lifecycle!Take, TypeOK
<1>7. ASSUME NEW w \in Worker, ExpireStale(w)
      PROVE  \E S \in SUBSET Task : Lifecycle!Fail(S)
  <2> DEFINE S == {t \in Task : Exhausted(t)}
  <2>1. \A t \in S : status[t] = "processing"
    BY DEF Exhausted, Stale
  <2>2. status' = [t \in Task |-> IF t \in S THEN "failed" ELSE status[t]]
    <3>1. status' = [t \in Task |-> IF Exhausted(t) THEN "failed" ELSE status[t]]
      BY <1>7 DEF ExpireStale
    <3>2. \A t \in Task : t \in S <=> Exhausted(t)
      OBVIOUS
    <3> HIDE DEF S
    <3> QED
      BY <3>1, <3>2
  <2>3. Lifecycle!Fail(S)
    BY <1>1, <1>7, <2>1, <2>2 DEF ExpireStale, objects, Lifecycle!Fail
  <2> QED
    BY <2>3
<1>8. ASSUME NEW w \in Worker, Persist(w) PROVE Lifecycle!Finish(job[w].task)
  <2>1. /\ job[w].task \in Task /\ status[job[w].task] = "processing"
        /\ rows' = rows \cup {job[w]}
        /\ status' = [status EXCEPT ![job[w].task] = "completed"]
    BY <1>8 DEF Persist, CommitCompletion, DisciplineInv, ClaimIsOwned, Busy, TypeOK
  <2>2. StoredTasks' = StoredTasks \cup {job[w].task}
    BY <2>1 DEF StoredTasks
  <2> QED
    BY <2>1, <2>2 DEF Lifecycle!Finish
<1>9. ASSUME NEW w \in Worker, MarkFailed(w)
      PROVE  \/ Lifecycle!Requeue(job[w].task)
             \/ \E S \in SUBSET Task : Lifecycle!Fail(S)
  <2> DEFINE t == job[w].task
  <2>1. t \in Task /\ status[t] = "processing" /\ StoredTasks' = StoredTasks
    BY <1>1, <1>9 DEF MarkFailed, AfterFailure, DisciplineInv, ClaimIsOwned, Busy, TypeOK, objects
  <2>2. CASE status' = [status EXCEPT ![t] = "pending"]
    BY <2>1, <2>2 DEF Lifecycle!Requeue
  <2>3. CASE status' = [status EXCEPT ![t] = "failed"]
    <3>1. status' = [u \in Task |-> IF u \in {t} THEN "failed" ELSE status[u]]
      BY <2>3 DEF TypeOK
    <3>2. {t} \in SUBSET Task /\ \A u \in {t} : status[u] = "processing"
      BY <2>1
    <3>3. Lifecycle!Fail({t})
      BY <2>1, <3>1, <3>2 DEF Lifecycle!Fail
    <3> QED
      BY <3>2, <3>3
  <2> QED
    BY <1>9, <2>2, <2>3 DEF MarkFailed, AfterFailure
<1>10. ASSUME NEW w \in Worker, CommitUnacknowledged(w) PROVE FALSE
  BY <1>10 DEF CommitUnacknowledged, Disciplined
<1>11. ASSUME UNCHANGED <<status, rows>> PROVE UNCHANGED <<status, StoredTasks>>
  BY <1>1, <1>11
<1>12. ASSUME NEW t \in Task, GoStale(t) PROVE UNCHANGED <<status, StoredTasks>>
  BY <1>11, <1>12 DEF GoStale, objects
<1>13. ASSUME NEW w \in Worker,
              \/ ClaimNothing(w) \/ (\E e \in Ext : TransferOk(w, e)) \/ TransferFails(w)
              \/ PersistConflict(w) \/ StatementFails(w)
       PROVE  UNCHANGED <<status, StoredTasks>>
  BY <1>11, <1>13 DEF ClaimNothing, TransferOk, TransferFails, PersistConflict,
                      StatementFails, tasks, objects
<1>14. CASE Crash \/ UNCHANGED vars
  BY <1>11, <1>14 DEF Crash, vars, tasks, objects
<1>15. ASSUME NEW t \in Task,
              Enqueue(t) \/ Retry(t) \/ Cancel(t) \/ Release(t) \/ GoStale(t)
       PROVE  Lifecycle!Next \/ UNCHANGED <<status, StoredTasks>>
  BY <1>2, <1>3, <1>4, <1>5, <1>12, <1>15 DEF Lifecycle!Next
<1>16. ASSUME NEW w \in Worker, WorkerStep(w)
       PROVE  Lifecycle!Next \/ UNCHANGED <<status, StoredTasks>>
  <2>1. ASSUME NEW t \in Task, ClaimTask(w, t)
        PROVE  Lifecycle!Next \/ UNCHANGED <<status, StoredTasks>>
    BY <1>6, <2>1 DEF Lifecycle!Next
  <2>2. CASE Persist(w) \/ MarkFailed(w)
    <3>1. job[w].task \in Task
      BY <2>2 DEF Persist, MarkFailed, AfterFailure, Busy, TypeOK
    <3> QED
      BY <1>8, <1>9, <2>2, <3>1 DEF Lifecycle!Next
  <2>3. CASE ExpireStale(w)
    BY <1>7, <2>3 DEF Lifecycle!Next
  <2> QED
    BY <1>13, <1>16, <2>1, <2>2, <2>3 DEF WorkerStep
<1> QED
  BY <1>10, <1>13, <1>14, <1>15, <1>16 DEF Next

(* Seen as task lifecycles, a queue whose claims are not taken away keeps  *)
(* the documented promise: completed for good, canceled until a retry, a   *)
(* stored object exactly for what was finished.                            *)
THEOREM LifecycleTheorem ==
  ASSUME Disciplined
  PROVE  Spec => ImplementsLifecycle
<1>1. Init => Lifecycle!Init
  BY DEF Init, Lifecycle!Init, StoredTasks
<1>2. TypeOK /\ DisciplineInv /\ [Next]_vars => [Lifecycle!Next]_(Lifecycle!vars)
  BY LifecycleStep DEF Lifecycle!vars
<1> QED
  BY <1>1, <1>2, TypeTheorem, DisciplineInvariant, PTL
  DEF Spec, ImplementsLifecycle, Lifecycle!Spec

=============================================================================
