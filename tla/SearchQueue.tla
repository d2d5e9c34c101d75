---------------------------- MODULE SearchQueue ----------------------------
(***************************************************************************)
(* The search outbox: the rows of search.index_queue, which the write      *)
(* functions of the database refresh in the transaction that changes a     *)
(* user or a tweet (server/migrations/20260426000090_search_outbox.sql),   *)
(* the two Tantivy indexes, and the workers that claim rows in batches,    *)
(* read the documents and commit them (server/src/search/).                *)
(*                                                                         *)
(* One action is one SQL statement, or one use of an index writer under    *)
(* its mutex.  A document is the version of its database rows it was made  *)
(* from, 0 standing for none.                                              *)
(*                                                                         *)
(* A claim is known by (claimed_by, claimed_at).  No two claims of a row   *)
(* have the same claimed_at and a worker holds one batch at a time, so the *)
(* claim of a row is the worker whose present batch was given it.          *)
(***************************************************************************)
EXTENDS Integers, FiniteSets

CONSTANTS
  User,         \* target ids of kind user
  Tweet,        \* target ids of kind tweet
  Worker,       \* search.worker_count loops
  NoWorker,     \* claimed_by IS NULL
  BatchSize,    \* search.queue_batch_size
  MaxAttempts,  \* search.max_attempts
  Overlap,      \* TRUE: a batch may outlast search.stale_timeout_seconds
  LockSets,     \* the sets of rows other statements may hold locked at a claim
  MaxVersion,   \* bound: changes of one target
  MaxRefreshes, \* bound: administrator re-enqueues
  MaxFaults     \* bound: errors and crashes

Target == User \cup Tweet

ASSUME SearchAssumption ==
  /\ IsFiniteSet(User) /\ IsFiniteSet(Tweet) /\ User \cap Tweet = {}
  /\ NoWorker \notin Worker
  /\ BatchSize \in Nat \ {0}
  /\ MaxAttempts \in Nat \ {0}
  /\ Overlap \in BOOLEAN
  /\ LockSets \subseteq SUBSET Target
  /\ {MaxVersion, MaxRefreshes, MaxFaults} \subseteq Nat

VARIABLES
  version,   \* the changes made to the target's rows, 0 if it has none
  status,    \* the queue row's status, "absent" if there is none
  attempts,  \* its attempt_count
  owner,     \* its claim
  aged,      \* TRUE if claimed_at is behind the stale cutoff
  index,     \* the document a search finds
  buffer,    \* the uncommitted operations of the writer: {}, or {v} for a
             \* delete followed by an add of version v (by no add if v = 0)
  up,        \* FALSE until the startup backfill is done
  pc,        \* pc[w]: what the worker does next
  cur,       \* the targets of its current index_task or index_tasks call
  docs,      \* the documents it fetched
  alone,     \* TRUE in process_tasks_individually
  rest,      \* the targets left to process individually
  refreshes, \* administrator re-enqueues so far (a bound)
  faults     \* errors and crashes so far (a bound)

queue  == <<status, attempts, owner, aged>>
work   == <<cur, docs, alone, rest>>
bounds == <<refreshes, faults>>
vars   == <<version, queue, index, buffer, up, pc, work, bounds>>

Statuses == {"absent", "pending", "processing", "completed", "failed"}
Steps == {"expire", "claim", "fetchUsers", "writeUsers", "fetchTweets", "writeTweets",
          "complete", "markFailed"}

NoDocs == [t \in Target |-> 0]

(* The search tables came after the facts: a database may hold users and   *)
(* tweets that no queue row and no index knows.                            *)
Init ==
  /\ version \in [Target -> {0, 1}]
  /\ status = [t \in Target |-> "absent"]
  /\ attempts = [t \in Target |-> 0]
  /\ owner = [t \in Target |-> NoWorker]
  /\ aged = [t \in Target |-> FALSE]
  /\ index = NoDocs
  /\ buffer = [t \in Target |-> {}]
  /\ up = FALSE
  /\ pc = [w \in Worker |-> "expire"]
  /\ cur = [w \in Worker |-> {}]
  /\ docs = [w \in Worker |-> NoDocs]
  /\ alone = [w \in Worker |-> FALSE]
  /\ rest = [w \in Worker |-> {}]
  /\ refreshes = 0 /\ faults = 0

Fault == faults < MaxFaults /\ faults' = faults + 1 /\ UNCHANGED refreshes

-----------------------------------------------------------------------------
(* search.enqueue_targets with p_force_refresh: whatever the row's status, *)
(* it becomes pending with no attempts and no claim.                       *)
EnqueueTargets(S) ==
  /\ status' = [t \in Target |-> IF t \in S THEN "pending" ELSE status[t]]
  /\ attempts' = [t \in Target |-> IF t \in S THEN 0 ELSE attempts[t]]
  /\ owner' = [t \in Target |-> IF t \in S THEN NoWorker ELSE owner[t]]
  /\ aged' = [t \in Target |-> IF t \in S THEN FALSE ELSE aged[t]]

(* write_twitter_users, append_user_snapshots_if_changed and write_tweets: *)
(* the change and the refresh of its row are one statement.  (A call that  *)
(* changes nothing enqueues nothing.)                                      *)
Change(S) ==
  /\ up /\ S # {}
  /\ \A t \in S : version[t] < MaxVersion
  /\ version' = [t \in Target |-> IF t \in S THEN version[t] + 1 ELSE version[t]]
  /\ EnqueueTargets(S)
  /\ UNCHANGED <<index, buffer, up, pc, work, bounds>>

(* POST search/index-tasks. *)
Refresh(t) ==
  /\ up /\ refreshes < MaxRefreshes
  /\ EnqueueTargets({t})
  /\ refreshes' = refreshes + 1
  /\ UNCHANGED <<version, index, buffer, up, pc, work, faults>>

-----------------------------------------------------------------------------
(* Startup, before the workers and the HTTP server run *)

Documents(f, kind) == Cardinality({t \in kind : f[t] # 0})

(* The kinds whose documents do not count as many as the database's rows   *)
(* are enqueued whole.                                                     *)
Backfill ==
  {t \in Target : /\ version[t] # 0
                  /\ \E kind \in {User, Tweet} :
                       t \in kind /\ Documents(index, kind) # Documents(version, kind)}

Startup ==
  /\ ~up /\ up' = TRUE
  /\ EnqueueTargets(Backfill)
  /\ UNCHANGED <<version, index, buffer, pc, work, bounds>>

(* A page of the backfill fails after others were enqueued: the process    *)
(* exits, to be started again.                                             *)
StartupFails ==
  /\ ~up /\ Fault
  /\ \E S \in SUBSET Backfill : EnqueueTargets(S)
  /\ UNCHANGED <<version, index, buffer, up, pc, work>>

(* Uncommitted operations are lost.  While the process is down the         *)
(* directory of an index may be removed, or a release may name a new one.  *)
Crash ==
  /\ up /\ Fault
  /\ up' = FALSE
  /\ \E kind \in {{}, User, Tweet} :
       index' = [t \in Target |-> IF t \in kind THEN 0 ELSE index[t]]
  /\ buffer' = [t \in Target |-> {}]
  /\ pc' = [w \in Worker |-> "expire"]
  /\ cur' = [w \in Worker |-> {}]
  /\ docs' = [w \in Worker |-> NoDocs]
  /\ alone' = [w \in Worker |-> FALSE]
  /\ rest' = [w \in Worker |-> {}]
  /\ UNCHANGED <<version, queue>>

-----------------------------------------------------------------------------
(* The worker loop *)

Goto(w, step) == pc' = [pc EXCEPT ![w] = step]

Restart(w) ==
  /\ Goto(w, "expire")
  /\ cur' = [cur EXCEPT ![w] = {}]
  /\ docs' = [docs EXCEPT ![w] = NoDocs]
  /\ alone' = [alone EXCEPT ![w] = FALSE]
  /\ rest' = [rest EXCEPT ![w] = {}]

Busy(w) == pc[w] \notin {"expire", "claim"}

Stale(t) == status[t] = "processing" /\ (owner[t] = NoWorker \/ aged[t])

GoStale(t) ==
  /\ status[t] = "processing" /\ ~aged[t]
  /\ Overlap \/ \A w \in Worker : Busy(w) => t \notin cur[w] \cup rest[w]
  /\ aged' = [aged EXCEPT ![t] = TRUE]
  /\ UNCHANGED <<version, status, attempts, owner, index, buffer, up, pc, work, bounds>>

(* expire_stale_tasks *)
ExpireStale(w) ==
  LET S == {t \in Target : Stale(t) /\ attempts[t] >= MaxAttempts} IN
  /\ up /\ pc[w] = "expire"
  /\ status' = [t \in Target |-> IF t \in S THEN "failed" ELSE status[t]]
  /\ owner' = [t \in Target |-> IF t \in S THEN NoWorker ELSE owner[t]]
  /\ aged' = [t \in Target |-> IF t \in S THEN FALSE ELSE aged[t]]
  /\ Goto(w, "claim")
  /\ UNCHANGED <<version, attempts, index, buffer, up, work, bounds>>

ClaimablePending(t) == status[t] = "pending"

Claimable(t) ==
  \/ status[t] = "pending"
  \/ Stale(t) /\ attempts[t] < MaxAttempts

(* ORDER BY pending first, FOR UPDATE SKIP LOCKED LIMIT batch_size.  The   *)
(* order of the rows' creation is left open.                               *)
IsBatch(S, locked) ==
  LET free == {t \in Target \ locked : Claimable(t)} IN
  /\ S \subseteq free
  /\ Cardinality(S) = IF Cardinality(free) <= BatchSize THEN Cardinality(free) ELSE BatchSize
  /\ (\E t \in S : status[t] # "pending") => \A t \in free : status[t] = "pending" => t \in S

(* index_tasks does the users first; a kind with no target is skipped. *)
FirstFetch(S) == IF S \cap User # {} THEN "fetchUsers" ELSE "fetchTweets"

ClaimBatch(w, S) ==
  /\ up /\ pc[w] = "claim" /\ S # {}
  /\ \E locked \in LockSets : IsBatch(S, locked)
  /\ status' = [t \in Target |-> IF t \in S THEN "processing" ELSE status[t]]
  /\ attempts' = [t \in Target |-> IF t \in S THEN attempts[t] + 1 ELSE attempts[t]]
  /\ owner' = [t \in Target |-> IF t \in S THEN w ELSE owner[t]]
  /\ aged' = [t \in Target |-> IF t \in S THEN FALSE ELSE aged[t]]
  /\ Goto(w, FirstFetch(S))
  /\ cur' = [cur EXCEPT ![w] = S]
  /\ UNCHANGED <<version, index, buffer, up, docs, alone, rest, bounds>>

(* sleep(poll_interval) *)
ClaimNothing(w) ==
  /\ up /\ pc[w] = "claim"
  /\ \E locked \in LockSets : IsBatch({}, locked)
  /\ Restart(w)
  /\ UNCHANGED <<version, queue, index, buffer, up, bounds>>

KindOf(step) == IF step \in {"fetchUsers", "writeUsers"} THEN User ELSE Tweet

(* fetch_user_documents, fetch_tweet_documents: the writer is not locked   *)
(* yet.                                                                    *)
Fetch(w) ==
  /\ pc[w] \in {"fetchUsers", "fetchTweets"}
  /\ docs' = [docs EXCEPT ![w] =
                [t \in Target |-> IF t \in cur[w] \cap KindOf(pc[w]) THEN version[t] ELSE @[t]]]
  /\ Goto(w, IF pc[w] = "fetchUsers" THEN "writeUsers" ELSE "writeTweets")
  /\ UNCHANGED <<version, queue, index, buffer, up, cur, alone, rest, bounds>>

(* Delete, add and commit; what others left uncommitted goes with it. *)
Commit(w) ==
  LET kind == KindOf(pc[w])
      ops(t) == IF t \in cur[w] THEN {docs[w][t]} ELSE buffer[t]
  IN /\ index' = [t \in Target |->
                    IF t \in kind /\ ops(t) # {} THEN CHOOSE v \in ops(t) : TRUE ELSE index[t]]
     /\ buffer' = [t \in Target |-> IF t \in kind THEN {} ELSE buffer[t]]

Write(w) ==
  /\ pc[w] \in {"writeUsers", "writeTweets"}
  /\ Commit(w)
  /\ Goto(w, IF pc[w] = "writeUsers" /\ cur[w] \cap Tweet # {} THEN "fetchTweets"
             ELSE "complete")
  /\ UNCHANGED <<version, queue, up, work, bounds>>

(* The next of process_tasks_individually's tasks, or the loop again. *)
Proceed(w, left) ==
  \/ left = {} /\ Restart(w)
  \/ \E t \in left :
       /\ Goto(w, FirstFetch({t}))
       /\ cur' = [cur EXCEPT ![w] = {t}]
       /\ docs' = [docs EXCEPT ![w] = NoDocs]
       /\ alone' = [alone EXCEPT ![w] = TRUE]
       /\ rest' = [rest EXCEPT ![w] = left \ {t}]

OwnedUnfenced(w) == cur[w]

OwnedByStatus(w) == {t \in cur[w] : status[t] = "processing"}

(* The rows of the call that the worker still has the claim of. *)
Owned(w) == {t \in cur[w] : status[t] = "processing" /\ owner[t] = w}

(* mark_tasks_completed, mark_task_completed *)
Complete(w) ==
  /\ pc[w] = "complete"
  /\ status' = [t \in Target |-> IF t \in Owned(w) THEN "completed" ELSE status[t]]
  /\ owner' = [t \in Target |-> IF t \in Owned(w) THEN NoWorker ELSE owner[t]]
  /\ aged' = [t \in Target |-> IF t \in Owned(w) THEN FALSE ELSE aged[t]]
  /\ Proceed(w, rest[w])
  /\ UNCHANGED <<version, attempts, index, buffer, up, bounds>>

(* mark_task_failed, of one task *)
MarkFailed(w) ==
  /\ pc[w] = "markFailed"
  /\ status' = [t \in Target |->
                  IF t \notin Owned(w) THEN status[t]
                  ELSE IF attempts[t] >= MaxAttempts THEN "failed" ELSE "pending"]
  /\ owner' = [t \in Target |-> IF t \in Owned(w) THEN NoWorker ELSE owner[t]]
  /\ aged' = [t \in Target |-> IF t \in Owned(w) THEN FALSE ELSE aged[t]]
  /\ Proceed(w, rest[w])
  /\ UNCHANGED <<version, attempts, index, buffer, up, bounds>>

-----------------------------------------------------------------------------
(* Errors *)

(* A failed batch is processed again task by task; a failed task is marked. *)
CallFails(w) ==
  IF alone[w] THEN Goto(w, "markFailed") /\ UNCHANGED work ELSE Proceed(w, cur[w])

FetchFails(w) ==
  /\ pc[w] \in {"fetchUsers", "fetchTweets"}
  /\ Fault
  /\ CallFails(w)
  /\ UNCHANGED <<version, queue, index, buffer, up>>

(* The delete and the add of a target's document. *)
Indexed(w, t) == {docs[w][t]}

(* An operation or the commit fails and leaves the writer with what it has *)
(* taken in, some deletes perhaps without their adds; or all is committed  *)
(* and the reader does not reload.                                         *)
WriteFails(w) ==
  LET S == cur[w] \cap KindOf(pc[w]) IN
  /\ pc[w] \in {"writeUsers", "writeTweets"}
  /\ Fault
  /\ \/ Commit(w)
     \/ \E reached \in SUBSET S : \E added \in SUBSET reached :
          /\ buffer' = [t \in Target |-> IF t \in added THEN Indexed(w, t)
                                         ELSE IF t \in reached THEN {0} ELSE buffer[t]]
          /\ UNCHANGED index
  /\ CallFails(w)
  /\ UNCHANGED <<version, queue, up>>

(* A failed expiry is logged; a failed claim sleeps; a task that cannot be *)
(* marked stays processing until its claim goes stale.                     *)
StatementFails(w) ==
  /\ up /\ Fault
  /\ \/ pc[w] = "expire" /\ Goto(w, "claim") /\ UNCHANGED work
     \/ pc[w] = "claim" /\ Restart(w)
     \/ pc[w] \in {"complete", "markFailed"} /\ Proceed(w, rest[w])
  /\ UNCHANGED <<version, queue, index, buffer, up>>

-----------------------------------------------------------------------------
WorkerStep(w) ==
  \/ ExpireStale(w)
  \/ \E S \in SUBSET Target : ClaimBatch(w, S)
  \/ ClaimNothing(w)
  \/ Fetch(w) \/ Write(w) \/ Complete(w) \/ MarkFailed(w)

Next ==
  \/ \E S \in SUBSET User : Change(S)
  \/ \E S \in SUBSET Tweet : Change(S)
  \/ \E t \in Target : Refresh(t) \/ GoStale(t)
  \/ Startup \/ StartupFails \/ Crash
  \/ \E w \in Worker : WorkerStep(w) \/ FetchFails(w) \/ WriteFails(w) \/ StatementFails(w)

Spec == Init /\ [][Next]_vars

(* The process is restarted, its loops never stop, claims age. *)
FairSpec ==
  /\ Spec
  /\ WF_vars(Startup)
  /\ \A w \in Worker : WF_vars(WorkerStep(w))
  /\ \A t \in Target : WF_vars(GoStale(t))

-----------------------------------------------------------------------------
TypeOK ==
  /\ version \in [Target -> Nat]
  /\ status \in [Target -> Statuses]
  /\ attempts \in [Target -> Nat]
  /\ owner \in [Target -> Worker \cup {NoWorker}]
  /\ aged \in [Target -> BOOLEAN]
  /\ index \in [Target -> Nat]
  /\ buffer \in [Target -> SUBSET Nat]
  /\ \A t \in Target : Cardinality(buffer[t]) <= 1
  /\ up \in BOOLEAN
  /\ pc \in [Worker -> Steps]
  /\ cur \in [Worker -> SUBSET Target]
  /\ docs \in [Worker -> [Target -> Nat]]
  /\ alone \in [Worker -> BOOLEAN]
  /\ rest \in [Worker -> SUBSET Target]
  /\ refreshes \in Nat /\ faults \in Nat

(***************************************************************************)
(* Properties                                                              *)
(***************************************************************************)

(* The fenced updates keep max_attempts exact, whatever goes stale and is  *)
(* claimed again: a target has at most max_attempts attempts per refresh,  *)
(* and a pending one has an attempt left.                                  *)
AttemptsBounded ==
  \A t \in Target :
    /\ attempts[t] <= MaxAttempts
    /\ status[t] = "pending" => attempts[t] < MaxAttempts

(* A refresh is never lost to a worker that is busy with the target: a     *)
(* task is completed only by a worker that read what the database holds at *)
(* that moment, however long ago it read it.                               *)
NoRefreshLost ==
  [][\A t \in Target :
       status[t] = "processing" /\ status'[t] = "completed" =>
         docs[owner[t]][t] = version[t]]_vars

(* What no queued task will index is indexed: when the process is up, a    *)
(* target with no task, or whose task is completed, is found by a search   *)
(* as the database holds it (docs/architecture.md, search, step 4).        *)
CompletedIsFresh ==
  up => \A t \in Target : status[t] \in {"absent", "completed"} => index[t] = version[t]

(* Every change can be searched in the end, or its task has failed, over   *)
(* crashes, lost indexes, batches that fail and claims that go stale.      *)
EventuallySearchable ==
  \A t \in Target : []<>(index[t] = version[t] \/ status[t] = "failed")

=============================================================================
