# Formal models of tweet-db

tweet-db is one Rust process over one PostgreSQL database and an S3-compatible
bucket: it receives tweets, users and media from submitters, keeps their
versions, copies media to the bucket, and offers search over two Tantivy
indexes that live in the process. This directory holds TLA+ models of the parts
where several actors change the same state, model-checked with TLC, and proofs
of their main properties for TLAPS. All line numbers below are of the
repository at the commit this directory was written for; `PROJECT.json` maps
every definition to the lines it models.

## 1. Inventory of the system

| Component | State | Operations | Talks to |
|---|---|---|---|
| Media transfer queue (`server/src/transfer/queue.rs`, `worker.rs`, migration `20260423000060`) | rows of `media.transfer_task` and `media.storage_object` | enqueue, claim, expire, persist, mark failed; retry, cancel, release by administrators (`internal_api/v2/transfer.rs`, repeated in `admin/v1.rs`) | submit pipeline, bucket, administrators |
| Upload pipelines (`transfer/upload.rs`, `range.rs`, `download.rs`, `common.rs`) | the futures, buffers, hash and part tables of one transfer | choose a path; one PutObject; sequential or parallel multipart upload; abort | source server, bucket |
| Object storage client (`storage.rs`) | none of its own | put, create/part/complete/abort, presign | bucket |
| Search outbox and workers (`server/src/search/`, migrations `…080`, `…090`) | rows of `search.index_queue`, two index writers with uncommitted operations | enqueue with the write, claim a batch, fetch, write and commit, complete, fail, expire, startup backfill | write functions, administrators, Tantivy |
| Search queries (`search/mod.rs`, second half) | none | parse and run queries | Tantivy, read path |
| Authentication (`auth/`, `db.rs`, `internal_api/v2/identity.rs`) | pending logins, authorizations, sessions, bindings, disabled users | login, callback, registration, refresh, revocation webhook, logout, disable/enable | SSO service |
| Tweet submission (`tweet_submit/`) | none between requests | validate, prepare, a fixed sequence of independent statements, result per item | tweet store, transfer queue, dictionary |
| Tweet store (`tweet_store/`, migrations `…030`–`…050`) | version rows per user, media and tweet; relations | append-if-changed, upserts, relation synchronisation | outbox |
| String dictionary (`string_dict.rs`) | a two-way cache of `tweet.string_dict` | load, refresh, get, ensure | database |
| Read paths (`tweet_query/`, `tweet_store/read.rs`, `internal_api/v2` lists, `admin/`) | none | lists with keyset cursors, JSON assembly | database, search |
| Configuration, routing, static files, web UI | read once, or none | - | - |

What is hard, by component, and what makes each correct:

- **Transfer queue.** Claims are taken from running workers (stale timeout,
  `release`), and both `persist_completed_task` and `mark_task_failed` update by
  id alone. Correct: attempts stay within the budget, every task comes to rest,
  no record is orphaned, a record describes what its key holds, a finished or
  canceled task is not touched by a worker that lost it.
- **Upload pipelines.** Downloads and uploads finish in any order, within three
  limits; an error or the deadline may come at any await. Correct: the digest
  is that of the parts in order, only whole objects are completed, memory is
  bounded, the `select!` never has all branches disabled, the path chosen fits
  the body, byte ranges tile the source.
- **Search.** Changes refresh a row while it is being processed, claims go
  stale, batches fail half-way and leave operations in a shared writer, the
  index may be lost. Correct: no refresh is lost, what is not queued is
  indexed as the database has it, attempts are bounded, every change becomes
  searchable or its task fails.
- **Authentication.** A handler trusts the session record the middleware read
  before its awaits; the SSO's answer arrives late and is written over what
  another request wrote; registration, a second sign-in and the disabling of an
  account run at once. Correct: a revocation takes hold within the cache time
  and the delay of one answer, the four identity tables agree, nobody reaches a
  handler as registered before an administrator enabled the account, a
  deleted session stays deleted and none outlives its absolute limit.
- **Submission and store.** A request is some twenty independent statements,
  each of which may fail or lose its answer; snapshots arrive out of order;
  requests overlap; a resubmission repeats everything. Correct: what a result
  calls stored is stored, nothing is lost without a word, the history of a
  parent is what was observed, nothing stored is cleared, every version gets
  its transfer task in the end, the references are those of the last submission.
- **Dictionary.** Cache against table under concurrent inserts, failures and
  restarts; ids burn and run out; statements deadlock; three lists of fields
  must agree. Correct: a cached id is the table's id in both directions, known
  strings cost nothing, a process reads back what it wrote, every call returns.
- **Paged lists.** Writers move rows while a client goes from page to page, and
  the client may change what it asks for. Correct: a row nobody writes is listed
  once, a traversal answers one query and ends.

`PROJECT.json` lists the hazards with their lines, and components with what is
left out and why.

## 2. Plan

| Order | Module | Models | State |
|---|---|---|---|
| 1 | `TaskLifecycle` | what the transfer queue promises about a task (abstract) | written |
| 2 | `TransferQueue` (+ `MCTransferQueue`, `TransferQueueProofs`) | queue, workers, administrators, bucket | written, proved |
| 3 | `RangeUpload` (+ `RangeUploadProofs`) | the parallel pipeline of one transfer | written, proved |
| 4 | `RangeSpecs` | the loop of `build_range_specs` | written, proved in 6 |
| 5 | `SequentialUpload` | the choice of path and the sequential pipeline | written, proved in 6 |
| 6 | `UploadPaths` (on `UploadLimits`, + `UploadPathsProofs`) | composes 4 and 5: one body through either path | written, proved |
| 7 | `SearchQueue` (+ `MCSearchQueue`, `SearchQueueProofs`) | outbox, workers, two indexes | written, proved |
| 8 | `AuthSession` (+ `MCAuthSession`, `AuthSessionProofs`) | login, sessions, refresh, revocation, registration, disabling | written, proved |
| 9 | `TweetStore` | the write functions of schema `tweet`, as operators on tables | written |
| 10 | `SubmitPipeline` (+ `MCSubmitPipeline`, `SubmitPipelineProofs`) | concurrent submissions over `TweetStore`, their failures and results, the enqueueing of transfers | written, safety proved |
| 11 | `DictEntries`, `StringDict` (+ `MCStringDict`, `StringDictProofs`) | which strings each kind of row holds; the table, its caches and `dict_id` | written, safety proved |
| 12 | `ListHandlers`, `PagedLists` (+ `PagedListsProofs`) | every paged list, its cursors and the writers beside it | written, safety proved |

What the plan has left: the refresh of a search row beside the write of
`SubmitPipeline`, so that a submission can be followed to a search; and the read
path of one tweet across several statements, which may see its parts at different
times.

## 3. Modules and the code

### TransferQueue

One action is one SQL statement or transaction, or one whole transfer; between
two actions anybody may run, which is what PostgreSQL's row locks at the level
READ COMMITTED allow here: every statement locks the row it updates, and
each of the transactions modelled locks one task.

| Code | Action or variable |
|---|---|
| `enqueue_tasks` … `ON CONFLICT DO NOTHING` | `Enqueue`, `OnConflict` |
| `retry_task`, `cancel_task`, `release_task` through `transition_locked_task` | `Retry`, `Cancel`, `Release`, `Transition` |
| `expire_stale_tasks` | `ExpireStale` |
| `claim_next_task`, order and `SKIP LOCKED` | `ClaimTask`, `ClaimNothing`, `IsNext` |
| `transfer_source_to_storage` | `TransferOk`, `TransferFails` |
| `persist_completed_task` | `Persist`, `PersistConflict`, `CommitUnacknowledged` |
| `mark_task_failed` | `MarkFailed` |
| an SQL error, process exit and restart | `StatementFails`, `Crash` |

`pc[w]` is the statement `run_worker_loop` runs next and `job[w]` the task it
was given. Time is a flag: a claim is fresh, then stale (`GoStale`). With
`Overlap = FALSE` a claim goes stale only when nobody runs it, which is the
case when `attempt_timeout_seconds` is set and below
`task_stale_timeout_seconds`; the configuration does not compare the two
(`config/mod.rs:161`), so `Overlap = TRUE` is modelled too. An upload is known
by task, attempt and key extension, since the key holds only these and
`attempt_count` never decreases. Audit events count the retries and releases
that the attempt budget refers to. `TaskLifecycle` is the abstract
specification, related by `StoredTasks`.

### RangeUpload, RangeSpecs

`RangeUpload` is `upload_multipart_range`: one async task whose steps lie
between two awaits. `Launch` and `EndHead` are the head of the loop,
`Downloaded` and `Uploaded` the two branches of `select!`, `AcquirePermit` the
semaphore, `HashReady` and `MarkUploaded` the functions of `range.rs`,
`PartFails`, `CompleteFails`, `CreateFails` and `DeadlinePasses` the errors,
`Abort` is `finish_or_abort_multipart` - which runs under the deadline that may
just have passed, so its request may never be sent. Bytes are part numbers.
Every part has the length its range asked for (`download_range_part` checks
it), so the comparison with Content-Length is that of the part count.

`RangeSpecs` is the loop of `build_range_specs`, one iteration a step, with
offsets of a bounded width and the saturating addition.

### SequentialUpload

From the first buffer on: `ReadFirst` and `ReadSecond` choose the path, then
`Queue`, `ReadNext` and the drain. A body is a number of buffers, the last one
full or not, with or without Content-Length and range support. Futures of
`FuturesUnordered` advance only while the task awaits the set: `Polled` says
when, and `AcquirePermit` and `Uploaded` happen only then. `Waiting` is the set
of states in which there is a request or a read to fail.

### UploadPaths

`TakePath` is a step of `SequentialUpload`, `BuildRanges` one of `RangeSpecs`,
which begins where the path was chosen, behind the first buffer. The body has a
length in bytes here, so that the ranges and the buffers of one body can be
compared.

### SearchQueue

`Change` is a write function together with the refresh of the queue row, one
statement; `Refresh` the administrator's request; `Startup` the backfill by
count. A worker expires, claims a batch, then for users and tweets in turn
fetches documents (`Fetch`) and - later, under the writer's mutex - deletes,
adds and commits them (`Write`). A failed batch is processed again one by one
(`CallFails`, `Proceed`). What a failed call left in the writer stays in
`buffer` and goes out with the next commit of anybody (`WriteFails`, `Commit`).
A document is the version of the rows it was made from. Completion and
failure are fenced by `claimed_by` and `claimed_at` (`Owned`).

### AuthSession

| Code | Action or variable |
|---|---|
| `begin_sso_login` | `BeginLogin` |
| `consume_pending_sso_login`, its SELECT and its DELETE | `ReadLogin`, `DeleteLogin` |
| `sso_callback`: `exchange_code`, `find_subject_binding`, `upsert_authorization`, `create_session` | `ExchangeCode`, `FindBinding`, `UpsertAuthorization`, `CreateSession` |
| `resolve_request_session`: `find_session`, `delete_session`, `touch_session` | `FindSession`, `DropSession`, `TouchSession`, `SkipTouch` |
| `refresh_authorization_if_needed` | `CheckAuthorization`, `ConfirmAuthorization`, `RefuseAuthorization`, `PurgeSessions` |
| `revocation_webhook` | `RevocationWebhook`, then as above |
| `bind_username_to_subject` (one transaction) | `BindUsername`, `Bindable` |
| `internal_logout` | `Logout`, then `DropSession` |
| `disable_user`, `enable_user` (one transaction each) | `DisableUser`, `EnableUser` |

`req[r]` is one HTTP request: `pc` is the statement or call it makes next, the
other fields are what it has read so far - the `SessionRecord` the middleware
attaches and every handler trusts, or the sign-in it completes. Nothing is read
again after an await unless the code does so. `EndRequest` ends a request at any
await: an error, a client that goes away, a crash. Time is a clock of ticks;
`ArrivalTimes` are the times at which the code may have stamped an answer, no
later than the HTTP client's time limit. `revokedAt` and `approved` are history
for the properties. Of a row that is not active only the status matters, since
its `last_checked_at` is never read. `is_admin` is set by hand in the database
and is a constant. The SSO is outside the repository: it may revoke an active
authorization at any time, and it does not hand out a revoked one again.

### TweetStore, SubmitPipeline

A table is a function from keys to rows. `TweetStore` has one operator per SQL
function in force (migration `050`, replaced in part by `090`, and `040`), with
what the functions share written once: `Filled` is the `COALESCE` of the
upserts, `Changed` what `RETURNING` yields, `Decision` the comparison with
`latest`, `SyncPlan` the `WITH` list of the reference functions. At READ
COMMITTED a statement reads one snapshot and `ON CONFLICT` looks at the row as
it is when its lock is held, so a statement whose reading matters is two steps:

| Code | Action or operator |
|---|---|
| `submit_tweets`, the limit of objects | `Started` |
| `resolve_submit_lookup_ids`: `upsert_user_categories`, `upsert_hashtags`, `upsert_symbols` | `ReadLookup`, `CommitLookup`, `LookupRows` |
| `prepare_submit_batch` and the converters | `Convert`, `Plan`, `Refusals`, `ConversionFailures` |
| `preload_submit_batch_dicts` | `Preload` (its insides are `StringDict`) |
| `write_combined_user_batch`, `write_media_batch`, `write_tweet_places_batch` to `write_tweet_community_notes_batch` | `WriteRows`, `ForeignKeysHold` |
| `write_user_snapshots_batch`, `write_user_stats_batch`, `write_media_resources_batch`, `write_tweet_stats_batch` | `DecideVersions`, `AppendVersions` |
| `enqueue_prepared_media_transfers`, `select_source`, `enqueue_tasks` | `EnqueueTransfers`, `SelectSource`, `SourceVersion` |
| `replace_prepared_tweet_relations`, `sync_tweet_relations` (one transaction of four statements) | `PlanRelations`, `CommitRelations` |
| `ObjectResultBuilder` | `Result`, `Reports`, `Failures`, `ObjectStatus` |
| `create_media_transfer_task` | `ReadSource`, `CreateTransferTask` |
| a dropped connection or process | `Abandon` |

`Steps` is the order of `execute_prepared_submit`; a step without work is
skipped as in the code. Every statement has three outcomes: it takes effect, it
fails, or it takes effect and is reported failed. `seen`, `untidy` and
`lastSync` are history for the properties.

### DictEntries, StringDict

`DictEntries` writes down, for each kind of row with strings, what
`collect_*_dicts` preloads (`Entries`), what `*_payload` looks up (`Payload`) and
what the builders of `tweet_query` read back (`Build`) - three lists in the
code that must agree. `StringDict` is one call of `ensure_many` after another
by requests of several processes: `Begin` compares with the cache, `Look`,
`Insert` and `Waited` are the three statements of `dict_id` for one string,
in any order within the call, `Commit` and `Cache` its end. A unique key that
another open transaction has inserted makes the insert wait; the sequence does
not go back. `AbortDeadlock` is PostgreSQL's, `Restart` loads the cache anew.

### ListHandlers, PagedLists

`ListHandlers` is a table of the handlers: what orders the list, which filters
shape it, which of them the cursor is compared with, and what happens to its
rows. `PagedLists` reads any of them page by page: `Answer` is a handler from
the comparison of the cursor to the new cursor, `Refusal` its 400, and the other
actions are the writers of the rows, the index worker and users who change
their names. Rows are their position and whether the filters select them.

## 4. Runs

| Run | Bounds | Shows |
|---|---|---|
| `transfer_contended` | 2 tasks, 2 workers, 2 attempts, 1 release per task, 1 fault, claims stale under workers, commit answers lost | `AttemptBudget`, `RowsAreReferenced`, `EveryTaskSettles` |
| `transfer_disciplined` | 2 tasks, 2 workers, 2 extensions, 1 retry per task, 1 fault, a locked row | `ClaimIsOwned`, `RowDescribesBucket`, and that the queue implements `TaskLifecycle` (`ImplementsLifecycle`) |
| `transfer_stored_reverts` | 1 task, 2 workers, 1 release | violated: a completed task goes back to pending (section 7) |
| `range_window` | 6 parts, window 3, 2 downloads, 2 uploads | `HashedInOrder`, `CompleteIsWhole`, `InFlightBound`, `SelectHasBranch`, `Finishes` |
| `upload_paths` | bodies of 0 to 6 buffers of 1 to 4 bytes, offsets of 4 bits, window 3, part limit 5 | `WholeObject`, `HeldBound`, `PathsCutAlike`, `RefusedIffTooLong`, `Finishes` |
| `search_single` | 1 user, 2 tweets, batches of 2, 2 versions, 2 faults | `CompletedIsFresh`, `EventuallySearchable` |
| `search_fleet` | 1 user, 1 tweet, 2 workers, stale claims, locked rows, 1 refresh, 1 fault | `NoRefreshLost` |
| `auth_revocation` | 1 subject, 2 requests, 2 sessions, cache time 1, answer delay 1, session lifetime and absolute limit 3, clock to 3 | `RevocationTakesHold`, `LifetimeCapped` |
| `auth_accounts` | an administrator and an unregistered subject, 2 requests, 3 sessions, 2 free names, no time, no cache | `IdentityAgrees`, `ActivationRequired`, `SessionOneWay` |
| `submit` | ten loads of 1 to 3 concurrent requests of up to 3 objects, 1 fault | `ReportedIsStored`, `NothingLostSilently`, `HistoryFaithful`, `FactsAreKept`, `RelationsMatch`, `TransferOwed` |
| `dictionary` | nine loads, 2 processes, 3 callers, 5 ids, 1 fault | `CacheAgrees`, `PreloadCovers`, `OwnRowsReadable`, `KnownStringsAreFree`, `EveryCallReturns` |
| `lists` | every handler, 3 rows or documents, 2 times, 2 writes, limits 0, none and too large, pages of at most 2 | `StableListedOnce`, `RepeatsOnlyWhenSetBack`, `PagesOfOneQuery`, `IssuedCursorAccepted`, `TraversalEnds` |

Type invariants and the inductive strengthenings of section 6 are proved for
all constants and not run as well; the shapes of the rows and pages of
`SubmitPipeline` and `PagedLists` are part of `ReportedIsStored` and
`TraversalEnds`.

Why the bounds are enough: two workers are what it takes to lose a claim to
another, two tasks what it takes for one to wait behind the other; two attempts
give a first, a last and an exhausted one. Six parts exceed the window of three
and the parallelism of two, so the window fills with parts that wait for their
hash. Five buffers exceed the window of the sequential path and the sixth the
part limit. Two tweets against batches of two, with a user, give a batch that
leaves a task behind and a commit that publishes another call's leftovers; two
faults with two attempts give a task that fails for good. The versions of a
target matter only by "older, newer", so two changes suffice. A revocation is
missed by a decision taken before it: two requests are the one that decides and
the one that overwrites or refuses, and three ticks are the cache time, the
delay and the first moment at which both have passed. Two subjects and two free
names are what a registration under the wrong subject or a second name needs,
three sessions two of one subject and one of the administrator.

The loads of `submit` each aim at one kind of meeting: versions of one user at
three times in every order (with a change back, and statistics within and beyond
the interval), two states of one tweet whose references overlap while a medium
arrives, a tweet submitted again, one resource seen three times, with sources
on which Rust and SQL disagree and an administrator who asks first, the same new
names looked up twice at once, every part of a tweet, and everything that is
refused. Three versions are what it takes to arrive late behind one and before
another. In `dictionary` two requests of one process and one of another are what
it takes to share a cache and to differ from one; five ids are fewer than the
strings with the burnt ones. In `lists` a page of one or two of three rows has a
row before, at and behind the cursor, and two writes move one there and back.

Deadlock is checked where the system runs for ever (the queues) and not for a
single transfer, which ends.

Every property of a passing run has a mutant in `PROJECT.json`: a changed
definition of the code, in the same module, under which TLC finds the property
violated.

## 5. Fairness

The safety runs assume none. `EveryTaskSettles` and `EventuallySearchable`
assume weak fairness of each worker loop (`run_worker_loop` is an unconditional
`loop` in a spawned task, and every error is logged and survived), that claims
age, and that the process is restarted after a crash. Faults are bounded in
number: a database that fails for ever makes no progress. Fairness of the loop
includes that a transfer ends, one way or the other; the code guarantees it
when the attempt or the read timeout is set, or the peers answer. `Finishes`
of the pipelines assumes only that the task is polled when what it waits
for is ready and that a request is answered or fails. `EveryCallReturns` assumes that a
statement under way goes on, that PostgreSQL breaks a deadlock (it does after
`deadlock_timeout`) and nothing of who waits first; `TraversalEnds` that a client that is
given a cursor asks again. No fairness is
assumed of submitters, administrators, faults or crashes. Row locks at a claim
(`LockSets`) are left out of the liveness run of transfers: a lock is held
for the time of one statement.

The models assume that a worker task does not panic. `SelectHasBranch` excludes
one panic; a document row with a NULL body (`search/mod.rs`, `row.get`) would be
another and is not modelled.

## 6. Proofs

Eight modules hold machine-checked proofs, for all values of the constants under
the named assumptions of each module. `TransferAssumption`, `RangeAssumption`,
`SequentialAssumption` and `SearchAssumption` restate what the configuration
validates (`config/mod.rs:130-172`), the last also that the users and the tweets
are finite sets with no member in common; `AuthAssumption` gives the constants
their types and says that the users there are at the start belong to one subject
each. `DictAssumption` gives each caller its process and its sequence of objects,
each of one of the kinds the code knows and with the fields of its kind
(`tweet_model.rs`: a text may be missing, a list only be empty), and the two
bounds, and says that NULL is no list of ids; `SubmitAssumption` says that the
loads have the shape that the deserialiser and `validate.rs` let through - lists
are sequences, a column that is NOT NULL is given a value - and that SQL's NULL is
no Boolean; `NullAssumption` says that NULL is neither an id nor the text shown for
an unknown id, and that trimming leaves it NULL, `ListAssumption` that ids, times and limits are
naturals, the ids finitely many, and the default limit at most the largest
(`common.rs`), and `LimitsAssumption` that there is a largest offset and a largest
part number.

**TransferQueue.** `TypeTheorem` first. `AttemptBudgetTheorem`: a pending task must
have one more attempt to come, hence `AttemptBudgetInv`, which is inductive: a
claim of a pending task spends that attempt, a failure gives it back only below
the limit, a retry or release pays for it. It holds with no discipline at all.
`RowsTheorem`: with one extension per task the unique key admits one row, and the
task points to it; two extensions would break it, hence the assumption
`Cardinality(Ext) = 1` in effect. `ClaimTheorem`, `BucketTheorem` and
`LifecycleTheorem` assume `Disciplined` - no claim taken from a running worker,
no release, no lost answer - and follow from `DisciplineInv`: a running
worker's claim is fresh, its upload is still in the bucket when it is recorded,
and a task with a record is completed, so no claim, retry or expiry touches
it. Without the assumption they are false (section 7).

**RangeUpload.** The invariant `IInv` joins `PipelineInv`, which says how each table
follows from the others between two steps: parts with bytes are those at or
after `next_hash_part`, uploads are the table without the uploaded, every
launched part is downloading, in the table or hashed, and `next_hash_part`
itself never sits in the table with its bytes. From it follow
`HashTheorem`, `WholeTheorem`, `NoPartLostTheorem`, and `SelectTheorem`: if nothing
downloads or uploads, every table entry is uploaded and waits for its hash, so
`next_hash_part` would be among them, which is excluded; hence the table is
empty and the window has room. `InFlightTheorem` counts with the finite-set
lemmas.

**AuthSession.** `Inv1` joins the types and the shape of the records (which
stages of a request have a session and an authorization) and carries the rest.
`RevocationCorrect`: what is not inductive is where a decision comes from, hence
`RecentInv`: an active row was checked at most an answer's delay after the
revocation, a sign-in began and an answer was given before it, and an admitted
request's decision adds the cache time to that. `IdentityCorrect`: a sign-in
holds a binding it read before, so `IdentityInv` adds that this is still the
subject's, which follows because a binding never changes once made, and that a
request's session, if it still lives, has the authorization it read.
`ActivationCorrect` adds that a copy of an account that is not disabled is that
of an approved one. `LifetimeCorrect` and `SessionOneWayCorrect` follow from
these.

**Upload paths.** Along the sequential path the parts are in three places, in
order: a prefix given to the hasher, each part of it uploading or completed, and
behind it the buffers in hand (`Accounted`). Completion waits for an empty
window, so then the prefix is the body (`SequentialTheorem`); a second buffer in
hand is only there before the first part is queued, so the window and one more
bound what is held (`HeldTheorem`). The loop of `build_range_specs` always stands at an edge,
a multiple of the chunk, or at the end of the body (`Ranged`), from which the
tiling, the refusal (`RangesTheorem`) and the equality with the sequential
buffers (`PathsTheorem`) are arithmetic of edges. `Length <= MaxUint` is the
only thing asked of the width of offsets: the saturating addition is reached
and does no harm.

**SearchQueue.** `AttemptsTheorem` by the rows alone. `RefreshTheorem`: what a
worker has read of its present call is what the database holds as long as the
claim is the worker's (`DocsFresh`), because a change of the target takes the claim
away in the same statement and a claim of another worker changes the owner.
`FreshTheorem`, with one worker: a target whose task is completed, or that
never had one, is in no writer and in no worker's hands (`Settled`, `Unknown`),
so only a loss of the index can set it back, and then the counts of the
backfill differ - no index holds a document without rows (`Known`), so equal
counts are equal sets. A second worker breaks exactly one fact, that what was
written stays written while the worker goes on to the completion
(`WrittenThere`). Neither theorem asks that claims stay fresh.

**SubmitPipeline.** `FactsAreKeptTheorem`: every write of `TweetStore` keeps the
rows there are and the values in them (`FilledKeeps`, `UpsertKeeps`,
`AppendedKeeps`, `WriteKeeps`), whatever it is given; so does every step of
every request, failed or not (`NextKeeps`). The invariant it needs is only that
the store has the shape of a store (`StoreTheorem`). The other theorems are of the
requests, whose twenty-three steps are a sequence searched by `After`; so come
first the lemmas that say what each handler does to its request (`...Turn`, from
`AfterIs`), what a plan is made of (`PlanIsFrom`: entries of items that count,
each with the key and row of its item; `KeysApart`: one entry per key but for
users and places) and what the rows of a table are (`RowsHaveColumns`,
`FirstEntry`).

- `NothingLostTheorem`: a request that reaches a step has answered every entry of
  every table before it (`Reached`, `Staged`). A step that is passed over has no
  entries; the conversion answers what it leaves out of the plan; the preload,
  when it fails, answers all. At the end the parts of each object are compared
  with the tables of the plan (`UserPartsAnswered` and its like). `StagesTheorem`
  is the invariant.
- `ReportedTheorem`: no step removes a version or a queue row (`NextGrows`), so
  what was told truly stays true (`TruthStays`); it remains that each result is
  true when it is given (`Truthful`). For facts that needs the columns of the rows
  in the store (`SoundStore`: a row that exists can be filled where the input has
  a value), for versions what the statement has read (`Decided`: a version decided
  to be unchanged is that of the latest row, and rows stay).
- `RelationsTheorem`: a plan made for a table gives each tweet it found what its
  entry lists (`PlanGivesWanted`), and goes on to do so until another sync of the
  tweet is committed (`Fits`). That this shows when the sync commits is the point
  of the proof: the syncs a request has read are of requests that are done, a
  commit is of a request that is not, so a new one differs from every one read
  (`CommitShows`); and a commit touches no tweet but those it synced
  (`CommitLeaves`). The model's history names the request of each sync for this.
- `HistoryTheorem` goes parent by parent. What is not inductive is what an append may
  rely on, hence `Current`: a decision still stands (`Stands`: the latest version
  before the input equals it, or differs from it and is far enough) for every
  parent that is still tidy and all of whose remembered inputs the statement had
  read. Another request that appends to such a parent remembers an input that was
  not read, or leaves the parent untidy (`CurrentAppended`). An append to a tidy
  parent is then of an input later than all the others (`AppendTimely`), so it only
  lengthens the history at its end (`FaithfulLonger`) or is already what the end
  shows. That each parent has one entry in a plan (`ParentsApart`) is needed, too.
- `QueuedTheorem`: a verdict on a stored resource waits for the enqueueing, no step
  goes back behind it (`MovesOnward`), and the enqueueing answers every verdict it
  finds (`EnqueueIs`); what it calls queued has its row, which stays (`Owing`).
- `TransferTheorem` adds the URL. A task's URL is the one chosen for the medium its
  version came from, or one an administrator asked for (`Sourced`), every stored
  version came from a medium of the load (`VersionsSubmitted`), and the statement
  finds the version asked for or one that may have the same source (`VersionIs`).
  That both are of one choice is the hypothesis `SourcesAgree`; the run evaluates it
  for its loads. It cannot be left out: of three requests for one medium, with the
  URL a at the time 1 and b, then a again, at the time 2, the second stores its
  version and queues b; the third finds "unchanged" only if it decided before the
  second one's append, and is then answered with the task of b.

**StringDict.** `DictInv` joins the table, what the open calls have inserted and
what they hold: an id in the table or in the hands of an open call is below the
next one of the sequence and has one string, the strings that two open calls
have inserted and not committed are apart, and what a call was given is in the
table or among its own inserts. From it `CacheCorrect`, and `KnownCorrect`: a call
draws an id only for a string the table did not hold when the call began.
`ReadInv` adds the caches: their two directions mirror each other, an entry stays
until the process restarts and is then read from the table, what a call has not
to look up any more is in its cache or in its hands, and the ids of a row are in
the cache of the process that wrote it. `PreloadTheorem` joins that to the walk of an
object: what the preload collects is what the row looks up, field by field of
each kind. `ReadableTheorem`: the row is read back as the object it was made of.

**PagedLists.** `PagesOfOneQueryTheorem` and `IssuedCursorTheorem` follow from
`OneQuery`: the pages given so far answer the query that the cursor in hand was
issued for, and a cursor is refused only where names changed hands; it uses of
each handler that it compares every filter that shapes its list
(`HandlersCheckWhatTheyUse`), which is checked handler by handler.
`RepeatsTheorem` and `StableListedTheorem` need what was listed (`Listing`). Of a
list of rows (`Rows`): nothing listed comes after the cursor unless it was set back
meanwhile; what was listed and not set back stands where it was listed or before
it; and a row to be listed once is selected, and was listed or comes after the
cursor. Of a list of hits, whose cursor is an offset, the same cannot be said while
documents change; as long as nothing was indexed, what was listed is the first
`offset` hits of the ranking (`Indexed`). Both rest on lemmas about sorting: the
place of an element in a finite strict order, counted by those before it, numbers
the elements one to one (`RankMonotonic`, `Numbering`), so a sorted list holds each row
once and in order (`SortedLists`), and a page is its beginning (`FetchedPage`).
`LimitPositive` - a page asked for is never empty by its limit - is where the
clamping of limits enters.

**Only model-checked.** Liveness (`EveryTaskSettles`, `EventuallySearchable`,
`EveryCallReturns`, `TraversalEnds`, `Finishes`), which is out of the prover's
reach; every invariant of the passing runs is stated by a theorem.

## 7. What the models found

1. **A completed task goes back to pending** (`transfer_stored_reverts`). A
   worker is released while it transfers, a second one claims and completes the
   task; the first one's insert violates the unique object key, and
   `mark_task_failed` (`queue.rs:309`), by id alone, sets the task pending. Every
   further attempt meets the same key.
2. **A cancel is undone.** Release, then cancel, while the worker still runs: its
   final update (`queue.rs:198` or `309`) replaces `canceled`, where
   `docs/api.md` has only retry do that. `ImplementsLifecycle` holds only where no
   claim is taken from a running worker, for this reason.
3. **A search index may stay stale.** Documents are read before the writer lock
   (`search/mod.rs:263`, `295`): with `search.worker_count` above its default of 1
   a delayed older document overwrites a newer one whose task is completed. With
   one worker this cannot happen (`search_single`, `FreshTheorem`).
4. **One buffer more.** The sequential path reads the next buffer before it waits
   for room (`upload.rs:198-201`), so it holds `max_in_flight_parts + 1`, the
   bound that `HeldBound` states; `docs/architecture.md` says
   `max_in_flight_parts`.
5. **Late snapshots are compared with the older side only.** A value seen at 1 and
   again at 4 is stored once; another value of 2 that arrives afterwards is
   stored, and the history then shows it at 4. `HistoryFaithful` is therefore
   stated of parents whose versions came in order and one at a time.
6. **Two ideas of a source.** `select_source` and `enqueue_tasks` choose the
   source URL of a version apart: the first compares `video/mp4` without regard to
   case and takes the last of equal bitrates, the second compares exactly. Where
   they disagree an unchanged version that is submitted under a later time is not
   found again. `TransferOwed` is proved for requests that agree on the sources of
   a medium (`SourcesAgree`); where two of one time do not, the second is answered
   with the task of the first (section 6).
7. **An id without a task.** `create_media_transfer_task` (`media.rs:439`) answers the
   id of the task it meant to insert also when the insert met an existing row; only
   `created: false` in the answer tells that no task has this id.
8. **One missing reference fails the batch.** The tweets of a request are one
   statement: where one tweet's author or place is not stored, its foreign key
   fails all of them. The results say so (`NothingLostSilently`).
9. **Empty relations are relations.** A tweet submitted without its media,
   mentions or links has those it had deleted: `RelationsMatch` is that of the last
   submission, not of the union.
10. **A tag may be neither inserted nor found.** A lookup whose tag another
    transaction inserts while it runs gets no id and refuses the texts with it
    (`NothingLostSilently` covers the report); the same request sent again succeeds.
11. **Cursors have no list in them.** A cursor of one list is accepted by another
    whose filters have the same names and values; `PagesOfOneQuery` is about
    the cursors of one list.
12. **A second process does not learn.** A cache is filled at startup and by its own
    calls; `OwnRowsReadable` is about what a process wrote itself, and rows of
    another process read back without their new strings until a miss or a restart.

## 8. Not modelled

- **Query syntax and tokenizers** (`search/mod.rs`, second half): text processing
  inside Tantivy; what a search selects is a parameter of `PagedLists`.
- **JSON layout, detail pages and overviews**: read-only. Of the builders
  `DictEntries` has the resolution of ids to strings, which depends on other code;
  their fetches read one snapshot each and keep nothing.
- **Configuration, routing, static files, entry point, web UI**: read once or
  stateless. The order of startup is in `SearchQueue`.
- **The older functions of `tweet_store`** that only tests call.
- **Parts that take the same way**: an object in `SubmitPipeline` has one part of each
  way a part can take - a filled column, an appended version, a statistic,
  a reference, a lookup - standing for all the columns and child tables that
  the code treats alike; the lines they stand for are in the map.
- **Panics and poisoned locks**: a panic while an index writer is locked makes
  every later write of its kind fail until a restart.
- **Small races with no promise to break**: two callbacks with one login state may
  both read it before either deletes it (`db.rs:99`), which the SSO's code, good
  for one exchange, decides; a second pending session of a subject that has
  registered meanwhile stays pending (`auth/sso.rs:45`); two administrators may
  disable each other (`identity.rs:309`).
- **Outside the program**: a source that changes between two range requests, which
  are sent without If-Range (`download.rs:51`), and multipart uploads left open in
  the bucket by an abort that ran out of time. Presigned links and content-type
  inference are pure.
