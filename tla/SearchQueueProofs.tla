------------------------- MODULE SearchQueueProofs -------------------------
(***************************************************************************)
(* The search outbox for any targets, workers, batches and limits: its     *)
(* types, the bound on attempts, that no refresh is lost, and, with one    *)
(* worker, that what no queued task will index is indexed as the database  *)
(* holds it.                                                               *)
(***************************************************************************)
EXTENDS SearchQueue, FiniteSetTheorems, TLAPS

-----------------------------------------------------------------------------
(* Types.  The parts of TypeOK that change together.                       *)

QueueTyped ==
  /\ status \in [Target -> Statuses]
  /\ attempts \in [Target -> Nat]
  /\ owner \in [Target -> Worker \cup {NoWorker}]
  /\ aged \in [Target -> BOOLEAN]

IndexTyped ==
  /\ index \in [Target -> Nat]
  /\ buffer \in [Target -> SUBSET Nat]
  /\ \A t \in Target : Cardinality(buffer[t]) <= 1

WorkTyped ==
  /\ pc \in [Worker -> Steps]
  /\ cur \in [Worker -> SUBSET Target]
  /\ docs \in [Worker -> [Target -> Nat]]
  /\ alone \in [Worker -> BOOLEAN]
  /\ rest \in [Worker -> SUBSET Target]

RestTyped ==
  /\ version \in [Target -> Nat]
  /\ up \in BOOLEAN
  /\ refreshes \in Nat /\ faults \in Nat

\* The parts make up the whole, now and after a step.
LEMMA TypeParts ==
  /\ TypeOK <=> QueueTyped /\ IndexTyped /\ WorkTyped /\ RestTyped
  /\ TypeOK' <=> QueueTyped' /\ IndexTyped' /\ WorkTyped' /\ RestTyped'
  BY DEF TypeOK, QueueTyped, IndexTyped, WorkTyped, RestTyped

LEMMA InitTyped ==
  ASSUME Init
  PROVE  TypeOK
<1>1. Cardinality({}) = 0
  BY FS_EmptySet
<1>2. QueueTyped
  BY DEF Init, QueueTyped, Statuses
<1>3. IndexTyped
  BY <1>1 DEF Init, IndexTyped, NoDocs
<1>4. WorkTyped
  BY DEF Init, WorkTyped, NoDocs, Steps
<1>5. RestTyped
  <2>1. version = [t \in Target |-> version[t]] /\ \A t \in Target : version[t] \in {0, 1}
    BY DEF Init
  <2>2. \A t \in Target : version[t] \in Nat
    BY <2>1
  <2>3. version \in [Target -> Nat]
    BY <2>1, <2>2, Zenon
  <2>4. up = FALSE /\ refreshes = 0 /\ faults = 0
    BY DEF Init
  <2>5. QED
    BY <2>3, <2>4 DEF RestTyped
<1>6. QED
  BY <1>2, <1>3, <1>4, <1>5, TypeParts

\* What enqueueing leaves.
LEMMA EnqueueTyped ==
  ASSUME QueueTyped, NEW S, EnqueueTargets(S)
  PROVE  QueueTyped'
<1>1. status' \in [Target -> Statuses]
  BY DEF QueueTyped, EnqueueTargets, Statuses
<1>2. attempts' \in [Target -> Nat]
  BY DEF QueueTyped, EnqueueTargets
<1>3. owner' \in [Target -> Worker \cup {NoWorker}]
  BY DEF QueueTyped, EnqueueTargets
<1>4. aged' \in [Target -> BOOLEAN]
  BY DEF QueueTyped, EnqueueTargets
<1>5. QED
  BY <1>1, <1>2, <1>3, <1>4 DEF QueueTyped

\* A step of one worker leaves the others where they are.
OthersStay(w) ==
  \A v \in Worker \ {w} :
    pc'[v] = pc[v] /\ cur'[v] = cur[v] /\ docs'[v] = docs[v] /\ rest'[v] = rest[v]

\* A worker that starts over holds nothing.
LEMMA RestartEffect ==
  ASSUME WorkTyped, NEW w \in Worker, Restart(w)
  PROVE  /\ WorkTyped'
         /\ OthersStay(w)
         /\ pc'[w] = "expire" /\ cur'[w] = {} /\ rest'[w] = {} /\ docs'[w] = NoDocs
<1>1. NoDocs \in [Target -> Nat]
  BY DEF NoDocs
<1>2. WorkTyped'
  BY <1>1 DEF WorkTyped, Restart, Goto, Steps
<1>3. OthersStay(w)
  BY DEF WorkTyped, Restart, Goto, OthersStay
<1>4. QED
  BY <1>2, <1>3 DEF WorkTyped, Restart, Goto

\* A worker that proceeds holds targets of those that were left, of which the
\* one it processes next is apart, or none and starts over.
LEMMA ProceedEffect ==
  ASSUME WorkTyped, NEW w \in Worker, NEW left \in SUBSET Target, Proceed(w, left)
  PROVE  /\ WorkTyped'
         /\ OthersStay(w)
         /\ pc'[w] \in {"expire", "fetchUsers", "fetchTweets"}
         /\ cur'[w] \cup rest'[w] \subseteq left
         /\ cur'[w] \cap rest'[w] = {}
         /\ pc'[w] = "expire" => cur'[w] = {} /\ rest'[w] = {}
         /\ pc'[w] = "fetchTweets" => cur'[w] \cap User = {}
         /\ docs'[w] = NoDocs
<1>1. CASE left = {} /\ Restart(w)
  BY <1>1, RestartEffect
<1>2. CASE \E t \in left : /\ Goto(w, FirstFetch({t}))
                           /\ cur' = [cur EXCEPT ![w] = {t}]
                           /\ docs' = [docs EXCEPT ![w] = NoDocs]
                           /\ alone' = [alone EXCEPT ![w] = TRUE]
                           /\ rest' = [rest EXCEPT ![w] = left \ {t}]
  <2>1. PICK t \in left : /\ Goto(w, FirstFetch({t}))
                          /\ cur' = [cur EXCEPT ![w] = {t}]
                          /\ docs' = [docs EXCEPT ![w] = NoDocs]
                          /\ alone' = [alone EXCEPT ![w] = TRUE]
                          /\ rest' = [rest EXCEPT ![w] = left \ {t}]
    BY <1>2
  <2>2. NoDocs \in [Target -> Nat]
    BY DEF NoDocs
  <2>3. /\ FirstFetch({t}) \in {"fetchUsers", "fetchTweets"}
        /\ FirstFetch({t}) = "fetchTweets" => {t} \cap User = {}
    BY DEF FirstFetch
  <2>4. WorkTyped'
    BY <2>1, <2>2, <2>3 DEF WorkTyped, Goto, Steps
  <2>5. OthersStay(w)
    BY <2>1 DEF WorkTyped, Goto, OthersStay
  <2>6. /\ pc'[w] = FirstFetch({t}) /\ cur'[w] = {t} /\ rest'[w] = left \ {t}
        /\ docs'[w] = NoDocs
    BY <2>1 DEF WorkTyped, Goto
  <2>7. QED
    BY <2>3, <2>4, <2>5, <2>6
<1>3. QED
  BY <1>1, <1>2 DEF Proceed

\* So does one whose call failed, or it goes to mark the task it was alone with.
LEMMA CallFailsEffect ==
  ASSUME WorkTyped, NEW w \in Worker, CallFails(w)
  PROVE  /\ WorkTyped'
         /\ OthersStay(w)
         /\ pc'[w] \in {"expire", "fetchUsers", "fetchTweets", "markFailed"}
         /\ cur'[w] \subseteq cur[w]
         /\ rest'[w] \subseteq cur[w] \cup rest[w]
         /\ pc'[w] = "markFailed" => cur'[w] = cur[w] /\ rest'[w] = rest[w]
         /\ pc'[w] # "markFailed" => cur'[w] \cap rest'[w] = {}
         /\ pc'[w] = "expire" => cur'[w] = {} /\ rest'[w] = {}
         /\ pc'[w] = "fetchTweets" => cur'[w] \cap User = {}
         /\ docs'[w] \in {NoDocs, docs[w]}
<1>1. CASE alone[w]
  <2>1. Goto(w, "markFailed") /\ UNCHANGED work
    BY <1>1 DEF CallFails
  <2>2. WorkTyped'
    BY <2>1 DEF WorkTyped, Goto, work, Steps
  <2>3. OthersStay(w)
    BY <2>1 DEF WorkTyped, Goto, work, OthersStay
  <2>4. QED
    BY <2>1, <2>2, <2>3 DEF WorkTyped, Goto, work
<1>2. CASE ~alone[w]
  <2>1. Proceed(w, cur[w]) /\ cur[w] \in SUBSET Target
    BY <1>2 DEF CallFails, WorkTyped
  <2>2. QED
    BY <2>1, ProceedEffect
<1>3. QED
  BY <1>1, <1>2

\* A document of a call, or what was in the writer, for each target.
Ops(w, t) == IF t \in cur[w] THEN {docs[w][t]} ELSE buffer[t]

\* A commit publishes what the writer has taken in, one kind at a time.
LEMMA CommitEffect ==
  ASSUME WorkTyped, IndexTyped, NEW w \in Worker, Commit(w)
  PROVE  /\ IndexTyped'
         /\ \A t \in Target :
              /\ t \notin KindOf(pc[w]) => index'[t] = index[t] /\ buffer'[t] = buffer[t]
              /\ t \in KindOf(pc[w]) => buffer'[t] = {}
              /\ t \in KindOf(pc[w]) \cap cur[w] => index'[t] = docs[w][t]
              /\ t \in KindOf(pc[w]) \ cur[w] =>
                   index'[t] \in buffer[t] \/ (index'[t] = index[t] /\ buffer[t] = {})
<1> DEFINE kind == KindOf(pc[w])
<1>1. /\ index' = [t \in Target |-> IF t \in kind /\ Ops(w, t) # {}
                                    THEN CHOOSE v \in Ops(w, t) : TRUE ELSE index[t]]
      /\ buffer' = [t \in Target |-> IF t \in kind THEN {} ELSE buffer[t]]
  BY DEF Commit, Ops
<1>2. \A t \in Target : Ops(w, t) \subseteq Nat
  BY DEF WorkTyped, IndexTyped, Ops
<1>3. \A t \in Target : Ops(w, t) # {} => (CHOOSE v \in Ops(w, t) : TRUE) \in Ops(w, t)
  OBVIOUS
<1>4. index' \in [Target -> Nat]
  BY <1>1, <1>2, <1>3 DEF IndexTyped
<1>5. buffer' \in [Target -> SUBSET Nat]
  BY <1>1 DEF IndexTyped
<1>6. \A t \in Target : Cardinality(buffer'[t]) <= 1
  BY <1>1, FS_EmptySet DEF IndexTyped
<1>7. ASSUME NEW t \in Target, t \in kind \cap cur[w]
      PROVE  index'[t] = docs[w][t]
  <2>1. Ops(w, t) = {docs[w][t]}
    BY <1>7 DEF Ops
  <2>2. QED
    BY <1>1, <1>3, <1>7, <2>1
<1>8. ASSUME NEW t \in Target, t \in kind \ cur[w]
      PROVE  index'[t] \in buffer[t] \/ (index'[t] = index[t] /\ buffer[t] = {})
  <2>1. Ops(w, t) = buffer[t]
    BY <1>8 DEF Ops
  <2>2. QED
    BY <1>1, <1>3, <1>8, <2>1
<1>9. \A t \in Target : /\ t \notin kind => index'[t] = index[t] /\ buffer'[t] = buffer[t]
                        /\ t \in kind => buffer'[t] = {}
  BY <1>1
<1>10. QED
  BY <1>4, <1>5, <1>6, <1>7, <1>8, <1>9 DEF IndexTyped

LEMMA KindIsTarget == \A step : KindOf(step) \subseteq Target
  BY DEF KindOf, Target

\* A fault counts.
LEMMA FaultTyped ==
  ASSUME RestTyped, Fault
  PROVE  refreshes' \in Nat /\ faults' \in Nat
  BY DEF RestTyped, Fault

\* The steps that change the rows of the queue.
LEMMA ChangeTyped ==
  ASSUME TypeOK, NEW S \in SUBSET Target, Change(S)
  PROVE  TypeOK'
<1>1. QueueTyped'
  BY EnqueueTyped, TypeParts DEF Change
<1>2. version' \in [Target -> Nat]
  BY TypeParts DEF Change, RestTyped
<1>3. IndexTyped' /\ WorkTyped'
  BY TypeParts DEF Change, IndexTyped, WorkTyped, work
<1>4. RestTyped'
  BY <1>2, TypeParts DEF Change, RestTyped, bounds
<1>5. QED
  BY <1>1, <1>3, <1>4, TypeParts

LEMMA RefreshTyped ==
  ASSUME TypeOK, NEW t \in Target, Refresh(t)
  PROVE  TypeOK'
<1>1. QueueTyped'
  BY EnqueueTyped, TypeParts DEF Refresh
<1>2. IndexTyped' /\ WorkTyped'
  BY TypeParts DEF Refresh, IndexTyped, WorkTyped, work
<1>3. RestTyped'
  BY TypeParts DEF Refresh, RestTyped
<1>4. QED
  BY <1>1, <1>2, <1>3, TypeParts

LEMMA StartupTyped ==
  ASSUME TypeOK, Startup \/ StartupFails
  PROVE  TypeOK'
<1>1. CASE Startup
  <2>1. QueueTyped'
    BY <1>1, EnqueueTyped, TypeParts DEF Startup
  <2>2. IndexTyped' /\ WorkTyped' /\ RestTyped'
    BY <1>1, TypeParts DEF Startup, IndexTyped, WorkTyped, RestTyped, work, bounds
  <2>3. QED
    BY <2>1, <2>2, TypeParts
<1>2. CASE StartupFails
  <2>1. QueueTyped'
    BY <1>2, EnqueueTyped, TypeParts DEF StartupFails
  <2>2. IndexTyped' /\ WorkTyped'
    BY <1>2, TypeParts DEF StartupFails, IndexTyped, WorkTyped, work
  <2>3. RestTyped'
    BY <1>2, TypeParts, FaultTyped DEF StartupFails, RestTyped
  <2>4. QED
    BY <2>1, <2>2, <2>3, TypeParts
<1>3. QED
  BY <1>1, <1>2

LEMMA CrashTyped ==
  ASSUME TypeOK, Crash
  PROVE  TypeOK'
<1>1. QueueTyped'
  BY TypeParts DEF Crash, QueueTyped, queue
<1>2. IndexTyped'
  <2>1. Cardinality({}) = 0
    BY FS_EmptySet
  <2>2. index' \in [Target -> Nat]
    BY TypeParts DEF Crash, IndexTyped
  <2>3. QED
    BY <2>1, <2>2 DEF Crash, IndexTyped
<1>3. WorkTyped'
  BY DEF Crash, WorkTyped, NoDocs, Steps
<1>4. RestTyped'
  BY TypeParts, FaultTyped DEF Crash, RestTyped
<1>5. QED
  BY <1>1, <1>2, <1>3, <1>4, TypeParts

LEMMA GoStaleTyped ==
  ASSUME TypeOK, NEW t \in Target, GoStale(t)
  PROVE  TypeOK'
<1>1. QueueTyped'
  BY TypeParts DEF GoStale, QueueTyped
<1>2. IndexTyped' /\ WorkTyped' /\ RestTyped'
  BY TypeParts DEF GoStale, IndexTyped, WorkTyped, RestTyped, work, bounds
<1>3. QED
  BY <1>1, <1>2, TypeParts

LEMMA ExpireTyped ==
  ASSUME TypeOK, NEW w \in Worker, ExpireStale(w)
  PROVE  TypeOK'
<1>1. QueueTyped'
  BY TypeParts DEF ExpireStale, QueueTyped, Statuses
<1>2. WorkTyped'
  BY TypeParts DEF ExpireStale, WorkTyped, Goto, Steps, work
<1>3. IndexTyped' /\ RestTyped'
  BY TypeParts DEF ExpireStale, IndexTyped, RestTyped, bounds
<1>4. QED
  BY <1>1, <1>2, <1>3, TypeParts

LEMMA ClaimTyped ==
  ASSUME TypeOK, NEW w \in Worker, NEW S \in SUBSET Target, ClaimBatch(w, S)
  PROVE  TypeOK'
<1>1. status' \in [Target -> Statuses] /\ attempts' \in [Target -> Nat]
  BY TypeParts DEF ClaimBatch, QueueTyped, Statuses
<1>2. owner' \in [Target -> Worker \cup {NoWorker}] /\ aged' \in [Target -> BOOLEAN]
  BY TypeParts DEF ClaimBatch, QueueTyped
<1>3. WorkTyped'
  BY TypeParts DEF ClaimBatch, WorkTyped, Goto, FirstFetch, Steps
<1>4. IndexTyped' /\ RestTyped'
  BY TypeParts DEF ClaimBatch, IndexTyped, RestTyped, bounds
<1>5. QED
  BY <1>1, <1>2, <1>3, <1>4, TypeParts DEF QueueTyped

LEMMA ClaimNothingTyped ==
  ASSUME TypeOK, NEW w \in Worker, ClaimNothing(w)
  PROVE  TypeOK'
<1>1. WorkTyped'
  BY TypeParts, RestartEffect DEF ClaimNothing
<1>2. QueueTyped' /\ IndexTyped' /\ RestTyped'
  BY TypeParts DEF ClaimNothing, QueueTyped, IndexTyped, RestTyped, queue, bounds
<1>3. QED
  BY <1>1, <1>2, TypeParts

\* What a worker has after it fetched.
LEMMA FetchEffect ==
  ASSUME TypeOK, NEW w \in Worker, Fetch(w)
  PROVE  /\ docs' \in [Worker -> [Target -> Nat]]
         /\ \A t \in Target :
              docs'[w][t] = IF t \in cur[w] \cap KindOf(pc[w]) THEN version[t] ELSE docs[w][t]
         /\ \A v \in Worker \ {w} : docs'[v] = docs[v]
<1> DEFINE got == [t \in Target |-> IF t \in cur[w] \cap KindOf(pc[w]) THEN version[t] ELSE docs[w][t]]
<1>1. got \in [Target -> Nat]
  BY TypeParts DEF WorkTyped, RestTyped
<1>2. docs' = [docs EXCEPT ![w] = got]
  BY DEF Fetch
<1> HIDE DEF got
<1>3. /\ docs' \in [Worker -> [Target -> Nat]]
      /\ docs'[w] = got
      /\ \A v \in Worker \ {w} : docs'[v] = docs[v]
  BY <1>1, <1>2, TypeParts DEF WorkTyped
<1>4. QED
  BY <1>3 DEF got

LEMMA FetchTyped ==
  ASSUME TypeOK, NEW w \in Worker, Fetch(w)
  PROVE  TypeOK'
<1>1. pc' \in [Worker -> Steps]
  BY TypeParts DEF Fetch, Goto, WorkTyped, Steps
<1>2. WorkTyped'
  BY <1>1, TypeParts, FetchEffect DEF Fetch, WorkTyped
<1>3. QueueTyped' /\ IndexTyped' /\ RestTyped'
  BY TypeParts DEF Fetch, QueueTyped, IndexTyped, RestTyped, queue, bounds
<1>4. QED
  BY <1>2, <1>3, TypeParts

LEMMA WriteTyped ==
  ASSUME TypeOK, NEW w \in Worker, Write(w)
  PROVE  TypeOK'
<1>1. IndexTyped'
  BY TypeParts, CommitEffect DEF Write
<1>2. WorkTyped'
  BY TypeParts DEF Write, WorkTyped, Goto, Steps, work
<1>3. QueueTyped' /\ RestTyped'
  BY TypeParts DEF Write, QueueTyped, RestTyped, queue, bounds
<1>4. QED
  BY <1>1, <1>2, <1>3, TypeParts

LEMMA CompleteTyped ==
  ASSUME TypeOK, NEW w \in Worker, Complete(w) \/ MarkFailed(w)
  PROVE  TypeOK'
<1>1. rest[w] \in SUBSET Target /\ Proceed(w, rest[w])
  BY TypeParts DEF WorkTyped, Complete, MarkFailed
<1>2. WorkTyped'
  BY <1>1, TypeParts, ProceedEffect
<1>3. IndexTyped' /\ RestTyped'
  BY TypeParts DEF Complete, MarkFailed, IndexTyped, RestTyped, bounds
<1>4. status' \in [Target -> Statuses]
  BY TypeParts DEF Complete, MarkFailed, QueueTyped, Statuses
<1>5. /\ owner' \in [Target -> Worker \cup {NoWorker}]
      /\ aged' \in [Target -> BOOLEAN]
      /\ attempts' \in [Target -> Nat]
  BY TypeParts DEF Complete, MarkFailed, QueueTyped
<1>6. QED
  BY <1>2, <1>3, <1>4, <1>5, TypeParts DEF QueueTyped

LEMMA FetchFailsTyped ==
  ASSUME TypeOK, NEW w \in Worker, FetchFails(w)
  PROVE  TypeOK'
<1>1. WorkTyped'
  BY TypeParts, CallFailsEffect DEF FetchFails
<1>2. QueueTyped' /\ IndexTyped'
  BY TypeParts DEF FetchFails, QueueTyped, IndexTyped, queue
<1>3. RestTyped'
  BY TypeParts, FaultTyped DEF FetchFails, RestTyped
<1>4. QED
  BY <1>1, <1>2, <1>3, TypeParts

\* What a failed write leaves: a commit, or some operations of the call.
LEMMA WriteFailsEffect ==
  ASSUME TypeOK, NEW w \in Worker, WriteFails(w)
  PROVE  /\ IndexTyped'
         /\ CallFails(w)
         /\ \/ Commit(w)
            \/ /\ index' = index
               /\ \A t \in Target :
                    \/ buffer'[t] = buffer[t]
                    \/ t \in cur[w] /\ buffer'[t] \in {{docs[w][t]}, {0}}
<1>1. CallFails(w)
  BY DEF WriteFails
<1>2. CASE Commit(w)
  BY <1>1, <1>2, TypeParts, CommitEffect
<1>3. CASE ~Commit(w)
  <2>1. PICK reached \in SUBSET (cur[w] \cap KindOf(pc[w])) :
          \E added \in SUBSET reached :
            /\ buffer' = [t \in Target |-> IF t \in added THEN Indexed(w, t)
                                           ELSE IF t \in reached THEN {0} ELSE buffer[t]]
            /\ UNCHANGED index
    BY <1>3 DEF WriteFails
  <2>2. PICK added \in SUBSET reached :
          /\ buffer' = [t \in Target |-> IF t \in added THEN Indexed(w, t)
                                         ELSE IF t \in reached THEN {0} ELSE buffer[t]]
          /\ UNCHANGED index
    BY <2>1
  <2>3. \A t \in Target : \/ buffer'[t] = buffer[t]
                          \/ t \in cur[w] /\ buffer'[t] \in {{docs[w][t]}, {0}}
    BY <2>2 DEF Indexed
  <2>4. \A v : Cardinality({v}) = 1
    BY FS_Singleton
  <2>5. \A t \in Target : /\ buffer'[t] \in SUBSET Nat
                          /\ Cardinality(buffer'[t]) <= 1
    <3>1. \A v \in Nat : {v} \in SUBSET Nat /\ Cardinality({v}) <= 1
      BY <2>4
    <3>2. \A t \in Target : /\ buffer[t] \in SUBSET Nat /\ Cardinality(buffer[t]) <= 1
                            /\ docs[w][t] \in Nat
      BY TypeParts DEF IndexTyped, WorkTyped
    <3>3. SUFFICES ASSUME NEW t \in Target
                   PROVE  buffer'[t] \in SUBSET Nat /\ Cardinality(buffer'[t]) <= 1
      OBVIOUS
    <3>4. buffer'[t] \in {buffer[t], {docs[w][t]}, {0}}
      BY <2>3
    <3>5. QED
      BY <3>1, <3>2, <3>4
  <2>6. buffer' = [t \in Target |-> buffer'[t]]
    BY <2>2
  <2>7. IndexTyped'
    BY <2>2, <2>5, <2>6, TypeParts DEF IndexTyped
  <2>8. QED
    BY <1>1, <2>2, <2>3, <2>7
<1>4. QED
  BY <1>2, <1>3

LEMMA WriteFailsTyped ==
  ASSUME TypeOK, NEW w \in Worker, WriteFails(w)
  PROVE  TypeOK'
<1>1. IndexTyped' /\ CallFails(w)
  BY WriteFailsEffect
<1>2. WorkTyped'
  BY <1>1, TypeParts, CallFailsEffect
<1>3. QueueTyped'
  BY TypeParts DEF WriteFails, QueueTyped, queue
<1>4. RestTyped'
  BY TypeParts, FaultTyped DEF WriteFails, RestTyped
<1>5. QED
  BY <1>1, <1>2, <1>3, <1>4, TypeParts

\* A statement that failed takes the worker on, or back to the start.
LEMMA StatementFailsEffect ==
  ASSUME WorkTyped, NEW w \in Worker, StatementFails(w)
  PROVE  /\ WorkTyped'
         /\ OthersStay(w)
         /\ \/ pc[w] = "expire" /\ pc'[w] = "claim" /\ UNCHANGED work
            \/ /\ pc'[w] \in {"expire", "fetchUsers", "fetchTweets"}
               /\ cur'[w] \cup rest'[w] \subseteq rest[w]
               /\ cur'[w] \cap rest'[w] = {}
               /\ pc'[w] = "expire" => cur'[w] = {} /\ rest'[w] = {}
               /\ pc'[w] = "fetchTweets" => cur'[w] \cap User = {}
               /\ docs'[w] = NoDocs
<1>1. CASE pc[w] = "expire" /\ Goto(w, "claim") /\ UNCHANGED work
  <2>1. WorkTyped'
    BY <1>1 DEF WorkTyped, Goto, work, Steps
  <2>2. OthersStay(w)
    BY <1>1 DEF WorkTyped, Goto, work, OthersStay
  <2>3. QED
    BY <1>1, <2>1, <2>2 DEF WorkTyped, Goto
<1>2. CASE Restart(w)
  BY <1>2, RestartEffect
<1>3. CASE Proceed(w, rest[w])
  <2>1. rest[w] \in SUBSET Target
    BY DEF WorkTyped
  <2>2. QED
    BY <1>3, <2>1, ProceedEffect
<1>4. QED
  BY <1>1, <1>2, <1>3 DEF StatementFails

LEMMA StatementFailsTyped ==
  ASSUME TypeOK, NEW w \in Worker, StatementFails(w)
  PROVE  TypeOK'
<1>1. WorkTyped'
  BY TypeParts, StatementFailsEffect
<1>2. QueueTyped' /\ IndexTyped'
  BY TypeParts DEF StatementFails, QueueTyped, IndexTyped, queue
<1>3. RestTyped'
  BY TypeParts, FaultTyped DEF StatementFails, RestTyped
<1>4. QED
  BY <1>1, <1>2, <1>3, TypeParts

LEMMA TypeStep ==
  ASSUME TypeOK, [Next]_vars
  PROVE  TypeOK'
<1>1. ASSUME NEW S \in SUBSET User, Change(S)
      PROVE  TypeOK'
  BY <1>1, ChangeTyped DEF Target
<1>2. ASSUME NEW S \in SUBSET Tweet, Change(S)
      PROVE  TypeOK'
  BY <1>2, ChangeTyped DEF Target
<1>3. ASSUME NEW t \in Target, Refresh(t) \/ GoStale(t)
      PROVE  TypeOK'
  BY <1>3, RefreshTyped, GoStaleTyped
<1>4. CASE Startup \/ StartupFails \/ Crash
  BY <1>4, StartupTyped, CrashTyped
<1>5. ASSUME NEW w \in Worker, WorkerStep(w)
      PROVE  TypeOK'
  BY <1>5, ExpireTyped, ClaimTyped, ClaimNothingTyped, FetchTyped, WriteTyped, CompleteTyped
     DEF WorkerStep
<1>6. ASSUME NEW w \in Worker, FetchFails(w) \/ WriteFails(w) \/ StatementFails(w)
      PROVE  TypeOK'
  BY <1>6, FetchFailsTyped, WriteFailsTyped, StatementFailsTyped
<1>7. CASE UNCHANGED vars
  BY <1>7 DEF vars, queue, work, bounds, TypeOK
<1>8. QED
  BY <1>1, <1>2, <1>3, <1>4, <1>5, <1>6, <1>7 DEF Next

\* Every reachable state of the outbox, its workers and its indexes is well
\* typed; a writer holds at most one operation per target.
THEOREM TypeTheorem == Spec => []TypeOK
  BY InitTyped, TypeStep, PTL DEF Spec

-----------------------------------------------------------------------------
(* The rows of the queue.                                                  *)

\* Enqueueing makes a row pending and leaves the others.
LEMMA EnqueueEffect ==
  ASSUME QueueTyped, NEW S, EnqueueTargets(S), NEW t \in Target
  PROVE  /\ t \in S => status'[t] = "pending" /\ attempts'[t] = 0
         /\ t \notin S => /\ status'[t] = status[t] /\ attempts'[t] = attempts[t]
                         /\ owner'[t] = owner[t]
  BY DEF QueueTyped, EnqueueTargets

\* A claim takes rows that are pending, or stale with an attempt left.
LEMMA ClaimEffect ==
  ASSUME TypeOK, NEW w \in Worker, NEW S, ClaimBatch(w, S), NEW t \in Target
  PROVE  /\ t \in S => /\ status[t] \in {"pending", "processing"}
                       /\ status[t] = "processing" => attempts[t] < MaxAttempts
                       /\ status'[t] = "processing" /\ owner'[t] = w
                       /\ attempts'[t] = attempts[t] + 1
         /\ t \notin S => /\ status'[t] = status[t] /\ attempts'[t] = attempts[t]
                         /\ owner'[t] = owner[t]
<1>1. t \in S => Claimable(t)
  BY DEF ClaimBatch, IsBatch
<1>2. t \in S => /\ status[t] \in {"pending", "processing"}
                 /\ status[t] = "processing" => attempts[t] < MaxAttempts
  BY <1>1 DEF Claimable, Stale
<1>3. QED
  BY <1>2 DEF ClaimBatch

\* The steps that leave status, attempts and claims alone.
LEMMA QueueStays ==
  ASSUME \/ Crash
         \/ \E t \in Target : GoStale(t)
         \/ \E w \in Worker : \/ ClaimNothing(w) \/ Fetch(w) \/ Write(w)
                             \/ FetchFails(w) \/ WriteFails(w) \/ StatementFails(w)
  PROVE  UNCHANGED <<status, attempts, owner>>
  BY DEF Crash, GoStale, ClaimNothing, Fetch, Write, FetchFails, WriteFails, StatementFails, queue

\* A change or a refresh of rows, at run time or at the start.
Enqueues(S) ==
  /\ EnqueueTargets(S)
  /\ UNCHANGED <<index, buffer, pc, work>>
  /\ \A t \in Target \ S : version'[t] = version[t]
  /\ \A t \in Target : version[t] # 0 => version'[t] # 0

LEMMA EnqueuesWhen ==
  ASSUME TypeOK,
         \/ \E S \in SUBSET User : Change(S)
         \/ \E S \in SUBSET Tweet : Change(S)
         \/ \E t \in Target : Refresh(t)
         \/ Startup \/ StartupFails
  PROVE  \E S \in SUBSET Target :
           /\ Enqueues(S)
           /\ up' = up \/ (Startup /\ S = Backfill)
<1>1. ASSUME NEW S \in SUBSET Target, Change(S)
      PROVE  Enqueues(S) /\ up' = up
  <2>1. version' = [t \in Target |-> IF t \in S THEN version[t] + 1 ELSE version[t]]
    BY <1>1 DEF Change
  <2>2. \A t \in Target : version[t] \in Nat
    BY DEF TypeOK
  <2>3. \A t \in Target : version[t] + 1 # 0
    BY <2>2
  <2>4. \A t \in Target : /\ t \notin S => version'[t] = version[t]
                          /\ version[t] # 0 => version'[t] # 0
    BY <2>1, <2>3
  <2>5. QED
    BY <1>1, <2>4 DEF Change, Enqueues
<1>2. ASSUME NEW t \in Target, Refresh(t)
      PROVE  Enqueues({t}) /\ up' = up
  BY <1>2 DEF Refresh, Enqueues
<1>3. ASSUME Startup
      PROVE  Enqueues(Backfill) /\ Backfill \in SUBSET Target
  BY <1>3 DEF Startup, Enqueues, Backfill
<1>4. ASSUME NEW S \in SUBSET Backfill, EnqueueTargets(S), StartupFails
      PROVE  Enqueues(S) /\ S \in SUBSET Target /\ up' = up
  BY <1>4 DEF StartupFails, Enqueues, Backfill
<1>5. StartupFails => \E S \in SUBSET Backfill : EnqueueTargets(S)
  BY DEF StartupFails
<1>6. User \subseteq Target /\ Tweet \subseteq Target
  BY DEF Target
<1>7. ASSUME NEW t \in Target
      PROVE  {t} \in SUBSET Target
  OBVIOUS
<1>8. QED
  BY <1>1, <1>2, <1>3, <1>4, <1>5, <1>6, <1>7

-----------------------------------------------------------------------------
(* Attempts.                                                               *)

LEMMA AttemptsInit ==
  ASSUME Init
  PROVE  AttemptsBounded
  BY SearchAssumption DEF Init, AttemptsBounded

LEMMA AttemptsClaim ==
  ASSUME TypeOK, AttemptsBounded, NEW w \in Worker, NEW S, ClaimBatch(w, S), NEW t \in Target
  PROVE  /\ attempts'[t] <= MaxAttempts
         /\ status'[t] = "pending" => attempts'[t] < MaxAttempts
<1>1. /\ attempts[t] <= MaxAttempts
      /\ status[t] = "pending" => attempts[t] < MaxAttempts
      /\ attempts[t] \in Nat /\ MaxAttempts \in Nat
  BY SearchAssumption DEF AttemptsBounded, TypeOK
<1>2. CASE t \in S
  <2>1. /\ status[t] = "pending" \/ attempts[t] < MaxAttempts
        /\ status'[t] = "processing"
    BY <1>2, ClaimEffect, Zenon
  <2>2. PICK a : a = attempts'[t]
    OBVIOUS
  <2>3. a = attempts[t] + 1
    BY <1>2, <2>2, ClaimEffect, Zenon
  <2>4. a <= MaxAttempts
    BY <1>1, <2>1, <2>3
  <2>5. QED
    BY <2>1, <2>2, <2>4
<1>3. CASE t \notin S
  BY <1>1, <1>3, ClaimEffect
<1>4. QED
  BY <1>2, <1>3

LEMMA AttemptsStep ==
  ASSUME TypeOK, AttemptsBounded, [Next]_vars
  PROVE  AttemptsBounded'
<1> SUFFICES ASSUME NEW t \in Target
             PROVE  /\ attempts'[t] <= MaxAttempts
                    /\ status'[t] = "pending" => attempts'[t] < MaxAttempts
  BY DEF AttemptsBounded
<1>1. /\ attempts[t] <= MaxAttempts
      /\ status[t] = "pending" => attempts[t] < MaxAttempts
      /\ attempts[t] \in Nat /\ MaxAttempts \in Nat /\ 0 < MaxAttempts
  BY SearchAssumption DEF AttemptsBounded, TypeOK
<1>2. CASE UNCHANGED <<status, attempts>>
  BY <1>1, <1>2
<1>3. ASSUME NEW S \in SUBSET Target, EnqueueTargets(S)
      PROVE  /\ attempts'[t] <= MaxAttempts
             /\ status'[t] = "pending" => attempts'[t] < MaxAttempts
  BY <1>1, <1>3, EnqueueEffect, TypeParts
<1>4. ASSUME NEW w \in Worker, NEW S \in SUBSET Target, ClaimBatch(w, S)
      PROVE  /\ attempts'[t] <= MaxAttempts
             /\ status'[t] = "pending" => attempts'[t] < MaxAttempts
  BY <1>4, AttemptsClaim
<1>5. ASSUME NEW w \in Worker, ExpireStale(w) \/ Complete(w) \/ MarkFailed(w)
      PROVE  /\ attempts'[t] <= MaxAttempts
             /\ status'[t] = "pending" => attempts'[t] < MaxAttempts
  <2>1. attempts' = attempts
    BY <1>5 DEF ExpireStale, Complete, MarkFailed
  <2>2. status'[t] = "pending" => status[t] = "pending" \/ attempts[t] < MaxAttempts
    <3>1. ExpireStale(w) => status'[t] \in {"failed", status[t]}
      BY DEF ExpireStale
    <3>2. Complete(w) => status'[t] \in {"completed", status[t]}
      BY DEF Complete
    <3>3. MarkFailed(w) => \/ status'[t] \in {"failed", status[t]}
                           \/ ~(attempts[t] >= MaxAttempts)
      BY DEF MarkFailed
    <3>4. QED
      BY <1>1, <1>5, <3>1, <3>2, <3>3
  <2>3. QED
    BY <1>1, <2>1, <2>2
<1>6. CASE Crash \/ UNCHANGED vars \/ \E u \in Target : GoStale(u)
  BY <1>2, <1>6, QueueStays DEF vars, queue
<1>7. CASE \/ \E S \in SUBSET User : Change(S)
           \/ \E S \in SUBSET Tweet : Change(S)
           \/ \E u \in Target : Refresh(u)
           \/ Startup \/ StartupFails
  BY <1>3, <1>7, EnqueuesWhen DEF Enqueues
<1>8. ASSUME NEW w \in Worker,
             WorkerStep(w) \/ FetchFails(w) \/ WriteFails(w) \/ StatementFails(w)
      PROVE  /\ attempts'[t] <= MaxAttempts
             /\ status'[t] = "pending" => attempts'[t] < MaxAttempts
  BY <1>2, <1>4, <1>5, <1>8, QueueStays DEF WorkerStep
<1>9. QED
  BY <1>6, <1>7, <1>8 DEF Next

\* However often claims go stale, are taken again and are answered late, a
\* target has at most max_attempts attempts per refresh.
THEOREM AttemptsTheorem == Spec => []AttemptsBounded
  BY InitTyped, TypeStep, AttemptsInit, AttemptsStep, PTL DEF Spec

-----------------------------------------------------------------------------
(* Where a worker is, and what it holds there.                             *)

\* Between batches a worker holds nothing; what it has left to process
\* individually is apart from what it is processing.
Placed(w) ==
  /\ pc[w] \in {"expire", "claim"} => cur[w] = {} /\ rest[w] = {}
  /\ cur[w] \cap rest[w] = {}

Placement == \A w \in Worker : Placed(w)

\* A worker that has read nothing of its present call.
AtStart(w) ==
  /\ pc[w] \in {"expire", "claim", "fetchUsers", "fetchTweets", "markFailed"}
  /\ pc[w] = "fetchTweets" => cur[w] \cap User = {}

\* A step that takes a worker to another call, or to the start of the loop.
TurnsBack(w) ==
  /\ OthersStay(w)
  /\ AtStart(w)'
  /\ Placed(w)'
  /\ cur'[w] \cup rest'[w] \subseteq cur[w] \cup rest[w]
  /\ docs'[w] \in {NoDocs, docs[w]}

LEMMA TurnsBackWhen ==
  ASSUME TypeOK, NEW w \in Worker, Placed(w),
         \/ ExpireStale(w) \/ ClaimNothing(w) \/ Complete(w) \/ MarkFailed(w)
         \/ FetchFails(w) \/ WriteFails(w) \/ StatementFails(w)
  PROVE  TurnsBack(w)
<1>0. WorkTyped /\ cur[w] \in SUBSET Target /\ rest[w] \in SUBSET Target
  BY TypeParts DEF WorkTyped
<1>1. CASE ExpireStale(w)
  <2>1. pc' = [pc EXCEPT ![w] = "claim"] /\ UNCHANGED work /\ pc[w] = "expire"
    BY <1>1 DEF ExpireStale, Goto
  <2>2. pc'[w] = "claim" /\ OthersStay(w)
    BY <1>0, <2>1 DEF OthersStay, work, WorkTyped
  <2>3. QED
    BY <2>1, <2>2 DEF TurnsBack, AtStart, Placed, work
<1>2. CASE ClaimNothing(w)
  <2>1. Restart(w)
    BY <1>2 DEF ClaimNothing
  <2>2. QED
    BY <1>0, <2>1, RestartEffect DEF TurnsBack, AtStart, Placed
<1>3. CASE Complete(w) \/ MarkFailed(w)
  <2>1. Proceed(w, rest[w])
    BY <1>3 DEF Complete, MarkFailed
  <2>2. QED
    BY <1>0, <2>1, ProceedEffect DEF TurnsBack, AtStart, Placed
<1>4. CASE FetchFails(w) \/ WriteFails(w)
  <2>1. CallFails(w)
    BY <1>4 DEF FetchFails, WriteFails
  <2>2. QED
    BY <1>0, <2>1, CallFailsEffect DEF TurnsBack, AtStart, Placed
<1>5. CASE StatementFails(w)
  <2>1. CASE pc[w] = "expire" /\ pc'[w] = "claim" /\ UNCHANGED work
    <3>1. OthersStay(w)
      BY <1>0, <1>5, StatementFailsEffect
    <3>2. QED
      BY <2>1, <3>1 DEF TurnsBack, AtStart, Placed, work
  <2>2. CASE ~(pc[w] = "expire" /\ pc'[w] = "claim" /\ UNCHANGED work)
    <3>1. /\ OthersStay(w)
          /\ pc'[w] \in {"expire", "fetchUsers", "fetchTweets"}
          /\ cur'[w] \cup rest'[w] \subseteq rest[w]
          /\ cur'[w] \cap rest'[w] = {}
          /\ pc'[w] = "expire" => cur'[w] = {} /\ rest'[w] = {}
          /\ pc'[w] = "fetchTweets" => cur'[w] \cap User = {}
          /\ docs'[w] = NoDocs
      BY <1>0, <1>5, <2>2, StatementFailsEffect
    <3>2. QED
      BY <3>1 DEF TurnsBack, AtStart, Placed
  <2>3. QED
    BY <2>1, <2>2
<1>6. QED
  BY <1>1, <1>2, <1>3, <1>4, <1>5

\* The other steps of a worker: a claim, which starts a batch, a fetch and a
\* write, which go on with a call.
LEMMA ClaimMoves ==
  ASSUME TypeOK, NEW w \in Worker, Placed(w), NEW S \in SUBSET Target, ClaimBatch(w, S)
  PROVE  /\ OthersStay(w) /\ AtStart(w)' /\ Placed(w)'
         /\ cur'[w] = S /\ rest'[w] = {} /\ docs'[w] = docs[w]
<1>1. /\ pc' = [pc EXCEPT ![w] = FirstFetch(S)] /\ pc[w] = "claim"
      /\ cur' = [cur EXCEPT ![w] = S]
      /\ UNCHANGED <<docs, rest>>
  BY DEF ClaimBatch, Goto
<1>2. WorkTyped
  BY TypeParts
<1>3. pc'[w] = FirstFetch(S) /\ cur'[w] = S /\ OthersStay(w)
  BY <1>1, <1>2 DEF WorkTyped, OthersStay
<1>4. rest'[w] = {}
  BY <1>1 DEF Placed
<1>5. QED
  BY <1>1, <1>3, <1>4 DEF AtStart, Placed, FirstFetch

LEMMA CallMoves ==
  ASSUME TypeOK, NEW w \in Worker, Placed(w), Fetch(w) \/ Write(w)
  PROVE  /\ OthersStay(w) /\ Placed(w)'
         /\ cur'[w] = cur[w] /\ rest'[w] = rest[w]
         /\ Fetch(w) => \/ pc[w] = "fetchUsers" /\ pc'[w] = "writeUsers"
                        \/ pc[w] = "fetchTweets" /\ pc'[w] = "writeTweets"
         /\ Write(w) => /\ docs' = docs
                        /\ \/ pc[w] = "writeUsers" /\ pc'[w] = "fetchTweets"
                           \/ pc[w] = "writeUsers" /\ pc'[w] = "complete" /\ cur[w] \cap Tweet = {}
                           \/ pc[w] = "writeTweets" /\ pc'[w] = "complete"
<1>1. WorkTyped
  BY TypeParts
<1>2. CASE Fetch(w)
  <2>1. /\ pc' = [pc EXCEPT ![w] = IF pc[w] = "fetchUsers" THEN "writeUsers" ELSE "writeTweets"]
        /\ pc[w] \in {"fetchUsers", "fetchTweets"}
        /\ UNCHANGED <<cur, rest>>
    BY <1>2 DEF Fetch, Goto
  <2>2. /\ pc'[w] = (IF pc[w] = "fetchUsers" THEN "writeUsers" ELSE "writeTweets")
        /\ \A v \in Worker \ {w} : pc'[v] = pc[v]
    BY <1>1, <2>1 DEF WorkTyped
  <2>3. OthersStay(w)
    BY <1>2, <2>1, <2>2, FetchEffect DEF OthersStay
  <2>4. ~Write(w)
    BY <2>1 DEF Write
  <2>5. QED
    BY <2>1, <2>2, <2>3, <2>4 DEF Placed
<1>3. CASE Write(w)
  <2>1. /\ pc' = [pc EXCEPT ![w] = IF pc[w] = "writeUsers" /\ cur[w] \cap Tweet # {}
                                   THEN "fetchTweets" ELSE "complete"]
        /\ pc[w] \in {"writeUsers", "writeTweets"}
        /\ UNCHANGED <<cur, rest, docs>>
    BY <1>3 DEF Write, Goto, work
  <2>2. /\ pc'[w] = (IF pc[w] = "writeUsers" /\ cur[w] \cap Tweet # {}
                     THEN "fetchTweets" ELSE "complete")
        /\ \A v \in Worker \ {w} : pc'[v] = pc[v]
    BY <1>1, <2>1 DEF WorkTyped
  <2>3. OthersStay(w)
    BY <2>1, <2>2 DEF OthersStay
  <2>4. ~Fetch(w)
    BY <2>1 DEF Fetch
  <2>5. QED
    BY <2>1, <2>2, <2>3, <2>4 DEF Placed
<1>4. QED
  BY <1>2, <1>3

\* Every step by kind: rows are enqueued, the process crashes, nothing but the
\* age of a claim changes, or one worker steps.
Idles == UNCHANGED <<version, status, attempts, owner, index, buffer, up, pc, work>>

StepOf(w) ==
  \/ ExpireStale(w) \/ ClaimNothing(w) \/ Complete(w) \/ MarkFailed(w)
  \/ FetchFails(w) \/ WriteFails(w) \/ StatementFails(w)

LEMMA StepKinds ==
  ASSUME TypeOK, [Next]_vars
  PROVE  \/ \E S \in SUBSET Target : Enqueues(S) /\ (up' = up \/ (Startup /\ S = Backfill))
         \/ Crash
         \/ Idles
         \/ \E w \in Worker : \E S \in SUBSET Target : ClaimBatch(w, S)
         \/ \E w \in Worker : Fetch(w) \/ Write(w)
         \/ \E w \in Worker : StepOf(w)
<1>1. CASE UNCHANGED vars \/ \E t \in Target : GoStale(t)
  BY <1>1 DEF vars, queue, GoStale, Idles
<1>2. CASE \/ \E S \in SUBSET User : Change(S)
           \/ \E S \in SUBSET Tweet : Change(S)
           \/ \E t \in Target : Refresh(t)
           \/ Startup \/ StartupFails
  BY <1>2, EnqueuesWhen
<1>3. ASSUME NEW w \in Worker, WorkerStep(w) \/ FetchFails(w) \/ WriteFails(w) \/ StatementFails(w)
      PROVE  \/ \E S \in SUBSET Target : ClaimBatch(w, S)
             \/ Fetch(w) \/ Write(w) \/ StepOf(w)
  BY <1>3 DEF WorkerStep, StepOf
<1>4. QED
  BY <1>1, <1>2, <1>3 DEF Next

LEMMA PlacementStep ==
  ASSUME TypeOK, Placement, [Next]_vars
  PROVE  Placement'
<1> SUFFICES ASSUME NEW v \in Worker
             PROVE  Placed(v)'
  BY DEF Placement
<1>1. Placed(v)
  BY DEF Placement
<1>2. CASE UNCHANGED <<pc, work>>
  BY <1>1, <1>2 DEF Placed, work
<1>3. CASE Crash
  BY <1>3 DEF Crash, Placed
<1>4. ASSUME NEW w \in Worker, OthersStay(w), Placed(w)'
      PROVE  Placed(v)'
  BY <1>1, <1>4 DEF OthersStay, Placed
<1>5. ASSUME NEW w \in Worker, NEW S \in SUBSET Target, ClaimBatch(w, S)
      PROVE  Placed(v)'
  BY <1>4, <1>5, ClaimMoves DEF Placement
<1>6. ASSUME NEW w \in Worker, Fetch(w) \/ Write(w)
      PROVE  Placed(v)'
  BY <1>4, <1>6, CallMoves DEF Placement
<1>7. ASSUME NEW w \in Worker, StepOf(w)
      PROVE  Placed(v)'
  BY <1>4, <1>7, TurnsBackWhen DEF Placement, StepOf, TurnsBack
<1>8. QED
  BY <1>2, <1>3, <1>5, <1>6, <1>7, StepKinds DEF Idles, Enqueues

-----------------------------------------------------------------------------
(* No refresh is lost.                                                     *)

\* What a worker has read of its present call.
Fetched(w) ==
  {t \in cur[w] : \/ pc[w] \in {"writeTweets", "complete"}
                  \/ t \in User /\ pc[w] \in {"writeUsers", "fetchTweets"}}

\* A worker that still has the claim of a target holds the version the
\* database has: a change in between has taken the claim away.
DocsFresh ==
  \A w \in Worker : \A t \in Fetched(w) :
    status[t] = "processing" /\ owner[t] = w => docs[w][t] = version[t]

LEMMA NothingFetched ==
  ASSUME NEW w \in Worker, AtStart(w)
  PROVE  Fetched(w) = {}
  BY DEF AtStart, Fetched

\* No step gives a claim to a worker other than the one that steps.
LEMMA ClaimsAreOwn ==
  ASSUME TypeOK, NEW w \in Worker,
         Fetch(w) \/ Write(w) \/ StepOf(w) \/ \E S \in SUBSET Target : ClaimBatch(w, S),
         NEW t \in Target, status'[t] = "processing", owner'[t] # w
  PROVE  status[t] = "processing" /\ owner'[t] = owner[t]
<1>1. CASE ExpireStale(w)
  BY <1>1 DEF ExpireStale, TypeOK
<1>2. CASE Complete(w)
  BY <1>2 DEF Complete, TypeOK
<1>3. CASE MarkFailed(w)
  BY <1>3 DEF MarkFailed, TypeOK
<1>4. CASE \E S \in SUBSET Target : ClaimBatch(w, S)
  BY <1>4, ClaimEffect
<1>5. CASE \/ ClaimNothing(w) \/ Fetch(w) \/ Write(w)
           \/ FetchFails(w) \/ WriteFails(w) \/ StatementFails(w)
  BY <1>5, QueueStays
<1>6. QED
  BY <1>1, <1>2, <1>3, <1>4, <1>5 DEF StepOf

\* A fetch reads what the database holds, and goes on with what it had read.
LEMMA FetchReads ==
  ASSUME TypeOK, Placement, DocsFresh, NEW w \in Worker, Fetch(w),
         NEW t \in Fetched(w)', status[t] = "processing", owner[t] = w
  PROVE  docs'[w][t] = version[t]
<1>1. t \in cur[w] /\ t \in Target
  BY CallMoves DEF Fetched, Placement, TypeOK
<1>2. docs'[w][t] = IF t \in cur[w] \cap KindOf(pc[w]) THEN version[t] ELSE docs[w][t]
  BY <1>1, FetchEffect
<1>3. CASE t \in KindOf(pc[w])
  BY <1>1, <1>2, <1>3
<1>4. CASE t \notin KindOf(pc[w])
  <2>1. pc[w] = "fetchTweets" /\ t \in User
    <3>1. (pc[w] = "fetchUsers" /\ pc'[w] = "writeUsers") \/ pc[w] = "fetchTweets"
      BY CallMoves DEF Placement
    <3>2. pc'[w] = "writeUsers" => t \in User
      BY DEF Fetched
    <3>3. QED
      BY <1>1, <1>4, <3>1, <3>2 DEF KindOf, Target
  <2>2. t \in Fetched(w)
    BY <1>1, <2>1 DEF Fetched
  <2>3. QED
    BY <1>2, <1>4, <2>2 DEF DocsFresh
<1>5. QED
  BY <1>3, <1>4

LEMMA DocsFreshStep ==
  ASSUME TypeOK, Placement, DocsFresh, [Next]_vars
  PROVE  DocsFresh'
<1> SUFFICES ASSUME NEW v \in Worker, NEW t \in Fetched(v)',
                    status'[t] = "processing", owner'[t] = v
             PROVE  docs'[v][t] = version'[t]
  BY DEF DocsFresh
<1>1. TypeOK'
  BY TypeStep
<1>2. t \in Target
  BY <1>1 DEF Fetched, TypeOK
<1>3. ASSUME t \in Fetched(v), status[t] = "processing", owner[t] = v,
             docs'[v][t] = docs[v][t], version'[t] = version[t]
      PROVE  docs'[v][t] = version'[t]
  BY <1>3 DEF DocsFresh
<1>4. ASSUME NEW S \in SUBSET Target, Enqueues(S)
      PROVE  docs'[v][t] = version'[t]
  <2>1. t \notin S
    BY <1>2, <1>4, EnqueueEffect, TypeParts DEF Enqueues
  <2>2. status[t] = "processing" /\ owner[t] = v
    BY <1>2, <1>4, <2>1, EnqueueEffect, TypeParts DEF Enqueues
  <2>3. version'[t] = version[t] /\ UNCHANGED <<pc, work>>
    BY <1>2, <1>4, <2>1 DEF Enqueues
  <2>4. QED
    BY <1>3, <2>2, <2>3 DEF Fetched, work
<1>5. CASE Crash
  BY <1>5 DEF Crash, Fetched
<1>6. CASE Idles
  <2>1. UNCHANGED <<version, status, owner, pc, cur, docs>>
    BY <1>6 DEF Idles, work
  <2>2. QED
    BY <1>3, <2>1 DEF Fetched
<1>7. ASSUME NEW w \in Worker, OthersStay(w), v # w, version' = version,
             status[t] = "processing", owner'[t] = owner[t]
      PROVE  docs'[v][t] = version'[t]
  BY <1>3, <1>7 DEF OthersStay, Fetched
<1>8. ASSUME NEW w \in Worker, AtStart(w)'
      PROVE  v # w
  BY <1>8 DEF AtStart, Fetched
<1>9. ASSUME NEW w \in Worker, NEW S \in SUBSET Target, ClaimBatch(w, S)
      PROVE  docs'[v][t] = version'[t]
  <2>1. OthersStay(w) /\ AtStart(w)'
    BY <1>9, ClaimMoves DEF Placement
  <2>2. version' = version
    BY <1>9 DEF ClaimBatch
  <2>3. status[t] = "processing" /\ owner'[t] = owner[t]
    BY <1>2, <1>8, <1>9, <2>1, ClaimsAreOwn
  <2>4. QED
    BY <1>7, <1>8, <2>1, <2>2, <2>3
<1>10. ASSUME NEW w \in Worker, StepOf(w)
       PROVE  docs'[v][t] = version'[t]
  <2>1. OthersStay(w) /\ AtStart(w)'
    BY <1>10, TurnsBackWhen DEF Placement, StepOf, TurnsBack
  <2>2. version' = version
    BY <1>10 DEF StepOf, ExpireStale, ClaimNothing, Complete, MarkFailed, FetchFails, WriteFails,
                 StatementFails
  <2>3. status[t] = "processing" /\ owner'[t] = owner[t]
    BY <1>2, <1>8, <1>10, <2>1, ClaimsAreOwn
  <2>4. QED
    BY <1>7, <1>8, <2>1, <2>2, <2>3
<1>11. ASSUME NEW w \in Worker, Fetch(w) \/ Write(w)
       PROVE  docs'[v][t] = version'[t]
  <2>1. OthersStay(w) /\ cur'[w] = cur[w]
    BY <1>11, CallMoves DEF Placement
  <2>2. UNCHANGED <<version, status, owner>>
    BY <1>11 DEF Fetch, Write, queue
  <2>3. CASE v # w
    BY <1>7, <2>1, <2>2, <2>3
  <2>4. CASE v = w /\ Fetch(w)
    BY <2>2, <2>4, FetchReads
  <2>5. CASE v = w /\ Write(w)
    <3>1. /\ docs' = docs
          /\ \/ pc[w] = "writeUsers" /\ pc'[w] = "fetchTweets"
             \/ pc[w] = "writeUsers" /\ pc'[w] = "complete" /\ cur[w] \cap Tweet = {}
             \/ pc[w] = "writeTweets" /\ pc'[w] = "complete"
      BY <2>5, CallMoves DEF Placement
    <3>2. t \in Fetched(w)
      BY <1>2, <2>1, <2>5, <3>1 DEF Fetched, Target
    <3>3. QED
      BY <1>3, <2>2, <2>5, <3>1, <3>2
  <2>6. QED
    BY <1>11, <2>3, <2>4, <2>5
<1>12. QED
  BY <1>4, <1>5, <1>6, <1>9, <1>10, <1>11, StepKinds

LEMMA PlacedInit ==
  ASSUME Init
  PROVE  Placement /\ DocsFresh
  BY DEF Init, Placement, Placed, DocsFresh, Fetched

\* A row becomes completed only by the worker that has its claim.
LEMMA CompletedBy ==
  ASSUME TypeOK, [Next]_vars, NEW t \in Target,
         status'[t] = "completed", status[t] # "completed"
  PROVE  \E w \in Worker : Complete(w) /\ t \in Owned(w)
<1>1. ASSUME NEW S \in SUBSET Target, Enqueues(S)
      PROVE  FALSE
  BY <1>1, EnqueueEffect, TypeParts DEF Enqueues
<1>2. ASSUME NEW w \in Worker, NEW S \in SUBSET Target, ClaimBatch(w, S)
      PROVE  FALSE
  BY <1>2, ClaimEffect
<1>3. CASE Crash \/ \E w \in Worker : Fetch(w) \/ Write(w)
  BY <1>3, QueueStays
<1>4. CASE Idles
  BY <1>4 DEF Idles
<1>5. ASSUME NEW w \in Worker, StepOf(w)
      PROVE  Complete(w) /\ t \in Owned(w)
  <2>1. CASE ExpireStale(w)
    BY <2>1 DEF ExpireStale
  <2>2. CASE MarkFailed(w)
    BY <2>2 DEF MarkFailed
  <2>3. CASE Complete(w)
    BY <2>3 DEF Complete
  <2>4. CASE ClaimNothing(w) \/ FetchFails(w) \/ WriteFails(w) \/ StatementFails(w)
    BY <2>4, QueueStays
  <2>5. QED
    BY <1>5, <2>1, <2>2, <2>3, <2>4 DEF StepOf
<1>6. QED
  BY <1>1, <1>2, <1>3, <1>4, <1>5, StepKinds

LEMMA RefreshKept ==
  ASSUME TypeOK, DocsFresh, [Next]_vars, NEW t \in Target,
         status[t] = "processing", status'[t] = "completed"
  PROVE  docs[owner[t]][t] = version[t]
<1>1. PICK w \in Worker : Complete(w) /\ t \in Owned(w)
  BY CompletedBy
<1>2. owner[t] = w /\ t \in Fetched(w)
  BY <1>1 DEF Owned, Complete, Fetched
<1>3. QED
  BY <1>2 DEF DocsFresh

\* However long a worker has been busy with a target, it completes the task
\* only if what it read is what the database holds.
THEOREM RefreshTheorem == Spec => NoRefreshLost
<1>1. Init => TypeOK /\ Placement /\ DocsFresh
  BY InitTyped, PlacedInit
<1>2. TypeOK /\ Placement /\ DocsFresh /\ [Next]_vars => (TypeOK /\ Placement /\ DocsFresh)'
  BY TypeStep, PlacementStep, DocsFreshStep
<1>3. TypeOK /\ DocsFresh /\ [Next]_vars =>
        [\A t \in Target : status[t] = "processing" /\ status'[t] = "completed" =>
           docs[owner[t]][t] = version[t]]_vars
  BY RefreshKept
<1>4. QED
  BY <1>1, <1>2, <1>3, PTL DEF Spec, NoRefreshLost

-----------------------------------------------------------------------------
(* Completed targets are indexed, with one worker.                         *)

SingleWorker == \A v, w \in Worker : v = w

\* A document that is not empty has been read from rows, which stay.
Known ==
  \A t \in Target : version[t] = 0 =>
    /\ index[t] = 0 /\ buffer[t] \subseteq {0}
    /\ \A w \in Worker : docs[w][t] = 0

\* No worker is to write the target, and no operation on it is uncommitted.
Quiet(t) == buffer[t] = {} /\ \A w \in Worker : t \notin cur[w] \cup rest[w]

\* A target without a task was never enqueued: no index knows it, and at run
\* time the database holds nothing of it.
Unknown ==
  \A t \in Target : status[t] = "absent" =>
    /\ Quiet(t) /\ index[t] = 0
    /\ up => version[t] = 0

\* A target whose task is completed is indexed as the database holds it, unless
\* an index was lost with the process, which is down then.
Settled ==
  \A t \in Target : status[t] = "completed" =>
    /\ Quiet(t) /\ index[t] \in {0, version[t]}
    /\ up => index[t] = version[t]

\* What the worker has written of its present call is committed.
Written(w) ==
  {t \in cur[w] : \/ pc[w] = "complete"
                  \/ t \in User /\ pc[w] \in {"fetchTweets", "writeTweets"}}

WrittenThere ==
  \A w \in Worker : \A t \in Written(w) : index[t] = docs[w][t] /\ buffer[t] = {}

FreshInv == Placement /\ DocsFresh /\ Known /\ Unknown /\ Settled /\ WrittenThere

\* What a write or a failed one does to the documents of a target.
LEMMA IndexEffect ==
  ASSUME TypeOK, NEW w \in Worker, Write(w) \/ WriteFails(w), NEW t \in Target
  PROVE  /\ index'[t] \in {index[t], docs[w][t]} \cup buffer[t]
         /\ buffer'[t] \subseteq buffer[t] \cup {docs[w][t], 0}
         /\ t \notin cur[w] /\ buffer[t] = {} => index'[t] = index[t] /\ buffer'[t] = {}
<1>1. CASE Commit(w)
  BY <1>1, CommitEffect, TypeParts
<1>2. CASE ~Commit(w)
  <2>1. WriteFails(w)
    BY <1>2 DEF Write
  <2>2. /\ index' = index
        /\ \/ buffer'[t] = buffer[t]
           \/ t \in cur[w] /\ buffer'[t] \in {{docs[w][t]}, {0}}
    BY <1>2, <2>1, WriteFailsEffect
  <2>3. QED
    BY <2>2
<1>3. QED
  BY <1>1, <1>2

\* The steps that leave the indexes and the writers alone.
LEMMA IndexStays ==
  ASSUME \/ \E w \in Worker : \/ ExpireStale(w) \/ ClaimNothing(w) \/ Complete(w)
                              \/ MarkFailed(w) \/ FetchFails(w) \/ StatementFails(w)
                              \/ Fetch(w)
         \/ \E w \in Worker : \E S \in SUBSET Target : ClaimBatch(w, S)
  PROVE  UNCHANGED <<index, buffer>>
  BY DEF ExpireStale, ClaimNothing, Complete, MarkFailed, FetchFails, StatementFails, Fetch,
         ClaimBatch

\* The steps of a worker change no version and are taken by a running process,
\* or leave it as it is.
LEMMA WorkerLeaves ==
  ASSUME NEW w \in Worker,
         Fetch(w) \/ Write(w) \/ StepOf(w) \/ \E S \in SUBSET Target : ClaimBatch(w, S)
  PROVE  UNCHANGED <<version, up>>
  BY DEF Fetch, Write, ClaimBatch, StepOf, ExpireStale, ClaimNothing, Complete, MarkFailed,
         FetchFails, WriteFails, StatementFails

\* What a step of a worker does to a row it does not claim.
LEMMA RowEffect ==
  ASSUME TypeOK, NEW w \in Worker, Fetch(w) \/ Write(w) \/ StepOf(w), NEW t \in Target
  PROVE  /\ status'[t] = "absent" => status[t] = "absent"
         /\ status'[t] = "completed" =>
              status[t] = "completed" \/ (Complete(w) /\ t \in Owned(w))
<1>1. CASE ExpireStale(w)
  BY <1>1 DEF ExpireStale
<1>2. CASE MarkFailed(w)
  BY <1>2 DEF MarkFailed
<1>3. CASE Complete(w)
  BY <1>3 DEF Complete
<1>4. CASE \/ ClaimNothing(w) \/ FetchFails(w) \/ WriteFails(w) \/ StatementFails(w)
           \/ Fetch(w) \/ Write(w)
  BY <1>4, QueueStays
<1>5. QED
  BY <1>1, <1>2, <1>3, <1>4 DEF StepOf

LEMMA FreshInit ==
  ASSUME Init
  PROVE  FreshInv
<1>1. Known
  BY DEF Init, Known, NoDocs
<1>2. Unknown /\ Settled
  BY DEF Init, Unknown, Settled, Quiet, NoDocs
<1>3. WrittenThere
  BY DEF Init, WrittenThere, Written
<1>4. QED
  BY <1>1, <1>2, <1>3, PlacedInit DEF FreshInv

LEMMA KnownStep ==
  ASSUME TypeOK, Placement, Known, [Next]_vars
  PROVE  Known'
<1> SUFFICES ASSUME NEW t \in Target, version'[t] = 0
             PROVE  /\ index'[t] = 0 /\ buffer'[t] \subseteq {0}
                    /\ \A v \in Worker : docs'[v][t] = 0
  BY DEF Known
<1>1. version[t] = 0 =>
        /\ index[t] = 0 /\ buffer[t] \subseteq {0}
        /\ \A v \in Worker : docs[v][t] = 0
  BY DEF Known
<1>2. ASSUME NEW S \in SUBSET Target, Enqueues(S)
      PROVE  version[t] = 0 /\ UNCHANGED <<index, buffer, docs>>
  BY <1>2 DEF Enqueues, work
<1>3. CASE Idles
  BY <1>1, <1>3 DEF Idles, work
<1>4. CASE Crash
  <2>1. version' = version
    BY <1>4 DEF Crash
  <2>2. index'[t] \in {0, index[t]} /\ buffer'[t] = {} /\ docs' = [v \in Worker |-> NoDocs]
    BY <1>4 DEF Crash
  <2>3. QED
    BY <1>1, <2>1, <2>2 DEF NoDocs
<1>5. ASSUME NEW w \in Worker, NEW S \in SUBSET Target, ClaimBatch(w, S)
      PROVE  UNCHANGED <<version, index, buffer, docs>>
  BY <1>5 DEF ClaimBatch
<1>6. ASSUME NEW w \in Worker, OthersStay(w), docs'[w][t] \in {0, docs[w][t]},
             version' = version,
             UNCHANGED <<index, buffer>> \/ Write(w) \/ WriteFails(w)
      PROVE  /\ index'[t] = 0 /\ buffer'[t] \subseteq {0}
             /\ \A v \in Worker : docs'[v][t] = 0
  <2>1. \A v \in Worker : docs'[v][t] = 0
    BY <1>1, <1>6 DEF OthersStay
  <2>2. docs[w][t] = 0 /\ index[t] = 0 /\ buffer[t] \subseteq {0}
    BY <1>1, <1>6
  <2>3. index'[t] = 0 /\ buffer'[t] \subseteq {0}
    BY <1>6, <2>2, IndexEffect
  <2>4. QED
    BY <2>1, <2>3
<1>7. ASSUME NEW w \in Worker, Fetch(w)
      PROVE  /\ index'[t] = 0 /\ buffer'[t] \subseteq {0}
             /\ \A v \in Worker : docs'[v][t] = 0
  <2>1. UNCHANGED <<version, index, buffer>>
    BY <1>7 DEF Fetch
  <2>2. docs'[w][t] \in {version[t], docs[w][t]}
    BY <1>7, FetchEffect
  <2>3. OthersStay(w)
    BY <1>7, CallMoves DEF Placement
  <2>4. QED
    BY <1>6, <2>1, <2>2, <2>3
<1>8. ASSUME NEW w \in Worker, Write(w)
      PROVE  /\ index'[t] = 0 /\ buffer'[t] \subseteq {0}
             /\ \A v \in Worker : docs'[v][t] = 0
  <2>1. OthersStay(w) /\ docs' = docs
    BY <1>8, CallMoves DEF Placement
  <2>2. QED
    BY <1>6, <1>8, <2>1, WorkerLeaves
<1>9. ASSUME NEW w \in Worker, StepOf(w)
      PROVE  /\ index'[t] = 0 /\ buffer'[t] \subseteq {0}
             /\ \A v \in Worker : docs'[v][t] = 0
  <2>1. OthersStay(w) /\ docs'[w] \in {NoDocs, docs[w]}
    BY <1>9, TurnsBackWhen DEF Placement, StepOf, TurnsBack
  <2>2. docs'[w][t] \in {0, docs[w][t]}
    BY <2>1 DEF NoDocs
  <2>3. UNCHANGED <<index, buffer>> \/ WriteFails(w)
    BY <1>9, IndexStays DEF StepOf
  <2>4. QED
    BY <1>6, <1>9, <2>1, <2>2, <2>3, WorkerLeaves
<1>10. QED
  BY <1>1, <1>2, <1>3, <1>4, <1>5, <1>7, <1>8, <1>9, StepKinds

\* The backfill: a kind it leaves alone has a document for every row.
LEMMA BackfillComplete ==
  ASSUME TypeOK, Known, NEW t \in Target, t \notin Backfill, version[t] # 0
  PROVE  index[t] # 0
<1>1. PICK kind \in {User, Tweet} : t \in kind
  BY DEF Target
<1> DEFINE found == {u \in kind : index[u] # 0}
           held == {u \in kind : version[u] # 0}
<1>2. Documents(index, kind) = Documents(version, kind)
  BY <1>1 DEF Backfill
<1>3. Cardinality(found) = Cardinality(held)
  BY <1>2 DEF Documents
<1>4. found \subseteq held
  BY DEF Known, Target
<1>5. IsFiniteSet(held)
  BY SearchAssumption, FS_Subset
<1>6. found = held
  BY <1>3, <1>4, <1>5, FS_Subset
<1>7. t \in held
  BY <1>1
<1>8. QED
  BY <1>6, <1>7

\* Targets that stay quiet through a step of a worker, which does not claim.
LEMMA QuietStays ==
  ASSUME TypeOK, Placement, NEW w \in Worker, Fetch(w) \/ Write(w) \/ StepOf(w),
         NEW t \in Target, Quiet(t)
  PROVE  Quiet(t)' /\ index'[t] = index[t]
<1>1. t \notin cur[w] \cup rest[w] /\ buffer[t] = {}
  BY DEF Quiet
<1>2. index'[t] = index[t] /\ buffer'[t] = {}
  <2>1. CASE Write(w) \/ WriteFails(w)
    BY <1>1, <2>1, IndexEffect
  <2>2. CASE ~(Write(w) \/ WriteFails(w))
    BY <1>1, <2>2, IndexStays DEF StepOf
  <2>3. QED
    BY <2>1, <2>2
<1>3. /\ OthersStay(w)
      /\ cur'[w] \cup rest'[w] \subseteq cur[w] \cup rest[w]
  <2>1. CASE StepOf(w)
    BY <2>1, TurnsBackWhen DEF Placement, StepOf, TurnsBack
  <2>2. CASE Fetch(w) \/ Write(w)
    BY <2>2, CallMoves DEF Placement
  <2>3. QED
    BY <2>1, <2>2
<1>4. \A v \in Worker : t \notin cur'[v] \cup rest'[v]
  BY <1>1, <1>3 DEF OthersStay, Quiet
<1>5. QED
  BY <1>2, <1>4 DEF Quiet

\* A target that is not pending or stale stays quiet through a claim.
LEMMA QuietClaim ==
  ASSUME TypeOK, Placement, NEW w \in Worker, NEW S \in SUBSET Target, ClaimBatch(w, S),
         NEW t \in Target, status[t] \in {"absent", "completed"}, Quiet(t)
  PROVE  Quiet(t)' /\ index'[t] = index[t]
<1>1. t \notin S
  BY ClaimEffect
<1>2. OthersStay(w) /\ cur'[w] = S /\ rest'[w] = {}
  BY ClaimMoves DEF Placement
<1>3. UNCHANGED <<index, buffer>>
  BY DEF ClaimBatch
<1>4. \A v \in Worker : t \notin cur'[v] \cup rest'[v]
  BY <1>1, <1>2 DEF OthersStay, Quiet
<1>5. QED
  BY <1>3, <1>4 DEF Quiet

LEMMA UnknownStep ==
  ASSUME TypeOK, Placement, Known, Unknown, [Next]_vars
  PROVE  Unknown'
<1> SUFFICES ASSUME NEW t \in Target, status'[t] = "absent"
             PROVE  Quiet(t)' /\ index'[t] = 0 /\ (up' => version'[t] = 0)
  BY DEF Unknown
<1>1. status[t] = "absent" => Quiet(t) /\ index[t] = 0 /\ (up => version[t] = 0)
  BY DEF Unknown
<1>2. ASSUME NEW S \in SUBSET Target, Enqueues(S), up' = up \/ (Startup /\ S = Backfill)
      PROVE  Quiet(t)' /\ index'[t] = 0 /\ (up' => version'[t] = 0)
  <2>1. t \notin S /\ status[t] = "absent"
    BY <1>2, EnqueueEffect, TypeParts DEF Enqueues
  <2>2. UNCHANGED <<index, buffer, cur, rest>> /\ version'[t] = version[t]
    BY <1>2, <2>1 DEF Enqueues, work
  <2>3. Quiet(t)' /\ index'[t] = 0
    BY <1>1, <2>1, <2>2 DEF Quiet
  <2>4. up' => version[t] = 0
    BY <1>1, <1>2, <2>1, BackfillComplete
  <2>5. QED
    BY <2>2, <2>3, <2>4
<1>3. CASE Idles
  <2>1. UNCHANGED <<version, status, index, buffer, up, cur, rest>>
    BY <1>3 DEF Idles, work
  <2>2. QED
    BY <1>1, <2>1 DEF Quiet
<1>4. CASE Crash
  <2>1. status' = status /\ up' = FALSE
    BY <1>4 DEF Crash, queue
  <2>2. index'[t] \in {0, index[t]} /\ Quiet(t)'
    BY <1>4 DEF Crash, Quiet
  <2>3. QED
    BY <1>1, <2>1, <2>2
<1>5. ASSUME NEW w \in Worker, NEW S \in SUBSET Target, ClaimBatch(w, S)
      PROVE  Quiet(t)' /\ index'[t] = 0 /\ (up' => version'[t] = 0)
  <2>1. status[t] = "absent"
    BY <1>5, ClaimEffect
  <2>2. QED
    BY <1>1, <1>5, <2>1, QuietClaim, WorkerLeaves
<1>6. ASSUME NEW w \in Worker, Fetch(w) \/ Write(w) \/ StepOf(w)
      PROVE  Quiet(t)' /\ index'[t] = 0 /\ (up' => version'[t] = 0)
  <2>1. status[t] = "absent"
    BY <1>6, RowEffect
  <2>2. QED
    BY <1>1, <1>6, <2>1, QuietStays, WorkerLeaves
<1>7. QED
  BY <1>2, <1>3, <1>4, <1>5, <1>6, StepKinds

\* What a worker has written of its call stays as it is while it steps on.
LEMMA WrittenStep ==
  ASSUME SingleWorker, TypeOK, Placement, WrittenThere, [Next]_vars
  PROVE  WrittenThere'
<1> SUFFICES ASSUME NEW w \in Worker, NEW t \in Written(w)'
             PROVE  index'[t] = docs'[w][t] /\ buffer'[t] = {}
  BY DEF WrittenThere
<1>1. t \in Target
  BY TypeStep DEF Written, TypeOK
<1>2. ASSUME UNCHANGED <<index, buffer, pc, work>>
      PROVE  index'[t] = docs'[w][t] /\ buffer'[t] = {}
  BY <1>2 DEF WrittenThere, Written, work
<1>3. CASE Crash
  BY <1>3 DEF Crash, Written
<1>4. ~AtStart(w)'
  BY DEF AtStart, Written
<1>5. ASSUME NEW v \in Worker, NEW S \in SUBSET Target, ClaimBatch(v, S)
      PROVE  FALSE
  BY <1>4, <1>5, ClaimMoves DEF Placement, SingleWorker
<1>6. ASSUME NEW v \in Worker, StepOf(v)
      PROVE  FALSE
  BY <1>4, <1>6, TurnsBackWhen DEF Placement, StepOf, TurnsBack, SingleWorker
<1>7. CASE Fetch(w)
  <2>1. UNCHANGED <<index, buffer>> /\ cur'[w] = cur[w]
    BY <1>7, CallMoves DEF Fetch, Placement
  <2>2. pc[w] = "fetchTweets" /\ t \in User /\ t \in cur[w]
    BY <1>7, <2>1, CallMoves DEF Placement, Written
  <2>3. t \in Written(w) /\ t \notin KindOf(pc[w])
    BY <2>2, SearchAssumption DEF Written, KindOf
  <2>4. docs'[w][t] = docs[w][t]
    BY <1>1, <1>7, <2>3, FetchEffect
  <2>5. QED
    BY <2>1, <2>3, <2>4 DEF WrittenThere
<1>8. CASE Write(w)
  <2>1. /\ cur'[w] = cur[w] /\ docs' = docs
        /\ \/ pc[w] = "writeUsers" /\ pc'[w] = "fetchTweets"
           \/ pc[w] = "writeUsers" /\ pc'[w] = "complete" /\ cur[w] \cap Tweet = {}
           \/ pc[w] = "writeTweets" /\ pc'[w] = "complete"
    BY <1>8, CallMoves DEF Placement
  <2>2. t \in cur[w]
    BY <2>1 DEF Written
  <2>3. Commit(w)
    BY <1>8 DEF Write
  <2>4. CASE t \in KindOf(pc[w])
    BY <1>1, <2>1, <2>2, <2>3, <2>4, CommitEffect, TypeParts
  <2>5. CASE t \notin KindOf(pc[w])
    <3>1. pc[w] = "writeTweets" /\ t \in User
      BY <1>1, <2>1, <2>2, <2>5 DEF KindOf, Target, Written
    <3>2. t \in Written(w)
      BY <2>2, <3>1 DEF Written
    <3>3. index'[t] = index[t] /\ buffer'[t] = buffer[t]
      BY <1>1, <2>3, <2>5, CommitEffect, TypeParts
    <3>4. QED
      BY <2>1, <3>2, <3>3 DEF WrittenThere
  <2>6. QED
    BY <2>4, <2>5
<1>9. \A v \in Worker : v = w
  BY DEF SingleWorker
<1>10. QED
  BY <1>2, <1>3, <1>5, <1>6, <1>7, <1>8, <1>9, StepKinds DEF Idles, Enqueues

\* A worker that completes its call leaves each target it owns indexed as the
\* database holds it, and lets go of it.
LEMMA CompleteSettles ==
  ASSUME SingleWorker, TypeOK, Placement, DocsFresh, WrittenThere,
         NEW w \in Worker, Complete(w), NEW t \in Target, t \in Owned(w)
  PROVE  Quiet(t)' /\ index'[t] = version[t]
<1>1. /\ pc[w] = "complete" /\ Proceed(w, rest[w]) /\ UNCHANGED <<index, buffer>>
      /\ t \in cur[w] /\ status[t] = "processing" /\ owner[t] = w
  BY DEF Complete, Owned
<1>2. index[t] = docs[w][t] /\ buffer[t] = {}
  BY <1>1 DEF WrittenThere, Written
<1>3. docs[w][t] = version[t]
  BY <1>1 DEF DocsFresh, Fetched
<1>4. t \notin rest[w]
  BY <1>1 DEF Placement, Placed
<1>5. cur'[w] \cup rest'[w] \subseteq rest[w]
  BY <1>1, ProceedEffect, TypeParts DEF WorkTyped
<1>6. \A v \in Worker : t \notin cur'[v] \cup rest'[v]
  BY <1>4, <1>5 DEF SingleWorker
<1>7. QED
  BY <1>1, <1>2, <1>3, <1>6 DEF Quiet

LEMMA SettledStep ==
  ASSUME SingleWorker, TypeOK, FreshInv, [Next]_vars
  PROVE  Settled'
<1> USE DEF FreshInv
<1> SUFFICES ASSUME NEW t \in Target, status'[t] = "completed"
             PROVE  /\ Quiet(t)' /\ index'[t] \in {0, version'[t]}
                    /\ up' => index'[t] = version'[t]
  BY DEF Settled
<1>1. status[t] = "completed" =>
        Quiet(t) /\ index[t] \in {0, version[t]} /\ (up => index[t] = version[t])
  BY DEF Settled
<1>2. ASSUME NEW S \in SUBSET Target, Enqueues(S), up' = up \/ (Startup /\ S = Backfill)
      PROVE  /\ Quiet(t)' /\ index'[t] \in {0, version'[t]}
             /\ up' => index'[t] = version'[t]
  <2>1. t \notin S /\ status[t] = "completed"
    BY <1>2, EnqueueEffect, TypeParts DEF Enqueues
  <2>2. UNCHANGED <<index, buffer, cur, rest>> /\ version'[t] = version[t]
    BY <1>2, <2>1 DEF Enqueues, work
  <2>3. Quiet(t)' /\ index'[t] \in {0, version'[t]}
    BY <1>1, <2>1, <2>2 DEF Quiet
  <2>4. up' => index[t] = version[t]
    BY <1>1, <1>2, <2>1, BackfillComplete
  <2>5. QED
    BY <2>2, <2>3, <2>4
<1>3. CASE Idles
  <2>1. UNCHANGED <<version, status, index, buffer, up, cur, rest>>
    BY <1>3 DEF Idles, work
  <2>2. QED
    BY <1>1, <2>1 DEF Quiet
<1>4. CASE Crash
  <2>1. status' = status /\ up' = FALSE /\ version' = version
    BY <1>4 DEF Crash, queue
  <2>2. index'[t] \in {0, index[t]} /\ Quiet(t)'
    BY <1>4 DEF Crash, Quiet
  <2>3. QED
    BY <1>1, <2>1, <2>2
<1>5. ASSUME NEW w \in Worker, NEW S \in SUBSET Target, ClaimBatch(w, S)
      PROVE  /\ Quiet(t)' /\ index'[t] \in {0, version'[t]}
             /\ up' => index'[t] = version'[t]
  <2>1. status[t] = "completed"
    BY <1>5, ClaimEffect
  <2>2. QED
    BY <1>1, <1>5, <2>1, QuietClaim, WorkerLeaves
<1>6. ASSUME NEW w \in Worker, Fetch(w) \/ Write(w) \/ StepOf(w)
      PROVE  /\ Quiet(t)' /\ index'[t] \in {0, version'[t]}
             /\ up' => index'[t] = version'[t]
  <2>1. UNCHANGED <<version, up>>
    BY <1>6, WorkerLeaves
  <2>2. CASE status[t] = "completed"
    BY <1>1, <1>6, <2>1, <2>2, QuietStays
  <2>3. CASE Complete(w) /\ t \in Owned(w)
    BY <2>1, <2>3, CompleteSettles
  <2>4. QED
    BY <1>6, <2>2, <2>3, RowEffect
<1>7. QED
  BY <1>2, <1>3, <1>4, <1>5, <1>6, StepKinds

LEMMA FreshStep ==
  ASSUME SingleWorker, TypeOK, FreshInv, [Next]_vars
  PROVE  FreshInv'
<1>1. Placement' /\ DocsFresh' /\ Known' /\ Unknown'
  BY PlacementStep, DocsFreshStep, KnownStep, UnknownStep DEF FreshInv
<1>2. WrittenThere' /\ Settled'
  BY WrittenStep, SettledStep DEF FreshInv
<1>3. QED
  BY <1>1, <1>2 DEF FreshInv

LEMMA FreshEnough ==
  ASSUME FreshInv
  PROVE  CompletedIsFresh
  BY DEF FreshInv, Unknown, Settled, CompletedIsFresh

\* With one worker, whatever fails, crashes or is lost with an index, and
\* however long a batch lasts, a running process finds by a search, as the
\* database holds it, every target that no queued task is to index.
THEOREM FreshTheorem == SingleWorker => (Spec => []CompletedIsFresh)
<1> SUFFICES ASSUME SingleWorker
             PROVE  Spec => []CompletedIsFresh
  OBVIOUS
<1>1. Init => TypeOK /\ FreshInv
  BY InitTyped, FreshInit
<1>2. TypeOK /\ FreshInv /\ [Next]_vars => (TypeOK /\ FreshInv)'
  BY TypeStep, FreshStep
<1>3. FreshInv => CompletedIsFresh
  BY FreshEnough
<1>4. QED
  BY <1>1, <1>2, <1>3, PTL DEF Spec
=============================================================================
