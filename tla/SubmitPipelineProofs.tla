------------------------ MODULE SubmitPipelineProofs ------------------------
(***************************************************************************)
(* For any requests, any number of them and any number of faults: no       *)
(* submission loses a fact; what a response calls stored is stored; no     *)
(* part of a request is lost in silence; a sync that met no other leaves   *)
(* the references its tweets ask for; the history of a parent whose        *)
(* versions came in order and one at a time gives each of them back; and   *)
(* a medium that is stored has its transfer task, of the URL chosen for it *)
(* where the requests agree on the choice.                                 *)
(***************************************************************************)
EXTENDS SubmitPipeline, FiniteSetTheorems, TLAPS

-----------------------------------------------------------------------------
(* What a table keeps when it becomes another.                             *)

\* Every row, and in it every value that is there.
Keeps(old, new) ==
  \A k \in DOMAIN old :
    /\ k \in DOMAIN new
    /\ \A c \in DOMAIN old[k] : old[k][c] # Null => new[k][c] = old[k][c]

\* A table keeps itself.
LEMMA KeepsSame == \A table : Keeps(table, table)
  BY DEF Keeps

\* COALESCE(table.c, EXCLUDED.c) keeps what is there.
LEMMA FilledKeeps ==
  ASSUME NEW old, NEW new, NEW cols, NEW c \in DOMAIN old, old[c] # Null
  PROVE  Filled(old, new, cols)[c] = old[c]
  BY DEF Filled

\* INSERT ... ON CONFLICT DO UPDATE keeps every row, whatever it is given and
\* whichever columns it fills.
LEMMA UpsertKeeps ==
  ASSUME NEW table, NEW rows, NEW cols
  PROVE  Keeps(table, Upsert(table, rows, cols))
<1> SUFFICES ASSUME NEW k \in DOMAIN table, NEW c \in DOMAIN table[k], table[k][c] # Null
             PROVE  Upsert(table, rows, cols)[k][c] = table[k][c]
  BY DEF Keeps, Upsert
<1>1. CASE k \notin DOMAIN rows
  BY <1>1 DEF Upsert
<1>2. CASE k \in DOMAIN rows
  <2>1. Upsert(table, rows, cols)[k] = Filled(table[k], rows[k], cols)
    BY <1>2 DEF Upsert
  <2>2. QED
    BY <2>1, FilledKeeps
<1>3. QED
  BY <1>1, <1>2

\* ON CONFLICT DO NOTHING leaves the rows that are there.
LEMMA AppendedKeeps ==
  ASSUME NEW table, NEW rows, NEW decisions
  PROVE  Keeps(table, Appended(table, rows, decisions))
  BY DEF Keeps, Appended

-----------------------------------------------------------------------------
(* The store as a function over the names of its tables.                   *)

IsStore(d) == d = [t \in Tables |-> d[t]]

\* A store that keeps the facts of another.
KeepsFacts(old, new) == IsStore(new) /\ \A t \in FactTables : Keeps(old[t], new[t])

\* Facts are tables.
LEMMA FactTablesAreTables == FactTables \subseteq Tables
  BY DEF Tables

\* So does the store.
LEMMA KeepsFactsSame == ASSUME NEW d, IsStore(d) PROVE KeepsFacts(d, d)
  BY KeepsSame DEF KeepsFacts

\* An update of one table that keeps its rows.
LEMMA KeepsFactsOne ==
  ASSUME NEW d, IsStore(d), NEW t \in Tables, NEW table, Keeps(d[t], table) \/ t \notin FactTables
  PROVE  KeepsFacts(d, [d EXCEPT ![t] = table])
<1>1. IsStore([d EXCEPT ![t] = table])
  BY DEF IsStore
<1>2. ASSUME NEW u \in FactTables PROVE Keeps(d[u], [d EXCEPT ![t] = table][u])
  BY KeepsSame, FactTablesAreTables DEF IsStore
<1>3. QED
  BY <1>1, <1>2 DEF KeepsFacts

\* The queue of the search index is no fact: it may become anything.
LEMMA QueueIsNoFact ==
  ASSUME NEW d, NEW new, KeepsFacts(d, new), NEW queue
  PROVE  KeepsFacts(d, [new EXCEPT !["index_queue"] = queue])
<1>1. "index_queue" \notin FactTables
  BY DEF FactTables, VersionTables, LookupTables, FilledTables
<1>2. IsStore([new EXCEPT !["index_queue"] = queue])
  BY DEF KeepsFacts, IsStore
<1>3. ASSUME NEW t \in FactTables
      PROVE  [new EXCEPT !["index_queue"] = queue][t] = new[t]
  BY <1>1, <1>3, FactTablesAreTables DEF KeepsFacts, IsStore
<1>4. QED
  BY <1>2, <1>3 DEF KeepsFacts

-----------------------------------------------------------------------------
(* Every step keeps the facts.                                             *)

\* A statement takes effect or does not.
LEMMA AfterKeeps ==
  ASSUME IsStore(db), NEW outcome, NEW new, KeepsFacts(db, new), DbAfter(outcome, new)
  PROVE  KeepsFacts(db, db')
  BY KeepsFactsSame DEF DbAfter

\* The writers of the rows that are filled column by column.
LEMMA WriteKeeps ==
  ASSUME IsStore(db), NEW t \in FilledTables, NEW rows
  PROVE  KeepsFacts(db, Write(t, rows))
<1>1. ASSUME NEW u \in FilledTables, NEW added, NEW cols
      PROVE  KeepsFacts(db, [db EXCEPT ![u] = Upsert(@, added, cols)])
  BY UpsertKeeps, KeepsFactsOne DEF FilledTables, FactTables, Tables
<1>2. ASSUME NEW u \in FilledTables, NEW added, NEW cols, NEW queue
      PROVE  KeepsFacts(db, [db EXCEPT ![u] = Upsert(@, added, cols), !["index_queue"] = queue])
  <2> DEFINE new == [db EXCEPT ![u] = Upsert(@, added, cols)]
  <2>1. KeepsFacts(db, new)
    BY <1>1
  <2>2. KeepsFacts(db, [new EXCEPT !["index_queue"] = queue])
    BY <2>1, QueueIsNoFact
  <2>3. QED
    BY <2>2
<1>3. CASE t = "twitter_user"
  <2>1. PICK queue : Write(t, rows) =
          [db EXCEPT !["twitter_user"] = Upsert(@, rows, {"registered_at"}), !["index_queue"] = queue]
    BY <1>3 DEF Write, WriteTwitterUsers
  <2>2. "twitter_user" \in FilledTables
    BY DEF FilledTables
  <2>3. KeepsFacts(db, [db EXCEPT !["twitter_user"] = Upsert(@, rows, {"registered_at"}), !["index_queue"] = queue])
    BY <2>2, <1>2
  <2>4. QED
    BY <2>1, <2>3
<1>4. CASE t = "tweet"
  <2>1. PICK queue : Write(t, rows) =
          [db EXCEPT !["tweet"] = Upsert(@, rows, TweetFilled), !["index_queue"] = queue]
    BY <1>4 DEF Write, WriteTweets
  <2>2. "tweet" \in FilledTables
    BY DEF FilledTables
  <2>3. KeepsFacts(db, [db EXCEPT !["tweet"] = Upsert(@, rows, TweetFilled), !["index_queue"] = queue])
    BY <2>2, <1>2
  <2>4. QED
    BY <2>1, <2>3
<1>5. CASE t \in {"media", "tweet_place"}
  BY <1>5, <1>1 DEF Write, WriteMedia, WriteTweetPlaces, FilledTables
<1>6. CASE t \in {"tweet_edit", "tweet_policy", "tweet_community_note"}
  BY <1>6, <1>1 DEF Write, WriteTweetEdits, WriteTweetPolicies, WriteTweetCommunityNotes, FilledTables
<1>7. QED
  BY <1>3, <1>4, <1>5, <1>6 DEF FilledTables

\* Every step keeps the facts.
LEMMA NextKeeps ==
  ASSUME IsStore(db), [Next]_vars
  PROVE  KeepsFacts(db, db')
<1>1. ASSUME NEW p, NEW o, CommitLookup(p, o) PROVE KeepsFacts(db, db')
  <2>1. PICK rows : DbAfter(o, [db EXCEPT ![req[p].step] = Upsert(@, rows, LookupFilled(req[p].step))])
    BY <1>1 DEF CommitLookup
  <2>2. req[p].step \in LookupTables
    BY <1>1 DEF CommitLookup
  <2>3. KeepsFacts(db, [db EXCEPT ![req[p].step] = Upsert(@, rows, LookupFilled(req[p].step))])
    BY <2>2, UpsertKeeps, KeepsFactsOne DEF FactTables, Tables
  <2>4. QED
    BY <2>1, <2>3, AfterKeeps
<1>2. ASSUME NEW p, NEW failing, Convert(p, failing) PROVE KeepsFacts(db, db')
  <2>1. KeepsFacts(db, OwnLookups(req[p].batch, failing))
    BY UpsertKeeps, KeepsSame, FactTablesAreTables DEF KeepsFacts, IsStore, OwnLookups
  <2>2. QED
    BY <1>2, <2>1, KeepsFactsSame DEF Convert
<1>3. ASSUME NEW p, NEW o, WriteRows(p, o) PROVE KeepsFacts(db, db')
  <2> DEFINE rows == Rows(req[p].plan[req[p].step])
  <2>1. req[p].step \in FilledTables /\ (DbAfter(o, Write(req[p].step, rows)) \/ db' = db)
    BY <1>3 DEF WriteRows
  <2>2. KeepsFacts(db, Write(req[p].step, rows))
    BY <2>1, WriteKeeps
  <2>3. QED
    BY <2>1, <2>2, AfterKeeps, KeepsFactsSame
<1>4. ASSUME NEW p, NEW o, AppendVersions(p, o) PROVE KeepsFacts(db, db')
  <2> DEFINE t == req[p].step
             written == [db EXCEPT ![t] = Appended(@, Rows(req[p].plan[t]), req[p].snapshot.decisions)]
  <2>1. PICK queue : /\ t \in VersionTables
                     /\ DbAfter(o, IF t = "user_snapshot" THEN [written EXCEPT !["index_queue"] = queue]
                                   ELSE written)
    BY <1>4 DEF AppendVersions
  <2>2. KeepsFacts(db, written)
    BY <2>1, AppendedKeeps, KeepsFactsOne DEF FactTables, Tables
  <2>3. KeepsFacts(db, [written EXCEPT !["index_queue"] = queue])
    BY <2>2, QueueIsNoFact
  <2>4. QED
    BY <2>1, <2>2, <2>3, AfterKeeps
<1>5. ASSUME NEW rows PROVE KeepsFacts(db, [db EXCEPT !["transfer_task"] = Upsert(@, rows, {})])
  BY UpsertKeeps, KeepsFactsOne DEF FactTables, Tables
<1>6. ASSUME NEW p, NEW o, NEW lucky, EnqueueTransfers(p, o, lucky) PROVE KeepsFacts(db, db')
  <2>1. PICK rows : DbAfter(o, [db EXCEPT !["transfer_task"] = Upsert(@, rows, {})])
    BY <1>6 DEF EnqueueTransfers
  <2>2. QED
    BY <2>1, <1>5, AfterKeeps
<1>7. ASSUME CreateTransferTask PROVE KeepsFacts(db, db')
  BY <1>5, <1>7 DEF CreateTransferTask
<1>8. ASSUME NEW p, NEW o, NEW insertFirst, CommitRelations(p, o, insertFirst) PROVE KeepsFacts(db, db')
  <2> DEFINE new == [t \in Tables |-> IF t \in RefTables THEN Synced(db[t], req[p].snapshot.plans[t])
                                      ELSE db[t]]
  <2>1. PICK effect : DbAfter(effect, new)
    BY <1>8 DEF CommitRelations
  <2>2. ASSUME NEW t \in FactTables PROVE new[t] = db[t]
    BY FactTablesAreTables
       DEF FactTables, VersionTables, LookupTables, FilledTables, RefTables
  <2>3. KeepsFacts(db, new)
    BY <2>2, KeepsSame DEF KeepsFacts, IsStore
  <2>4. QED
    BY <2>1, <2>3, AfterKeeps
<1>9. ASSUME NEW p, \/ ReadLookup(p) \/ DecideVersions(p) \/ PlanRelations(p) \/ Abandon(p)
                    \/ \E o \in Outcomes : Preload(p, o)
      PROVE  db' = db
  BY <1>9 DEF ReadLookup, DecideVersions, PlanRelations, Abandon, Preload
<1>10. ASSUME ReadSource \/ UNCHANGED vars PROVE db' = db
  BY <1>10 DEF ReadSource, vars
<1>11. QED
  BY <1>1, <1>2, <1>3, <1>4, <1>6, <1>7, <1>8, <1>9, <1>10, KeepsFactsSame DEF Next

-----------------------------------------------------------------------------
\* The tables are always those of the schema.
THEOREM StoreTheorem == Spec => []IsStore(db)
<1>1. Init => IsStore(db)
  BY DEF Init, IsStore
<1>2. IsStore(db) /\ [Next]_vars => IsStore(db)'
  BY NextKeeps DEF KeepsFacts
<1>3. QED
  BY <1>1, <1>2, PTL DEF Spec

\* No write removes a row of a table of facts or replaces a value that is
\* there, whatever is submitted, in whatever order and with whatever failures.
THEOREM FactsAreKeptTheorem == Spec => FactsAreKept
<1>1. IsStore(db) /\ [Next]_vars => [FactsKept]_vars
  BY NextKeeps DEF KeepsFacts, Keeps, FactsKept
<1>2. QED
  BY <1>1, StoreTheorem, PTL DEF Spec, FactsAreKept

\* A set of natural numbers has a least one.
LEMMA LeastNat ==
  ASSUME NEW T \in SUBSET Nat, T # {}
  PROVE  \E n \in T : \A m \in T : n <= m
<1> DEFINE below == {1..n : n \in T}
<1>1. ASSUME NEW n \in T PROVE 1..n \in FiniteSubsetsOf(Nat)
  <2>1. n \in Int
    OBVIOUS
  <2>2. IsFiniteSet(1..n)
    BY <2>1, FS_Interval
  <2>3. 1..n \subseteq Nat
    BY <2>1
  <2>4. QED
    BY <2>2, <2>3 DEF FiniteSubsetsOf
<1>2. PICK U \in below : \A V \in below : <<V, U>> \notin StrictSubsetOrdering(Nat)
  <2>1. below \subseteq FiniteSubsetsOf(Nat) /\ below # {}
    BY <1>1
  <2>2. QED
    BY <2>1, FS_StrictSubsetOrderingWellFounded, WFMin
<1>3. PICK n \in T : U = 1..n
  OBVIOUS
<1>4. ASSUME NEW m \in T PROVE n <= m
  <2>1. SUFFICES ASSUME m < n PROVE FALSE
    OBVIOUS
  <2>2. 1..m \subseteq 1..n /\ 1..m # 1..n
    <3>1. n \in 1..n /\ n \notin 1..m
      BY <2>1
    <3>2. 1..m \subseteq 1..n
      BY <2>1
    <3> QED BY <3>1, <3>2
  <2>3. 1..m \subseteq Nat /\ 1..n \subseteq Nat
    OBVIOUS
  <2>4. <<1..m, U>> \in StrictSubsetOrdering(Nat)
    BY <1>3, <2>2, <2>3 DEF StrictSubsetOrdering
  <2>5. QED
    BY <1>2, <2>4
<1>5. QED
  BY <1>4

-----------------------------------------------------------------------------
(* The order of the statements.                                            *)

\* Of the steps that have work there is a first.
LEMMA LeastStep ==
  ASSUME NEW w, NEW i \in 1..22, w[23]
  PROVE  \E m \in i + 1..23 : w[m] /\ \A j \in i + 1..m - 1 : ~w[j]
  OBVIOUS

\* No step comes twice.
LEMMA StepsDistinct == DOMAIN Steps = 1..23 /\ \A i, j \in 1..23 : Steps[i] = Steps[j] => i = j
  BY DEF Steps

\* So the position of a step is its index.
LEMMA PositionIs == \A i \in 1..23 : Position(Steps[i]) = i
  BY StepsDistinct, Zenon DEF Position

\* After finds the next step that has work.
LEMMA AfterIs ==
  ASSUME NEW s, NEW i \in 1..22
  PROVE  \E m \in i + 1..23 : /\ After(s, Steps[i]) = Steps[m] /\ HasWork(s, Steps[m])
                              /\ \A j \in i + 1..m - 1 : ~HasWork(s, Steps[j])
<1> DEFINE w == [m \in 1..23 |-> HasWork(s, Steps[m])]
           first(m) == /\ m > Position(Steps[i]) /\ HasWork(s, Steps[m])
                       /\ \A j \in Position(Steps[i]) + 1..m - 1 : ~HasWork(s, Steps[j])
<1>1. HasWork(s, Steps[23])
  BY DEF HasWork, Steps, LookupTables
<1>2. \E m \in i + 1..23 : w[m] /\ \A j \in i + 1..m - 1 : ~w[j]
  <2>1. w[23]
    BY <1>1
  <2> HIDE DEF w
  <2>2. QED
    BY <2>1, LeastStep
<1>3. PICK m \in i + 1..23 : HasWork(s, Steps[m]) /\ \A j \in i + 1..m - 1 : ~HasWork(s, Steps[j])
  BY <1>2
<1>4. first(m) /\ m \in DOMAIN Steps
  BY <1>3, StepsDistinct, PositionIs
<1>5. \A n \in DOMAIN Steps : first(n) => n = m
  BY <1>3, StepsDistinct, PositionIs
<1>6. After(s, Steps[i]) = Steps[CHOOSE n \in DOMAIN Steps : first(n)]
  BY DEF After
<1> HIDE DEF first
<1>7. After(s, Steps[i]) = Steps[m]
  BY <1>4, <1>5, <1>6, Zenon
<1>8. QED
  BY <1>3, <1>7

\* The steps by number.
LEMMA StepNames ==
  /\ Steps[1] = "user_category" /\ Steps[2] = "hashtag" /\ Steps[3] = "symbol"
  /\ Steps[4] = "convert" /\ Steps[5] = "dict_preload" /\ Steps[6] = "twitter_user"
  /\ Steps[7] = "user_snapshot" /\ Steps[8] = "user_stats" /\ Steps[9] = "media"
  /\ Steps[10] = "media_resource" /\ Steps[11] = "transfer_task" /\ Steps[12] = "tweet_place"
  /\ Steps[13] = "tweet" /\ Steps[14] = "tweet_edit" /\ Steps[15] = "tweet_policy"
  /\ Steps[16] = "tweet_community_note" /\ Steps[17] = "tweet_stats"
  /\ Steps[18] = "tweet_media_ref" /\ Steps[19] = "tweet_mention_ref"
  /\ Steps[20] = "tweet_hashtag_ref" /\ Steps[21] = "tweet_symbol_ref"
  /\ Steps[22] = "relations" /\ Steps[23] = "done"
  BY DEF Steps

\* A sync reads and commits only for a request that has tweets to relate.
LEMMA RelatingWork ==
  ASSUME NEW s, NEW m \in 18..22
  PROVE  HasWork(s, Steps[m]) <=> s.plan["relations"] # {}
<1>1. Steps[m] \in RefTables \cup {"relations"}
  BY StepNames DEF RefTables
<1>2. QED
  BY <1>1 DEF HasWork, RefTables, LookupTables

\* A request enters its sync at the first table of it.
LEMMA AfterOutside ==
  ASSUME NEW s, NEW i \in 1..17
  PROVE  \/ After(s, Steps[i]) = Steps[23]
         \/ \E m \in i + 1..18 : After(s, Steps[i]) = Steps[m]
<1>1. PICK m \in i + 1..23 : /\ After(s, Steps[i]) = Steps[m] /\ HasWork(s, Steps[m])
                             /\ \A j \in i + 1..m - 1 : ~HasWork(s, Steps[j])
  BY AfterIs
<1>2. m \in 19..22 => HasWork(s, Steps[18])
  BY <1>1, RelatingWork
<1>3. QED
  BY <1>1, <1>2

\* In a sync the steps follow each other.
LEMMA AfterRelating ==
  ASSUME NEW s, NEW i \in 18..22, s.plan["relations"] # {}
  PROVE  After(s, Steps[i]) = Steps[i + 1]
<1>1. PICK m \in i + 1..23 : /\ After(s, Steps[i]) = Steps[m] /\ HasWork(s, Steps[m])
                             /\ \A j \in i + 1..m - 1 : ~HasWork(s, Steps[j])
  BY AfterIs
<1>2. i + 1 \in 18..22 => HasWork(s, Steps[i + 1])
  BY RelatingWork
<1>3. QED
  BY <1>1, <1>2

-----------------------------------------------------------------------------
(* What each step does to the requests: it is the turn of one of them.     *)

Fields == {"step", "batch", "snapshot", "ids", "plan", "decided", "results"}
IsRequest(s) == s = [f \in Fields |-> s[f]]

Shaped ==
  /\ load \in Loads
  /\ req = [p \in Requests |-> req[p]]
  /\ \A p \in Requests : IsRequest(req[p]) /\ req[p].batch = load.batches[p]

\* The turn of p.
Turn(p) ==
  /\ load' = load
  /\ req' = [q \in Requests |-> IF q = p THEN req'[p] ELSE req[q]]
  /\ IsRequest(req'[p]) /\ req'[p].batch = req[p].batch

\* The turn of one request leaves the others alone.
LEMMA TurnKeepsShape ==
  ASSUME Shaped, NEW p \in Requests, Turn(p)
  PROVE  Shaped' /\ Requests' = Requests /\ \A q \in Requests : q # p => req'[q] = req[q]
  BY DEF Shaped, Turn, Requests

\* A request that becomes a record of its shape has taken its turn.
LEMMA TurnIs ==
  ASSUME Shaped, NEW p \in Requests, load' = load,
         NEW new, IsRequest(new), new.batch = req[p].batch, req' = [req EXCEPT ![p] = new]
  PROVE  Turn(p) /\ req'[p] = new
<1>1. req'[p] = new
  BY DEF Shaped
<1>2. req' = [q \in Requests |-> IF q = p THEN new ELSE req[q]]
  BY DEF Shaped
<1>3. QED
  BY <1>1, <1>2 DEF Turn

\* Advance changes the step and forgets what was read.
LEMMA AdvanceIs ==
  ASSUME NEW s, IsRequest(s)
  PROVE  /\ IsRequest(Advance(s)) /\ Advance(s).step = After(s, s.step)
         /\ Advance(s).snapshot = Unread /\ Advance(s).batch = s.batch
         /\ Advance(s).ids = s.ids /\ Advance(s).plan = s.plan
         /\ Advance(s).decided = s.decided /\ Advance(s).results = s.results
<1> DEFINE n == After(s, s.step)
           new == [s EXCEPT !.step = n, !.snapshot = Unread]
<1>1. Advance(s) = new
  BY DEF Advance
<1> HIDE DEF n
<1>2. new = [f \in Fields |-> IF f = "snapshot" THEN Unread ELSE IF f = "step" THEN n ELSE s[f]]
  BY DEF IsRequest, Fields
<1> HIDE DEF new
<1>3. IsRequest(new)
  BY <1>2 DEF IsRequest
<1>4. /\ new.step = n /\ new.snapshot = Unread /\ new.batch = s.batch /\ new.ids = s.ids
      /\ new.plan = s.plan /\ new.decided = s.decided /\ new.results = s.results
  BY <1>2 DEF Fields
<1>5. QED
  BY <1>1, <1>3, <1>4 DEF n

\* The turn of p takes it to the next step that has work.
Proceeds(p) ==
  /\ Turn(p) /\ req'[p].snapshot = Unread
  /\ \E s : /\ s.batch = req[p].batch /\ s.plan = req'[p].plan
            /\ req'[p].step = After(s, req[p].step)

\* What each handler does to its request, to the store and to the history.
LEMMA ReadLookupTurn ==
  ASSUME Shaped, NEW p \in Requests, ReadLookup(p)
  PROVE  /\ Turn(p) /\ db' = db /\ UNCHANGED <<admin, history>>
         /\ req[p].step \in LookupTables
         /\ req'[p].step = req[p].step /\ req'[p].ids = req[p].ids /\ req'[p].plan = req[p].plan
         /\ req'[p].decided = req[p].decided /\ req'[p].results = req[p].results
<1> DEFINE keys == DOMAIN db[req[p].step]
           new == [req[p] EXCEPT !.snapshot = [keys |-> keys]]
<1>1. req' = [req EXCEPT ![p] = new] /\ load' = load
  BY DEF ReadLookup
<1>2. IsRequest(req[p])
  BY DEF Shaped
<1> HIDE DEF keys
<1>3. new = [f \in Fields |-> IF f = "snapshot" THEN [keys |-> keys] ELSE req[p][f]]
  BY <1>2 DEF IsRequest, Fields
<1> HIDE DEF new
<1>4. IsRequest(new)
  BY <1>3 DEF IsRequest
<1>5. /\ new.step = req[p].step /\ new.batch = req[p].batch /\ new.ids = req[p].ids
      /\ new.plan = req[p].plan /\ new.decided = req[p].decided /\ new.results = req[p].results
  BY <1>3 DEF Fields
<1>6. Turn(p) /\ req'[p] = new
  BY <1>1, <1>4, <1>5, TurnIs
<1>7. QED
  BY <1>5, <1>6 DEF ReadLookup

\* A lookup goes on with its ids or, when it failed, without any.
LEMMA CommitLookupTurn ==
  ASSUME Shaped, NEW p \in Requests, NEW o, CommitLookup(p, o)
  PROVE  /\ Turn(p) /\ UNCHANGED <<admin, history>>
         /\ req[p].step \in LookupTables
         /\ Proceeds(p) \/ req'[p].step = "convert"
         /\ req'[p].plan = req[p].plan
         /\ req'[p].decided = req[p].decided /\ req'[p].results = req[p].results
<1> DEFINE s == req[p]
           t == s.step
           rows == LookupRows(s.batch, Readable(s.batch), t)
           found == Resolved(s.snapshot.keys, db[t], rows, LookupFilled(t))
           one == [s EXCEPT !.ids[t] = found]
           other == [s EXCEPT !.step = "convert", !.ids = Null, !.snapshot = Unread]
<1>1. req' = [req EXCEPT ![p] = IF o = "ok" THEN Advance(one) ELSE other] /\ load' = load
  BY DEF CommitLookup
<1>2. IsRequest(s)
  BY DEF Shaped
<1>3. IsRequest(one) /\ one.step = s.step /\ one.batch = s.batch /\ one.plan = s.plan
      /\ one.decided = s.decided /\ one.results = s.results
  <2> HIDE DEF found
  <2>1. one = [f \in Fields |-> IF f = "ids" THEN [s.ids EXCEPT ![t] = found] ELSE s[f]]
    BY <1>2 DEF IsRequest, Fields
  <2> HIDE DEF one
  <2>2. QED
    BY <2>1 DEF IsRequest, Fields
<1>4. IsRequest(other) /\ other.step = "convert" /\ other.batch = s.batch /\ other.plan = s.plan
      /\ other.decided = s.decided /\ other.results = s.results /\ other.snapshot = Unread
  <2>1. other = [f \in Fields |-> IF f = "ids" THEN Null ELSE IF f = "step" THEN "convert"
                                  ELSE IF f = "snapshot" THEN Unread ELSE s[f]]
    BY <1>2 DEF IsRequest, Fields
  <2> HIDE DEF other
  <2>2. QED
    BY <2>1 DEF IsRequest, Fields
<1> HIDE DEF one, other
<1>5. CASE o = "ok"
  <2>1. /\ IsRequest(Advance(one)) /\ Advance(one).step = After(one, one.step)
        /\ Advance(one).snapshot = Unread /\ Advance(one).batch = s.batch
        /\ Advance(one).plan = s.plan /\ Advance(one).decided = s.decided
        /\ Advance(one).results = s.results
    BY <1>3, AdvanceIs
  <2>2. Turn(p) /\ req'[p] = Advance(one)
    BY <1>1, <1>5, <2>1, TurnIs
  <2>3. QED
    BY <1>3, <2>1, <2>2 DEF CommitLookup, Proceeds
<1>6. CASE o # "ok"
  <2>1. Turn(p) /\ req'[p] = other
    BY <1>1, <1>4, <1>6, TurnIs
  <2>2. QED
    BY <1>4, <2>1 DEF CommitLookup
<1>7. QED
  BY <1>5, <1>6

\* A step that ends with Advance.
LEMMA AdvanceTurn ==
  ASSUME Shaped, NEW p \in Requests, load' = load,
         NEW one, IsRequest(one), one.batch = req[p].batch, one.step = req[p].step,
         req' = [req EXCEPT ![p] = Advance(one)]
  PROVE  /\ Proceeds(p)
         /\ req'[p].plan = one.plan /\ req'[p].decided = one.decided /\ req'[p].results = one.results
<1>1. /\ IsRequest(Advance(one)) /\ Advance(one).step = After(one, one.step)
      /\ Advance(one).snapshot = Unread /\ Advance(one).batch = one.batch
      /\ Advance(one).plan = one.plan /\ Advance(one).decided = one.decided
      /\ Advance(one).results = one.results
  BY AdvanceIs
<1>2. Turn(p) /\ req'[p] = Advance(one)
  BY <1>1, TurnIs
<1>3. QED
  BY <1>1, <1>2 DEF Proceeds

\* The record of a request with more results.
LEMMA WithResults ==
  ASSUME NEW s, IsRequest(s), NEW added
  PROVE  LET one == [s EXCEPT !.results = @ \cup added]
         IN  /\ IsRequest(one) /\ one.step = s.step /\ one.batch = s.batch /\ one.plan = s.plan
             /\ one.decided = s.decided /\ one.results = s.results \cup added
<1> DEFINE results == s.results \cup added
           one == [s EXCEPT !.results = @ \cup added]
<1>1. one = [f \in Fields |-> IF f = "results" THEN results ELSE s[f]]
  BY DEF IsRequest, Fields
<1> HIDE DEF one
<1>2. /\ IsRequest(one) /\ one.step = s.step /\ one.batch = s.batch /\ one.plan = s.plan
      /\ one.decided = s.decided /\ one.results = results
  BY <1>1 DEF IsRequest, Fields
<1>3. QED
  BY <1>2 DEF one

\* The conversion sets the plan and the results.
LEMMA ConvertTurn ==
  ASSUME Shaped, NEW p \in Requests, NEW failing, Convert(p, failing)
  PROVE  /\ Proceeds(p) /\ UNCHANGED <<admin, history>> /\ req[p].step = "convert"
         /\ \E ids : req'[p].plan = Plan(req[p].batch, ids)
         /\ req'[p].results = Refusals(req[p].batch)
                              \cup ConversionFailures(req[p].batch, req'[p].plan)
         /\ db' = db \/ db' = OwnLookups(req[p].batch, failing)
<1> DEFINE s == req[p]
           b == s.batch
           ids == IF s.ids = Null THEN OwnIds(b, failing) ELSE [x \in Present(b) |-> s.ids]
           plan == Plan(b, ids)
           results == Refusals(b) \cup ConversionFailures(b, plan)
           one == [s EXCEPT !.plan = plan, !.results = results]
<1>1. req' = [req EXCEPT ![p] = Advance(one)] /\ load' = load /\ s.step = "convert"
  BY DEF Convert
<1>2. IsRequest(s)
  BY DEF Shaped
<1>3. IsRequest(one) /\ one.step = s.step /\ one.batch = s.batch /\ one.plan = plan
      /\ one.results = results
  <2> HIDE DEF plan, results
  <2>1. one = [f \in Fields |-> IF f = "plan" THEN plan ELSE IF f = "results" THEN results ELSE s[f]]
    BY <1>2 DEF IsRequest, Fields
  <2> HIDE DEF one
  <2>2. QED
    BY <2>1 DEF IsRequest, Fields
<1> HIDE DEF one
<1>4. Proceeds(p) /\ req'[p].plan = one.plan /\ req'[p].results = one.results
  BY <1>1, <1>3, AdvanceTurn
<1>5. UNCHANGED <<admin, history>> /\ (db' = db \/ db' = OwnLookups(b, failing))
  BY DEF Convert
<1>6. \E i : req'[p].plan = Plan(b, i)
  BY <1>3, <1>4
<1> HIDE DEF plan, ids
<1>7. QED
  BY <1>1, <1>3, <1>4, <1>5, <1>6

\* A preload that fails ends the request.
LEMMA PreloadTurn ==
  ASSUME Shaped, NEW p \in Requests, NEW o, Preload(p, o)
  PROVE  /\ db' = db /\ UNCHANGED <<admin, history>> /\ req[p].step = "dict_preload"
         /\ req'[p].plan = req[p].plan /\ req'[p].decided = req[p].decided
         /\ \/ Proceeds(p) /\ req'[p].results = req[p].results
            \/ /\ Turn(p) /\ req'[p].step = "done"
               /\ req'[p].results = req[p].results \cup
                    {Result(x, "dict_preload", "failed", "statement") :
                       x \in UNION {{e.item : e \in req[p].plan[t]} : t \in DOMAIN req[p].plan}}
<1> DEFINE s == req[p]
           items == UNION {{e.item : e \in s.plan[t]} : t \in DOMAIN s.plan}
           results == s.results \cup {Result(x, "dict_preload", "failed", "statement") : x \in items}
           other == [s EXCEPT !.step = "done", !.results = results]
<1>1. req' = [req EXCEPT ![p] = IF o = "ok" THEN Advance(s)
                                ELSE [s EXCEPT !.step = "done", !.results = @ \cup
                                       {Result(x, "dict_preload", "failed", "statement") : x \in items}]]
      /\ UNCHANGED <<load, db, admin, history>> /\ s.step = "dict_preload"
  BY DEF Preload
<1>2. IsRequest(s)
  BY DEF Shaped
<1>3. CASE o = "ok"
  <2>1. req' = [req EXCEPT ![p] = Advance(s)]
    BY <1>1, <1>3
  <2>2. /\ Proceeds(p)
        /\ req'[p].plan = s.plan /\ req'[p].decided = s.decided /\ req'[p].results = s.results
    BY <1>1, <1>2, <2>1, AdvanceTurn
  <2>3. QED
    BY <1>1, <2>2
<1>4. CASE o # "ok"
  <2>1. req' = [req EXCEPT ![p] = other]
    BY <1>1, <1>4
  <2>2. IsRequest(other) /\ other.step = "done" /\ other.batch = s.batch /\ other.plan = s.plan
        /\ other.decided = s.decided /\ other.results = results
    <3> HIDE DEF results
    <3>1. other = [f \in Fields |-> IF f = "step" THEN "done" ELSE IF f = "results" THEN results ELSE s[f]]
      BY <1>2 DEF IsRequest, Fields
    <3> HIDE DEF other
    <3>2. QED
      BY <3>1 DEF IsRequest, Fields
  <2> HIDE DEF other
  <2>3. Turn(p) /\ req'[p] = other
    BY <1>1, <2>1, <2>2, TurnIs
  <2>4. QED
    BY <1>1, <2>2, <2>3
<1>5. QED
  BY <1>3, <1>4

\* A step that ends with Advance and adds results.
LEMMA ResultsTurn ==
  ASSUME Shaped, NEW p \in Requests, load' = load, NEW added,
         req' = [req EXCEPT ![p] = Advance([req[p] EXCEPT !.results = @ \cup added])]
  PROVE  /\ Proceeds(p) /\ req'[p].plan = req[p].plan /\ req'[p].decided = req[p].decided
         /\ req'[p].results = req[p].results \cup added
<1> DEFINE s == req[p]
           one == [s EXCEPT !.results = @ \cup added]
<1>1. IsRequest(s)
  BY DEF Shaped
<1>2. /\ IsRequest(one) /\ one.step = s.step /\ one.batch = s.batch /\ one.plan = s.plan
      /\ one.decided = s.decided /\ one.results = s.results \cup added
  BY <1>1, WithResults
<1>3. req' = [req EXCEPT ![p] = Advance(one)]
  OBVIOUS
<1> HIDE DEF one
<1>4. QED
  BY <1>2, <1>3, AdvanceTurn

\* WriteRows writes and reports, or reports failures.
LEMMA WriteRowsTurn ==
  ASSUME Shaped, NEW p \in Requests, NEW o, WriteRows(p, o)
  PROVE  LET s == req[p]
             t == s.step
             rows == Rows(s.plan[t])
         IN  /\ Proceeds(p) /\ UNCHANGED <<admin, history>> /\ t \in FilledTables
             /\ req'[p].plan = s.plan /\ req'[p].decided = s.decided
             /\ \/ /\ db' = Write(t, rows)
                   /\ req'[p].results = s.results \cup
                        Reports(s.plan[t], t, ChildStatus(db[t], rows, FilledColumns(t), ParentsOf(t, rows)))
                \/ /\ db' = db \/ db' = Write(t, rows)
                   /\ req'[p].results = s.results \cup Failures(s.plan[t], t)
<1> DEFINE s == req[p]
           t == s.step
           rows == Rows(s.plan[t])
           verdict == ChildStatus(db[t], rows, FilledColumns(t), ParentsOf(t, rows))
           reports == Reports(s.plan[t], t, verdict)
           failures == Failures(s.plan[t], t)
<1>1. /\ UNCHANGED <<load, admin, history>> /\ t \in FilledTables
      /\ \/ /\ db' = Write(t, rows)
            /\ req' = [req EXCEPT ![p] = Advance([s EXCEPT !.results = @ \cup reports])]
         \/ /\ db' = db \/ db' = Write(t, rows)
            /\ req' = [req EXCEPT ![p] = Advance([s EXCEPT !.results = @ \cup failures])]
  <2>1. o = "ok" /\ WriteRows(p, o) =>
          \/ /\ db' = Write(t, rows)
             /\ req' = [req EXCEPT ![p] = Advance([s EXCEPT !.results = @ \cup reports])]
          \/ /\ db' = db
             /\ req' = [req EXCEPT ![p] = Advance([s EXCEPT !.results = @ \cup failures])]
    BY DEF WriteRows, DbAfter
  <2>2. o # "ok" => 
             /\ db' = db \/ db' = Write(t, rows)
             /\ req' = [req EXCEPT ![p] = Advance([s EXCEPT !.results = @ \cup failures])]
    BY DEF WriteRows, DbAfter
  <2>3. QED
    BY <2>1, <2>2 DEF WriteRows
<1> HIDE DEF reports, failures
<1>2. CASE /\ db' = Write(t, rows)
           /\ req' = [req EXCEPT ![p] = Advance([s EXCEPT !.results = @ \cup reports])]
  <2>1. /\ Proceeds(p) /\ req'[p].plan = s.plan /\ req'[p].decided = s.decided
        /\ req'[p].results = s.results \cup reports
    BY <1>1, <1>2, ResultsTurn
  <2>2. QED
    BY <1>1, <1>2, <2>1 DEF reports, failures
<1>3. CASE /\ db' = db \/ db' = Write(t, rows)
           /\ req' = [req EXCEPT ![p] = Advance([s EXCEPT !.results = @ \cup failures])]
  <2>1. /\ Proceeds(p) /\ req'[p].plan = s.plan /\ req'[p].decided = s.decided
        /\ req'[p].results = s.results \cup failures
    BY <1>1, <1>3, ResultsTurn
  <2>2. QED
    BY <1>1, <1>3, <2>1 DEF reports, failures
<1>4. QED
  BY <1>1, <1>2, <1>3

\* DecideVersions reads and changes nothing else.
LEMMA DecideVersionsTurn ==
  ASSUME Shaped, NEW p \in Requests, DecideVersions(p)
  PROVE  LET s == req[p]
         IN  /\ Turn(p) /\ UNCHANGED <<db, admin, history>> /\ s.step \in VersionTables
             /\ req'[p].step = s.step
             /\ req'[p].snapshot = [decisions |-> Decide(s.step, Rows(s.plan[s.step])), seen |-> seen]
             /\ req'[p].plan = s.plan /\ req'[p].decided = s.decided /\ req'[p].results = s.results
<1> DEFINE s == req[p]
           snapshot == [decisions |-> Decide(s.step, Rows(s.plan[s.step])), seen |-> seen]
<1>1. req' = [req EXCEPT ![p].snapshot = snapshot] /\ UNCHANGED <<load, db, admin, history>>
      /\ s.step \in VersionTables
  BY DEF DecideVersions
<1> HIDE DEF snapshot
<1> DEFINE new == [f \in Fields |-> IF f = "snapshot" THEN snapshot
                                   ELSE IF f = "step" THEN s.step ELSE s[f]]
<1>2. req' = [req EXCEPT ![p] = new]
  <2>1. IsRequest(s) /\ req = [q \in Requests |-> req[q]]
    BY DEF Shaped
  <2>2. [s EXCEPT !.snapshot = snapshot] = new
    BY <2>1 DEF IsRequest, Fields
  <2>3. req' = [req EXCEPT ![p] = [s EXCEPT !.snapshot = snapshot]]
    BY <1>1, <2>1
  <2>4. QED
    BY <2>2, <2>3
<1>3. /\ IsRequest(new) /\ new.step = s.step /\ new.snapshot = snapshot /\ new.batch = s.batch
      /\ new.plan = s.plan /\ new.decided = s.decided /\ new.results = s.results
  BY DEF IsRequest, Fields
<1> HIDE DEF new
<1>4. Turn(p) /\ req'[p] = new
  BY <1>1, <1>2, <1>3, TurnIs
<1>5. QED
  BY <1>1, <1>3, <1>4, Zenon DEF snapshot

\* AppendVersions appends and reports, or reports failures.
LEMMA AppendVersionsTurn ==
  ASSUME Shaped, IsStore(db), NEW p \in Requests, NEW o, AppendVersions(p, o)
  PROVE  LET s == req[p]
             t == s.step
             rows == Rows(s.plan[t])
             decisions == s.snapshot.decisions
             verdict == AppendedStatus(db[t], decisions)
             written == [db EXCEPT ![t] = Appended(@, rows, decisions)]
         IN  /\ Proceeds(p) /\ UNCHANGED <<admin, lastSync>> /\ t \in VersionTables /\ s.snapshot # Unread
             /\ req'[p].plan = s.plan
             /\ \/ /\ o = "ok" /\ req'[p].results = s.results \cup Reports(s.plan[t], t, verdict)
                   /\ req'[p].decided = IF t = "media_resource" THEN verdict ELSE s.decided
                \/ /\ o # "ok" /\ req'[p].results = s.results \cup Failures(s.plan[t], t)
                   /\ req'[p].decided = s.decided
             /\ \/ o = "failed" /\ UNCHANGED <<db, seen, untidy>>
                \/ /\ o # "failed" /\ Remember(t, rows, verdict, s.snapshot.seen)
                   /\ db' = IF t = "user_snapshot"
                            THEN [written EXCEPT !["index_queue"] = QueueSnapshots(db, decisions)["index_queue"]]
                            ELSE written
<1> DEFINE s == req[p]
           t == s.step
           rows == Rows(s.plan[t])
           decisions == s.snapshot.decisions
           verdict == AppendedStatus(db[t], decisions)
           written == [db EXCEPT ![t] = Appended(@, rows, decisions)]
           new == IF t = "user_snapshot"
                  THEN [written EXCEPT !["index_queue"] = QueueSnapshots(db, decisions)["index_queue"]]
                  ELSE written
           results == s.results \cup (IF o = "ok" THEN Reports(s.plan[t], t, verdict) ELSE Failures(s.plan[t], t))
           decided == IF t = "media_resource" /\ o = "ok" THEN verdict ELSE s.decided
           one == [s EXCEPT !.results = results, !.decided = decided]
<1>1. /\ t \in VersionTables /\ s.snapshot # Unread
      /\ req' = [req EXCEPT ![p] = Advance(one)] /\ UNCHANGED <<load, admin, lastSync>>
  BY DEF AppendVersions
<1>2. /\ o = "failed" => db' = db /\ UNCHANGED <<seen, untidy>>
      /\ o # "failed" => db' = new /\ Remember(t, rows, verdict, s.snapshot.seen)
  BY DEF AppendVersions, DbAfter
<1>3. IsRequest(s)
  BY DEF Shaped
<1>4. IsRequest(one) /\ one.step = s.step /\ one.batch = s.batch /\ one.plan = s.plan
      /\ one.decided = decided /\ one.results = results
  <2> HIDE DEF decided, results
  <2>1. one = [f \in Fields |-> IF f = "decided" THEN decided ELSE IF f = "results" THEN results ELSE s[f]]
    BY <1>3 DEF IsRequest, Fields
  <2> HIDE DEF one
  <2>2. QED
    BY <2>1 DEF IsRequest, Fields
<1> HIDE DEF one
<1>5. Proceeds(p) /\ req'[p].plan = s.plan /\ req'[p].decided = decided /\ req'[p].results = results
  BY <1>1, <1>4, AdvanceTurn
<1> HIDE DEF new, verdict, rows, decisions
<1>6. QED
  BY <1>1, <1>2, <1>5, Zenon DEF new, verdict, rows, decisions

\* A request that is abandoned keeps all but its step.
LEMMA AbandonTurn ==
  ASSUME Shaped, NEW p \in Requests, Abandon(p)
  PROVE  /\ Turn(p) /\ UNCHANGED <<db, admin, history>> /\ req'[p].step = "gone"
         /\ req'[p].plan = req[p].plan /\ req'[p].results = req[p].results
         /\ req'[p].snapshot = req[p].snapshot /\ req'[p].decided = req[p].decided
         /\ req[p].step \notin {"done", "refused", "gone"}
<1> DEFINE s == req[p]
           new == [s EXCEPT !.step = "gone"]
<1>1. req' = [req EXCEPT ![p] = new] /\ UNCHANGED <<load, db, admin, history>>
      /\ s.step \notin {"done", "refused", "gone"}
  BY DEF Abandon
<1>2. IsRequest(s)
  BY DEF Shaped
<1>3. new = [f \in Fields |-> IF f = "step" THEN "gone" ELSE s[f]]
  BY <1>2 DEF IsRequest, Fields
<1> HIDE DEF new
<1>4. /\ IsRequest(new) /\ new.step = "gone" /\ new.snapshot = s.snapshot /\ new.batch = s.batch
      /\ new.plan = s.plan /\ new.decided = s.decided /\ new.results = s.results
  BY <1>3 DEF IsRequest, Fields
<1>5. Turn(p) /\ req'[p] = new
  BY <1>1, <1>4, TurnIs
<1>6. QED
  BY <1>1, <1>4, <1>5

\* The snapshot of a sync that has planned the tables of plans.
SyncRead(plans, syncs, media) == [plans |-> plans, syncs |-> syncs, media |-> media]
WithPlan(plans, t, plan) == [r \in DOMAIN plans \cup {t} |-> IF r = t THEN plan ELSE plans[r]]

\* A sync plans one more table on what it read at first.
LEMMA PlanRelationsTurn ==
  ASSUME Shaped, NEW p \in Requests, PlanRelations(p)
  PROVE  LET s == req[p]
             t == s.step
             entries == s.plan["relations"]
             plan == PlanRefs(t, {e.key : e \in entries}, RefsOfAll(entries, t))
         IN  /\ Turn(p) /\ UNCHANGED <<db, admin, history>> /\ t \in RefTables
             /\ req'[p].step = After(s, t)
             /\ req'[p].plan = s.plan /\ req'[p].decided = s.decided /\ req'[p].results = s.results
             /\ s.snapshot = Unread =>
                  req'[p].snapshot = SyncRead(WithPlan(<< >>, t, plan), lastSync, DOMAIN db["media"])
             /\ \A plans, syncs, media :
                  s.snapshot = SyncRead(plans, syncs, media) =>
                    req'[p].snapshot = SyncRead(WithPlan(plans, t, plan), syncs, media)
<1> DEFINE s == req[p]
           t == s.step
           entries == s.plan["relations"]
           plan == PlanRefs(t, {e.key : e \in entries}, RefsOfAll(entries, t))
           read == IF s.snapshot = Unread
                   THEN [plans |-> << >>, syncs |-> lastSync, media |-> DOMAIN db["media"]] ELSE s.snapshot
           snapshot == [read EXCEPT !.plans = [r \in DOMAIN @ \cup {t} |-> IF r = t THEN plan ELSE @[r]]]
           next == After(s, t)
           new == [f \in Fields |-> IF f = "snapshot" THEN snapshot
                                    ELSE IF f = "step" THEN next ELSE s[f]]
<1>1. /\ t \in RefTables /\ UNCHANGED <<load, db, admin, history>>
      /\ req' = [req EXCEPT ![p].step = next, ![p].snapshot = snapshot]
  BY DEF PlanRelations
<1>2. /\ s.snapshot = Unread =>
           snapshot = SyncRead(WithPlan(<< >>, t, plan), lastSync, DOMAIN db["media"])
      /\ \A plans, syncs, media :
           s.snapshot = SyncRead(plans, syncs, media) =>
             snapshot = SyncRead(WithPlan(plans, t, plan), syncs, media)
  <2> HIDE DEF plan
  <2>1. CASE s.snapshot = Unread
    <3>1. snapshot = SyncRead(WithPlan(<< >>, t, plan), lastSync, DOMAIN db["media"])
      BY <2>1 DEF SyncRead, WithPlan
    <3>2. \A plans, syncs, media : s.snapshot # SyncRead(plans, syncs, media)
      BY <2>1 DEF SyncRead, Unread
    <3>3. QED
      BY <3>1, <3>2
  <2>2. CASE s.snapshot # Unread
    <3>1. ASSUME NEW plans, NEW syncs, NEW media, s.snapshot = SyncRead(plans, syncs, media)
          PROVE  snapshot = SyncRead(WithPlan(plans, t, plan), syncs, media)
      BY <2>2, <3>1 DEF SyncRead, WithPlan
    <3>2. QED
      BY <2>2, <3>1
  <2>3. QED
    BY <2>1, <2>2
<1> HIDE DEF snapshot, next
<1>3. req' = [req EXCEPT ![p] = new]
  <2>1. IsRequest(s) /\ req = [q \in Requests |-> req[q]]
    BY DEF Shaped
  <2>2. [s EXCEPT !.step = next, !.snapshot = snapshot] = new
    BY <2>1 DEF IsRequest, Fields
  <2>3. req' = [req EXCEPT ![p] = [s EXCEPT !.step = next, !.snapshot = snapshot]]
    BY <1>1, <2>1
  <2>4. QED
    BY <2>2, <2>3
<1>4. /\ IsRequest(new) /\ new.step = next /\ new.snapshot = snapshot /\ new.batch = s.batch
      /\ new.plan = s.plan /\ new.decided = s.decided /\ new.results = s.results
  BY DEF IsRequest, Fields
<1> HIDE DEF new
<1>5. Turn(p) /\ req'[p] = new
  BY <1>1, <1>3, <1>4, TurnIs
<1> HIDE DEF plan
<1>6. QED
  BY <1>1, <1>2, <1>4, <1>5, Zenon DEF next, plan

\* What a committed sync leaves.
SyncedStore(p) ==
  [t \in Tables |-> IF t \in RefTables THEN Synced(db[t], req[p].snapshot.plans[t]) ELSE db[t]]
SyncedIds(p) ==
  {e.key : e \in {f \in req[p].plan["relations"] :
     \E t \in RefTables : req[p].snapshot.plans[t].status[f.key] # "missing_tweet"}}
SyncedHistory(p) ==
  [i \in DOMAIN lastSync \cup SyncedIds(p) |-> IF i \in SyncedIds(p) THEN SyncOf(p, i) ELSE lastSync[i]]

\* A sync commits all its tables and its history, or nothing.
LEMMA CommitRelationsTurn ==
  ASSUME Shaped, NEW p \in Requests, NEW o, NEW insertFirst, CommitRelations(p, o, insertFirst)
  PROVE  LET s == req[p]
             entries == s.plan["relations"]
         IN  /\ Proceeds(p) /\ UNCHANGED <<admin, seen, untidy>> /\ s.step = "relations"
             /\ req'[p].plan = s.plan /\ req'[p].decided = s.decided
             /\ \/ req'[p].results = s.results \cup UNION {Failures(entries, t) : t \in RefTables}
                \/ req'[p].results = s.results \cup
                     UNION {Reports(entries, t, s.snapshot.plans[t].status) : t \in RefTables}
             /\ \/ db' = db /\ lastSync' = lastSync
                \/ db' = SyncedStore(p) /\ lastSync' = SyncedHistory(p)
<1> DEFINE s == req[p]
           plans == s.snapshot.plans
           entries == s.plan["relations"]
           clash == \E t \in RefTables : Clashes(db[t], plans[t], insertFirst) # {}
           failed == UNION {Failures(entries, t) : t \in RefTables}
           reports == UNION {Reports(entries, t, plans[t].status) : t \in RefTables}
<1>1. /\ UNCHANGED <<admin, seen, untidy>> /\ load' = load /\ s.step = "relations"
      /\ req' = [req EXCEPT ![p] = Advance([s EXCEPT !.results = @ \cup
                  IF clash \/ o # "ok" THEN failed ELSE reports])]
  BY DEF CommitRelations
<1>2. \/ db' = db /\ lastSync' = lastSync
      \/ db' = SyncedStore(p) /\ lastSync' = SyncedHistory(p)
  <2>1. CASE clash \/ o = "failed"
    BY <2>1 DEF CommitRelations, DbAfter
  <2>2. CASE ~clash /\ o # "failed"
    <3>1. db' = SyncedStore(p)
      BY <2>2 DEF CommitRelations, DbAfter, SyncedStore
    <3>2. lastSync' = SyncedHistory(p)
      BY <2>2 DEF CommitRelations, SyncedHistory, SyncedIds
    <3>3. QED
      BY <3>1, <3>2
  <2>3. QED
    BY <2>1, <2>2
<1> HIDE DEF clash, failed, reports
<1> DEFINE added == IF clash \/ o # "ok" THEN failed ELSE reports
<1>3. req' = [req EXCEPT ![p] = Advance([s EXCEPT !.results = @ \cup added])]
  BY <1>1
<1>4. added = failed \/ added = reports
  OBVIOUS
<1> HIDE DEF added
<1>5. /\ Proceeds(p) /\ req'[p].plan = s.plan /\ req'[p].decided = s.decided
      /\ req'[p].results = s.results \cup added
  BY <1>1, <1>3, ResultsTurn
<1>6. \/ req'[p].results = s.results \cup failed
      \/ req'[p].results = s.results \cup reports
  BY <1>4, <1>5
<1>7. QED
  BY <1>1, <1>2, <1>5, <1>6 DEF failed, reports

\* EnqueueTransfers reports on transfers alone.
LEMMA EnqueueTransfersTurn ==
  ASSUME Shaped, NEW p \in Requests, NEW o, NEW lucky, EnqueueTransfers(p, o, lucky)
  PROVE  LET s == req[p]
         IN  /\ Proceeds(p) /\ UNCHANGED <<admin, history>> /\ s.step = "transfer_task"
             /\ req'[p].plan = s.plan /\ req'[p].decided = s.decided
             /\ \E added : /\ req'[p].results = s.results \cup added
                           /\ \A r \in added : /\ r.op = "media_transfer"
                                               /\ \E e \in s.plan["media_resource"] : r.item = e.item
             /\ \E rows : db' = db \/ db' = [db EXCEPT !["transfer_task"] = Upsert(@, rows, {})]
<1> DEFINE s == req[p]
           E == s.plan["media_resource"]
           due == {e \in E : e.key \in DOMAIN s.decided /\ ShouldEnqueue(s.decided[e.key])}
           whole == {e \in due : e.item \in {f.item : f \in s.plan["media"]}}
           url(e) == SelectSource(Item(s.batch, e.item), e.row)
           tasks == IF load.active THEN {e \in whole : url(e) # Null} ELSE {}
           version(e) == SourceVersion(e.key, url(e), lucky)
           found == {e \in tasks : version(e) # {}}
           rows == [k \in UNION {version(e) : e \in found} |->
                      [source_url |-> url(CHOOSE e \in found : k \in version(e))]]
           verdict(e) == IF version(e) \subseteq DOMAIN db["transfer_task"] THEN "already" ELSE "enqueued"
           early == IF ~load.active
                    THEN {Result(e.item, "media_transfer", "skipped", "disabled") : e \in due}
                    ELSE {Result(e.item, "media_transfer", "failed", "missing_media") : e \in due \ whole}
                         \cup {Result(e.item, "media_transfer", "skipped", "no_source") : e \in whole \ tasks}
           late == IF o # "ok" THEN Failures(tasks, "media_transfer")
                   ELSE {Result(e.item, "media_transfer",
                                IF verdict(e) = "enqueued" THEN "accepted" ELSE "skipped", verdict(e)) : e \in found}
                        \cup {Result(e.item, "media_transfer", "failed", "missing_source") : e \in tasks \ found}
           added == early \cup late
<1>1. /\ UNCHANGED <<admin, history>> /\ load' = load /\ s.step = "transfer_task"
      /\ DbAfter(o, [db EXCEPT !["transfer_task"] = Upsert(@, rows, {})])
      /\ req' = [req EXCEPT ![p] = Advance([s EXCEPT !.results = @ \cup early \cup late])]
  BY DEF EnqueueTransfers
<1>2. \A r \in added : r.op = "media_transfer" /\ \E e \in E : r.item = e.item
  <2>1. \A e : OpName(e, "media_transfer") = "media_transfer"
    BY DEF OpName
  <2> HIDE DEF url, version, verdict
  <2>2. \A r \in early : r.op = "media_transfer" /\ \E e \in E : r.item = e.item
    BY DEF Result
  <2>3. \A r \in late : r.op = "media_transfer" /\ \E e \in E : r.item = e.item
    BY <2>1 DEF Result, Failures
  <2>4. QED
    BY <2>2, <2>3
<1> HIDE DEF early, late
<1>3. req' = [req EXCEPT ![p] = Advance([s EXCEPT !.results = @ \cup added])]
  <2>1. s.results \cup early \cup late = s.results \cup added
    OBVIOUS
  <2>2. QED
    BY <1>1, <2>1
<1> HIDE DEF added
<1>4. /\ Proceeds(p) /\ req'[p].plan = s.plan /\ req'[p].decided = s.decided
      /\ req'[p].results = s.results \cup added
  BY <1>1, <1>3, ResultsTurn
<1> HIDE DEF rows
<1>5. db' = db \/ db' = [db EXCEPT !["transfer_task"] = Upsert(@, rows, {})]
  BY <1>1 DEF DbAfter
<1>6. QED
  BY <1>1, <1>2, <1>4, <1>5

-----------------------------------------------------------------------------
(* What a plan is made of: for each table one entry of each item that has  *)
(* one, and nothing else.                                                  *)

PlannedTables == FilledTables \cup VersionTables \cup {"relations"}

SourcesOf(b, t) ==
  IF t \in {"user_snapshot", "user_stats"} THEN LiveOf(b, "users")
  ELSE IF t = "twitter_user" THEN LiveOf(b, "users") \cup LiveTweets(b)
  ELSE IF t \in {"media", "media_resource"} THEN LiveOf(b, "media") ELSE LiveTweets(b)

EntryOf(b, t, x) ==
  LET o == Item(b, x)
  IN CASE t = "twitter_user" -> IF x[1] = "users" THEN Entry(x, o.id, [registered_at |-> o.registered])
                                ELSE Entry(x, o.author, [registered_at |-> Null])
       [] t = "user_snapshot" -> Entry(x, <<o.id, o.profile.at>>, UserSnapshotRow(o))
       [] t = "user_stats" -> Entry(x, <<o.id, o.stats.at>>, [count |-> o.stats.count])
       [] t = "media" -> Entry(x, o.id, [alt_text |-> o.alt, type |-> o.type])
       [] t = "media_resource" -> Entry(x, <<o.id, o.resource.at>>, MediaResourceRow(o))
       [] t = "tweet_place" -> Entry(x, o.place.id, PlaceRow(o.place))
       [] t = "tweet" -> Entry(x, o.id, TweetRow(o))
       [] t = "tweet_edit" -> Entry(x, o.id, [version_ids |-> o.edit.versions])
       [] t = "tweet_policy" -> Entry(x, o.id, [reply_policy_id |-> o.policy])
       [] t = "tweet_community_note" -> Entry(x, o.id, [title |-> o.community.title])
       [] t = "tweet_stats" -> Entry(x, <<o.id, o.stats.at>>, [count |-> o.stats.count])
       [] t = "relations" -> Entry(x, o.id, RefsOf(o))

\* The parts an item has, beside those that follow from another.
HasPart(o, t) ==
  /\ t = "user_snapshot" => o.profile # Null
  /\ t \in {"user_stats", "tweet_stats"} => o.stats # Null
  /\ t = "media_resource" => o.resource # Null
  /\ t = "tweet_place" => o.place # Null /\ o.place.id # Null
  /\ t = "tweet_edit" => o.edit # Null
  /\ t = "tweet_policy" => o.policy # Null
  /\ t = "tweet_community_note" => o.community # Null

PlanFrom(b, plan) ==
  /\ DOMAIN plan = Tables \cup {"relations"}
  /\ \A t \in DOMAIN plan \ PlannedTables : plan[t] = {}
  /\ \A t \in PlannedTables : \A e \in plan[t] :
       /\ e.item \in SourcesOf(b, t) /\ HasPart(Item(b, e.item), t)
       /\ e = EntryOf(b, t, e.item)

Planned(plan, x, t) == \E e \in plan[t] : e.item = x

\* No part is left out of a plan without a word, save that of a tweet that
\* is not converted as a whole.
PlanWhole(b, plan) ==
  /\ \A x \in SourcesOf(b, "twitter_user") : Planned(plan, x, "twitter_user")
  /\ \A x \in LiveTweets(b) : HasPart(Item(b, x), "tweet_place") => Planned(plan, x, "tweet_place")
  /\ \A x \in LiveTweets(b) : Planned(plan, x, "tweet") =>
       \A t \in {"tweet_edit", "tweet_policy", "tweet_community_note", "tweet_stats", "relations"} :
         HasPart(Item(b, x), t) => Planned(plan, x, t)

\* No table is in two parts of a plan.
LEMMA PartsApart ==
  ASSUME NEW b, NEW users, NEW tweets, NEW media, NEW converted, NEW ids
  PROVE  /\ DOMAIN UserPart(b, users, tweets, ids) = {"twitter_user", "user_snapshot", "user_stats"}
         /\ DOMAIN MediaPart(b, media) = {"media", "media_resource"}
         /\ DOMAIN TweetPart(b, tweets, converted) =
              {"tweet_place", "tweet", "tweet_edit", "tweet_policy", "tweet_community_note",
               "tweet_stats", "relations"}
  BY DEF UserPart, MediaPart, TweetPart

\* A plan is its three parts together.
LEMMA PlanIs ==
  ASSUME NEW b, NEW ids
  PROVE  LET tweets == LiveTweets(b)
             converted == {x \in tweets : TweetConverts(Item(b, x), ids[x])}
             plan == Plan(b, ids)
         IN  /\ DOMAIN plan = Tables \cup {"relations"}
             /\ \A t \in {"twitter_user", "user_snapshot", "user_stats"} :
                  plan[t] = UserPart(b, LiveOf(b, "users"), tweets, ids)[t]
             /\ \A t \in {"media", "media_resource"} : plan[t] = MediaPart(b, LiveOf(b, "media"))[t]
             /\ \A t \in {"tweet_place", "tweet", "tweet_edit", "tweet_policy", "tweet_community_note",
                          "tweet_stats", "relations"} : plan[t] = TweetPart(b, tweets, converted)[t]
             /\ \A t \in DOMAIN plan \ PlannedTables : plan[t] = {}
<1> DEFINE tweets == LiveTweets(b)
           converted == {x \in tweets : TweetConverts(Item(b, x), ids[x])}
           user == UserPart(b, LiveOf(b, "users"), tweets, ids)
           media == MediaPart(b, LiveOf(b, "media"))
           tweet == TweetPart(b, tweets, converted)
           parts == <<user, media, tweet>>
           plan == Plan(b, ids)
<1>1. plan = [t \in Tables \cup {"relations"} |->
                IF \E i \in DOMAIN parts : t \in DOMAIN parts[i]
                THEN parts[CHOOSE i \in DOMAIN parts : t \in DOMAIN parts[i]][t] ELSE {}]
  BY DEF Plan, NoPlan
<1>2. /\ DOMAIN user = {"twitter_user", "user_snapshot", "user_stats"}
      /\ DOMAIN media = {"media", "media_resource"}
      /\ DOMAIN tweet = {"tweet_place", "tweet", "tweet_edit", "tweet_policy", "tweet_community_note",
                         "tweet_stats", "relations"}
  BY PartsApart
<1> HIDE DEF user, media, tweet, plan
<1>3. DOMAIN parts = {1, 2, 3} /\ parts[1] = user /\ parts[2] = media /\ parts[3] = tweet
  OBVIOUS
<1> HIDE DEF parts
<1>4. \A t \in Tables \cup {"relations"} : \A i \in DOMAIN parts : t \in DOMAIN parts[i] => plan[t] = parts[i][t]
  <2> SUFFICES ASSUME NEW t \in Tables \cup {"relations"}, NEW i \in DOMAIN parts, t \in DOMAIN parts[i]
               PROVE  plan[t] = parts[i][t]
    OBVIOUS
  <2> DEFINE c == CHOOSE j \in DOMAIN parts : t \in DOMAIN parts[j]
  <2>1. plan[t] = parts[c][t]
    BY <1>1
  <2>2. c \in DOMAIN parts /\ t \in DOMAIN parts[c]
    OBVIOUS
  <2> HIDE DEF c
  <2>3. c = i
    BY <1>2, <1>3, <2>2
  <2>4. QED
    BY <2>1, <2>3
<1>5. PlannedTables = DOMAIN user \cup DOMAIN media \cup DOMAIN tweet
  BY <1>2 DEF PlannedTables, FilledTables, VersionTables
<1>6. PlannedTables \subseteq Tables \cup {"relations"}
  BY DEF PlannedTables, Tables, FactTables
<1>7. DOMAIN plan = Tables \cup {"relations"}
  BY <1>1
<1>8. \A t \in DOMAIN plan \ PlannedTables : plan[t] = {}
  BY <1>1, <1>3, <1>5, <1>7
<1>9. /\ \A t \in DOMAIN user : plan[t] = user[t]
      /\ \A t \in DOMAIN media : plan[t] = media[t]
      /\ \A t \in DOMAIN tweet : plan[t] = tweet[t]
  BY <1>3, <1>4, <1>5, <1>6
<1>10. QED
  BY <1>2, <1>7, <1>8, <1>9 DEF user, media, tweet, plan

\* The fields of an entry.
LEMMA EntryItem == \A x, key, row : Entry(x, key, row).item = x
                                  /\ Entry(x, key, row).key = key /\ Entry(x, key, row).row = row
  BY DEF Entry

\* A plan holds entries of its batch and leaves out none in silence.
LEMMA PlanIsFrom ==
  ASSUME NEW b, NEW ids
  PROVE  PlanFrom(b, Plan(b, ids)) /\ PlanWhole(b, Plan(b, ids))
<1> DEFINE o(x) == Item(b, x)
           users == LiveOf(b, "users")
           tweets == LiveTweets(b)
           media == LiveOf(b, "media")
           converted == {x \in tweets : TweetConverts(o(x), ids[x])}
           plan == Plan(b, ids)
           user == UserPart(b, users, tweets, ids)
           medium == MediaPart(b, media)
           tweet == TweetPart(b, tweets, converted)
<1>1. /\ DOMAIN plan = Tables \cup {"relations"}
      /\ \A t \in {"twitter_user", "user_snapshot", "user_stats"} : plan[t] = user[t]
      /\ \A t \in {"media", "media_resource"} : plan[t] = medium[t]
      /\ \A t \in {"tweet_place", "tweet", "tweet_edit", "tweet_policy", "tweet_community_note",
                   "tweet_stats", "relations"} : plan[t] = tweet[t]
      /\ \A t \in DOMAIN plan \ PlannedTables : plan[t] = {}
  BY PlanIs
<1> HIDE DEF plan
<1>2. /\ user["twitter_user"] = {Entry(x, o(x).id, [registered_at |-> o(x).registered]) : x \in users}
                                \cup {Entry(x, o(x).author, [registered_at |-> Null]) : x \in tweets}
      /\ user["user_snapshot"] = {Entry(x, <<o(x).id, o(x).profile.at>>, UserSnapshotRow(o(x))) :
              x \in {y \in users : o(y).profile # Null /\ SnapshotConverts(o(y), ids[y])}}
      /\ user["user_stats"] = {Entry(x, <<o(x).id, o(x).stats.at>>, [count |-> o(x).stats.count]) :
              x \in {y \in users : o(y).stats # Null /\ ~o(y).stats.bad}}
  BY DEF UserPart
<1>3. /\ medium["media"] = {Entry(x, o(x).id, [alt_text |-> o(x).alt, type |-> o(x).type]) :
              x \in {y \in media : ~o(y).bad}}
      /\ medium["media_resource"] = {Entry(x, <<o(x).id, o(x).resource.at>>, MediaResourceRow(o(x))) :
              x \in {y \in media : o(y).resource # Null /\ ~o(y).resource.bad}}
  BY DEF MediaPart
<1>4. /\ tweet["tweet_place"] = {Entry(x, o(x).place.id, PlaceRow(o(x).place)) :
              x \in {y \in tweets : o(y).place # Null /\ o(y).place.id # Null}}
      /\ tweet["tweet"] = {Entry(x, o(x).id, TweetRow(o(x))) : x \in converted}
      /\ tweet["tweet_edit"] = {Entry(x, o(x).id, [version_ids |-> o(x).edit.versions]) :
              x \in {y \in converted : o(y)["edit"] # Null}}
      /\ tweet["tweet_policy"] = {Entry(x, o(x).id, [reply_policy_id |-> o(x).policy]) :
              x \in {y \in converted : o(y)["policy"] # Null}}
      /\ tweet["tweet_community_note"] = {Entry(x, o(x).id, [title |-> o(x).community.title]) :
              x \in {y \in converted : o(y)["community"] # Null}}
      /\ tweet["tweet_stats"] = {Entry(x, <<o(x).id, o(x).stats.at>>, [count |-> o(x).stats.count]) :
              x \in {y \in converted : o(y)["stats"] # Null}}
      /\ tweet["relations"] = {Entry(x, o(x).id, RefsOf(o(x))) : x \in converted}
  BY DEF TweetPart
<1> HIDE DEF user, medium, tweet
<1>5. /\ \A x \in users : x[1] = "users"
      /\ \A x \in tweets : x[1] = "tweets"
  BY DEF LiveOf, LiveTweets
<1> HIDE DEF users, tweets, media
<1>6. ASSUME NEW t \in PlannedTables, NEW e \in plan[t]
      PROVE  \E x \in SourcesOf(b, t) : HasPart(o(x), t) /\ e = EntryOf(b, t, x)
  <2>1. CASE t = "twitter_user"
    <3> \A x : HasPart(o(x), t)
      BY <2>1 DEF HasPart
    <3>1. SourcesOf(b, t) = users \cup tweets
      BY <2>1 DEF SourcesOf, users, tweets
    <3>2. \A x : EntryOf(b, t, x) = IF x[1] = "users" THEN Entry(x, o(x).id, [registered_at |-> o(x).registered])
                                    ELSE Entry(x, o(x).author, [registered_at |-> Null])
      BY <2>1 DEF EntryOf, HasPart
    <3>3. plan[t] = {Entry(x, o(x).id, [registered_at |-> o(x).registered]) : x \in users}
                    \cup {Entry(x, o(x).author, [registered_at |-> Null]) : x \in tweets}
      BY <1>1, <1>2, <2>1
    <3>4. CASE e \in {Entry(x, o(x).id, [registered_at |-> o(x).registered]) : x \in users}
      BY <1>5, <3>1, <3>2, <3>4
    <3>5. CASE e \in {Entry(x, o(x).author, [registered_at |-> Null]) : x \in tweets}
      <4>1. PICK x \in tweets : e = Entry(x, o(x).author, [registered_at |-> Null])
        BY <3>5
      <4>2. x[1] # "users"
        <5>1. x[1] = "tweets"
          BY <1>5
        <5>2. QED
          BY <5>1
      <4>3. EntryOf(b, t, x) = Entry(x, o(x).author, [registered_at |-> Null])
        BY <3>2, <4>2, Zenon
      <4>4. QED
        BY <3>1, <4>1, <4>3
    <3>6. QED
      BY <3>3, <3>4, <3>5
  <2>2. CASE t \in {"user_snapshot", "user_stats"}
    <3>1. SourcesOf(b, t) = users
      BY <2>2 DEF SourcesOf, users
    <3>2. CASE t = "user_snapshot"
      BY <1>1, <1>2, <3>1, <3>2 DEF EntryOf, HasPart
    <3>3. CASE t = "user_stats"
      BY <1>1, <1>2, <3>1, <3>3 DEF EntryOf, HasPart
    <3>4. QED
      BY <2>2, <3>2, <3>3
  <2>3. CASE t \in {"media", "media_resource"}
    <3>1. SourcesOf(b, t) = media
      BY <2>3 DEF SourcesOf, media
    <3>2. CASE t = "media"
      BY <1>1, <1>3, <3>1, <3>2 DEF EntryOf, HasPart
    <3>3. CASE t = "media_resource"
      BY <1>1, <1>3, <3>1, <3>3 DEF EntryOf, HasPart
    <3>4. QED
      BY <2>3, <3>2, <3>3
  <2>4. CASE t \in {"tweet_place", "tweet", "tweet_edit", "tweet_policy", "tweet_community_note",
                    "tweet_stats", "relations"}
    <3>1. SourcesOf(b, t) = tweets
      BY <2>4 DEF SourcesOf, tweets
    <3>2. CASE t = "tweet_place"
      BY <1>1, <1>4, <3>1, <3>2 DEF EntryOf, HasPart
    <3>3. CASE t = "tweet"
      BY <1>1, <1>4, <3>1, <3>3 DEF EntryOf, HasPart
    <3>4. CASE t = "tweet_edit"
      BY <1>1, <1>4, <3>1, <3>4 DEF EntryOf, HasPart
    <3>5. CASE t = "tweet_policy"
      BY <1>1, <1>4, <3>1, <3>5 DEF EntryOf, HasPart
    <3>6. CASE t = "tweet_community_note"
      BY <1>1, <1>4, <3>1, <3>6 DEF EntryOf, HasPart
    <3>7. CASE t = "tweet_stats"
      BY <1>1, <1>4, <3>1, <3>7 DEF EntryOf, HasPart
    <3>8. CASE t = "relations"
      BY <1>1, <1>4, <3>1, <3>8 DEF EntryOf, HasPart
    <3>9. QED
      BY <2>4, <3>2, <3>3, <3>4, <3>5, <3>6, <3>7, <3>8
  <2>5. QED
    BY <2>1, <2>2, <2>3, <2>4 DEF PlannedTables, FilledTables, VersionTables
<1>7. \A t \in PlannedTables : \A x : EntryOf(b, t, x).item = x
  <2> SUFFICES ASSUME NEW t \in PlannedTables, NEW x PROVE EntryOf(b, t, x).item = x
    OBVIOUS
  <2>1. CASE t = "twitter_user"
    BY <2>1, EntryItem DEF EntryOf
  <2>2. CASE t \in {"user_snapshot", "user_stats"}
    BY <2>2, EntryItem DEF EntryOf
  <2>3. CASE t \in {"media", "media_resource"}
    BY <2>3, EntryItem DEF EntryOf
  <2>4. CASE t \in {"tweet_place", "tweet", "tweet_edit"}
    BY <2>4, EntryItem DEF EntryOf
  <2>5. CASE t \in {"tweet_policy", "tweet_community_note", "tweet_stats", "relations"}
    BY <2>5, EntryItem DEF EntryOf
  <2>6. QED
    BY <2>1, <2>2, <2>3, <2>4, <2>5 DEF PlannedTables, FilledTables, VersionTables
<1>8. PlanFrom(b, plan)
  BY <1>1, <1>6, <1>7 DEF PlanFrom
<1>9. \A x \in SourcesOf(b, "twitter_user") : Planned(plan, x, "twitter_user")
  <2>1. SourcesOf(b, "twitter_user") = users \cup tweets
    BY DEF SourcesOf, users, tweets
  <2>2. plan["twitter_user"] = {Entry(y, o(y).id, [registered_at |-> o(y).registered]) : y \in users}
                               \cup {Entry(y, o(y).author, [registered_at |-> Null]) : y \in tweets}
    BY <1>1, <1>2
  <2> HIDE DEF o
  <2>3. \A x \in users : \E e \in plan["twitter_user"] : e.item = x
    BY <2>2, EntryItem
  <2>4. \A x \in tweets : \E e \in plan["twitter_user"] : e.item = x
    BY <2>2, EntryItem
  <2>5. QED
    BY <2>1, <2>3, <2>4 DEF Planned
<1>10. \A x \in tweets : HasPart(o(x), "tweet_place") => Planned(plan, x, "tweet_place")
  <2> SUFFICES ASSUME NEW x \in tweets, HasPart(o(x), "tweet_place") PROVE Planned(plan, x, "tweet_place")
    OBVIOUS
  <2> HIDE DEF o
  <2>1. x \in {y \in tweets : o(y).place # Null /\ o(y).place.id # Null}
    BY DEF HasPart
  <2>2. plan["tweet_place"] = {Entry(y, o(y).place.id, PlaceRow(o(y).place)) :
                                 y \in {y \in tweets : o(y).place # Null /\ o(y).place.id # Null}}
    BY <1>1, <1>4
  <2>3. Entry(x, o(x).place.id, PlaceRow(o(x).place)) \in plan["tweet_place"]
    BY <2>1, <2>2
  <2>4. QED
    BY <2>3, EntryItem DEF Planned
<1>11. \A x \in tweets : Planned(plan, x, "tweet") => x \in converted
  BY <1>1, <1>4, EntryItem DEF Planned
<1>12. ASSUME NEW x \in converted,
              NEW t \in {"tweet_edit", "tweet_policy", "tweet_community_note", "tweet_stats", "relations"},
              HasPart(o(x), t)
       PROVE  Planned(plan, x, t)
  <2> HIDE DEF converted, o
  <2>1. CASE t = "tweet_edit"
    <3>1. o(x)["edit"] # Null
      BY <1>12, <2>1 DEF HasPart
    <3>2. x \in {y \in converted : o(y)["edit"] # Null}
      BY <3>1
    <3>3. QED
      <4>1. plan[t] = {Entry(y, o(y).id, [version_ids |-> o(y).edit.versions]) :
                         y \in {y \in converted : o(y)["edit"] # Null}}
        BY <1>1, <1>4, <2>1
      <4>2. Entry(x, o(x).id, [version_ids |-> o(x).edit.versions]) \in plan[t]
        BY <3>2, <4>1
      <4>3. QED
        BY <4>2, EntryItem DEF Planned
  <2>2. CASE t = "tweet_policy"
    <3>1. o(x)["policy"] # Null
      BY <1>12, <2>2 DEF HasPart
    <3>2. x \in {y \in converted : o(y)["policy"] # Null}
      BY <3>1
    <3>3. QED
      <4>1. plan[t] = {Entry(y, o(y).id, [reply_policy_id |-> o(y).policy]) :
                         y \in {y \in converted : o(y)["policy"] # Null}}
        BY <1>1, <1>4, <2>2
      <4>2. Entry(x, o(x).id, [reply_policy_id |-> o(x).policy]) \in plan[t]
        BY <3>2, <4>1
      <4>3. QED
        BY <4>2, EntryItem DEF Planned
  <2>3. CASE t = "tweet_community_note"
    <3>1. o(x)["community"] # Null
      BY <1>12, <2>3 DEF HasPart
    <3>2. x \in {y \in converted : o(y)["community"] # Null}
      BY <3>1
    <3>3. QED
      <4>1. plan[t] = {Entry(y, o(y).id, [title |-> o(y).community.title]) :
                         y \in {y \in converted : o(y)["community"] # Null}}
        BY <1>1, <1>4, <2>3
      <4>2. Entry(x, o(x).id, [title |-> o(x).community.title]) \in plan[t]
        BY <3>2, <4>1
      <4>3. QED
        BY <4>2, EntryItem DEF Planned
  <2>4. CASE t = "tweet_stats"
    <3>1. o(x)["stats"] # Null
      BY <1>12, <2>4 DEF HasPart
    <3>2. x \in {y \in converted : o(y)["stats"] # Null}
      BY <3>1
    <3>3. QED
      <4>1. plan[t] = {Entry(y, <<o(y).id, o(y).stats.at>>, [count |-> o(y).stats.count]) :
                         y \in {y \in converted : o(y)["stats"] # Null}}
        BY <1>1, <1>4, <2>4
      <4>2. Entry(x, <<o(x).id, o(x).stats.at>>, [count |-> o(x).stats.count]) \in plan[t]
        BY <3>2, <4>1
      <4>3. QED
        BY <4>2, EntryItem DEF Planned
  <2>5. CASE t = "relations"
    BY <1>1, <1>4, <2>5, EntryItem DEF Planned
  <2>6. QED
    BY <2>1, <2>2, <2>3, <2>4, <2>5
<1>13. PlanWhole(b, plan)
  BY <1>9, <1>10, <1>11, <1>12 DEF PlanWhole, tweets
<1>14. QED
  BY <1>8, <1>13 DEF plan

-----------------------------------------------------------------------------
(* The batches of a load, and what their items' rows are.                  *)

BatchOK(b) ==
  /\ \A k \in {"users", "tweets", "media"} : b[k] \in Seq(Range(b[k]))
  /\ \A u \in Range(b["users"]) : IsUser(u)
  /\ \A w \in Range(b["tweets"]) : IsTweet(w)
  /\ \A m \in Range(b["media"]) : IsMedium(m)

\* The batches of requests meet the contract.
LEMMA BatchesOK == Shaped => \A p \in Requests : BatchOK(req[p].batch)
  BY SubmitAssumption DEF Shaped, Requests, BatchOK

\* An item is a kind and a place in the list of that kind.
LEMMA ItemIs ==
  ASSUME NEW b, BatchOK(b), NEW x \in Present(b)
  PROVE  /\ x[1] \in {"users", "tweets", "media"} /\ x[2] \in DOMAIN b[x[1]] /\ x[2] \in Nat
         /\ x = <<x[1], x[2]>> /\ Item(b, x) \in Range(b[x[1]])
<1>1. PICK k, i : k \in {"users", "tweets", "media"} /\ i \in DOMAIN b[k] /\ x = <<k, i>>
  BY DEF Present
<1>2. b[k] \in Seq(Range(b[k]))
  BY <1>1 DEF BatchOK
<1>3. DOMAIN b[k] = 1..Len(b[k]) /\ Len(b[k]) \in Nat
  BY <1>2
<1>4. i \in Nat
  BY <1>1, <1>3
<1>5. x[1] = k /\ x[2] = i
  BY <1>1
<1>6. b[k][i] \in Range(b[k])
  BY <1>1 DEF Range
<1>7. QED
  BY <1>1, <1>4, <1>5, <1>6 DEF Item

\* Of equal ids one item is live.
LEMMA LiveUnique ==
  ASSUME NEW b, BatchOK(b), NEW x \in Present(b), NEW y \in Present(b), x[1] = y[1],
         Live(b, x), Live(b, y), Item(b, x).id = Item(b, y).id
  PROVE  x = y
<1>1. /\ x[2] \in DOMAIN b[x[1]] /\ x[2] \in Nat /\ x = <<x[1], x[2]>>
      /\ y[2] \in DOMAIN b[x[1]] /\ y[2] \in Nat /\ y = <<x[1], y[2]>>
  BY ItemIs
<1>2. /\ b[x[1]][x[2]].id = Item(b, x).id
      /\ b[x[1]][y[2]].id = Item(b, x).id
  BY DEF Item
<1>3. y[2] <= x[2] /\ x[2] <= y[2]
  BY <1>1, <1>2 DEF Live
<1>4. QED
  BY <1>1, <1>3

\* An item a table takes rows from counts and is of its kind.
LEMMA SourcesAre ==
  ASSUME NEW b, NEW t \in PlannedTables, NEW x \in SourcesOf(b, t)
  PROVE  /\ x \in Present(b) /\ Live(b, x)
         /\ t \in {"user_snapshot", "user_stats"} => x[1] = "users"
         /\ t = "twitter_user" => x[1] \in {"users", "tweets"}
         /\ t \in {"media", "media_resource"} => x[1] = "media"
         /\ t \notin {"user_snapshot", "user_stats", "twitter_user", "media", "media_resource"} => x[1] = "tweets"
         /\ x[1] = "tweets" => Item(b, x).author # Unparsable
<1>1. \A kind, y : y \in LiveOf(b, kind) => y \in Present(b) /\ Live(b, y) /\ y[1] = kind
  BY DEF LiveOf
<1>2. \A y \in LiveTweets(b) : y \in LiveOf(b, "tweets") /\ Item(b, y).author # Unparsable
  BY DEF LiveTweets
<1>3. QED
  BY <1>1, <1>2 DEF SourcesOf

\* The items of users, tweets and media keep to their contract.
LEMMA ItemKeepsContract ==
  ASSUME NEW b, BatchOK(b), NEW x \in Present(b)
  PROVE  /\ x[1] = "users" => IsUser(Item(b, x))
         /\ x[1] = "tweets" => IsTweet(Item(b, x))
         /\ x[1] = "media" => IsMedium(Item(b, x))
  BY ItemIs DEF BatchOK

\* Two entries of a table with one key are of one item, save where a user and
\* the author of a tweet, or two tweets, may share a row.
KeyedByItem == PlannedTables \ {"twitter_user", "tweet_place"}

\* Entries of one key are of one item.
LEMMA KeysApart ==
  ASSUME NEW b, BatchOK(b), NEW plan, PlanFrom(b, plan), NEW t \in KeyedByItem,
         NEW e \in plan[t], NEW f \in plan[t], e.key = f.key
  PROVE  e = f
<1>1. t \in PlannedTables
  BY DEF KeyedByItem
<1>2. /\ e.item \in SourcesOf(b, t) /\ e = EntryOf(b, t, e.item)
      /\ f.item \in SourcesOf(b, t) /\ f = EntryOf(b, t, f.item)
  BY <1>1 DEF PlanFrom
<1>3. /\ e.item \in Present(b) /\ Live(b, e.item) /\ f.item \in Present(b) /\ Live(b, f.item)
      /\ e.item[1] = f.item[1]
  BY <1>1, <1>2, SourcesAre DEF KeyedByItem
<1>4. Item(b, e.item).id = Item(b, f.item).id
  <2>1. CASE t \in {"user_snapshot", "user_stats"}
    BY <1>2, <2>1, EntryItem DEF EntryOf
  <2>2. CASE t = "media_resource"
    BY <1>2, <2>2, EntryItem DEF EntryOf
  <2>3. CASE t = "tweet_stats"
    BY <1>2, <2>3, EntryItem DEF EntryOf
  <2>4. CASE t = "media"
    BY <1>2, <2>4, EntryItem DEF EntryOf
  <2>5. CASE t = "tweet"
    BY <1>2, <2>5, EntryItem DEF EntryOf
  <2>6. CASE t = "tweet_edit"
    BY <1>2, <2>6, EntryItem DEF EntryOf
  <2>7. CASE t = "tweet_policy"
    BY <1>2, <2>7, EntryItem DEF EntryOf
  <2>8. CASE t = "tweet_community_note"
    BY <1>2, <2>8, EntryItem DEF EntryOf
  <2>9. CASE t = "relations"
    BY <1>2, <2>9, EntryItem DEF EntryOf
  <2>10. QED
    BY <2>1, <2>2, <2>3, <2>4, <2>5, <2>6, <2>7, <2>8, <2>9
       DEF KeyedByItem, PlannedTables, FilledTables, VersionTables
<1>5. e.item = f.item
  BY <1>3, <1>4, LiveUnique
<1>6. QED
  BY <1>2, <1>5

-----------------------------------------------------------------------------
(* The rows a statement is given.                                          *)

\* Of the entries with one key the first gives the row.
LEMMA FirstEntry ==
  ASSUME NEW b, BatchOK(b), NEW plan, PlanFrom(b, plan), NEW t \in PlannedTables,
         NEW k \in {e.key : e \in plan[t]}
  PROVE  \E e \in plan[t] : /\ e.key = k /\ Rows(plan[t])[k] = e.row
                            /\ \A f \in plan[t] : f.key = k /\ f # e => Precedes(e.item, f.item)
<1> DEFINE same == {e \in plan[t] : e.key = k}
           first(e) == e.key = k /\ \A f \in plan[t] : f.key = k /\ f # e => Precedes(e.item, f.item)
<1>1. \A e \in same : /\ e.item \in SourcesOf(b, t) /\ e = EntryOf(b, t, e.item)
  BY DEF PlanFrom
<1>2. \A e \in same : /\ e.item \in Present(b) /\ Live(b, e.item)
                      /\ e.item[1] \in {"users", "tweets", "media"} /\ e.item[2] \in Nat
                      /\ e.item = <<e.item[1], e.item[2]>>
  BY <1>1, SourcesAre, ItemIs
<1>3. \E e \in same : first(e)
  <2>1. CASE t \in KeyedByItem
    BY <2>1, KeysApart
  <2>2. CASE t = "twitter_user" /\ \E e \in same : e.item[1] = "users"
    <3>1. PICK e \in same : e.item[1] = "users"
      BY <2>2
    <3>2. ASSUME NEW f \in same, f.item[1] = "users" PROVE f = e
      <4>1. /\ e = Entry(e.item, Item(b, e.item).id, [registered_at |-> Item(b, e.item).registered])
            /\ f = Entry(f.item, Item(b, f.item).id, [registered_at |-> Item(b, f.item).registered])
        BY <1>1, <2>2, <3>1, <3>2 DEF EntryOf
      <4>2. Item(b, e.item).id = k /\ Item(b, f.item).id = k
        BY <4>1, EntryItem
      <4>3. e.item = f.item
        BY <1>2, <3>1, <3>2, <4>2, LiveUnique
      <4>4. QED
        BY <1>1, <4>3
    <3>3. \A f \in same : f # e => Precedes(e.item, f.item)
      BY <3>1, <3>2 DEF Precedes
    <3>4. QED
      BY <3>3
  <2>3. CASE t \in {"twitter_user", "tweet_place"} /\ ~\E e \in same : e.item[1] = "users"
    <3>1. \A e \in same : e.item[1] = "tweets"
      BY <1>1, <2>3, SourcesAre
    <3> DEFINE places == {e.item[2] : e \in same}
    <3>2. places \in SUBSET Nat /\ places # {}
      BY <1>2
    <3> HIDE DEF places
    <3>3. PICK n \in places : \A m \in places : n <= m
      BY <3>2, LeastNat
    <3>4. PICK e \in same : e.item[2] = n
      BY DEF places
    <3>5. ASSUME NEW f \in same, f # e PROVE Precedes(e.item, f.item)
      <4>1. f.item[2] \in places
        BY DEF places
      <4>2. n <= f.item[2]
        BY <3>3, <4>1
      <4>3. f.item # e.item
        BY <1>1, <3>5
      <4>4. f.item[2] # e.item[2]
        <5>1. /\ f.item = <<f.item[1], f.item[2]>> /\ e.item = <<e.item[1], e.item[2]>>
          BY <1>2
        <5>2. f.item[1] = e.item[1]
          BY <3>1
        <5>3. QED
          BY <4>3, <5>1, <5>2
      <4>5. e.item[2] < f.item[2]
        BY <1>2, <3>4, <4>2, <4>4
      <4>6. QED
        BY <3>1, <4>5 DEF Precedes
    <3>6. QED
      BY <3>5
  <2>4. t \in KeyedByItem \/ t \in {"twitter_user", "tweet_place"}
    BY DEF KeyedByItem
  <2>5. ASSUME t = "tweet_place", NEW e \in same PROVE e.item[1] # "users"
    <3>1. e.item[1] = "tweets"
      BY <1>1, <2>5, SourcesAre
    <3>2. QED
      BY <3>1
  <2>6. QED
    BY <2>1, <2>2, <2>3, <2>4, <2>5
<1> DEFINE c == CHOOSE e \in plan[t] : first(e)
<1>4. Rows(plan[t])[k] = c.row
  BY DEF Rows
<1>5. \E e \in plan[t] : first(e)
  BY <1>3
<1> HIDE DEF first
<1>6. c \in plan[t] /\ first(c)
  BY <1>5
<1>7. QED
  BY <1>4, <1>6 DEF first

\* The rows have the keys of the entries.
LEMMA RowsDomain == \A entries : DOMAIN Rows(entries) = {e.key : e \in entries}
                                /\ Rows(entries) = [k \in DOMAIN Rows(entries) |-> Rows(entries)[k]]
  BY DEF Rows

\* Where entries are keyed by item, the row of a key is its entry's.
LEMMA RowsOfItems ==
  ASSUME NEW b, BatchOK(b), NEW plan, PlanFrom(b, plan), NEW t \in KeyedByItem, NEW e \in plan[t]
  PROVE  e.key \in DOMAIN Rows(plan[t]) /\ Rows(plan[t])[e.key] = e.row
<1>1. t \in PlannedTables /\ e.key \in {f.key : f \in plan[t]}
  BY DEF KeyedByItem
<1>2. PICK f \in plan[t] : f.key = e.key /\ Rows(plan[t])[e.key] = f.row
  BY <1>1, FirstEntry
<1>3. f = e
  BY <1>2, KeysApart
<1>4. QED
  BY <1>1, <1>2, <1>3, RowsDomain

\* A user's own entry is the one whose row counts.
LEMMA RowsOfUsers ==
  ASSUME NEW b, BatchOK(b), NEW plan, PlanFrom(b, plan), NEW e \in plan["twitter_user"]
  PROVE  /\ e.key \in DOMAIN Rows(plan["twitter_user"])
         /\ \A c \in DOMAIN e.row : e.row[c] # Null => Rows(plan["twitter_user"])[e.key] = e.row
<1> DEFINE t == "twitter_user"
<1>1. t \in PlannedTables /\ e.key \in {f.key : f \in plan[t]}
  BY DEF PlannedTables, FilledTables
<1>2. /\ e.item \in SourcesOf(b, t) /\ e = EntryOf(b, t, e.item)
  BY <1>1 DEF PlanFrom
<1>3. CASE e.item[1] = "users"
  <2>1. PICK f \in plan[t] : /\ f.key = e.key /\ Rows(plan[t])[e.key] = f.row
                             /\ \A g \in plan[t] : g.key = e.key /\ g # f => Precedes(f.item, g.item)
    BY <1>1, FirstEntry
  <2>2. f \in plan[t] /\ f.item \in SourcesOf(b, t) /\ f = EntryOf(b, t, f.item)
    BY <1>1 DEF PlanFrom
  <2>3. CASE f = e
    BY <1>1, <2>1, <2>3, RowsDomain
  <2>4. CASE f # e
    <3>1. Precedes(f.item, e.item)
      BY <2>1, <2>4
    <3>2. f.item[1] = "users"
      BY <1>3, <3>1 DEF Precedes
    <3>3. /\ e = Entry(e.item, Item(b, e.item).id, [registered_at |-> Item(b, e.item).registered])
          /\ f = Entry(f.item, Item(b, f.item).id, [registered_at |-> Item(b, f.item).registered])
      BY <1>2, <1>3, <2>2, <3>2 DEF EntryOf
    <3>4. Item(b, e.item).id = Item(b, f.item).id
      BY <2>1, <3>3, EntryItem
    <3>5. e.item = f.item
      BY <1>1, <1>2, <1>3, <2>2, <3>2, <3>4, LiveUnique, SourcesAre
    <3>6. QED
      BY <1>2, <2>2, <2>4, <3>5
  <2>5. QED
    BY <2>3, <2>4
<1>4. CASE e.item[1] # "users"
  <2>1. e = Entry(e.item, Item(b, e.item).author, [registered_at |-> Null])
    BY <1>2, <1>4 DEF EntryOf
  <2>2. e.row = [registered_at |-> Null]
    BY <2>1, EntryItem
  <2>3. \A c \in DOMAIN e.row : e.row[c] = Null
    BY <2>2
  <2>4. QED
    BY <1>1, <2>3, RowsDomain
<1>5. QED
  BY <1>3, <1>4

\* The columns the model gives the rows of a table, and those that are NOT NULL.
ColumnsOf(t) ==
  CASE t = "twitter_user" -> {"registered_at"}
    [] t = "media" -> {"alt_text", "type"}
    [] t = "tweet_place" -> {"name"}
    [] t = "tweet" -> {"author_id", "legacy_text", "note_text", "place_id"}
    [] t = "tweet_edit" -> {"version_ids"}
    [] t = "tweet_policy" -> {"reply_policy_id"}
    [] t = "tweet_community_note" -> {"title"}

NotNull(t) ==
  IF t = "tweet" THEN {"author_id", "legacy_text"} ELSE IF t = "media" THEN {"type"} ELSE {}

HasColumns(t, row) == DOMAIN row = ColumnsOf(t) /\ \A c \in NotNull(t) : row[c] # Null

\* An entry has the columns of its table, and a value where NULL is refused.
LEMMA EntryColumns ==
  ASSUME NEW b, BatchOK(b), NEW plan, PlanFrom(b, plan), NEW t \in FilledTables, NEW e \in plan[t]
  PROVE  HasColumns(t, e.row)
<1>1. t \in PlannedTables
  BY DEF PlannedTables
<1>2. e.item \in SourcesOf(b, t) /\ e = EntryOf(b, t, e.item)
  BY <1>1 DEF PlanFrom
<1>3. CASE t = "twitter_user"
  BY <1>2, <1>3, EntryItem DEF EntryOf, HasColumns, ColumnsOf, NotNull
<1>4. CASE t = "media"
  <2>1. IsMedium(Item(b, e.item))
    BY <1>1, <1>2, <1>4, SourcesAre, ItemKeepsContract
  <2>2. e.row = [alt_text |-> Item(b, e.item).alt, type |-> Item(b, e.item).type]
    BY <1>2, <1>4, EntryItem DEF EntryOf
  <2>3. QED
    BY <1>4, <2>1, <2>2 DEF HasColumns, ColumnsOf, NotNull, IsMedium
<1>5. CASE t = "tweet_place"
  BY <1>2, <1>5, EntryItem DEF EntryOf, HasColumns, ColumnsOf, NotNull, PlaceRow
<1>6. CASE t = "tweet"
  <2>1. IsTweet(Item(b, e.item))
    BY <1>1, <1>2, <1>6, SourcesAre, ItemKeepsContract
  <2>2. e.row = TweetRow(Item(b, e.item))
    BY <1>2, <1>6, EntryItem DEF EntryOf
  <2>3. QED
    BY <1>6, <2>1, <2>2 DEF HasColumns, ColumnsOf, NotNull, IsTweet, TweetRow
<1>7. CASE t = "tweet_edit"
  BY <1>2, <1>7, EntryItem DEF EntryOf, HasColumns, ColumnsOf, NotNull
<1>8. CASE t = "tweet_policy"
  BY <1>2, <1>8, EntryItem DEF EntryOf, HasColumns, ColumnsOf, NotNull
<1>9. CASE t = "tweet_community_note"
  BY <1>2, <1>9, EntryItem DEF EntryOf, HasColumns, ColumnsOf, NotNull
<1>10. QED
  BY <1>3, <1>4, <1>5, <1>6, <1>7, <1>8, <1>9 DEF FilledTables

\* So do the rows.
LEMMA RowsHaveColumns ==
  ASSUME NEW b, BatchOK(b), NEW plan, PlanFrom(b, plan), NEW t \in FilledTables,
         NEW k \in DOMAIN Rows(plan[t])
  PROVE  HasColumns(t, Rows(plan[t])[k])
<1>1. t \in PlannedTables /\ k \in {e.key : e \in plan[t]}
  BY RowsDomain DEF PlannedTables
<1>2. PICK e \in plan[t] : Rows(plan[t])[k] = e.row
  BY <1>1, FirstEntry
<1>3. QED
  BY <1>2, EntryColumns

-----------------------------------------------------------------------------
(* What the statements do to the store.                                    *)

\* A statement fills every column that may be NULL.
LEMMA FilledColumnsCover ==
  ASSUME NEW t \in FilledTables
  PROVE  ColumnsOf(t) \ NotNull(t) \subseteq FilledColumns(t)
<1>1. CASE t = "twitter_user"
  BY <1>1 DEF ColumnsOf, NotNull, FilledColumns
<1>2. CASE t = "media"
  BY <1>2 DEF ColumnsOf, NotNull, FilledColumns, MediaFilled
<1>3. CASE t = "tweet_place"
  BY <1>3 DEF ColumnsOf, NotNull, FilledColumns, TweetPlaceFilled
<1>4. CASE t = "tweet"
  BY <1>4 DEF ColumnsOf, NotNull, FilledColumns, TweetFilled
<1>5. CASE t = "tweet_edit"
  BY <1>5 DEF ColumnsOf, NotNull, FilledColumns, TweetEditFilled
<1>6. CASE t = "tweet_policy"
  BY <1>6 DEF ColumnsOf, NotNull, FilledColumns, TweetPolicyFilled
<1>7. CASE t = "tweet_community_note"
  BY <1>7 DEF ColumnsOf, NotNull, FilledColumns, TweetCommunityNoteFilled
<1>8. QED
  BY <1>1, <1>2, <1>3, <1>4, <1>5, <1>6, <1>7 DEF FilledTables

\* After an upsert each row has its columns, and a row given a value has one.
LEMMA UpsertStores ==
  ASSUME NEW t \in FilledTables, NEW table, NEW rows, NEW k,
         k \in DOMAIN table => HasColumns(t, table[k]),
         k \in DOMAIN rows => HasColumns(t, rows[k]),
         k \in DOMAIN Upsert(table, rows, FilledColumns(t))
  PROVE  LET row == Upsert(table, rows, FilledColumns(t))[k]
         IN  /\ HasColumns(t, row)
             /\ k \in DOMAIN rows => \A c \in DOMAIN rows[k] : rows[k][c] # Null => row[c] # Null
<1> DEFINE cols == FilledColumns(t)
           row == Upsert(table, rows, cols)[k]
<1>1. k \in DOMAIN table \cup DOMAIN rows
  BY DEF Upsert
<1>2. row = IF k \notin DOMAIN rows THEN table[k]
            ELSE IF k \notin DOMAIN table THEN rows[k] ELSE Filled(table[k], rows[k], cols)
  BY <1>1 DEF Upsert
<1>3. CASE k \notin DOMAIN rows \/ k \notin DOMAIN table
  BY <1>1, <1>2, <1>3
<1>4. CASE k \in DOMAIN rows /\ k \in DOMAIN table
  <2> DEFINE old == table[k]
             new == rows[k]
  <2>1. row = Filled(old, new, cols) /\ HasColumns(t, old) /\ HasColumns(t, new)
    BY <1>2, <1>4
  <2> HIDE DEF old, new, row
  <2>2. ColumnsOf(t) \ NotNull(t) \subseteq cols
    BY FilledColumnsCover
  <2> HIDE DEF cols
  <2>3. /\ DOMAIN row = DOMAIN old
        /\ \A c \in DOMAIN old : row[c] = IF c \in cols /\ old[c] = Null THEN new[c] ELSE old[c]
    BY <2>1 DEF Filled
  <2>4. DOMAIN old = ColumnsOf(t) /\ \A c \in NotNull(t) : old[c] # Null
    BY <2>1 DEF HasColumns
  <2>5. DOMAIN new = ColumnsOf(t) /\ \A c \in NotNull(t) : new[c] # Null
    BY <2>1 DEF HasColumns
  <2>6. NotNull(t) \subseteq ColumnsOf(t)
    BY DEF NotNull, ColumnsOf, FilledTables
  <2>7. \A c \in NotNull(t) : row[c] # Null
    BY <2>3, <2>4, <2>5, <2>6
  <2>8. \A c \in ColumnsOf(t) : new[c] # Null => row[c] # Null
    BY <2>2, <2>3, <2>4
  <2>9. DOMAIN row = ColumnsOf(t)
    BY <2>3, <2>4
  <2>10. HasColumns(t, row)
    BY <2>7, <2>9 DEF HasColumns
  <2>11. \A c \in DOMAIN new : new[c] # Null => row[c] # Null
    BY <2>5, <2>8
  <2>12. QED
    BY <2>10, <2>11, <1>4 DEF row, new, old, cols
<1>5. QED
  BY <1>3, <1>4

\* The table a statement fills, those it fills them from, and the queue.
ChildTables == {"tweet_edit", "tweet_policy", "tweet_community_note"}

\* What each statement of facts writes.
LEMMA WriteIs ==
  ASSUME IsStore(db), NEW t \in FilledTables, NEW rows, rows = [k \in DOMAIN rows |-> rows[k]]
  PROVE  LET new == Write(t, rows)
         IN  /\ new[t] = Upsert(db[t], OfParents(rows, ParentsOf(t, rows)), FilledColumns(t))
             /\ \A u \in Tables \ {t, "index_queue"} : new[u] = db[u]
             /\ t = "twitter_user" => new["index_queue"] =
                  EnqueueTargets(db["index_queue"], "user", Changed(db[t], rows, FilledColumns(t)))
             /\ t = "tweet" => new["index_queue"] =
                  EnqueueTargets(db["index_queue"], "tweet", Changed(db[t], rows, FilledColumns(t)))
             /\ t \notin {"twitter_user", "tweet"} => new["index_queue"] = db["index_queue"]
             /\ t \notin ChildTables => new[t] = Upsert(db[t], rows, FilledColumns(t))
<1> DEFINE new == Write(t, rows)
<1>1. t \in Tables /\ "index_queue" \in Tables /\ t # "index_queue"
  BY DEF Tables, FactTables, FilledTables
<1>2. db = [u \in Tables |-> db[u]]
  BY DEF IsStore
<1>3. t \notin ChildTables => OfParents(rows, ParentsOf(t, rows)) = rows
  <2>1. t \notin ChildTables => ParentsOf(t, rows) = DOMAIN rows
    BY DEF ParentsOf, ChildTables
  <2>2. OfParents(rows, DOMAIN rows) = rows
    BY DEF OfParents
  <2>3. QED
    BY <2>1, <2>2
<1>4. CASE t = "twitter_user"
  <2>1. new = [db EXCEPT !["twitter_user"] = Upsert(db[t], rows, {"registered_at"}),
                         !["index_queue"] = EnqueueTargets(db["index_queue"], "user",
                             Changed(db[t], rows, {"registered_at"}))]
    BY <1>1, <1>2, <1>4 DEF Write, WriteTwitterUsers
  <2>2. FilledColumns(t) = {"registered_at"}
    BY <1>4 DEF FilledColumns
  <2> HIDE DEF new
  <2>3. QED
    BY <1>1, <1>2, <1>3, <1>4, <2>1, <2>2 DEF new, ChildTables
<1>5. CASE t = "tweet"
  <2>1. new = [db EXCEPT !["tweet"] = Upsert(db[t], rows, TweetFilled),
                         !["index_queue"] = EnqueueTargets(db["index_queue"], "tweet",
                             Changed(db[t], rows, TweetFilled))]
    BY <1>1, <1>2, <1>5 DEF Write, WriteTweets
  <2>2. FilledColumns(t) = TweetFilled
    BY <1>5 DEF FilledColumns
  <2> HIDE DEF new
  <2>3. QED
    BY <1>1, <1>2, <1>3, <1>5, <2>1, <2>2 DEF new, ChildTables
<1>6. CASE t \in {"media", "tweet_place"}
  <2>1. new = [db EXCEPT ![t] = Upsert(db[t], rows, FilledColumns(t))]
    BY <1>2, <1>6 DEF Write, WriteMedia, WriteTweetPlaces, FilledColumns
  <2> HIDE DEF new
  <2>2. QED
    BY <1>1, <1>2, <1>3, <1>6, <2>1 DEF new, ChildTables
<1>7. CASE t \in ChildTables
  <2>1. ParentsOf(t, rows) = DOMAIN db["tweet"]
    BY <1>7 DEF ParentsOf, ChildTables
  <2>2. new = [db EXCEPT ![t] = Upsert(db[t], OfParents(rows, DOMAIN db["tweet"]), FilledColumns(t))]
    BY <1>2, <1>7 DEF Write, WriteTweetEdits, WriteTweetPolicies, WriteTweetCommunityNotes,
                      FilledColumns, ChildTables
  <2>3. t \notin {"twitter_user", "tweet"}
    BY <1>7 DEF ChildTables
  <2> HIDE DEF new
  <2>4. QED
    BY <1>1, <1>2, <1>7, <2>1, <2>2, <2>3 DEF new
<1>8. QED
  BY <1>4, <1>5, <1>6, <1>7 DEF FilledTables, ChildTables

-----------------------------------------------------------------------------
(* Requests keep their shape.                                              *)

\* A request starts with nothing planned, read or answered.
LEMMA StartedIs ==
  ASSUME NEW b
  PROVE  LET s == Started(b)
         IN  /\ IsRequest(s) /\ s.batch = b /\ s.plan = NoPlan /\ s.results = {}
             /\ s.snapshot = Unread
             /\ s.step = "refused" \/ \E n \in 1..4 : s.step = Steps[n]
<1> DEFINE s == [step |-> "", batch |-> b, snapshot |-> Unread, ids |-> [t \in LookupTables |-> {}],
                 plan |-> NoPlan, decided |-> << >>, results |-> {}]
           first == IF HasWork(s, Steps[1]) THEN Steps[1] ELSE After(s, Steps[1])
           step == IF Cardinality(Present(b)) > MaxItems THEN "refused" ELSE first
           new == [s EXCEPT !.step = step]
<1>1. Started(b) = new
  BY DEF Started
<1>2. \E n \in 1..4 : first = Steps[n]
  <2>1. PICK m \in 2..23 : /\ After(s, Steps[1]) = Steps[m]
                           /\ \A j \in 2..m - 1 : ~HasWork(s, Steps[j])
    <3> HIDE DEF s
    <3>1. QED
      BY AfterIs
  <2>2. HasWork(s, Steps[4])
    BY StepNames DEF HasWork, LookupTables
  <2> HIDE DEF s
  <2>3. m \in 1..4
    BY <2>1, <2>2
  <2>4. QED
    BY <2>1, <2>3
<1> HIDE DEF step
<1>3. new = [f \in Fields |-> IF f = "step" THEN step ELSE s[f]]
  BY DEF Fields
<1>4. /\ s.batch = b /\ s.plan = NoPlan /\ s.results = {} /\ s.snapshot = Unread
  OBVIOUS
<1> HIDE DEF new, s
<1>5. IsRequest(new)
  BY <1>3 DEF IsRequest
<1>6. /\ new.batch = s.batch /\ new.plan = s.plan /\ new.results = s.results
      /\ new.snapshot = s.snapshot /\ new.step = step
  BY <1>3 DEF Fields
<1>7. step = "refused" \/ \E n \in 1..4 : step = Steps[n]
  BY <1>2 DEF step
<1>8. QED
  BY <1>1, <1>4, <1>5, <1>6, <1>7

\* The step of one request, or one that concerns none.
Quiet == load' = load /\ req' = req /\ UNCHANGED <<seen, untidy, lastSync>>

\* A step of request p.
Moves(p) ==
  \/ ReadLookup(p)
  \/ \E o \in Outcomes : CommitLookup(p, o)
  \/ \E failing \in SUBSET Present(req[p].batch) : Convert(p, failing)
  \/ \E o \in Outcomes : Preload(p, o)
  \/ \E o \in Outcomes : WriteRows(p, o)
  \/ DecideVersions(p)
  \/ \E o \in Outcomes : AppendVersions(p, o)
  \/ \E o \in Outcomes, lucky \in BOOLEAN : EnqueueTransfers(p, o, lucky)
  \/ PlanRelations(p)
  \/ \E o \in Outcomes, insertFirst \in BOOLEAN : CommitRelations(p, o, insertFirst)
  \/ Abandon(p)

\* A step is the step of one request, or one that concerns none.
LEMMA StepsAre ==
  ASSUME [Next]_vars
  PROVE  \/ Quiet /\ (db' = db \/ CreateTransferTask)
         \/ \E p \in Requests : Moves(p)
<1>1. CASE UNCHANGED vars
  BY <1>1 DEF vars, Quiet
<1>2. CASE ReadSource \/ CreateTransferTask
  BY <1>2 DEF ReadSource, CreateTransferTask, Quiet, history
<1>3. QED
  BY <1>1, <1>2 DEF Next, Moves

\* The step of a request is its turn.
LEMMA MovesTurn ==
  ASSUME Shaped, IsStore(db), NEW p \in Requests, Moves(p)
  PROVE  Turn(p)
<1>1. CASE ReadLookup(p) \/ DecideVersions(p) \/ PlanRelations(p) \/ Abandon(p)
  BY <1>1, ReadLookupTurn, DecideVersionsTurn, PlanRelationsTurn, AbandonTurn
<1>2. ASSUME NEW o, CommitLookup(p, o) PROVE Turn(p)
  BY <1>2, CommitLookupTurn
<1>3. ASSUME NEW o, WriteRows(p, o) PROVE Turn(p)
  BY <1>3, WriteRowsTurn DEF Proceeds
<1>4. ASSUME NEW o, AppendVersions(p, o) PROVE Turn(p)
  BY <1>4, AppendVersionsTurn DEF Proceeds
<1>5. ASSUME NEW o, Preload(p, o) PROVE Turn(p)
  BY <1>5, PreloadTurn DEF Proceeds
<1>6. ASSUME NEW failing, Convert(p, failing) PROVE Turn(p)
  BY <1>6, ConvertTurn DEF Proceeds
<1>7. ASSUME NEW o, NEW c, EnqueueTransfers(p, o, c) PROVE Turn(p)
  BY <1>7, EnqueueTransfersTurn DEF Proceeds
<1>8. ASSUME NEW o, NEW c, CommitRelations(p, o, c) PROVE Turn(p)
  BY <1>8, CommitRelationsTurn DEF Proceeds
<1>9. QED
  BY <1>1, <1>2, <1>3, <1>4, <1>5, <1>6, <1>7, <1>8 DEF Moves

\* Every step keeps the shape of the requests and of the store.
LEMMA ShapeKept ==
  ASSUME Shaped, IsStore(db), [Next]_vars
  PROVE  /\ Shaped' /\ IsStore(db)' /\ Requests' = Requests /\ load' = load
         /\ req' = req \/ \E p \in Requests : Turn(p)
<1>1. CASE Quiet
  BY <1>1, NextKeeps DEF Quiet, Shaped, Requests, KeepsFacts
<1>2. ASSUME NEW p \in Requests, Turn(p) PROVE Shaped' /\ Requests' = Requests /\ load' = load
  BY <1>2, TurnKeepsShape DEF Turn
<1>3. IsStore(db)'
  BY NextKeeps DEF KeepsFacts
<1>4. QED
  BY <1>1, <1>2, <1>3, MovesTurn, StepsAre DEF Quiet

\* They have it at first.
LEMMA ShapeAtFirst == Init => Shaped /\ IsStore(db)
<1> SUFFICES ASSUME Init PROVE Shaped /\ IsStore(db)
  OBVIOUS
<1>1. req = [p \in Requests |-> Started(load.batches[p])] /\ load \in Loads
  BY DEF Init
<1>2. \A p \in Requests : IsRequest(req[p]) /\ req[p].batch = load.batches[p]
  BY <1>1, StartedIs
<1>3. QED
  BY <1>1, <1>2 DEF Shaped, Init, IsStore

-----------------------------------------------------------------------------
(* What a request has answered when it reaches a step.                     *)

DataTables == FilledTables \cup VersionTables

Answers(results, x, op) == \E r \in results : r.item = x /\ (r.op = op \/ r.status = "failed")
TableAnswered(s, t) == \A e \in s.plan[t] : Answers(s.results, e.item, OpName(e, t))
RelationsAnswered(s) ==
  \A t \in RefTables : \A e \in s.plan["relations"] : Answers(s.results, e.item, t)

Reached(s, n) ==
  /\ PlanWhole(s.batch, s.plan)
  /\ Refusals(s.batch) \cup ConversionFailures(s.batch, s.plan) \subseteq s.results
  /\ \A m \in 6..n - 1 : Steps[m] \in DataTables => TableAnswered(s, Steps[m])
  /\ n \in 18..22 => s.plan["relations"] # {}
  /\ n = 23 => RelationsAnswered(s)

\* A result is that of a refused item or concerns one that counts.
Concerns(b, r) == r \in Refusals(b) \/ (r.item \in Present(b) /\ Live(b, r.item))

Staged(s) ==
  /\ s.step \in {"refused", "gone"} \/ \E n \in 1..23 : s.step = Steps[n]
  /\ PlanFrom(s.batch, s.plan)
  /\ \A r \in s.results : Concerns(s.batch, r)
  /\ \A n \in 5..23 : s.step = Steps[n] => Reached(s, n)

\* More results answer no less.
LEMMA AnswersMore ==
  ASSUME NEW results, NEW more, results \subseteq more, NEW x, NEW op, Answers(results, x, op)
  PROVE  Answers(more, x, op)
  BY DEF Answers

\* A request that has ended is at no step.
LEMMA NotAStep == \A n \in 1..23 : Steps[n] \notin {"refused", "gone", ""}
<1> SUFFICES ASSUME NEW n \in 1..23 PROVE Steps[n] \notin {"refused", "gone", ""}
  OBVIOUS
<1>1. Steps[n] \in {"user_category", "hashtag", "symbol", "convert", "dict_preload",
           "twitter_user", "user_snapshot", "user_stats", "media", "media_resource",
           "transfer_task", "tweet_place", "tweet", "tweet_edit", "tweet_policy",
           "tweet_community_note", "tweet_stats", "tweet_media_ref", "tweet_mention_ref",
           "tweet_hashtag_ref", "tweet_symbol_ref", "relations", "done"}
  BY DEF Steps
<1>2. QED
  BY <1>1

\* The statements that write rows, by number.
LEMMA DataTablesAre ==
  /\ \A t \in DataTables : \E n \in 6..17 : t = Steps[n]
  /\ \A t \in DataTables : t \in PlannedTables /\ t # "relations" /\ t # "transfer_task"
                           /\ t \notin LookupTables \cup RefTables \cup {"convert", "dict_preload", "done"}
  BY StepNames DEF DataTables, FilledTables, VersionTables, LookupTables, RefTables, PlannedTables

\* A step that is passed over had nothing to answer.
LEMMA PassedOver ==
  ASSUME NEW s, NEW t \in DataTables, ~HasWork(s, t)
  PROVE  s.plan[t] = {}
  BY DataTablesAre DEF HasWork

\* From step to step.
LEMMA ReachedNext ==
  ASSUME NEW s, NEW r, NEW x, x.batch = s.batch, x.plan = s.plan, r.batch = s.batch, r.plan = s.plan,
         NEW n \in 5..22, NEW m \in n + 1..23,
         HasWork(x, Steps[m]), \A j \in n + 1..m - 1 : ~HasWork(x, Steps[j]),
         Reached(s, n), s.results \subseteq r.results,
         Steps[n] \in DataTables => TableAnswered(r, Steps[n]),
         n = 22 => RelationsAnswered(r)
  PROVE  Reached(r, m)
<1>1. ASSUME NEW j \in 6..m - 1, Steps[j] \in DataTables PROVE TableAnswered(r, Steps[j])
  <2>1. CASE j < n
    BY <1>1, <2>1, AnswersMore DEF Reached, TableAnswered
  <2>2. CASE j = n
    BY <1>1, <2>2
  <2>3. CASE n < j
    BY <1>1, <2>3, PassedOver DEF TableAnswered
  <2>4. QED
    BY <2>1, <2>2, <2>3
<1>2. m \in 18..22 => r.plan["relations"] # {}
  BY RelatingWork
<1>3. m = 23 => RelationsAnswered(r)
  <2>1. CASE n = 22
    BY <2>1
  <2>2. CASE n < 22 /\ m = 23
    <3>1. ~HasWork(x, Steps[22])
      BY <2>2
    <3>2. r.plan["relations"] = {}
      BY <3>1, RelatingWork
    <3>3. QED
      BY <3>2 DEF RelationsAnswered
  <2>3. QED
    BY <2>1, <2>2
<1>4. QED
  BY <1>1, <1>2, <1>3 DEF Reached

\* A step that answers its own table takes the request on.
LEMMA StagedNext ==
  ASSUME Shaped, NEW p \in Requests, Proceeds(p), Staged(req[p]),
         NEW n \in 1..22, req[p].step = Steps[n],
         req'[p].plan = req[p].plan, req[p].results \subseteq req'[p].results,
         \A r \in req'[p].results : Concerns(req[p].batch, r),
         Steps[n] \in DataTables => TableAnswered(req'[p], Steps[n]),
         n = 22 => RelationsAnswered(req'[p]),
         n < 4 \/ n > 4
  PROVE  Staged(req'[p])
<1> DEFINE s == req[p]
           r == req'[p]
<1>1. PICK x : x.batch = s.batch /\ x.plan = r.plan /\ r.step = After(x, s.step)
  BY DEF Proceeds
<1>2. r.batch = s.batch
  BY DEF Proceeds, Turn
<1>3. PICK m \in n + 1..23 : /\ r.step = Steps[m] /\ HasWork(x, Steps[m])
                             /\ \A j \in n + 1..m - 1 : ~HasWork(x, Steps[j])
  BY <1>1, AfterIs
<1>4. n > 4 => Reached(r, m)
  <2> SUFFICES ASSUME n > 4 PROVE Reached(r, m)
    OBVIOUS
  <2>1. n \in 5..22 /\ Reached(s, n)
    BY DEF Staged
  <2> HIDE DEF s, r
  <2>2. x.plan = s.plan /\ r.plan = s.plan
    BY <1>1 DEF s, r
  <2>3. s.results \subseteq r.results /\ (Steps[n] \in DataTables => TableAnswered(r, Steps[n]))
        /\ (n = 22 => RelationsAnswered(r))
    BY DEF s, r
  <2>4. QED
    BY <1>1, <1>2, <1>3, <2>1, <2>2, <2>3, ReachedNext
<1>5. n < 4 => m \in 2..4
  <2> SUFFICES ASSUME n < 4 PROVE m \in 2..4
    OBVIOUS
  <2>1. HasWork(x, Steps[4])
    BY StepNames DEF HasWork, LookupTables
  <2>2. QED
    BY <1>3, <2>1
<1>6. \A j \in 1..23 : r.step = Steps[j] => j = m
  <2>1. m \in 1..23 /\ r.step = Steps[m]
    BY <1>3
  <2> HIDE DEF s, r
  <2>2. QED
    BY <2>1, StepsDistinct
<1>7. ASSUME NEW j \in 5..23, r.step = Steps[j] PROVE Reached(r, j)
  BY <1>4, <1>5, <1>6, <1>7
<1>8. PlanFrom(r.batch, r.plan)
  BY <1>2 DEF Staged
<1>9. QED
  BY <1>2, <1>3, <1>7, <1>8 DEF Staged

\* The empty plan is a plan of any batch.
LEMMA NoPlanIsFrom == \A b : PlanFrom(b, NoPlan)
<1>1. PlannedTables \subseteq Tables \cup {"relations"}
  BY DEF PlannedTables, Tables, FactTables
<1>2. QED
  BY <1>1 DEF PlanFrom, NoPlan

\* Nothing is asked of a request that has just started.
LEMMA StagedAtFirst == \A b : Staged(Started(b))
<1> SUFFICES ASSUME NEW b PROVE Staged(Started(b))
  OBVIOUS
<1> DEFINE s == Started(b)
<1>1. /\ s.batch = b /\ s.plan = NoPlan /\ s.results = {}
      /\ s.step = "refused" \/ \E n \in 1..4 : s.step = Steps[n]
  BY StartedIs
<1> HIDE DEF s
<1>2. ASSUME NEW n \in 5..23 PROVE s.step # Steps[n]
  <2>1. n \in 1..23
    OBVIOUS
  <2>2. Steps[n] # "refused"
    BY <2>1, NotAStep
  <2>3. \A m \in 1..4 : Steps[m] # Steps[n]
    <3>1. \A m \in 1..4 : m \in 1..23 /\ m # n
      OBVIOUS
    <3>2. QED
      BY <2>1, <3>1, StepsDistinct
  <2>4. QED
    BY <1>1, <2>2, <2>3
<1>3. PlanFrom(s.batch, s.plan)
  BY <1>1, NoPlanIsFrom
<1>4. s.step \in {"refused", "gone"} \/ \E n \in 1..23 : s.step = Steps[n]
  BY <1>1
<1>5. Staged(s)
  BY <1>1, <1>2, <1>3, <1>4 DEF Staged
<1>6. QED
  BY <1>5 DEF s

-----------------------------------------------------------------------------
(* Every step keeps what is answered.                                      *)

\* Steps of two numbers differ.
LEMMA StepsApart == \A i, j \in 1..23 : Steps[i] = Steps[j] => i = j
  BY StepsDistinct

\* The fields of a result.
LEMMA ResultIs == \A x, op, status, why : LET r == Result(x, op, status, why)
                                          IN  r.item = x /\ r.op = op /\ r.status = status /\ r.why = why
  BY DEF Result

\* The item of an entry counts.
LEMMA EntryConcerns ==
  ASSUME NEW b, NEW plan, PlanFrom(b, plan), NEW t \in DOMAIN plan, NEW e \in plan[t], NEW r, r.item = e.item
  PROVE  Concerns(b, r)
<1>1. t \in PlannedTables
  BY DEF PlanFrom
<1>2. e.item \in SourcesOf(b, t)
  BY <1>1 DEF PlanFrom
<1>3. QED
  BY <1>1, <1>2, SourcesAre DEF Concerns

\* The results of a statement are added to those before.
Adds(results, more, entries, t, verdict) ==
  \/ more = results \cup Reports(entries, t, verdict)
  \/ more = results \cup Failures(entries, t)

\* Reports and failures answer every entry.
LEMMA ReportsAnswer ==
  ASSUME NEW entries, NEW t, NEW verdict, NEW results, NEW more,
         Adds(results, more, entries, t, verdict)
  PROVE  /\ results \subseteq more
         /\ \A e \in entries : Answers(more, e.item, OpName(e, t))
<1> USE DEF Adds
<1>1. ASSUME NEW e \in entries PROVE Answers(more, e.item, OpName(e, t))
  <2>1. CASE more = results \cup Reports(entries, t, verdict)
    <3> DEFINE r == Result(e.item, OpName(e, t), IF verdict[e.key] \in Accepted THEN "accepted" ELSE "skipped",
                           verdict[e.key])
    <3>1. r \in more
      BY <2>1 DEF Reports
    <3>2. r.item = e.item /\ r.op = OpName(e, t)
      BY ResultIs
    <3>3. QED
      BY <3>1, <3>2 DEF Answers
  <2>2. CASE more = results \cup Failures(entries, t)
    <3> DEFINE r == Result(e.item, OpName(e, t), "failed", "statement")
    <3>1. r \in more
      BY <2>2 DEF Failures
    <3>2. r.item = e.item /\ r.op = OpName(e, t)
      BY ResultIs
    <3>3. QED
      BY <3>1, <3>2 DEF Answers
  <2>3. QED
    BY <2>1, <2>2
<1>2. QED
  BY <1>1 DEF Adds

\* A new result is of an item with an entry.
LEMMA ReportsConcern ==
  ASSUME NEW entries, NEW t, NEW verdict, NEW results, NEW more,
         Adds(results, more, entries, t, verdict),
         NEW u \in more, u \notin results
  PROVE  \E e \in entries : u.item = e.item
  BY ResultIs DEF Adds, Reports, Failures

\* The failures of a conversion are of items that count.
LEMMA FailuresConcern ==
  ASSUME NEW b, NEW plan, NEW r \in ConversionFailures(b, plan)
  PROVE  Concerns(b, r) /\ r.why = "conversion" /\ r.status = "failed"
<1> DEFINE live == LiveOf(b, "users") \cup LiveOf(b, "tweets") \cup LiveOf(b, "media")
<1>1. \A items, op : items \subseteq live /\ r \in Refused(items, op) =>
        \E x \in live : r = Result(x, op, "failed", "conversion")
  BY DEF Refused
<1>2. \A items, t : Missing(items, plan, t) \subseteq items
  BY DEF Missing
<1>3. /\ {x \in LiveOf(b, "users") : Item(b, x).profile # Null} \subseteq live
      /\ {x \in LiveOf(b, "users") : Item(b, x).stats # Null} \subseteq live
      /\ {x \in LiveOf(b, "media") : Item(b, x).resource # Null} \subseteq live
      /\ LiveOf(b, "media") \subseteq live /\ LiveTweets(b) \subseteq live
  BY DEF LiveTweets
<1>4. \E items, op : items \subseteq live /\ r \in Refused(items, op)
  <2> HIDE DEF live
  <2>1. QED
    BY <1>2, <1>3 DEF ConversionFailures
<1>5. PICK x, op : x \in live /\ r = Result(x, op, "failed", "conversion")
  BY <1>1, <1>4
<1>6. QED
  BY <1>5, ResultIs DEF Concerns, LiveOf

\* The conversion answers each item it refuses.
LEMMA ConvertStages ==
  ASSUME Shaped, NEW p \in Requests, NEW failing, Convert(p, failing), Staged(req[p])
  PROVE  Staged(req'[p])
<1> DEFINE s == req[p]
           r == req'[p]
<1>1. /\ Proceeds(p) /\ s.step = Steps[4]
      /\ r.results = Refusals(s.batch) \cup ConversionFailures(s.batch, r.plan)
  BY ConvertTurn, StepNames
<1>2. PICK ids : r.plan = Plan(s.batch, ids)
  BY ConvertTurn
<1>3. PICK x : x.plan = r.plan /\ r.step = After(x, s.step)
  BY <1>1 DEF Proceeds
<1>4. r.batch = s.batch
  BY <1>1 DEF Proceeds, Turn
<1> HIDE DEF s, r
<1>5. r.step = Steps[5]
  <2>1. PICK m \in 5..23 : r.step = Steps[m] /\ \A j \in 5..m - 1 : ~HasWork(x, Steps[j])
    BY <1>1, <1>3, AfterIs
  <2>2. HasWork(x, Steps[5])
    BY StepNames DEF HasWork, LookupTables
  <2>3. m = 5
    BY <2>1, <2>2
  <2>4. QED
    BY <2>1, <2>3
<1>6. PlanFrom(r.batch, r.plan) /\ PlanWhole(r.batch, r.plan)
  BY <1>2, <1>4, PlanIsFrom
<1>7. Reached(r, 5)
  BY <1>1, <1>4, <1>6 DEF Reached
<1>8. ASSUME NEW n \in 5..23, r.step = Steps[n] PROVE n = 5
  <2>1. n \in 1..23 /\ 5 \in 1..23
    OBVIOUS
  <2>2. QED
    BY <1>5, <1>8, <2>1, StepsApart
<1>9. ASSUME NEW t \in r.results PROVE Concerns(r.batch, t)
  BY <1>1, <1>4, FailuresConcern DEF Concerns
<1>10. Staged(r)
  BY <1>5, <1>6, <1>7, <1>8, <1>9 DEF Staged
<1>11. QED
  BY <1>10 DEF r

\* A statement on a data table answers for it.
LEMMA DataStages ==
  ASSUME Shaped, NEW p \in Requests, Proceeds(p), Staged(req[p]), req[p].step \in DataTables,
         req'[p].plan = req[p].plan, NEW verdict,
         LET s == req[p]
             t == s.step
         IN  \/ req'[p].results = s.results \cup Reports(s.plan[t], t, verdict)
             \/ req'[p].results = s.results \cup Failures(s.plan[t], t)
  PROVE  Staged(req'[p])
<1> DEFINE s == req[p]
           r == req'[p]
           t == s.step
<1>1. PICK n \in 6..17 : t = Steps[n]
  BY DataTablesAre
<1>2. /\ s.results \subseteq r.results
      /\ \A e \in s.plan[t] : Answers(r.results, e.item, OpName(e, t))
      /\ \A u \in r.results : u \in s.results \/ \E e \in s.plan[t] : u.item = e.item
  <2>1. \/ r.results = s.results \cup Reports(s.plan[t], t, verdict)
        \/ r.results = s.results \cup Failures(s.plan[t], t)
    OBVIOUS
  <2> DEFINE entries == s.plan[t]
             old == s.results
             more == r.results
  <2>2. Adds(old, more, entries, t, verdict)
    BY <2>1 DEF Adds
  <2> HIDE DEF s, r, t, entries, old, more
  <2>3. old \subseteq more /\ \A e \in entries : Answers(more, e.item, OpName(e, t))
    BY <2>2, ReportsAnswer
  <2>4. ASSUME NEW u \in more, u \notin old PROVE \E e \in entries : u.item = e.item
    BY <2>2, <2>4, ReportsConcern
  <2>5. QED
    BY <2>3, <2>4 DEF entries, old, more
<1>3. TableAnswered(r, Steps[n])
  BY <1>1, <1>2 DEF TableAnswered
<1>4. t \in DOMAIN s.plan
  BY DataTablesAre DEF Staged, PlanFrom, DataTables, Tables, FactTables
<1>5. ASSUME NEW u \in r.results PROVE Concerns(s.batch, u)
  <2>1. CASE u \in s.results
    BY <2>1 DEF Staged
  <2>2. CASE \E e \in s.plan[t] : u.item = e.item
    BY <2>2, <1>4, EntryConcerns DEF Staged
  <2>3. QED
    BY <1>2, <2>1, <2>2
<1>6. n \in 1..22 /\ n # 22 /\ n > 4
  OBVIOUS
<1>7. QED
  BY <1>1, <1>2, <1>3, <1>5, <1>6, StagedNext

\* A preload that fails answers every item with a row.
LEMMA PreloadStages ==
  ASSUME Shaped, NEW p \in Requests, NEW o, Preload(p, o), Staged(req[p])
  PROVE  Staged(req'[p])
<1> DEFINE s == req[p]
           r == req'[p]
           items == UNION {{e.item : e \in s.plan[t]} : t \in DOMAIN s.plan}
           failed == {Result(x, "dict_preload", "failed", "statement") : x \in items}
<1>1. /\ s.step = Steps[5] /\ r.plan = s.plan
      /\ \/ Proceeds(p) /\ r.results = s.results
         \/ Turn(p) /\ r.step = Steps[23] /\ r.results = s.results \cup failed
  BY PreloadTurn, StepNames
<1>2. ASSUME Proceeds(p), r.results = s.results PROVE Staged(r)
  <2>1. Steps[5] \notin DataTables
    BY DataTablesAre, StepNames
  <2>2. \A u \in s.results : Concerns(s.batch, u)
    BY DEF Staged
  <2>3. 5 \in 1..22 /\ 5 # 22 /\ 5 > 4
    OBVIOUS
  <2>4. QED
    BY <1>1, <1>2, <2>1, <2>2, <2>3, StagedNext
<1>3. ASSUME Turn(p), r.step = Steps[23], r.results = s.results \cup failed PROVE Staged(r)
  <2>1. r.batch = s.batch
    BY <1>3 DEF Turn
  <2>2. Reached(s, 5) /\ PlanFrom(s.batch, s.plan) /\ \A u \in s.results : Concerns(s.batch, u)
    BY <1>1 DEF Staged
  <2>3. ASSUME NEW t \in DOMAIN s.plan, NEW e \in s.plan[t], NEW op PROVE Answers(r.results, e.item, op)
    <3> DEFINE u == Result(e.item, "dict_preload", "failed", "statement")
    <3>1. u \in r.results
      BY <1>3
    <3>2. u.item = e.item /\ u.status = "failed"
      BY ResultIs
    <3>3. QED
      BY <3>1, <3>2 DEF Answers
  <2>4. \A u \in failed : \E t \in DOMAIN s.plan : \E e \in s.plan[t] : u.item = e.item
    BY ResultIs
  <2>5. \A u \in r.results : Concerns(r.batch, u)
    BY <1>3, <2>1, <2>2, <2>4, EntryConcerns
  <2> HIDE DEF s, r
  <2>6. DataTables \cup {"relations"} \subseteq DOMAIN s.plan
    BY <2>2, DataTablesAre DEF PlanFrom, DataTables, Tables, FactTables
  <2>7. ASSUME NEW m \in 6..22, Steps[m] \in DataTables PROVE TableAnswered(r, Steps[m])
    BY <1>1, <2>3, <2>6, <2>7 DEF TableAnswered
  <2>8. RelationsAnswered(r)
    BY <1>1, <2>3, <2>6 DEF RelationsAnswered
  <2>9. Reached(r, 23)
    BY <1>1, <1>3, <2>1, <2>2, <2>7, <2>8 DEF Reached
  <2>10. ASSUME NEW j \in 5..23, r.step = Steps[j] PROVE j = 23
    <3>1. j \in 1..23 /\ 23 \in 1..23
      OBVIOUS
    <3>2. Steps[j] = Steps[23]
      BY <1>3, <2>10
    <3>3. QED
      BY <3>1, <3>2, StepsApart
  <2>11. QED
    BY <1>1, <1>3, <2>1, <2>2, <2>5, <2>9, <2>10 DEF Staged
<1>4. QED
  BY <1>1, <1>2, <1>3

\* The transfers of a request answer no table.
LEMMA TransfersStage ==
  ASSUME Shaped, NEW p \in Requests, NEW o, NEW c, EnqueueTransfers(p, o, c), Staged(req[p])
  PROVE  Staged(req'[p])
<1> DEFINE s == req[p]
           r == req'[p]
<1>1. Proceeds(p) /\ s.step = Steps[11] /\ r.plan = s.plan
  BY EnqueueTransfersTurn, StepNames
<1>2. PICK added : /\ r.results = s.results \cup added
                   /\ \A u \in added : \E e \in s.plan["media_resource"] : u.item = e.item
  <2>1. \E added : /\ r.results = s.results \cup added
                   /\ \A u \in added : /\ u.op = "media_transfer"
                                        /\ \E e \in s.plan["media_resource"] : u.item = e.item
    BY EnqueueTransfersTurn
  <2>2. QED
    BY <2>1
<1>3. "media_resource" \in DOMAIN s.plan
  BY DEF Staged, PlanFrom, Tables, FactTables, VersionTables
<1>4. \A u \in r.results : Concerns(s.batch, u)
  <2>1. PlanFrom(s.batch, s.plan) /\ \A u \in s.results : Concerns(s.batch, u)
    BY DEF Staged
  <2>2. QED
    BY <1>2, <1>3, <2>1, EntryConcerns
<1>5. Steps[11] \notin DataTables
  BY DataTablesAre, StepNames
<1>6. s.results \subseteq r.results /\ 11 \in 1..22 /\ 11 # 22 /\ 11 > 4
  BY <1>2
<1>7. QED
  BY <1>1, <1>4, <1>5, <1>6, StagedNext

\* The commit of a sync answers its four tables.
LEMMA RelationsStage ==
  ASSUME Shaped, NEW p \in Requests, NEW o, NEW c, CommitRelations(p, o, c), Staged(req[p])
  PROVE  Staged(req'[p])
<1> DEFINE s == req[p]
           r == req'[p]
           entries == s.plan["relations"]
           plans == s.snapshot.plans
<1>1. Proceeds(p) /\ s.step = Steps[22] /\ r.plan = s.plan
  BY CommitRelationsTurn, StepNames
<1>2. \/ r.results = s.results \cup UNION {Failures(entries, t) : t \in RefTables}
      \/ r.results = s.results \cup UNION {Reports(entries, t, plans[t].status) : t \in RefTables}
  BY CommitRelationsTurn
<1>3. \A e \in entries : \A t \in RefTables : OpName(e, t) = t
  BY DEF OpName, RefTables
<1> HIDE DEF s, r, plans, entries
<1>4. ASSUME NEW t \in RefTables, NEW e \in entries PROVE Answers(r.results, e.item, t)
  <2>1. CASE r.results = s.results \cup UNION {Failures(entries, u) : u \in RefTables}
    <3> DEFINE more == s.results \cup Failures(entries, t)
    <3>1. \A f \in entries : Answers(more, f.item, OpName(f, t))
      <4> DEFINE verdict == plans[t].status
      <4>1. Adds(s.results, more, entries, t, verdict)
        BY DEF Adds
      <4> HIDE DEF more, verdict
      <4>2. QED
        BY <4>1, ReportsAnswer
    <3>2. more \subseteq r.results
      BY <2>1
    <3>3. Answers(more, e.item, t)
      BY <1>3, <3>1
    <3>4. QED
      BY <3>2, <3>3, AnswersMore
  <2>2. CASE r.results = s.results \cup UNION {Reports(entries, u, plans[u].status) : u \in RefTables}
    <3> DEFINE more == s.results \cup Reports(entries, t, plans[t].status)
    <3>1. \A f \in entries : Answers(more, f.item, OpName(f, t))
      <4> DEFINE verdict == plans[t].status
      <4>1. Adds(s.results, more, entries, t, verdict)
        BY DEF Adds
      <4> HIDE DEF more, verdict
      <4>2. QED
        BY <4>1, ReportsAnswer
    <3>2. more \subseteq r.results
      BY <2>2
    <3>3. Answers(more, e.item, t)
      BY <1>3, <3>1
    <3>4. QED
      BY <3>2, <3>3, AnswersMore
  <2>3. QED
    BY <1>2, <2>1, <2>2
<1>5. ASSUME NEW u \in r.results, u \notin s.results PROVE \E e \in entries : u.item = e.item
  BY <1>2, <1>5, ResultIs DEF Reports, Failures
<1>6. PlanFrom(s.batch, s.plan) /\ \A u \in s.results : Concerns(s.batch, u)
  BY DEF Staged, s
<1>7. "relations" \in DOMAIN s.plan
  BY <1>6 DEF PlanFrom
<1>8. \A u \in r.results : Concerns(s.batch, u)
  BY <1>5, <1>6, <1>7, EntryConcerns DEF entries
<1>9. RelationsAnswered(r)
  BY <1>1, <1>4 DEF RelationsAnswered, entries
<1>10. Steps[22] \notin DataTables
  BY DataTablesAre, StepNames
<1>11. s.results \subseteq r.results /\ 22 \in 1..22 /\ 22 > 4
  BY <1>2
<1>12. QED
  BY <1>1, <1>8, <1>9, <1>10, <1>11, StagedNext DEF s, r

\* A request that only reads or goes away.
LEMMA StagedSame ==
  ASSUME NEW s, Staged(s), NEW r, r.batch = s.batch, r.plan = s.plan, r.results = s.results,
         r.step = s.step \/ r.step = "gone"
  PROVE  Staged(r)
<1>1. CASE r.step = s.step
  BY <1>1 DEF Staged, Reached, TableAnswered, RelationsAnswered
<1>2. CASE r.step = "gone"
  <2>1. \A n \in 5..23 : r.step # Steps[n]
    <3>1. \A n \in 5..23 : n \in 1..23
      OBVIOUS
    <3>2. QED
      BY <1>2, <3>1, NotAStep
  <2>2. QED
    BY <1>2, <2>1 DEF Staged
<1>3. QED
  BY <1>1, <1>2

\* The lookups by number.
LEMMA LookupTablesAre == \A t \in LookupTables : \E n \in 1..3 : t = Steps[n]
  BY StepNames DEF LookupTables

\* A lookup answers nothing and takes the request on.
LEMMA LookupStages ==
  ASSUME Shaped, NEW p \in Requests, NEW o, CommitLookup(p, o), Staged(req[p])
  PROVE  Staged(req'[p])
<1> DEFINE s == req[p]
           r == req'[p]
<1>1. /\ Turn(p) /\ s.step \in LookupTables /\ (Proceeds(p) \/ r.step = Steps[4])
      /\ r.plan = s.plan /\ r.results = s.results
  BY CommitLookupTurn, StepNames
<1>2. PICK n \in 1..3 : s.step = Steps[n]
  BY <1>1, LookupTablesAre
<1>3. r.batch = s.batch
  BY <1>1 DEF Turn
<1>4. CASE Proceeds(p)
  <2>1. Steps[n] \notin DataTables
    BY <1>1, <1>2, DataTablesAre
  <2>2. n \in 1..22 /\ n # 22 /\ n < 4
    OBVIOUS
  <2>3. \A u \in s.results : Concerns(s.batch, u)
    BY DEF Staged
  <2>4. QED
    BY <1>1, <1>2, <1>4, <2>1, <2>2, <2>3, StagedNext
<1>5. CASE r.step = Steps[4]
  <2>1. ASSUME NEW m \in 5..23 PROVE r.step # Steps[m]
    <3>1. m \in 1..23 /\ 4 \in 1..23 /\ m # 4
      OBVIOUS
    <3>2. QED
      BY <1>5, <3>1, StepsApart
  <2>2. QED
    BY <1>1, <1>3, <1>5, <2>1 DEF Staged
<1>6. QED
  BY <1>1, <1>4, <1>5

\* The tables of a sync by number.
LEMMA RefTablesAre == \A t \in RefTables : \E n \in 18..21 : t = Steps[n]
  BY StepNames DEF RefTables

\* A sync plans its four tables one after the other.
LEMMA PlanningGoesOn ==
  ASSUME NEW s, Staged(s), NEW n \in 18..21, s.step = Steps[n]
  PROVE  After(s, Steps[n]) = Steps[n + 1]
<1>1. s.plan["relations"] # {}
  BY DEF Staged, Reached
<1>2. n \in 18..22
  OBVIOUS
<1>3. QED
  BY <1>1, <1>2, AfterRelating

\* Planning a table of a sync answers nothing.
LEMMA PlanningStages ==
  ASSUME Shaped, NEW p \in Requests, PlanRelations(p), Staged(req[p])
  PROVE  Staged(req'[p])
<1> DEFINE s == req[p]
           r == req'[p]
<1>1. /\ Turn(p) /\ s.step \in RefTables /\ r.step = After(s, s.step)
      /\ r.plan = s.plan /\ r.results = s.results
  BY PlanRelationsTurn
<1>2. PICK n \in 18..21 : s.step = Steps[n]
  BY <1>1, RefTablesAre
<1>3. r.batch = s.batch
  BY <1>1 DEF Turn
<1> HIDE DEF s, r
<1>4. Staged(s)
  BY DEF s
<1>5. r.step = Steps[n + 1]
  BY <1>1, <1>2, <1>4, PlanningGoesOn
<1>6. Reached(s, n)
  BY <1>2, <1>4 DEF Staged
<1>7. Reached(r, n + 1)
  <2>1. ASSUME NEW m \in 6..n, Steps[m] \in DataTables PROVE TableAnswered(r, Steps[m])
    <3>1. m # n
      BY <1>1, <1>2, <2>1, DataTablesAre
    <3>2. m \in 6..n - 1
      BY <3>1
    <3>3. QED
      BY <1>1, <1>6, <2>1, <3>2 DEF Reached, TableAnswered
  <2>2. r.plan["relations"] # {}
    BY <1>1, <1>6 DEF Reached
  <2>3. n + 1 # 23 /\ (n + 1) - 1 = n
    OBVIOUS
  <2>4. QED
    BY <1>1, <1>3, <1>6, <2>1, <2>2, <2>3 DEF Reached
<1>8. ASSUME NEW j \in 5..23, r.step = Steps[j] PROVE j = n + 1
  <2>1. j \in 1..23 /\ n + 1 \in 1..23
    OBVIOUS
  <2>2. QED
    BY <1>5, <1>8, <2>1, StepsApart
<1>9. n + 1 \in 1..23
  OBVIOUS
<1>10. Staged(r)
  BY <1>1, <1>3, <1>4, <1>5, <1>7, <1>8, <1>9 DEF Staged
<1>11. QED
  BY <1>10 DEF r

AllStaged == \A p \in Requests : Staged(req[p])

\* Every step keeps what is answered of every request.
LEMMA AllStagedKept ==
  ASSUME Shaped, IsStore(db), AllStaged, [Next]_vars
  PROVE  AllStaged'
<1>1. ASSUME NEW p \in Requests, Turn(p), Staged(req'[p]) PROVE AllStaged'
  BY <1>1, TurnKeepsShape DEF AllStaged
<1>2. CASE Quiet
  BY <1>2 DEF Quiet, AllStaged, Requests
<1>3. ASSUME NEW p \in Requests, ReadLookup(p) \/ DecideVersions(p) \/ Abandon(p) PROVE AllStaged'
  <2>1. /\ Turn(p) /\ req'[p].plan = req[p].plan /\ req'[p].results = req[p].results
        /\ req'[p].step = req[p].step \/ req'[p].step = "gone"
    BY <1>3, ReadLookupTurn, DecideVersionsTurn, AbandonTurn
  <2>2. Staged(req[p]) /\ req'[p].batch = req[p].batch
    BY <2>1 DEF AllStaged, Turn
  <2>3. Staged(req'[p])
    BY <2>1, <2>2, StagedSame
  <2>4. QED
    BY <2>1, <2>3, <1>1
<1>4. ASSUME NEW p \in Requests, NEW o, CommitLookup(p, o) PROVE AllStaged'
  BY <1>1, <1>4, LookupStages, CommitLookupTurn DEF AllStaged
<1>5. ASSUME NEW p \in Requests, NEW failing, Convert(p, failing) PROVE AllStaged'
  BY <1>1, <1>5, ConvertStages, ConvertTurn DEF AllStaged, Proceeds
<1>6. ASSUME NEW p \in Requests, NEW o, Preload(p, o) PROVE AllStaged'
  BY <1>1, <1>6, PreloadStages, PreloadTurn DEF AllStaged, Proceeds
<1>7. ASSUME NEW p \in Requests, NEW o, WriteRows(p, o) PROVE AllStaged'
  <2> DEFINE s == req[p]
             t == s.step
             verdict == ChildStatus(db[t], Rows(s.plan[t]), FilledColumns(t), ParentsOf(t, Rows(s.plan[t])))
  <2>1. /\ Proceeds(p) /\ t \in FilledTables /\ req'[p].plan = s.plan
        /\ \/ req'[p].results = s.results \cup Reports(s.plan[t], t, verdict)
           \/ req'[p].results = s.results \cup Failures(s.plan[t], t)
    BY <1>7, WriteRowsTurn
  <2>2. t \in DataTables /\ Staged(req[p])
    BY <2>1 DEF DataTables, AllStaged
  <2> HIDE DEF verdict
  <2>3. Staged(req'[p])
    BY <2>1, <2>2, DataStages
  <2>4. QED
    BY <2>1, <2>3, <1>1 DEF Proceeds
<1>8. ASSUME NEW p \in Requests, NEW o, AppendVersions(p, o) PROVE AllStaged'
  <2> DEFINE s == req[p]
             t == s.step
             verdict == AppendedStatus(db[t], s.snapshot.decisions)
  <2>1. /\ Proceeds(p) /\ t \in VersionTables /\ req'[p].plan = s.plan
        /\ \/ req'[p].results = s.results \cup Reports(s.plan[t], t, verdict)
           \/ req'[p].results = s.results \cup Failures(s.plan[t], t)
    BY <1>8, AppendVersionsTurn
  <2>2. t \in DataTables /\ Staged(req[p])
    BY <2>1 DEF DataTables, AllStaged
  <2> HIDE DEF verdict
  <2>3. Staged(req'[p])
    BY <2>1, <2>2, DataStages
  <2>4. QED
    BY <2>1, <2>3, <1>1 DEF Proceeds
<1>9. ASSUME NEW p \in Requests, NEW o, NEW c, EnqueueTransfers(p, o, c) PROVE AllStaged'
  BY <1>1, <1>9, TransfersStage, EnqueueTransfersTurn DEF AllStaged, Proceeds
<1>10. ASSUME NEW p \in Requests, PlanRelations(p) PROVE AllStaged'
  BY <1>1, <1>10, PlanningStages, PlanRelationsTurn DEF AllStaged
<1>11. ASSUME NEW p \in Requests, NEW o, NEW c, CommitRelations(p, o, c) PROVE AllStaged'
  BY <1>1, <1>11, RelationsStage, CommitRelationsTurn DEF AllStaged, Proceeds
<1>12. QED
  BY <1>2, <1>3, <1>4, <1>5, <1>6, <1>7, <1>8, <1>9, <1>10, <1>11, StepsAre DEF Moves

\* What the results of refused items say.
LEMMA RefusedIs ==
  ASSUME NEW b, NEW r \in Refusals(b)
  PROVE  /\ r.status \in {"fatal", "skipped"} /\ r.op = "input" /\ r.why \in {"bad_id", "shadowed"}
         /\ r.item \in Present(b)
         /\ Live(b, r.item) => r.status = "fatal"
<1>1. \E x \in Present(b) :
        \/ r = Result(x, "input", "fatal", "bad_id")
        \/ r = Result(x, "input", "skipped", "shadowed") /\ ~Live(b, x)
  BY DEF Refusals
<1>2. QED
  BY <1>1, ResultIs

\* An item that does not count has no result but its refusal.
LEMMA ShadowedStatus ==
  ASSUME NEW s, Staged(s), NEW x \in Present(s.batch), ~Live(s.batch, x)
  PROVE  ObjectStatus(s.results, x) \in {"failed", "skipped"}
<1>1. ASSUME NEW r \in s.results, r.item = x PROVE r.status \in {"fatal", "skipped"}
  BY <1>1, RefusedIs DEF Staged, Concerns
<1>2. \A r \in s.results : r.item = x => r.status # "accepted" /\ r.status # "failed"
  BY <1>1
<1>3. QED
  BY <1>2 DEF ObjectStatus

\* A planned part of an item that has no failure has its result.
LEMMA PlannedAnswered ==
  ASSUME NEW s, Reached(s, 23), NEW x, \A r \in s.results : r.item = x => r.status # "failed",
         NEW t \in DataTables, Planned(s.plan, x, t)
  PROVE  \E r \in s.results : r.item = x /\ r.op = OpName([item |-> x], t)
<1>1. PICK e \in s.plan[t] : e.item = x
  BY DEF Planned
<1>2. PICK n \in 6..17 : t = Steps[n]
  BY DataTablesAre
<1>3. n \in 6..23 - 1
  OBVIOUS
<1>4. TableAnswered(s, t)
  BY <1>2, <1>3 DEF Reached
<1>5. OpName(e, t) = OpName([item |-> x], t)
  BY <1>1 DEF OpName
<1>6. QED
  BY <1>1, <1>4, <1>5 DEF TableAnswered, Answers

\* No part of an object answered as accepted or skipped failed.
LEMMA NotFailed ==
  ASSUME NEW s, Staged(s), s.step = "done", NEW x \in Present(s.batch), Live(s.batch, x),
         ObjectStatus(s.results, x) \in {"accepted", "skipped"}
  PROVE  /\ Reached(s, 23)
         /\ \A r \in s.results : r.item = x => r.status \notin {"failed", "fatal"}
         /\ x[1] = "tweets" => Item(s.batch, x).author # Unparsable
<1>1. Reached(s, 23)
  BY StepNames DEF Staged
<1>2. \A r \in s.results : r.item = x => r.status \notin {"failed", "fatal"}
  BY DEF ObjectStatus
<1>3. ASSUME x[1] = "tweets", Item(s.batch, x).author = Unparsable PROVE FALSE
  <2> DEFINE r == Result(x, "input", "fatal", "bad_id")
  <2>1. r \in Refusals(s.batch)
    BY <1>3 DEF Refusals
  <2>2. r \in s.results /\ r.item = x /\ r.status = "fatal"
    BY <1>1, <2>1, ResultIs DEF Reached
  <2>3. QED
    BY <1>2, <2>2
<1>4. QED
  BY <1>1, <1>2, <1>3

\* A part that was to be converted is planned, or its item has a failure.
LEMMA ConvertedOrFailed ==
  ASSUME NEW s, Reached(s, 23), NEW x, \A r \in s.results : r.item = x => r.status # "failed",
         NEW items, NEW t, NEW op,
         Refused(Missing(items, s.plan, t), op) \subseteq ConversionFailures(s.batch, s.plan),
         x \in items
  PROVE  Planned(s.plan, x, t)
<1> SUFFICES ASSUME ~Planned(s.plan, x, t) PROVE FALSE
  OBVIOUS
<1>1. x \in Missing(items, s.plan, t)
  BY DEF Missing, Planned
<1> DEFINE r == Result(x, op, "failed", "conversion")
<1>2. r \in Refused(Missing(items, s.plan, t), op)
  BY <1>1 DEF Refused
<1>3. r \in s.results /\ r.item = x /\ r.status = "failed"
  BY <1>2, ResultIs DEF Reached
<1>4. QED
  BY <1>3

\* The parts of a user are answered.
LEMMA UserPartsAnswered ==
  ASSUME NEW s, Reached(s, 23), NEW x, x \in LiveOf(s.batch, "users"),
         \A r \in s.results : r.item = x => r.status # "failed"
  PROVE  PartsOf(s.batch, x) \subseteq {r.op : r \in {u \in s.results : u.item = x}}
<1> DEFINE o == Item(s.batch, x)
<1>1. x[1] = "users" /\ \A t : OpName([item |-> x], t) = t
  BY DEF LiveOf, OpName
<1>2. Planned(s.plan, x, "twitter_user")
  BY DEF Reached, PlanWhole, SourcesOf
<1>3. o.profile # Null => Planned(s.plan, x, "user_snapshot")
  <2> SUFFICES ASSUME o.profile # Null PROVE Planned(s.plan, x, "user_snapshot")
    OBVIOUS
  <2> DEFINE items == {y \in LiveOf(s.batch, "users") : Item(s.batch, y).profile # Null}
  <2>1. Refused(Missing(items, s.plan, "user_snapshot"), "user_snapshot") \subseteq ConversionFailures(s.batch, s.plan)
    BY DEF ConversionFailures
  <2>2. x \in items
    OBVIOUS
  <2> HIDE DEF items
  <2>3. QED
    BY <2>1, <2>2, ConvertedOrFailed
<1>4. o.stats # Null => Planned(s.plan, x, "user_stats")
  <2> SUFFICES ASSUME o.stats # Null PROVE Planned(s.plan, x, "user_stats")
    OBVIOUS
  <2> DEFINE items == {y \in LiveOf(s.batch, "users") : Item(s.batch, y).stats # Null}
  <2>1. Refused(Missing(items, s.plan, "user_stats"), "user_stats") \subseteq ConversionFailures(s.batch, s.plan)
    BY DEF ConversionFailures
  <2>2. x \in items
    OBVIOUS
  <2> HIDE DEF items
  <2>3. QED
    BY <2>1, <2>2, ConvertedOrFailed
<1>5. ASSUME NEW t \in {"twitter_user", "user_snapshot", "user_stats"}, Planned(s.plan, x, t)
      PROVE  \E r \in s.results : r.item = x /\ r.op = t
  BY <1>1, <1>5, PlannedAnswered DEF DataTables, FilledTables, VersionTables
<1>6. PartsOf(s.batch, x) = {"twitter_user"} \cup (IF o.profile = Null THEN {} ELSE {"user_snapshot"})
                               \cup (IF o.stats = Null THEN {} ELSE {"user_stats"})
  BY <1>1 DEF PartsOf
<1> HIDE DEF o
<1>7. QED
  BY <1>2, <1>3, <1>4, <1>5, <1>6

\* The parts of a medium are answered.
LEMMA MediaPartsAnswered ==
  ASSUME NEW s, Reached(s, 23), NEW x, x \in LiveOf(s.batch, "media"),
         \A r \in s.results : r.item = x => r.status # "failed"
  PROVE  PartsOf(s.batch, x) \subseteq {r.op : r \in {u \in s.results : u.item = x}}
<1> DEFINE o == Item(s.batch, x)
<1>1. x[1] = "media" /\ \A t : OpName([item |-> x], t) = t
  BY DEF LiveOf, OpName
<1>2. Planned(s.plan, x, "media")
  <2> DEFINE items == LiveOf(s.batch, "media")
  <2>1. Refused(Missing(items, s.plan, "media"), "media") \subseteq ConversionFailures(s.batch, s.plan)
    BY DEF ConversionFailures
  <2>2. x \in items
    OBVIOUS
  <2> HIDE DEF items
  <2>3. QED
    BY <2>1, <2>2, ConvertedOrFailed
<1>3. o.resource # Null => Planned(s.plan, x, "media_resource")
  <2> SUFFICES ASSUME o.resource # Null PROVE Planned(s.plan, x, "media_resource")
    OBVIOUS
  <2> DEFINE items == {y \in LiveOf(s.batch, "media") : Item(s.batch, y).resource # Null}
  <2>1. Refused(Missing(items, s.plan, "media_resource"), "media_resource") \subseteq ConversionFailures(s.batch, s.plan)
    BY DEF ConversionFailures
  <2>2. x \in items
    OBVIOUS
  <2> HIDE DEF items
  <2>3. QED
    BY <2>1, <2>2, ConvertedOrFailed
<1>4. ASSUME NEW t \in {"media", "media_resource"}, Planned(s.plan, x, t)
      PROVE  \E r \in s.results : r.item = x /\ r.op = t
  BY <1>1, <1>4, PlannedAnswered DEF DataTables, FilledTables, VersionTables
<1>5. PartsOf(s.batch, x) = {"media"} \cup (IF o.resource = Null THEN {} ELSE {"media_resource"})
  BY <1>1 DEF PartsOf
<1> HIDE DEF o
<1>6. QED
  BY <1>2, <1>3, <1>4, <1>5

\* The parts of a tweet are answered.
LEMMA TweetPartsAnswered ==
  ASSUME NEW s, Reached(s, 23), NEW x, x \in LiveTweets(s.batch),
         \A r \in s.results : r.item = x => r.status # "failed"
  PROVE  PartsOf(s.batch, x) \subseteq {r.op : r \in {u \in s.results : u.item = x}}
<1> DEFINE o == Item(s.batch, x)
           parts == {"tweet_edit", "tweet_policy", "tweet_community_note", "tweet_stats", "relations"}
<1>1. x[1] = "tweets"
  BY DEF LiveOf, LiveTweets
<1>2. Planned(s.plan, x, "twitter_user")
  BY DEF Reached, PlanWhole, SourcesOf
<1>3. Planned(s.plan, x, "tweet")
  <2> DEFINE items == LiveTweets(s.batch)
  <2>1. Refused(Missing(items, s.plan, "tweet"), "tweet") \subseteq ConversionFailures(s.batch, s.plan)
    BY DEF ConversionFailures
  <2>2. x \in items
    OBVIOUS
  <2> HIDE DEF items
  <2>3. QED
    BY <2>1, <2>2, ConvertedOrFailed
<1>4. /\ \A t \in parts : HasPart(o, t) => Planned(s.plan, x, t)
      /\ HasPart(o, "tweet_place") => Planned(s.plan, x, "tweet_place")
  BY <1>3 DEF Reached, PlanWhole
<1>5. /\ o.place # Null /\ o.place.id # Null => HasPart(o, "tweet_place")
      /\ o.edit # Null => HasPart(o, "tweet_edit")
      /\ o.policy # Null => HasPart(o, "tweet_policy")
      /\ o.community # Null => HasPart(o, "tweet_community_note")
      /\ o.stats # Null => HasPart(o, "tweet_stats")
      /\ HasPart(o, "relations")
  BY DEF HasPart
<1>6. ASSUME NEW t \in {"twitter_user", "tweet", "tweet_place", "tweet_edit", "tweet_policy",
                        "tweet_community_note", "tweet_stats"}, Planned(s.plan, x, t)
      PROVE  \E r \in s.results : r.item = x /\ r.op = (IF t = "twitter_user" THEN "tweet_author" ELSE t)
  <2>1. OpName([item |-> x], t) = IF t = "twitter_user" THEN "tweet_author" ELSE t
    BY <1>1 DEF OpName
  <2>2. t \in DataTables
    BY DEF DataTables, FilledTables, VersionTables
  <2>3. QED
    BY <1>6, <2>1, <2>2, PlannedAnswered
<1>7. ASSUME NEW t \in RefTables PROVE \E r \in s.results : r.item = x /\ r.op = t
  <2>1. PICK e \in s.plan["relations"] : e.item = x
    BY <1>4, <1>5 DEF Planned
  <2>2. Answers(s.results, x, t)
    BY <2>1 DEF Reached, RelationsAnswered
  <2>3. QED
    BY <2>2 DEF Answers
<1>8. PartsOf(s.batch, x) = {"tweet_author", "tweet"} \cup RefTables
            \cup (IF o.place = Null \/ o.place.id = Null THEN {} ELSE {"tweet_place"})
            \cup (IF o.edit = Null THEN {} ELSE {"tweet_edit"})
            \cup (IF o.policy = Null THEN {} ELSE {"tweet_policy"})
            \cup (IF o.community = Null THEN {} ELSE {"tweet_community_note"})
            \cup (IF o.stats = Null THEN {} ELSE {"tweet_stats"})
  BY <1>1 DEF PartsOf
<1> DEFINE has(op) == \E r \in s.results : r.item = x /\ r.op = op
<1>9. /\ has("tweet_author") /\ has("tweet") /\ \A t \in RefTables : has(t)
      /\ o.place # Null /\ o.place.id # Null => has("tweet_place")
      /\ o.edit # Null => has("tweet_edit")
      /\ o.policy # Null => has("tweet_policy")
      /\ o.community # Null => has("tweet_community_note")
      /\ o.stats # Null => has("tweet_stats")
  <2>1. /\ Planned(s.plan, x, "twitter_user") => has("tweet_author")
        /\ Planned(s.plan, x, "tweet") => has("tweet")
        /\ Planned(s.plan, x, "tweet_place") => has("tweet_place")
        /\ Planned(s.plan, x, "tweet_edit") => has("tweet_edit")
        /\ Planned(s.plan, x, "tweet_policy") => has("tweet_policy")
        /\ Planned(s.plan, x, "tweet_community_note") => has("tweet_community_note")
        /\ Planned(s.plan, x, "tweet_stats") => has("tweet_stats")
    BY <1>6
  <2> HIDE DEF o, has
  <2>2. \A t \in RefTables : has(t)
    BY <1>7 DEF has
  <2>3. QED
    BY <1>2, <1>3, <1>4, <1>5, <2>1, <2>2
<1>10. \A op \in PartsOf(s.batch, x) : has(op)
  <2> HIDE DEF has, o
  <2>1. QED
    BY <1>8, <1>9
<1>11. QED
  BY <1>10

\* So an object without a failure has a result of every part.
LEMMA AnsweredMeansTold ==
  ASSUME Shaped, AllStaged
  PROVE  NothingLostSilently
<1> SUFFICES ASSUME NEW p \in Requests, req[p].step = "done", NEW x \in Present(req[p].batch)
             PROVE  LET status == ObjectStatus(req[p].results, x)
                        of(x1) == {r \in req[p].results : r.item = x1}
                    IN  IF ~Live(req[p].batch, x) THEN status \in {"failed", "skipped"}
                        ELSE status \in {"accepted", "skipped"} =>
                               PartsOf(req[p].batch, x) \subseteq {r.op : r \in of(x)}
  BY DEF NothingLostSilently
<1> DEFINE s == req[p]
<1>1. Staged(s) /\ s.step = "done" /\ BatchOK(s.batch)
  BY BatchesOK DEF AllStaged
<1> HIDE DEF s
<1>2. CASE ~Live(s.batch, x)
  BY <1>1, <1>2, ShadowedStatus DEF s
<1>3. ASSUME Live(s.batch, x), ObjectStatus(s.results, x) \in {"accepted", "skipped"}
      PROVE  PartsOf(s.batch, x) \subseteq {r.op : r \in {u \in s.results : u.item = x}}
  <2>1. x \in Present(s.batch)
    BY DEF s
  <2>2. /\ Reached(s, 23)
        /\ \A r \in s.results : r.item = x => r.status # "failed"
        /\ x[1] = "tweets" => Item(s.batch, x).author # Unparsable
    BY <1>1, <1>3, <2>1, NotFailed
  <2>3. x[1] \in {"users", "tweets", "media"} /\ x \in LiveOf(s.batch, x[1])
    BY <1>1, <1>3, <2>1, ItemIs DEF LiveOf
  <2>4. x[1] = "tweets" => x \in LiveTweets(s.batch)
    BY <2>2, <2>3 DEF LiveTweets
  <2>5. QED
    BY <2>2, <2>3, <2>4, UserPartsAnswered, MediaPartsAnswered, TweetPartsAnswered
<1>4. QED
  BY <1>2, <1>3 DEF s

-----------------------------------------------------------------------------
\* Requests stay what they are, and what they are given to answer they answer.
THEOREM StagesTheorem == Spec => [](Shaped /\ AllStaged)
<1>1. Init => Shaped /\ IsStore(db) /\ AllStaged
  <2>1. Init => AllStaged
    BY StagedAtFirst DEF Init, AllStaged
  <2>2. QED
    BY <2>1, ShapeAtFirst
<1>2. Shaped /\ IsStore(db) /\ AllStaged /\ [Next]_vars => (Shaped /\ IsStore(db) /\ AllStaged)'
  BY ShapeKept, AllStagedKept
<1>3. QED
  BY <1>1, <1>2, PTL DEF Spec

\* An object that is answered as accepted or skipped has a result for every
\* part of it, whatever was submitted with it and whatever failed.
THEOREM NothingLostTheorem == Spec => []NothingLostSilently
<1>1. Shaped /\ AllStaged => NothingLostSilently
  BY AnsweredMeansTold
<1>2. QED
  BY <1>1, StagesTheorem, PTL

-----------------------------------------------------------------------------
(* What stays in the store.                                                *)

KeepsRows(old, new) == \A k \in DOMAIN old : k \in DOMAIN new /\ new[k] = old[k]

\* Facts, versions to the letter, and the places in the queue.
Grows(old, new) ==
  /\ KeepsFacts(old, new)
  /\ \A t \in VersionTables : KeepsRows(old[t], new[t])
  /\ DOMAIN old["index_queue"] \subseteq DOMAIN new["index_queue"]

\* The index queue loses no row and takes each id.
LEMMA EnqueueGrows ==
  ASSUME NEW queue, NEW kind, NEW ids
  PROVE  /\ DOMAIN queue \subseteq DOMAIN EnqueueTargets(queue, kind, ids)
         /\ \A i \in ids : <<kind, i>> \in DOMAIN EnqueueTargets(queue, kind, ids)
  BY DEF EnqueueTargets

\* The kinds of tables are apart.
LEMMA KindsOfTables ==
  /\ \A t \in VersionTables : t \notin FilledTables \cup LookupTables \cup RefTables \cup {"index_queue", "transfer_task"}
  /\ \A t \in FilledTables : t \notin VersionTables \cup LookupTables \cup RefTables \cup {"index_queue", "transfer_task"}
  /\ \A t \in LookupTables : t # "index_queue"
  /\ \A t \in RefTables : t # "index_queue"
  /\ VersionTables \cup FilledTables \cup LookupTables \cup RefTables \cup {"index_queue", "transfer_task"} = Tables
  BY DEF VersionTables, FilledTables, LookupTables, RefTables, Tables, FactTables

\* A statement that leaves the versions and the queue alone.
LEMMA GrowsElsewhere ==
  ASSUME KeepsFacts(db, db'), \A t \in VersionTables \cup {"index_queue"} : db'[t] = db[t]
  PROVE  Grows(db, db')
  BY DEF Grows, KeepsRows

\* A change of one table leaves the others.
LEMMA OneTableOnly ==
  ASSUME IsStore(db), NEW t \in Tables, NEW table, NEW u \in Tables, u # t
  PROVE  [db EXCEPT ![t] = table][u] = db[u]
  BY DEF IsStore

\* WriteRows removes no version and no queue row.
LEMMA WriteGrows ==
  ASSUME IsStore(db), KeepsFacts(db, db'), NEW t \in FilledTables, NEW rows,
         rows = [k \in DOMAIN rows |-> rows[k]], db' = Write(t, rows)
  PROVE  Grows(db, db')
<1>1. \A u \in VersionTables : db'[u] = db[u]
  <2>1. \A u \in Tables \ {t, "index_queue"} : db'[u] = db[u]
    BY WriteIs
  <2>2. \A u \in VersionTables : u \in Tables \ {t, "index_queue"}
    BY KindsOfTables
  <2>3. QED
    BY <2>1, <2>2
<1>2. DOMAIN db["index_queue"] \subseteq DOMAIN db'["index_queue"]
  <2>1. \/ db'["index_queue"] = db["index_queue"]
        \/ \E kind, ids : db'["index_queue"] = EnqueueTargets(db["index_queue"], kind, ids)
    BY WriteIs
  <2>2. QED
    BY <2>1, EnqueueGrows
<1>3. QED
  BY <1>1, <1>2 DEF Grows, KeepsRows

\* Nor does AppendVersions, and it appends to its table alone.
LEMMA AppendGrows ==
  ASSUME IsStore(db), KeepsFacts(db, db'), NEW t \in VersionTables, NEW rows, NEW decisions,
         LET written == [db EXCEPT ![t] = Appended(@, rows, decisions)]
         IN  db' = IF t = "user_snapshot"
                   THEN [written EXCEPT !["index_queue"] = QueueSnapshots(db, decisions)["index_queue"]]
                   ELSE written
  PROVE  /\ Grows(db, db') /\ db'[t] = Appended(db[t], rows, decisions)
         /\ \A u \in Tables \ {t, "index_queue"} : db'[u] = db[u]
<1> DEFINE table == Appended(db[t], rows, decisions)
           written == [db EXCEPT ![t] = table]
           queue == QueueSnapshots(db, decisions)["index_queue"]
<1>1. t \in Tables /\ t # "index_queue" /\ "index_queue" \in Tables
  BY KindsOfTables
<1>2. db' = IF t = "user_snapshot" THEN [written EXCEPT !["index_queue"] = queue] ELSE written
  OBVIOUS
<1>3. DOMAIN db["index_queue"] \subseteq DOMAIN queue
  <2>1. queue = EnqueueTargets(db["index_queue"], "user",
                  {k[1] : k \in Candidates(decisions) \ DOMAIN db["user_snapshot"]})
    BY <1>1 DEF QueueSnapshots, IsStore
  <2>2. QED
    BY <2>1, EnqueueGrows
<1>4. written = [u \in Tables |-> IF u = t THEN table ELSE db[u]]
  BY <1>1 DEF IsStore
<1> HIDE DEF table, queue, written
<1>5. db'[t] = table /\ \A u \in Tables \ {t, "index_queue"} : db'[u] = db[u]
  BY <1>1, <1>2, <1>4
<1>6. db'["index_queue"] = queue \/ db'["index_queue"] = db["index_queue"]
  BY <1>1, <1>2, <1>4
<1>7. KeepsRows(db[t], table)
  BY DEF KeepsRows, Appended, table
<1>8. \A u \in VersionTables : u \in Tables /\ u # "index_queue"
  BY KindsOfTables
<1>9. \A u \in VersionTables : KeepsRows(db[u], db'[u])
  BY <1>5, <1>7, <1>8 DEF KeepsRows
<1>10. QED
  BY <1>3, <1>5, <1>6, <1>9 DEF Grows, table

\* Rows is a function.
LEMMA RowsIsFunction == \A entries : Rows(entries) = [k \in DOMAIN Rows(entries) |-> Rows(entries)[k]]
  BY RowsDomain

\* No step removes a version or a queue row.
LEMMA NextGrows ==
  ASSUME Shaped, IsStore(db), [Next]_vars
  PROVE  Grows(db, db')
<1>0. KeepsFacts(db, db')
  BY NextKeeps
<1>1. CASE db' = db
  BY <1>0, <1>1, GrowsElsewhere
<1>2. ASSUME NEW t \in Tables, t \notin VersionTables \cup {"index_queue"}, NEW table,
             db' = [db EXCEPT ![t] = table]
      PROVE  Grows(db, db')
  <2>1. \A u \in VersionTables \cup {"index_queue"} : u \in Tables /\ u # t
    BY <1>2, KindsOfTables
  <2>2. QED
    BY <1>0, <1>2, <2>1, OneTableOnly, GrowsElsewhere
<1>3. CASE CreateTransferTask
  <2>1. "transfer_task" \in Tables /\ "transfer_task" \notin VersionTables \cup {"index_queue"}
    BY KindsOfTables
  <2>2. PICK table : db' = [db EXCEPT !["transfer_task"] = table]
    BY <1>3 DEF CreateTransferTask
  <2>3. QED
    BY <1>2, <2>1, <2>2
<1>4. ASSUME NEW p \in Requests, NEW o, CommitLookup(p, o) PROVE Grows(db, db')
  <2>1. req[p].step \in LookupTables /\ (db' = db \/ \E table : db' = [db EXCEPT ![req[p].step] = table])
    BY <1>4 DEF CommitLookup, DbAfter
  <2>2. req[p].step \in Tables /\ req[p].step \notin VersionTables \cup {"index_queue"}
    BY <2>1, KindsOfTables
  <2>3. QED
    BY <1>1, <1>2, <2>1, <2>2
<1>5. ASSUME NEW p \in Requests, NEW failing, Convert(p, failing) PROVE Grows(db, db')
  <2>1. db' = db \/ db' = OwnLookups(req[p].batch, failing)
    BY <1>5, ConvertTurn
  <2>2. CASE db' = OwnLookups(req[p].batch, failing)
    <3>1. \A u \in VersionTables \cup {"index_queue"} : u \in Tables \ LookupTables
      BY KindsOfTables
    <3>2. \A u \in Tables \ LookupTables : db'[u] = db[u]
      BY <2>2 DEF OwnLookups
    <3>3. QED
      BY <1>0, <3>1, <3>2, GrowsElsewhere
  <2>3. QED
    BY <1>1, <2>1, <2>2
<1>6. ASSUME NEW p \in Requests, NEW o, WriteRows(p, o) PROVE Grows(db, db')
  <2> DEFINE t == req[p].step
             rows == Rows(req[p].plan[t])
  <2>1. t \in FilledTables /\ (db' = db \/ db' = Write(t, rows))
    BY <1>6, WriteRowsTurn
  <2>2. rows = [k \in DOMAIN rows |-> rows[k]]
    BY RowsIsFunction
  <2> HIDE DEF rows
  <2>3. db' = Write(t, rows) => Grows(db, db')
    BY <1>0, <2>1, <2>2, WriteGrows
  <2>4. QED
    BY <1>1, <2>1, <2>3
<1>7. ASSUME NEW p \in Requests, NEW o, AppendVersions(p, o) PROVE Grows(db, db')
  <2> DEFINE t == req[p].step
             rows == Rows(req[p].plan[t])
             decisions == req[p].snapshot.decisions
             written == [db EXCEPT ![t] = Appended(@, rows, decisions)]
  <2>1. /\ t \in VersionTables
        /\ \/ db' = db
           \/ db' = IF t = "user_snapshot"
                    THEN [written EXCEPT !["index_queue"] = QueueSnapshots(db, decisions)["index_queue"]]
                    ELSE written
    BY <1>7, AppendVersionsTurn
  <2>2. CASE db' = IF t = "user_snapshot"
                    THEN [written EXCEPT !["index_queue"] = QueueSnapshots(db, decisions)["index_queue"]]
                    ELSE written
    <3> HIDE DEF rows, decisions
    <3>1. QED
      BY <1>0, <2>1, <2>2, AppendGrows
  <2>3. QED
    BY <1>1, <2>1, <2>2
<1>8. ASSUME NEW p \in Requests, NEW o, NEW c, EnqueueTransfers(p, o, c) PROVE Grows(db, db')
  <2>1. PICK rows : db' = db \/ db' = [db EXCEPT !["transfer_task"] = Upsert(@, rows, {})]
    BY <1>8, EnqueueTransfersTurn
  <2>2. "transfer_task" \in Tables /\ "transfer_task" \notin VersionTables \cup {"index_queue"}
    BY KindsOfTables
  <2>3. QED
    BY <1>1, <1>2, <2>1, <2>2
<1>9. ASSUME NEW p \in Requests, NEW o, NEW c, CommitRelations(p, o, c) PROVE Grows(db, db')
  <2>1. db' = db \/ db' = SyncedStore(p)
    BY <1>9, CommitRelationsTurn
  <2>2. CASE db' = SyncedStore(p)
    <3>1. \A u \in VersionTables \cup {"index_queue"} : u \in Tables \ RefTables
      BY KindsOfTables
    <3>2. \A u \in Tables \ RefTables : db'[u] = db[u]
      BY <2>2 DEF SyncedStore
    <3>3. QED
      BY <1>0, <3>1, <3>2, GrowsElsewhere
  <2>3. QED
    BY <1>1, <2>1, <2>2
<1>10. ASSUME NEW p \in Requests,
              \/ ReadLookup(p) \/ DecideVersions(p) \/ PlanRelations(p) \/ Abandon(p)
              \/ \E o \in Outcomes : Preload(p, o)
      PROVE  Grows(db, db')
  BY <1>1, <1>10 DEF ReadLookup, DecideVersions, PlanRelations, Abandon, Preload
<1>11. QED
  BY <1>1, <1>3, <1>4, <1>5, <1>6, <1>7, <1>8, <1>9, <1>10, StepsAre DEF Moves

-----------------------------------------------------------------------------
(* The rows of the store have their columns, and users and tweets are      *)
(* queued for the index.                                                   *)

SoundStore ==
  /\ \A t \in FilledTables : \A k \in DOMAIN db[t] : HasColumns(t, db[t][k])
  /\ \A k \in DOMAIN db["twitter_user"] : <<"user", k>> \in DOMAIN db["index_queue"]
  /\ \A k \in DOMAIN db["tweet"] : <<"tweet", k>> \in DOMAIN db["index_queue"]

Writes(p) ==
  /\ req[p].step \in FilledTables
  /\ db' = Write(req[p].step, Rows(req[p].plan[req[p].step]))

\* Only WriteRows changes a table of facts.
LEMMA FilledTablesChange ==
  ASSUME Shaped, IsStore(db), [Next]_vars
  PROVE  (\A t \in FilledTables : db'[t] = db[t]) \/ \E p \in Requests : Writes(p)
<1>1. ASSUME NEW t \in Tables, t \notin FilledTables, NEW table, db' = [db EXCEPT ![t] = table]
      PROVE  \A u \in FilledTables : db'[u] = db[u]
  <2>1. \A u \in FilledTables : u \in Tables /\ u # t
    BY <1>1, KindsOfTables
  <2>2. QED
    BY <1>1, <2>1, OneTableOnly
<1>2. CASE db' = db
  BY <1>2
<1>3. CASE CreateTransferTask
  <2>1. "transfer_task" \in Tables /\ "transfer_task" \notin FilledTables
    BY KindsOfTables
  <2>2. PICK table : db' = [db EXCEPT !["transfer_task"] = table]
    BY <1>3 DEF CreateTransferTask
  <2>3. QED
    BY <1>1, <2>1, <2>2
<1>4. ASSUME NEW p \in Requests, NEW o, CommitLookup(p, o) PROVE \A u \in FilledTables : db'[u] = db[u]
  <2>1. req[p].step \in LookupTables /\ (db' = db \/ \E table : db' = [db EXCEPT ![req[p].step] = table])
    BY <1>4 DEF CommitLookup, DbAfter
  <2>2. req[p].step \in Tables /\ req[p].step \notin FilledTables
    BY <2>1, KindsOfTables
  <2>3. QED
    BY <1>1, <2>1, <2>2
<1>5. ASSUME NEW p \in Requests, NEW failing, Convert(p, failing) PROVE \A u \in FilledTables : db'[u] = db[u]
  <2>1. db' = db \/ db' = OwnLookups(req[p].batch, failing)
    BY <1>5, ConvertTurn
  <2>2. \A u \in FilledTables : u \in Tables \ LookupTables
    BY KindsOfTables
  <2>3. db' = OwnLookups(req[p].batch, failing) => \A u \in Tables \ LookupTables : db'[u] = db[u]
    BY DEF OwnLookups
  <2>4. QED
    BY <2>1, <2>2, <2>3
<1>6. ASSUME NEW p \in Requests, NEW o, WriteRows(p, o) PROVE db' = db \/ Writes(p)
  BY <1>6, WriteRowsTurn DEF Writes
<1>7. ASSUME NEW p \in Requests, NEW o, AppendVersions(p, o) PROVE \A u \in FilledTables : db'[u] = db[u]
  <2> DEFINE t == req[p].step
             rows == Rows(req[p].plan[t])
             decisions == req[p].snapshot.decisions
             written == [db EXCEPT ![t] = Appended(@, rows, decisions)]
             new == IF t = "user_snapshot"
                    THEN [written EXCEPT !["index_queue"] = QueueSnapshots(db, decisions)["index_queue"]]
                    ELSE written
  <2>1. t \in VersionTables /\ (db' = db \/ db' = new)
    BY <1>7, AppendVersionsTurn
  <2>2. \A u \in FilledTables : u \in Tables \ {t, "index_queue"}
    BY <2>1, KindsOfTables
  <2>3. KeepsFacts(db, db')
    BY NextKeeps
  <2>4. CASE db' = new
    <3>1. \A u \in Tables \ {t, "index_queue"} : db'[u] = db[u]
      <4> HIDE DEF rows, decisions
      <4>1. QED
        BY <2>1, <2>3, <2>4, AppendGrows
    <3>2. QED
      BY <2>2, <3>1
  <2>5. QED
    BY <2>1, <2>4
<1>8. ASSUME NEW p \in Requests, NEW o, NEW c, EnqueueTransfers(p, o, c) PROVE \A u \in FilledTables : db'[u] = db[u]
  <2>1. PICK rows : db' = db \/ db' = [db EXCEPT !["transfer_task"] = Upsert(@, rows, {})]
    BY <1>8, EnqueueTransfersTurn
  <2>2. "transfer_task" \in Tables /\ "transfer_task" \notin FilledTables
    BY KindsOfTables
  <2>3. QED
    BY <1>1, <2>1, <2>2
<1>9. ASSUME NEW p \in Requests, NEW o, NEW c, CommitRelations(p, o, c) PROVE \A u \in FilledTables : db'[u] = db[u]
  <2>1. db' = db \/ db' = SyncedStore(p)
    BY <1>9, CommitRelationsTurn
  <2>2. \A u \in FilledTables : u \in Tables \ RefTables
    BY KindsOfTables
  <2>3. db' = SyncedStore(p) => \A u \in Tables \ RefTables : db'[u] = db[u]
    BY DEF SyncedStore
  <2>4. QED
    BY <2>1, <2>2, <2>3
<1>10. ASSUME NEW p \in Requests,
              \/ ReadLookup(p) \/ DecideVersions(p) \/ PlanRelations(p) \/ Abandon(p)
              \/ \E o \in Outcomes : Preload(p, o)
      PROVE  db' = db
  BY <1>10 DEF ReadLookup, DecideVersions, PlanRelations, Abandon, Preload
<1>11. QED
  BY <1>2, <1>3, <1>4, <1>5, <1>6, <1>7, <1>8, <1>9, <1>10, StepsAre DEF Moves

\* A statement that writes rows of its own columns.
LEMMA WritesSoundly ==
  ASSUME Shaped, IsStore(db), AllStaged, SoundStore, NEW p \in Requests, Writes(p),
         Grows(db, db')
  PROVE  SoundStore'
<1> DEFINE t == req[p].step
           rows == Rows(req[p].plan[t])
           given == OfParents(rows, ParentsOf(t, rows))
<1>1. t \in FilledTables /\ db' = Write(t, rows) /\ t \in PlannedTables
  BY DEF Writes, PlannedTables
<1>2. BatchOK(req[p].batch) /\ PlanFrom(req[p].batch, req[p].plan)
  BY BatchesOK DEF AllStaged, Staged
<1>3. \A k \in DOMAIN rows : HasColumns(t, rows[k])
  BY <1>1, <1>2, RowsHaveColumns
<1>4. rows = [k \in DOMAIN rows |-> rows[k]]
  BY RowsIsFunction
<1> HIDE DEF rows
<1>5. /\ db'[t] = Upsert(db[t], given, FilledColumns(t))
      /\ \A u \in Tables \ {t, "index_queue"} : db'[u] = db[u]
      /\ t = "twitter_user" => db'["index_queue"] =
           EnqueueTargets(db["index_queue"], "user", Changed(db[t], rows, FilledColumns(t)))
      /\ t = "tweet" => db'["index_queue"] =
           EnqueueTargets(db["index_queue"], "tweet", Changed(db[t], rows, FilledColumns(t)))
      /\ t \notin ChildTables => db'[t] = Upsert(db[t], rows, FilledColumns(t))
  BY <1>1, <1>4, WriteIs
<1> HIDE DEF t
<1>6. \A k \in DOMAIN given : k \in DOMAIN rows /\ given[k] = rows[k]
  BY DEF OfParents
<1>7. \A u \in FilledTables : u \in Tables /\ u # "index_queue"
  BY KindsOfTables
<1>8. ASSUME NEW k \in DOMAIN db'[t] PROVE HasColumns(t, db'[t][k])
  <2>1. /\ k \in DOMAIN db[t] => HasColumns(t, db[t][k])
        /\ k \in DOMAIN given => HasColumns(t, given[k])
        /\ k \in DOMAIN Upsert(db[t], given, FilledColumns(t))
    BY <1>1, <1>3, <1>5, <1>6, <1>8 DEF SoundStore
  <2> HIDE DEF given
  <2>2. HasColumns(t, Upsert(db[t], given, FilledColumns(t))[k])
    BY <1>1, <2>1, UpsertStores
  <2>3. QED
    BY <1>5, <2>2
<1>9. \A u \in FilledTables : \A k \in DOMAIN db'[u] : HasColumns(u, db'[u][k])
  BY <1>5, <1>7, <1>8 DEF SoundStore
<1>10. ASSUME NEW u \in {"twitter_user", "tweet"}, NEW kind, kind = (IF u = "tweet" THEN "tweet" ELSE "user"),
              NEW k \in DOMAIN db'[u]
       PROVE  <<kind, k>> \in DOMAIN db'["index_queue"]
  <2>1. k \in DOMAIN db[u] => <<kind, k>> \in DOMAIN db["index_queue"]
    BY <1>10 DEF SoundStore
  <2>2. CASE k \in DOMAIN db[u]
    BY <2>1, <2>2 DEF Grows
  <2>3. CASE k \notin DOMAIN db[u]
    <3>1. u \in FilledTables /\ u \notin ChildTables
      BY DEF FilledTables, ChildTables
    <3>2. u = t
      BY <1>5, <1>7, <2>3, <3>1
    <3>3. k \in DOMAIN rows
      BY <1>5, <2>3, <3>1, <3>2 DEF Upsert
    <3>4. k \in Changed(db[t], rows, FilledColumns(t))
      BY <2>3, <3>2, <3>3 DEF Changed
    <3>5. db'["index_queue"] = EnqueueTargets(db["index_queue"], kind, Changed(db[t], rows, FilledColumns(t)))
      BY <1>5, <1>10, <3>2
    <3>6. QED
      BY <3>4, <3>5, EnqueueGrows
  <2>4. QED
    BY <2>2, <2>3
<1>11. QED
  BY <1>9, <1>10 DEF SoundStore

\* Every step keeps the store sound.
LEMMA SoundKept ==
  ASSUME Shaped, IsStore(db), AllStaged, SoundStore, [Next]_vars
  PROVE  SoundStore'
<1>1. Grows(db, db')
  BY NextGrows
<1>2. CASE \A t \in FilledTables : db'[t] = db[t]
  <2>1. {"twitter_user", "tweet"} \subseteq FilledTables
    BY DEF FilledTables
  <2>2. QED
    BY <1>1, <1>2, <2>1 DEF SoundStore, Grows
<1>3. QED
  BY <1>1, <1>2, FilledTablesChange, WritesSoundly

-----------------------------------------------------------------------------
(* What a response calls stored is stored.                                 *)

Told(results, e, t) ==
  \E r \in results : r.item = e.item /\ r.op = OpName(e, t) /\ r.why \in {"inserted", "unchanged"}
HasVersion(t, e) ==
  \E k \in DOMAIN db[t] : k[1] = e.key[1] /\ k[2] <= e.key[2] /\ db[t][k] = e.row

\* What a statement on versions has read still holds when it appends.
Decided(s) ==
  s.step \in VersionTables /\ s.snapshot # Unread =>
    \A e \in s.plan[s.step] :
      /\ e.key \in DOMAIN s.snapshot.decisions
      /\ s.snapshot.decisions[e.key] # "inserted"
      /\ s.snapshot.decisions[e.key] = "unchanged" => HasVersion(s.step, e)

Truthful(s) == \A t \in DataTables : \A e \in s.plan[t] : Told(s.results, e, t) => StoredAs(t, e)

\* What is stored stays.
LEMMA StoredStays ==
  ASSUME Grows(db, db'), SoundStore, NEW t \in DataTables, NEW e,
         t \in FilledTables => HasColumns(t, e.row), StoredAs(t, e)
  PROVE  StoredAs(t, e)'
<1>1. CASE t \in VersionTables
  BY <1>1 DEF StoredAs, Grows, KeepsRows
<1>2. CASE t \in FilledTables
  <2>1. t \notin VersionTables /\ t \in FactTables
    BY <1>2, KindsOfTables DEF FactTables
  <2>2. e.key \in DOMAIN db[t] /\ HasColumns(t, db[t][e.key]) /\ HasColumns(t, e.row)
    BY <1>2, <2>1 DEF StoredAs, SoundStore
  <2>3. /\ e.key \in DOMAIN db'[t]
        /\ \A c \in DOMAIN db[t][e.key] : db[t][e.key][c] # Null => db'[t][e.key][c] = db[t][e.key][c]
    BY <2>1, <2>2 DEF Grows, KeepsFacts, Keeps
  <2>4. DOMAIN e.row = DOMAIN db[t][e.key]
    BY <2>2 DEF HasColumns
  <2>5. QED
    BY <2>1, <2>3, <2>4 DEF StoredAs, Grows
<1>3. QED
  BY <1>1, <1>2 DEF DataTables

\* A version that gives an input back stays.
LEMMA VersionStays ==
  ASSUME Grows(db, db'), NEW t \in VersionTables, NEW e, HasVersion(t, e)
  PROVE  HasVersion(t, e)'
  BY DEF Grows, KeepsRows, HasVersion

\* A result tells of one table.
LEMMA OpNamesApart ==
  ASSUME NEW t \in DataTables, NEW u \in DataTables \cup RefTables, NEW e, NEW f, e.item = f.item,
         OpName(e, t) = OpName(f, u)
  PROVE  t = u
<1>1. t # "tweet_author" /\ u # "tweet_author"
  BY DEF DataTables, FilledTables, VersionTables, RefTables
<1>2. QED
  BY <1>1 DEF OpName

\* A result of another part tells nothing of this one.
LEMMA OpNameOther ==
  ASSUME NEW t \in DataTables, NEW e
  PROVE  OpName(e, t) # "media_transfer" /\ OpName(e, t) # "dict_preload"
  BY DEF OpName, DataTables, FilledTables, VersionTables

\* What reports tell of an entry is the verdict on its key.
LEMMA ToldBy ==
  ASSUME NEW b, NEW plan, PlanFrom(b, plan), NEW t \in DataTables, NEW e \in plan[t],
         NEW u \in DataTables, NEW verdict, NEW results, NEW more,
         Adds(results, more, plan[u], u, verdict), Told(more, e, t), ~Told(results, e, t)
  PROVE  t = u /\ verdict[e.key] \in {"inserted", "unchanged"}
<1>1. PICK r \in more : r.item = e.item /\ r.op = OpName(e, t) /\ r.why \in {"inserted", "unchanged"}
  BY DEF Told
<1>2. r \notin results
  BY <1>1 DEF Told
<1>3. \/ r \in Reports(plan[u], u, verdict) /\ more = results \cup Reports(plan[u], u, verdict)
      \/ r \in Failures(plan[u], u)
  BY <1>2 DEF Adds
<1>4. r \notin Failures(plan[u], u)
  BY <1>1, ResultIs DEF Failures
<1>5. PICK f \in plan[u] : r = Result(f.item, OpName(f, u),
          IF verdict[f.key] \in Accepted THEN "accepted" ELSE "skipped", verdict[f.key])
  BY <1>3, <1>4 DEF Reports
<1>6. f.item = e.item /\ OpName(f, u) = OpName(e, t) /\ verdict[f.key] \in {"inserted", "unchanged"}
  BY <1>1, <1>5, ResultIs
<1>7. t = u
  BY <1>6, OpNamesApart
<1>8. e = f
  BY <1>6, <1>7, DataTablesAre DEF PlanFrom
<1>9. QED
  BY <1>6, <1>7, <1>8

\* A failure tells of nothing.
LEMMA FailureTellsNot ==
  ASSUME NEW t, NEW e, NEW u, NEW entries, NEW results, NEW more,
         Told(more, e, t), ~Told(results, e, t)
  PROVE  more # results \cup Failures(entries, u)
<1>1. PICK r \in more : r.item = e.item /\ r.op = OpName(e, t) /\ r.why \in {"inserted", "unchanged"}
  BY DEF Told
<1>2. r \notin results
  BY <1>1 DEF Told
<1>3. r \notin Failures(entries, u)
  BY <1>1, ResultIs DEF Failures
<1>4. QED
  BY <1>2, <1>3

\* The time of a version.
LEMMA VersionTimes ==
  ASSUME NEW b, BatchOK(b), NEW plan, PlanFrom(b, plan), NEW t \in VersionTables, NEW e \in plan[t]
  PROVE  e.key = <<e.key[1], e.key[2]>> /\ e.key[2] \in Nat
<1> DEFINE o == Item(b, e.item)
<1>1. t \in PlannedTables
  BY DEF PlannedTables
<1>2. e.item \in SourcesOf(b, t) /\ HasPart(o, t) /\ e = EntryOf(b, t, e.item)
  BY <1>1 DEF PlanFrom
<1>3. e.item \in Present(b)
  BY <1>1, <1>2, SourcesAre
<1>4. CASE t = "user_snapshot"
  <2>1. IsUser(o)
    BY <1>1, <1>2, <1>3, <1>4, SourcesAre, ItemKeepsContract
  <2>2. o.profile.at \in Nat
    BY <1>2, <1>4, <2>1 DEF IsUser, HasPart
  <2>3. e.key = <<o.id, o.profile.at>>
    BY <1>2, <1>4, EntryItem DEF EntryOf
  <2>4. QED
    BY <2>2, <2>3
<1>5. CASE t = "user_stats"
  <2>1. IsUser(o)
    BY <1>1, <1>2, <1>3, <1>5, SourcesAre, ItemKeepsContract
  <2>2. o.stats.at \in Nat
    BY <1>2, <1>5, <2>1 DEF IsUser, HasPart
  <2>3. e.key = <<o.id, o.stats.at>>
    BY <1>2, <1>5, EntryItem DEF EntryOf
  <2>4. QED
    BY <2>2, <2>3
<1>6. CASE t = "media_resource"
  <2>1. IsMedium(o)
    BY <1>1, <1>2, <1>3, <1>6, SourcesAre, ItemKeepsContract
  <2>2. o.resource.at \in Nat
    BY <1>2, <1>6, <2>1 DEF IsMedium, HasPart
  <2>3. e.key = <<o.id, o.resource.at>>
    BY <1>2, <1>6, EntryItem DEF EntryOf
  <2>4. QED
    BY <2>2, <2>3
<1>7. CASE t = "tweet_stats"
  <2>1. IsTweet(o)
    BY <1>1, <1>2, <1>3, <1>7, SourcesAre, ItemKeepsContract
  <2>2. o.stats.at \in Nat
    BY <1>2, <1>7, <2>1 DEF IsTweet, HasPart
  <2>3. e.key = <<o.id, o.stats.at>>
    BY <1>2, <1>7, EntryItem DEF EntryOf
  <2>4. QED
    BY <2>2, <2>3
<1>8. QED
  BY <1>4, <1>5, <1>6, <1>7 DEF VersionTables

\* A statement on versions decides on each of its entries.
LEMMA DecideIs ==
  ASSUME NEW t \in VersionTables, NEW rows
  PROVE  \E parents, interval : Decide(t, rows) = Decisions(db[t], parents, rows, interval)
<1>1. CASE t = "user_snapshot"
  BY <1>1 DEF Decide, DecideUserSnapshots
<1>2. CASE t = "user_stats"
  BY <1>2 DEF Decide, DecideUserStats
<1>3. CASE t = "media_resource"
  BY <1>3 DEF Decide, DecideMediaResources
<1>4. CASE t = "tweet_stats"
  BY <1>4 DEF Decide, DecideTweetStats
<1>5. QED
  BY <1>1, <1>2, <1>3, <1>4 DEF VersionTables

\* A decision is made on every row.
LEMMA DecidesOnAll ==
  ASSUME NEW b, BatchOK(b), NEW plan, PlanFrom(b, plan), NEW t \in VersionTables, NEW e \in plan[t]
  PROVE  LET decisions == Decide(t, Rows(plan[t]))
         IN  /\ DOMAIN decisions = DOMAIN Rows(plan[t])
             /\ e.key \in DOMAIN decisions /\ decisions[e.key] # "inserted"
             /\ decisions[e.key] = "unchanged" => HasVersion(t, e)
<1> DEFINE rows == Rows(plan[t])
           decisions == Decide(t, rows)
<1>1. PICK parents, interval : decisions = Decisions(db[t], parents, rows, interval)
  BY DecideIs
<1>2. t \in KeyedByItem
  BY DEF KeyedByItem, PlannedTables, VersionTables
<1>3. e.key \in DOMAIN rows /\ rows[e.key] = e.row
  BY <1>2, RowsOfItems
<1> HIDE DEF rows, decisions
<1>4. DOMAIN decisions = DOMAIN rows /\ decisions[e.key] = Decision(db[t], parents, e.key, e.row, interval)
  BY <1>1, <1>3 DEF Decisions
<1>5. ASSUME decisions[e.key] = "unchanged" PROVE HasVersion(t, e)
  <2>1. \E l \in LatestAt(db[t], e.key[1], e.key[2]) : db[t][l] = e.row
    BY <1>4, <1>5 DEF Decision
  <2>2. QED
    BY <2>1 DEF LatestAt, HasVersion
<1>6. decisions[e.key] # "inserted"
  BY <1>4 DEF Decision
<1>7. QED
  BY <1>3, <1>4, <1>5, <1>6 DEF rows, decisions

AllTold == \A p \in Requests : Decided(req[p]) /\ Truthful(req[p])

\* What the inductive step starts from.
Inductive == Shaped /\ IsStore(db) /\ AllStaged /\ SoundStore /\ AllTold

\* Plans are plans of batches that meet the contract.
LEMMA PlansAre ==
  ASSUME Shaped, AllStaged, NEW q \in Requests
  PROVE  BatchOK(req[q].batch) /\ PlanFrom(req[q].batch, req[q].plan)
  BY BatchesOK DEF AllStaged, Staged

\* What was truly told stays true.
LEMMA TruthStays ==
  ASSUME Shaped, AllStaged, SoundStore, Grows(db, db'),
         NEW q \in Requests, NEW t \in DataTables, NEW e \in req[q].plan[t], StoredAs(t, e)
  PROVE  StoredAs(t, e)'
<1>1. t \in FilledTables => HasColumns(t, e.row)
  BY PlansAre, EntryColumns
<1>2. QED
  BY <1>1, StoredStays

\* A request that does not move.
LEMMA OthersStay ==
  ASSUME Inductive, Grows(db, db'), NEW q \in Requests, req'[q] = req[q]
  PROVE  (Decided(req[q]) /\ Truthful(req[q]))'
<1>1. Decided(req[q])'
  <2>1. Decided(req[q])
    BY DEF Inductive, AllTold
  <2>2. QED
    BY <2>1, VersionStays DEF Decided
<1>2. Truthful(req[q])'
  <2>1. Truthful(req[q])
    BY DEF Inductive, AllTold
  <2>2. ASSUME NEW t \in DataTables, NEW e \in req[q].plan[t], Told(req[q].results, e, t)
        PROVE  StoredAs(t, e)'
    BY <2>1, <2>2, TruthStays DEF Truthful, Inductive
  <2>3. QED
    BY <2>2 DEF Truthful
<1>3. QED
  BY <1>1, <1>2

\* Results stay truthful when each new one tells what is stored.
LEMMA TruthfulNext ==
  ASSUME Inductive, Grows(db, db'), NEW p \in Requests, req'[p].plan = req[p].plan,
         \A t \in DataTables : \A e \in req[p].plan[t] :
           Told(req'[p].results, e, t) => Told(req[p].results, e, t) \/ StoredAs(t, e)'
  PROVE  Truthful(req[p])'
<1>1. Truthful(req[p])
  BY DEF Inductive, AllTold
<1>2. ASSUME NEW t \in DataTables, NEW e \in req[p].plan[t], Told(req'[p].results, e, t)
      PROVE  StoredAs(t, e)'
  BY <1>1, <1>2, TruthStays DEF Truthful, Inductive
<1>3. QED
  BY <1>2 DEF Truthful

\* A request that goes on has decided nothing.
LEMMA ProceedsDecided ==
  ASSUME NEW p, Proceeds(p)
  PROVE  Decided(req[p])'
  BY DEF Proceeds, Decided

\* Without new results nothing is told.
LEMMA TruthfulSame ==
  ASSUME Inductive, Grows(db, db'), NEW p \in Requests, req'[p].plan = req[p].plan,
         req'[p].results = req[p].results
  PROVE  Truthful(req[p])'
  BY TruthfulNext DEF Told

\* The steps that give no data an answer.
LEMMA DecideTells ==
  ASSUME Inductive, Grows(db, db'), NEW p \in Requests, DecideVersions(p)
  PROVE  (Decided(req[p]) /\ Truthful(req[p]))'
<1> DEFINE s == req[p]
           decisions == Decide(s.step, Rows(s.plan[s.step]))
<1>1. /\ db' = db /\ s.step \in VersionTables /\ req'[p].step = s.step
      /\ req'[p].snapshot = [decisions |-> decisions, seen |-> seen]
      /\ req'[p].plan = s.plan /\ req'[p].results = s.results
  BY DecideVersionsTurn DEF Inductive
<1>2. ASSUME NEW e \in s.plan[s.step]
      PROVE  /\ e.key \in DOMAIN decisions /\ decisions[e.key] # "inserted"
             /\ decisions[e.key] = "unchanged" => HasVersion(s.step, e)
  BY <1>1, PlansAre, DecidesOnAll DEF Inductive
<1> HIDE DEF decisions
<1>3. req'[p].snapshot.decisions = decisions
  BY <1>1
<1>4. Decided(req[p])'
  BY <1>1, <1>2, <1>3 DEF Decided, HasVersion
<1>5. Truthful(req[p])'
  BY <1>1, TruthfulSame
<1>6. QED
  BY <1>4, <1>5

\* The steps that decide on no version.
LEMMA NoVersionStep ==
  /\ \A t \in LookupTables \cup RefTables \cup {"convert", "done", "gone", "relations"} : t \notin VersionTables
  BY DEF LookupTables, RefTables, VersionTables

\* A lookup tells nothing.
LEMMA LookupTells ==
  ASSUME Inductive, Grows(db, db'), NEW p \in Requests,
         ReadLookup(p) \/ (\E o \in Outcomes : CommitLookup(p, o)) \/ PlanRelations(p) \/ Abandon(p)
  PROVE  (Decided(req[p]) /\ Truthful(req[p]))'
<1>1. req'[p].plan = req[p].plan /\ req'[p].results = req[p].results
  BY ReadLookupTurn, CommitLookupTurn, PlanRelationsTurn, AbandonTurn DEF Inductive
<1>2. Truthful(req[p])'
  BY <1>1, TruthfulSame
<1>3. Decided(req[p])'
  <2>1. CASE ReadLookup(p)
    BY <2>1, ReadLookupTurn, NoVersionStep DEF Inductive, Decided
  <2>2. CASE \E o \in Outcomes : CommitLookup(p, o)
    <3>1. Proceeds(p) \/ req'[p].step = "convert"
      BY <2>2, CommitLookupTurn DEF Inductive
    <3>2. CASE req'[p].step = "convert"
      BY <3>2, NoVersionStep DEF Decided
    <3>3. QED
      BY <3>1, <3>2, ProceedsDecided
  <2>3. CASE Abandon(p)
    <3>1. req'[p].step = "gone"
      BY <2>3, AbandonTurn DEF Inductive
    <3>2. QED
      BY <3>1, NoVersionStep DEF Decided
  <2>4. CASE PlanRelations(p)
    <3>1. req[p].step \in RefTables /\ req'[p].step = After(req[p], req[p].step)
      BY <2>4, PlanRelationsTurn DEF Inductive
    <3>2. PICK n \in 18..21 : req[p].step = Steps[n]
      BY <3>1, RefTablesAre
    <3>3. req'[p].step = Steps[n + 1]
      BY <3>1, <3>2, PlanningGoesOn DEF Inductive, AllStaged
    <3>4. req'[p].step \in RefTables \cup {"relations"}
      BY <3>3, StepNames DEF RefTables
    <3>5. QED
      BY <3>4, NoVersionStep DEF Decided
  <2>5. QED
    BY <2>1, <2>2, <2>3, <2>4
<1>4. QED
  BY <1>2, <1>3

\* The conversion tells nothing.
LEMMA ConvertTells ==
  ASSUME Inductive, NEW p \in Requests, NEW failing, Convert(p, failing)
  PROVE  (Decided(req[p]) /\ Truthful(req[p]))'
<1>1. /\ Proceeds(p)
      /\ req'[p].results = Refusals(req[p].batch) \cup ConversionFailures(req[p].batch, req'[p].plan)
  BY ConvertTurn DEF Inductive
<1>2. \A r \in req'[p].results : r.why \notin {"inserted", "unchanged"}
  <2>1. \A r \in Refusals(req[p].batch) : r.why \notin {"inserted", "unchanged"}
    BY RefusedIs
  <2>2. \A r \in ConversionFailures(req[p].batch, req'[p].plan) : r.why \notin {"inserted", "unchanged"}
    BY FailuresConcern
  <2>3. QED
    BY <1>1, <2>1, <2>2
<1>3. Truthful(req[p])'
  BY <1>2 DEF Truthful, Told
<1>4. QED
  BY <1>1, <1>3, ProceedsDecided

\* Results of other operations tell nothing of the data.
LEMMA OtherResults ==
  ASSUME Inductive, Grows(db, db'), NEW p \in Requests, req'[p].plan = req[p].plan, NEW ops,
         \A r \in req'[p].results : r \in req[p].results \/ r.op \in ops \/ r.why = "statement",
         \A t \in DataTables : \A e \in req[p].plan[t] : OpName(e, t) \notin ops
  PROVE  Truthful(req[p])'
  BY TruthfulNext DEF Told

\* The results of transfers and syncs tell nothing of data.
LEMMA RestTells ==
  ASSUME Inductive, Grows(db, db'), NEW p \in Requests,
         \/ \E o \in Outcomes : Preload(p, o)
         \/ \E o \in Outcomes, c \in BOOLEAN : EnqueueTransfers(p, o, c)
         \/ \E o \in Outcomes, c \in BOOLEAN : CommitRelations(p, o, c)
  PROVE  (Decided(req[p]) /\ Truthful(req[p]))'
<1> DEFINE s == req[p]
           ops == RefTables \cup {"media_transfer"}
<1>1. ASSUME NEW t \in DataTables, NEW e \in s.plan[t] PROVE OpName(e, t) \notin ops
  <2>1. OpName(e, t) # "media_transfer"
    BY OpNameOther
  <2>2. OpName(e, t) \notin RefTables
    BY DEF OpName, RefTables, DataTables, FilledTables, VersionTables
  <2>3. QED
    BY <2>1, <2>2
<1>2. CASE \E o \in Outcomes : Preload(p, o)
  <2>1. /\ req'[p].plan = s.plan
        /\ \/ Proceeds(p) /\ req'[p].results = s.results
           \/ /\ req'[p].step = "done"
              /\ \E items : req'[p].results = s.results \cup
                   {Result(x, "dict_preload", "failed", "statement") : x \in items}
    BY <1>2, PreloadTurn DEF Inductive
  <2>2. Decided(req[p])'
    BY <2>1, ProceedsDecided, NoVersionStep DEF Decided
  <2>3. \A r \in req'[p].results : r \in s.results \/ r.op \in ops \/ r.why = "statement"
    BY <2>1, ResultIs
  <2> HIDE DEF ops
  <2>4. Truthful(req[p])'
    BY <1>1, <2>1, <2>3, OtherResults
  <2>5. QED
    BY <2>2, <2>4
<1>3. CASE \E o \in Outcomes, c \in BOOLEAN : EnqueueTransfers(p, o, c)
  <2>1. PICK added : /\ Proceeds(p) /\ req'[p].plan = s.plan /\ req'[p].results = s.results \cup added
                     /\ \A r \in added : r.op = "media_transfer"
    <3>1. PICK o \in Outcomes, c \in BOOLEAN : EnqueueTransfers(p, o, c)
      BY <1>3
    <3>2. Proceeds(p) /\ req'[p].plan = s.plan
      BY <3>1, EnqueueTransfersTurn DEF Inductive
    <3>3. \E added : /\ req'[p].results = s.results \cup added
                     /\ \A r \in added : /\ r.op = "media_transfer"
                                         /\ \E e \in s.plan["media_resource"] : r.item = e.item
      BY <3>1, EnqueueTransfersTurn DEF Inductive
    <3>4. QED
      BY <3>2, <3>3
  <2>2. \A r \in req'[p].results : r \in s.results \/ r.op \in ops \/ r.why = "statement"
    BY <2>1
  <2> HIDE DEF ops
  <2>3. Truthful(req[p])'
    BY <1>1, <2>1, <2>2, OtherResults
  <2>4. QED
    BY <2>1, <2>3, ProceedsDecided
<1>4. CASE \E o \in Outcomes, c \in BOOLEAN : CommitRelations(p, o, c)
  <2> DEFINE entries == s.plan["relations"]
             plans == s.snapshot.plans
  <2>1. /\ Proceeds(p) /\ req'[p].plan = s.plan
        /\ \/ req'[p].results = s.results \cup UNION {Failures(entries, t) : t \in RefTables}
           \/ req'[p].results = s.results \cup UNION {Reports(entries, t, plans[t].status) : t \in RefTables}
    BY <1>4, CommitRelationsTurn DEF Inductive
  <2>2. \A t \in RefTables : \A e \in entries : OpName(e, t) = t
    BY DEF OpName, RefTables
  <2> HIDE DEF entries, plans
  <2>3. \A t \in RefTables : \A r \in Failures(entries, t) \cup Reports(entries, t, plans[t].status) : r.op \in ops
    BY <2>2, ResultIs DEF Failures, Reports
  <2> HIDE DEF s
  <2>4. \A r \in req'[p].results : r \in s.results \/ r.op \in ops \/ r.why = "statement"
    <3>1. CASE req'[p].results = s.results \cup UNION {Failures(entries, t) : t \in RefTables}
      BY <2>3, <3>1
    <3>2. CASE req'[p].results = s.results \cup UNION {Reports(entries, t, plans[t].status) : t \in RefTables}
      BY <2>3, <3>2
    <3>3. QED
      BY <2>1, <3>1, <3>2
  <2> HIDE DEF ops
  <2>5. Truthful(req[p])'
    BY <1>1, <2>1, <2>4, OtherResults DEF s
  <2>6. QED
    BY <2>1, <2>5, ProceedsDecided
<1>5. QED
  BY <1>2, <1>3, <1>4

\* What WriteRows calls written or there, is.
LEMMA WriteTells ==
  ASSUME Inductive, Grows(db, db'), SoundStore', NEW p \in Requests, NEW o, WriteRows(p, o)
  PROVE  (Decided(req[p]) /\ Truthful(req[p]))'
<1> DEFINE s == req[p]
           t == s.step
           rows == Rows(s.plan[t])
           parents == ParentsOf(t, rows)
           verdict == ChildStatus(db[t], rows, FilledColumns(t), parents)
<1>1. /\ Proceeds(p) /\ t \in FilledTables /\ req'[p].plan = s.plan
      /\ \/ db' = Write(t, rows) /\ req'[p].results = s.results \cup Reports(s.plan[t], t, verdict)
         \/ req'[p].results = s.results \cup Failures(s.plan[t], t)
  BY WriteRowsTurn DEF Inductive
<1>2. t \in DataTables /\ t \in PlannedTables /\ t \notin VersionTables
  BY <1>1, KindsOfTables DEF DataTables, PlannedTables
<1>3. BatchOK(s.batch) /\ PlanFrom(s.batch, s.plan) /\ IsStore(db) /\ SoundStore
  BY PlansAre DEF Inductive
<1>4. ASSUME NEW u \in DataTables, NEW e \in s.plan[u], Told(req'[p].results, e, u), ~Told(s.results, e, u)
      PROVE  StoredAs(u, e)'
  <2> DEFINE results == s.results
             more == req'[p].results
             plan == s.plan
  <2>1. Adds(results, more, plan[t], t, verdict)
    BY <1>1 DEF Adds
  <2>2. PlanFrom(s.batch, plan) /\ e \in plan[u] /\ Told(more, e, u) /\ ~Told(results, e, u)
    BY <1>3, <1>4
  <2>3. u = t /\ verdict[e.key] \in {"inserted", "unchanged"}
    <3> HIDE DEF results, more, plan, verdict, t, s
    <3>1. QED
      BY <1>2, <2>1, <2>2, ToldBy
  <2>4. more # results \cup Failures(plan[t], t)
    <3> HIDE DEF results, more, plan, t, s
    <3>1. QED
      BY <2>2, FailureTellsNot
  <2>5. db' = Write(t, rows)
    BY <1>1, <2>4
  <2>6. e.key \in DOMAIN rows
    <3>1. e \in s.plan[t]
      BY <2>3
    <3> DEFINE entries == s.plan[t]
    <3> HIDE DEF entries
    <3>2. DOMAIN Rows(entries) = {f.key : f \in entries}
      BY RowsDomain
    <3>3. QED
      BY <3>1, <3>2 DEF entries
  <2>7. e.key \in parents
    BY <2>3, <2>6 DEF ChildStatus
  <2>8. rows = [k \in DOMAIN rows |-> rows[k]]
    BY RowsIsFunction
  <2> DEFINE given == OfParents(rows, parents)
  <2>9. db'[t] = Upsert(db[t], given, FilledColumns(t))
    <3> HIDE DEF rows
    <3>1. QED
      BY <1>1, <1>3, <2>5, <2>8, WriteIs
  <2>10. e.key \in DOMAIN given /\ given[e.key] = rows[e.key]
    BY <2>6, <2>7 DEF OfParents
  <2>11. HasColumns(t, rows[e.key])
    BY <1>1, <1>3, <2>6, RowsHaveColumns
  <2>12. e.key \in DOMAIN db'[t]
    <3> HIDE DEF given
    <3>1. QED
      BY <2>9, <2>10 DEF Upsert
  <2>13. \A c \in DOMAIN rows[e.key] : rows[e.key][c] # Null => db'[t][e.key][c] # Null
    <3>1. e.key \in DOMAIN db[t] => HasColumns(t, db[t][e.key])
      BY <1>1, <1>3 DEF SoundStore
    <3> HIDE DEF given, rows, t
    <3>2. QED
      BY <1>1, <2>9, <2>10, <2>11, <2>12, <3>1, UpsertStores
  <2>14. ASSUME t # "tweet_place", NEW c \in DOMAIN e.row, e.row[c] # Null PROVE rows[e.key] = e.row
    <3>1. CASE t = "twitter_user"
      BY <1>3, <2>2, <2>3, <2>14, <3>1, RowsOfUsers
    <3>2. CASE t # "twitter_user"
      <4>1. t \in KeyedByItem
        BY <1>2, <2>14, <3>2 DEF KeyedByItem
      <4>2. QED
        BY <1>3, <2>2, <2>3, <4>1, RowsOfItems
    <3>3. QED
      BY <3>1, <3>2
  <2>15. t # "tweet_place" => \A c \in DOMAIN e.row : e.row[c] # Null => db'[t][e.key][c] # Null
    BY <2>13, <2>14
  <2>16. /\ t = "twitter_user" => <<"user", e.key>> \in DOMAIN db'["index_queue"]
         /\ t = "tweet" => <<"tweet", e.key>> \in DOMAIN db'["index_queue"]
    BY <2>12 DEF SoundStore
  <2> HIDE DEF rows, t
  <2>17. QED
    BY <1>2, <2>3, <2>12, <2>15, <2>16 DEF StoredAs
<1>5. Truthful(req[p])'
  BY <1>1, <1>4, TruthfulNext
<1>6. QED
  BY <1>1, <1>5, ProceedsDecided

\* What AppendVersions calls inserted or unchanged, is a version that is there.
LEMMA AppendTells ==
  ASSUME Inductive, Grows(db, db'), NEW p \in Requests, NEW o, AppendVersions(p, o)
  PROVE  (Decided(req[p]) /\ Truthful(req[p]))'
<1> DEFINE s == req[p]
           t == s.step
           rows == Rows(s.plan[t])
           decisions == s.snapshot.decisions
           verdict == AppendedStatus(db[t], decisions)
           written == [db EXCEPT ![t] = Appended(@, rows, decisions)]
           new == IF t = "user_snapshot"
                  THEN [written EXCEPT !["index_queue"] = QueueSnapshots(db, decisions)["index_queue"]]
                  ELSE written
<1>1. /\ Proceeds(p) /\ t \in VersionTables /\ s.snapshot # Unread /\ req'[p].plan = s.plan
      /\ \/ o = "ok" /\ req'[p].results = s.results \cup Reports(s.plan[t], t, verdict)
         \/ o # "ok" /\ req'[p].results = s.results \cup Failures(s.plan[t], t)
      /\ o # "failed" => db' = new
  BY AppendVersionsTurn DEF Inductive
<1>2. t \in DataTables /\ t \in KeyedByItem
  BY <1>1 DEF DataTables, KeyedByItem, PlannedTables, VersionTables
<1>3. BatchOK(s.batch) /\ PlanFrom(s.batch, s.plan) /\ IsStore(db)
  BY PlansAre DEF Inductive
<1>4. \A e \in s.plan[t] : /\ e.key \in DOMAIN decisions /\ decisions[e.key] # "inserted"
                           /\ decisions[e.key] = "unchanged" => HasVersion(t, e)
  BY <1>1 DEF Inductive, AllTold, Decided
<1>5. ASSUME NEW u \in DataTables, NEW e \in s.plan[u], Told(req'[p].results, e, u), ~Told(s.results, e, u)
      PROVE  StoredAs(u, e)'
  <2> DEFINE results == s.results
             more == req'[p].results
             plan == s.plan
  <2>1. Adds(results, more, plan[t], t, verdict)
    BY <1>1 DEF Adds
  <2>2. PlanFrom(s.batch, plan) /\ e \in plan[u] /\ Told(more, e, u) /\ ~Told(results, e, u)
    BY <1>3, <1>5
  <2>3. u = t /\ verdict[e.key] \in {"inserted", "unchanged"}
    <3> HIDE DEF results, more, plan, verdict, t, s
    <3>1. QED
      BY <1>2, <2>1, <2>2, ToldBy
  <2>4. o # "failed"
    <3>1. more # results \cup Failures(plan[t], t)
      <4> HIDE DEF results, more, plan, t, s
      <4>1. QED
        BY <2>2, FailureTellsNot
    <3>2. QED
      BY <1>1, <3>1
  <2>5. db' = new
    BY <1>1, <2>4
  <2>6. db'[t] = Appended(db[t], rows, decisions)
    <3>1. KeepsFacts(db, db')
      BY DEF Grows
    <3>2. t \in VersionTables /\ IsStore(db)
      BY <1>1, <1>3
    <3> HIDE DEF rows, decisions, s, t
    <3>3. QED
      BY <2>5, <3>1, <3>2, AppendGrows
  <2>7. e \in s.plan[t]
    BY <2>3
  <2>8. e.key \in DOMAIN decisions
    BY <1>4, <2>7
  <2>9. rows[e.key] = e.row
    BY <1>2, <1>3, <2>7, RowsOfItems
  <2>10. e.key[2] \in Nat
    BY <1>1, <1>3, <2>7, VersionTimes
  <2> HIDE DEF rows, decisions
  <2>11. CASE decisions[e.key] = "unchanged"
    <3>1. HasVersion(u, e) /\ u \in VersionTables
      BY <1>1, <1>4, <2>3, <2>7, <2>11
    <3>2. HasVersion(u, e)'
      BY <3>1, VersionStays
    <3>3. QED
      BY <3>1, <3>2 DEF StoredAs, HasVersion
  <2>12. CASE decisions[e.key] # "unchanged"
    <3>1. decisions[e.key] = "candidate" /\ e.key \notin DOMAIN db[t]
      <4>1. verdict[e.key] = IF decisions[e.key] # "candidate" THEN decisions[e.key]
                             ELSE IF e.key \in DOMAIN db[t] THEN "duplicate" ELSE "inserted"
        BY <2>8 DEF AppendedStatus
      <4>2. verdict[e.key] = "inserted" \/ verdict[e.key] = "unchanged"
        BY <2>3
      <4>3. decisions[e.key] # "inserted"
        BY <1>4, <2>7 DEF decisions
      <4> HIDE DEF verdict
      <4>4. QED
        BY <2>12, <4>1, <4>2, <4>3
    <3>2. e.key \in DOMAIN db'[t] /\ db'[t][e.key] = e.row
      BY <2>6, <2>8, <2>9, <3>1 DEF Appended, Candidates
    <3>3. u \in VersionTables /\ e.key[2] <= e.key[2]
      BY <1>1, <2>3, <2>10
    <3> HIDE DEF t
    <3>4. QED
      BY <2>3, <3>2, <3>3 DEF StoredAs
  <2>13. QED
    BY <2>11, <2>12
<1>6. Truthful(req[p])'
  BY <1>1, <1>5, TruthfulNext
<1>7. QED
  BY <1>1, <1>6, ProceedsDecided

\* Every step keeps the inductive invariant.
LEMMA AllToldKept ==
  ASSUME Inductive, [Next]_vars
  PROVE  Inductive'
<1>1. /\ Shaped' /\ IsStore(db)' /\ AllStaged' /\ SoundStore' /\ Grows(db, db')
      /\ Requests' = Requests
  BY ShapeKept, AllStagedKept, SoundKept, NextGrows DEF Inductive
<1>2. CASE Quiet
  <2>1. \A q \in Requests : (Decided(req[q]) /\ Truthful(req[q]))'
    BY <1>1, <1>2, OthersStay DEF Quiet
  <2>2. QED
    BY <1>1, <2>1 DEF Inductive, AllTold
<1>3. ASSUME NEW p \in Requests, Turn(p), (Decided(req[p]) /\ Truthful(req[p]))' PROVE Inductive'
  <2>1. ASSUME NEW q \in Requests PROVE (Decided(req[q]) /\ Truthful(req[q]))'
    <3>1. CASE q = p
      BY <1>3, <3>1
    <3>2. CASE q # p
      BY <1>1, <1>3, <3>2, TurnKeepsShape, OthersStay DEF Inductive
    <3>3. QED
      BY <3>1, <3>2
  <2>2. QED
    BY <1>1, <2>1 DEF Inductive, AllTold
<1>4. ASSUME NEW p \in Requests, NEW o, WriteRows(p, o) PROVE Inductive'
  BY <1>1, <1>3, <1>4, WriteTells, WriteRowsTurn DEF Inductive, Proceeds
<1>5. ASSUME NEW p \in Requests, NEW o, AppendVersions(p, o) PROVE Inductive'
  BY <1>1, <1>3, <1>5, AppendTells, AppendVersionsTurn DEF Inductive, Proceeds
<1>6. ASSUME NEW p \in Requests, NEW failing, Convert(p, failing) PROVE Inductive'
  BY <1>3, <1>6, ConvertTells, ConvertTurn DEF Inductive, Proceeds
<1>7. ASSUME NEW p \in Requests, DecideVersions(p) PROVE Inductive'
  BY <1>1, <1>3, <1>7, DecideTells, DecideVersionsTurn DEF Inductive
<1>8. ASSUME NEW p \in Requests,
             ReadLookup(p) \/ (\E o \in Outcomes : CommitLookup(p, o)) \/ PlanRelations(p) \/ Abandon(p)
      PROVE  Inductive'
  <2>1. Turn(p)
    BY <1>8, ReadLookupTurn, CommitLookupTurn, PlanRelationsTurn, AbandonTurn DEF Inductive
  <2>2. QED
    BY <1>1, <1>3, <1>8, <2>1, LookupTells
<1>9. ASSUME NEW p \in Requests,
             \/ \E o \in Outcomes : Preload(p, o)
             \/ \E o \in Outcomes, c \in BOOLEAN : EnqueueTransfers(p, o, c)
             \/ \E o \in Outcomes, c \in BOOLEAN : CommitRelations(p, o, c)
      PROVE  Inductive'
  <2>1. Turn(p)
    BY <1>9, PreloadTurn, EnqueueTransfersTurn, CommitRelationsTurn DEF Inductive, Proceeds
  <2>2. QED
    BY <1>1, <1>3, <1>9, <2>1, RestTells
<1>10. QED
  BY <1>2, <1>4, <1>5, <1>6, <1>7, <1>8, <1>9, StepsAre DEF Moves

\* It holds at first.
LEMMA InductiveAtFirst == Init => Inductive
<1> SUFFICES ASSUME Init PROVE Inductive
  OBVIOUS
<1>1. Shaped /\ IsStore(db)
  BY ShapeAtFirst
<1>2. req = [p \in Requests |-> Started(load.batches[p])]
  BY DEF Init
<1>3. AllStaged
  BY <1>2, StagedAtFirst DEF AllStaged
<1>4. \A t \in Tables : db[t] = << >>
  BY DEF Init
<1>5. SoundStore
  <2>1. \A t \in FilledTables \cup {"twitter_user", "tweet"} : DOMAIN db[t] = {}
    BY <1>4, KindsOfTables DEF FilledTables
  <2>2. QED
    BY <2>1 DEF SoundStore
<1>6. \A p \in Requests : req[p].results = {} /\ req[p].snapshot = Unread
  BY <1>2, StartedIs
<1>7. AllTold
  BY <1>6 DEF AllTold, Decided, Truthful, Told
<1>8. QED
  BY <1>1, <1>3, <1>5, <1>7 DEF Inductive

\* What a response calls written or already there is in the store and stays,
\* whatever is submitted at the same time and whatever fails.
THEOREM ReportedTheorem == Spec => []ReportedIsStored
<1>1. Spec => []Inductive
  BY InductiveAtFirst, AllToldKept, PTL DEF Spec
<1>2. Inductive => ReportedIsStored
  BY DEF Inductive, AllTold, Truthful, Told, ReportedIsStored, DataTables
<1>3. QED
  BY <1>1, <1>2, PTL

-----------------------------------------------------------------------------
(* The sync of a tweet's references.                                       *)

\* What entry e wants table t to hold for its tweet.
Wanted(e, t, media) ==
  [k \in {k \in DOMAIN e.row[t] : t = "tweet_media_ref" => k[2] \in media} |-> e.row[t][k]]

\* The references of a tweet are its own.
LEMMA RefsOfTweet ==
  ASSUME NEW w, NEW t \in RefTables, NEW k \in DOMAIN RefsOf(w)[t]
  PROVE  k[1] = w.id
<1>1. CASE t = "tweet_media_ref"
  BY <1>1 DEF RefsOf, MediaRefs
<1>3. CASE t = "tweet_mention_ref"
  <2>1. RefsOf(w)[t] = TextRefs(w, Mentions)
    BY <1>3 DEF RefsOf
  <2>2. QED
    BY <2>1 DEF TextRefs
<1>4. CASE t = "tweet_hashtag_ref"
  <2>1. RefsOf(w)[t] = TextRefs(w, Tags)
    BY <1>4 DEF RefsOf
  <2>2. QED
    BY <2>1 DEF TextRefs
<1>5. CASE t = "tweet_symbol_ref"
  <2>1. RefsOf(w)[t] = TextRefs(w, Symbols)
    BY <1>5 DEF RefsOf
  <2>2. QED
    BY <2>1 DEF TextRefs
<1>6. QED
  BY <1>1, <1>3, <1>4, <1>5 DEF RefTables

\* So are those of its entry.
LEMMA RefsOfEntry ==
  ASSUME NEW b, NEW plan, PlanFrom(b, plan), NEW e \in plan["relations"], NEW t \in RefTables,
         NEW k \in DOMAIN e.row[t]
  PROVE  k[1] = e.key
<1>1. e = EntryOf(b, "relations", e.item)
  BY DEF PlanFrom, PlannedTables
<1>2. e.key = Item(b, e.item).id /\ e.row = RefsOf(Item(b, e.item))
  BY <1>1, EntryItem DEF EntryOf
<1>3. QED
  BY <1>2, RefsOfTweet

\* Taken together, each tweet still has those of its entry.
LEMMA RefsOfAllIs ==
  ASSUME NEW b, BatchOK(b), NEW plan, PlanFrom(b, plan), NEW t \in RefTables,
         NEW e \in plan["relations"]
  PROVE  LET refs == RefsOfAll(plan["relations"], t)
         IN  /\ {k \in DOMAIN refs : k[1] = e.key} = DOMAIN e.row[t]
             /\ \A k \in DOMAIN e.row[t] : refs[k] = e.row[t][k]
<1> DEFINE entries == plan["relations"]
           refs == RefsOfAll(entries, t)
<1>1. "relations" \in KeyedByItem
  BY DEF KeyedByItem, PlannedTables
<1>2. \A f \in entries : f.key = e.key => f = e
  BY <1>1, KeysApart
<1>3. \A f \in entries : \A k \in DOMAIN f.row[t] : k[1] = f.key
  BY RefsOfEntry
<1> HIDE DEF entries
<1>4. DOMAIN refs = UNION {DOMAIN f.row[t] : f \in entries}
  BY DEF RefsOfAll
<1>5. e \in entries
  BY DEF entries
<1>6. {k \in DOMAIN refs : k[1] = e.key} = DOMAIN e.row[t]
  <2> HIDE DEF refs
  <2>1. QED
    BY <1>2, <1>3, <1>4, <1>5
<1>7. ASSUME NEW k \in DOMAIN e.row[t] PROVE refs[k] = e.row[t][k]
  <2>1. k \in DOMAIN refs
    BY <1>4, <1>5
  <2>2. k[1] = e.key
    BY <1>3, <1>5
  <2>3. refs[k] = (CHOOSE f \in entries : f.key = k[1]).row[t][k]
    BY <2>1 DEF RefsOfAll
  <2>4. (CHOOSE f \in entries : f.key = k[1]) = e
    BY <1>2, <1>5, <2>2
  <2>5. QED
    BY <2>3, <2>4
<1>8. QED
  BY <1>6, <1>7 DEF entries

\* What a plan leaves of a tweet's references.
LEMMA SyncedOther ==
  ASSUME NEW table, NEW plan, NEW i, \A k \in plan.deleted \cup DOMAIN plan.inserted : k[1] # i
  PROVE  OfTweet(Synced(table, plan), i) = OfTweet(table, i)
<1> DEFINE new == Synced(table, plan)
<1>1. DOMAIN new = (DOMAIN table \ plan.deleted) \cup DOMAIN plan.inserted
  BY DEF Synced
<1>2. \A k \in DOMAIN new : k[1] = i => new[k] = table[k]
  BY DEF Synced
<1> HIDE DEF new
<1>3. {k \in DOMAIN new : k[1] = i} = {k \in DOMAIN table : k[1] = i}
  BY <1>1
<1>4. \A k \in {k \in DOMAIN new : k[1] = i} : new[k] = table[k]
  BY <1>2
<1>5. OfTweet(new, i) = OfTweet(table, i)
  BY <1>3, <1>4 DEF OfTweet
<1>6. QED
  BY <1>5 DEF new

\* What it means that two tables agree on a tweet.
LEMMA OfTweetSame ==
  ASSUME NEW old, NEW new, NEW i, OfTweet(old, i) = OfTweet(new, i)
  PROVE  /\ \A k : k[1] = i => (k \in DOMAIN old <=> k \in DOMAIN new)
         /\ \A k \in DOMAIN old : k[1] = i => old[k] = new[k]
<1>1. DOMAIN OfTweet(old, i) = {k \in DOMAIN old : k[1] = i}
  BY DEF OfTweet
<1>2. DOMAIN OfTweet(new, i) = {k \in DOMAIN new : k[1] = i}
  BY DEF OfTweet
<1>3. \A k : k[1] = i => (k \in DOMAIN old <=> k \in DOMAIN new)
  BY <1>1, <1>2
<1>4. ASSUME NEW k \in DOMAIN old, k[1] = i PROVE old[k] = new[k]
  <2>1. OfTweet(old, i)[k] = old[k]
    BY <1>4 DEF OfTweet
  <2>2. OfTweet(new, i)[k] = new[k]
    BY <1>3, <1>4 DEF OfTweet
  <2>3. QED
    BY <2>1, <2>2
<1>5. QED
  BY <1>3, <1>4

\* A plan leaves alike what was alike.
LEMMA SyncedAlike ==
  ASSUME NEW old, NEW new, NEW plan, NEW i, OfTweet(old, i) = OfTweet(new, i)
  PROVE  OfTweet(Synced(old, plan), i) = OfTweet(Synced(new, plan), i)
<1> DEFINE f == Synced(old, plan)
           g == Synced(new, plan)
<1>1. /\ \A k : k[1] = i => (k \in DOMAIN old <=> k \in DOMAIN new)
      /\ \A k \in DOMAIN old : k[1] = i => old[k] = new[k]
  BY OfTweetSame
<1>2. /\ DOMAIN f = (DOMAIN old \ plan.deleted) \cup DOMAIN plan.inserted
      /\ DOMAIN g = (DOMAIN new \ plan.deleted) \cup DOMAIN plan.inserted
      /\ \A k \in DOMAIN f : f[k] = IF k \in DOMAIN plan.inserted THEN plan.inserted[k] ELSE old[k]
      /\ \A k \in DOMAIN g : g[k] = IF k \in DOMAIN plan.inserted THEN plan.inserted[k] ELSE new[k]
  BY DEF Synced
<1> HIDE DEF f, g
<1>3. {k \in DOMAIN f : k[1] = i} = {k \in DOMAIN g : k[1] = i}
  BY <1>1, <1>2
<1>4. \A k \in {k \in DOMAIN f : k[1] = i} : f[k] = g[k]
  BY <1>1, <1>2
<1>5. OfTweet(f, i) = OfTweet(g, i)
  BY <1>3, <1>4 DEF OfTweet
<1>6. QED
  BY <1>5 DEF f, g

IsSync(plan, t, ids, refs, desired) == plan = SyncPlan(db, t, ids, refs, desired)

\* A plan leaves of each tweet what is desired, and touches no other.
LEMMA SyncPlanIs ==
  ASSUME NEW t, NEW ids, NEW refs, NEW desired, NEW plan, IsSync(plan, t, ids, refs, desired),
         NEW i \in ids
  PROVE  /\ \A k \in plan.deleted \cup DOMAIN plan.inserted :
              k[1] \in ids /\ plan.status[k[1]] # "missing_tweet"
         /\ plan.status[i] # "missing_tweet" =>
              /\ i \in DOMAIN db["tweet"]
              /\ OfTweet(Synced(db[t], plan), i) = OfTweet(desired, i)
<1> DEFINE tweets == DOMAIN db["tweet"]
           changed == {j \in ids \cap tweets : OfTweet(desired, j) # OfTweet(db[t], j)}
<1>1. /\ plan.deleted = {k \in DOMAIN db[t] : k[1] \in changed}
      /\ plan.inserted = [k \in {k \in DOMAIN desired : k[1] \in changed} |-> desired[k]]
  BY DEF SyncPlan, IsSync
<1>2. \A j \in ids : plan.status[j] # "missing_tweet" <=> j \in tweets
  BY DEF SyncPlan, IsSync
<1>3. DOMAIN plan.inserted = {k \in DOMAIN desired : k[1] \in changed}
  BY <1>1
<1>4. \A k \in plan.deleted \cup DOMAIN plan.inserted : k[1] \in changed
  BY <1>1, <1>3
<1>5. \A k \in plan.deleted \cup DOMAIN plan.inserted : k[1] \in ids /\ plan.status[k[1]] # "missing_tweet"
  BY <1>2, <1>4
<1>6. ASSUME i \in tweets PROVE OfTweet(Synced(db[t], plan), i) = OfTweet(desired, i)
  <2>1. CASE i \notin changed
    <3>1. OfTweet(Synced(db[t], plan), i) = OfTweet(db[t], i)
      BY <1>4, <2>1, SyncedOther
    <3>2. OfTweet(desired, i) = OfTweet(db[t], i)
      BY <1>6, <2>1
    <3>3. QED
      BY <3>1, <3>2
  <2>2. CASE i \in changed
    <3> DEFINE new == Synced(db[t], plan)
    <3> HIDE DEF changed
    <3>1. /\ DOMAIN new = (DOMAIN db[t] \ plan.deleted) \cup DOMAIN plan.inserted
          /\ \A k \in DOMAIN plan.inserted : new[k] = plan.inserted[k]
      BY DEF Synced
    <3> HIDE DEF new
    <3>2. {k \in DOMAIN new : k[1] = i} = {k \in DOMAIN desired : k[1] = i}
      BY <1>1, <1>3, <2>2, <3>1
    <3>3. ASSUME NEW k \in DOMAIN desired, k[1] = i PROVE new[k] = desired[k]
      <4>1. k \in DOMAIN plan.inserted
        BY <1>3, <2>2, <3>3
      <4>2. plan.inserted[k] = desired[k]
        BY <1>1, <2>2, <3>3
      <4>3. QED
        BY <3>1, <4>1, <4>2
    <3>4. OfTweet(new, i) = OfTweet(desired, i)
      BY <3>2, <3>3 DEF OfTweet
    <3>5. QED
      BY <3>4 DEF new
  <2>3. QED
    BY <2>1, <2>2
<1>7. QED
  BY <1>2, <1>5, <1>6

\* What refs have of a tweet, less the media that are not stored.
RefsThere(refs, t, i) ==
  [k \in {k \in DOMAIN refs : k[1] = i /\ (t = "tweet_media_ref" => k[2] \in DOMAIN db["media"])} |-> refs[k]]

\* The plan of each table is a sync with what its tweets want.
LEMMA PlanRefsIs ==
  ASSUME NEW t \in RefTables, NEW ids, NEW refs
  PROVE  \E desired :
           /\ IsSync(PlanRefs(t, ids, refs), t, ids, refs, desired)
           /\ \A i \in DOMAIN db["tweet"] :
                OfTweet(desired, i) = RefsThere(refs, t, i)
<1> DEFINE effective == EffectiveRefs(db, refs)
           kept == [k \in {k \in DOMAIN effective : k[2] \in DOMAIN db["media"]} |-> effective[k]]
<1>1. /\ DOMAIN effective = {k \in DOMAIN refs : k[1] \in DOMAIN db["tweet"]}
      /\ \A k \in DOMAIN effective : effective[k] = refs[k]
  BY DEF EffectiveRefs
<1> HIDE DEF effective
<1>2. /\ DOMAIN kept = {k \in DOMAIN effective : k[2] \in DOMAIN db["media"]}
      /\ \A k \in DOMAIN kept : kept[k] = refs[k]
  BY <1>1
<1>3. CASE t = "tweet_media_ref"
  <2>1. PlanRefs(t, ids, refs) = SyncPlan(db, t, ids, refs, kept)
    BY <1>3 DEF PlanRefs, PlanMediaRefs, effective
  <2> HIDE DEF kept
  <2>2. ASSUME NEW i \in DOMAIN db["tweet"]
        PROVE  OfTweet(kept, i) = RefsThere(refs, t, i)
    <3>1. {k \in DOMAIN kept : k[1] = i} =
            {k \in DOMAIN refs : k[1] = i /\ (t = "tweet_media_ref" => k[2] \in DOMAIN db["media"])}
      BY <1>1, <1>2, <1>3
    <3>2. \A k \in {k \in DOMAIN kept : k[1] = i} : kept[k] = refs[k]
      BY <1>2
    <3>3. QED
      BY <3>1, <3>2 DEF OfTweet, RefsThere
  <2>3. QED
    BY <2>1, <2>2 DEF IsSync
<1>4. CASE t # "tweet_media_ref"
  <2>1. PlanRefs(t, ids, refs) = SyncPlan(db, t, ids, refs, effective)
    BY <1>4 DEF PlanRefs, PlanMentionRefs, PlanHashtagRefs, PlanSymbolRefs, effective, RefTables
  <2>2. ASSUME NEW i \in DOMAIN db["tweet"]
        PROVE  OfTweet(effective, i) = RefsThere(refs, t, i)
    <3>1. {k \in DOMAIN effective : k[1] = i} =
            {k \in DOMAIN refs : k[1] = i /\ (t = "tweet_media_ref" => k[2] \in DOMAIN db["media"])}
      BY <1>1, <1>4
    <3>2. \A k \in {k \in DOMAIN effective : k[1] = i} : effective[k] = refs[k]
      BY <1>1
    <3>3. QED
      BY <3>1, <3>2 DEF OfTweet, RefsThere
  <2>3. QED
    BY <2>1, <2>2 DEF IsSync
<1>5. QED
  BY <1>3, <1>4

\* A plan just made gives each tweet that is there what its entry wants.
LEMMA PlanGivesWanted ==
  ASSUME NEW b, BatchOK(b), NEW plan, PlanFrom(b, plan), NEW t \in RefTables
  PROVE  LET entries == plan["relations"]
             new == PlanRefs(t, {e.key : e \in entries}, RefsOfAll(entries, t))
         IN  /\ \A k \in new.deleted \cup DOMAIN new.inserted :
                  (\E e \in entries : e.key = k[1]) /\ new.status[k[1]] # "missing_tweet"
             /\ \A e \in entries : new.status[e.key] # "missing_tweet" =>
                  OfTweet(Synced(db[t], new), e.key) = Wanted(e, t, DOMAIN db["media"])
<1> DEFINE entries == plan["relations"]
           ids == {e.key : e \in entries}
           refs == RefsOfAll(entries, t)
           new == PlanRefs(t, ids, refs)
           media == DOMAIN db["media"]
<1>1. PICK desired :
        /\ IsSync(new, t, ids, refs, desired)
        /\ \A i \in DOMAIN db["tweet"] :
             OfTweet(desired, i) = RefsThere(refs, t, i)
  <2> HIDE DEF ids, refs
  <2>1. QED
    BY PlanRefsIs
<1>2. \A e \in entries : /\ {k \in DOMAIN refs : k[1] = e.key} = DOMAIN e.row[t]
                         /\ \A k \in DOMAIN e.row[t] : refs[k] = e.row[t][k]
  BY RefsOfAllIs
<1>3. \A e \in entries : e.key \in ids
  OBVIOUS
<1> HIDE DEF refs, new, entries
<1>4. ASSUME NEW e \in entries, NEW k \in new.deleted \cup DOMAIN new.inserted
      PROVE  k[1] \in ids /\ new.status[k[1]] # "missing_tweet"
  <2>1. e.key \in ids
    BY <1>3
  <2> HIDE DEF ids
  <2>2. QED
    BY <1>1, <2>1, SyncPlanIs
<1>5. entries = {} => new.deleted \cup DOMAIN new.inserted = {}
  BY <1>1 DEF SyncPlan, IsSync
<1>6. ASSUME NEW e \in entries, new.status[e.key] # "missing_tweet"
      PROVE  OfTweet(Synced(db[t], new), e.key) = Wanted(e, t, media)
  <2>1. e.key \in ids
    BY <1>3
  <2>2. e.key \in DOMAIN db["tweet"] /\ OfTweet(Synced(db[t], new), e.key) = OfTweet(desired, e.key)
    <3> HIDE DEF ids
    <3>1. QED
      BY <1>1, <1>6, <2>1, SyncPlanIs
  <2>3. OfTweet(desired, e.key) = RefsThere(refs, t, e.key)
    BY <1>1, <2>2
  <2>4. {k \in DOMAIN refs : k[1] = e.key /\ (t = "tweet_media_ref" => k[2] \in media)} =
          {k \in DOMAIN e.row[t] : t = "tweet_media_ref" => k[2] \in media}
    BY <1>2
  <2>5. \A k \in DOMAIN e.row[t] : refs[k] = e.row[t][k]
    BY <1>2
  <2>6. RefsThere(refs, t, e.key) = Wanted(e, t, media)
    BY <2>4, <2>5 DEF Wanted, RefsThere
  <2>7. QED
    BY <2>2, <2>3, <2>6
<1>7. \A k \in new.deleted \cup DOMAIN new.inserted :
        (\E e \in entries : e.key = k[1]) /\ new.status[k[1]] # "missing_tweet"
  BY <1>4, <1>5
<1>8. QED
  BY <1>6, <1>7 DEF entries, refs, new

\* No sync of tweet i was committed since the snapshot was read.
NotSince(last, snapshot, i) ==
  i \in DOMAIN last => i \in DOMAIN snapshot.syncs /\ last[i] = snapshot.syncs[i]

\* Of each tweet it found, the plan for table t leaves what the request wants,
\* unless another sync of the tweet has been committed in between.
Fits(table, last, s, t) ==
  LET plan == s.snapshot.plans[t]
      entries == s.plan["relations"]
  IN /\ t \in DOMAIN s.snapshot.plans
     /\ \A k \in plan.deleted \cup DOMAIN plan.inserted :
          (\E e \in entries : e.key = k[1]) /\ plan.status[k[1]] # "missing_tweet"
     /\ \A e \in entries :
          plan.status[e.key] # "missing_tweet" /\ NotSince(last, s.snapshot, e.key) =>
            OfTweet(Synced(table, plan), e.key) = Wanted(e, t, s.snapshot.media)

\* The request that committed a sync is done.
DoneBy(reqs, sync) == sync.by \in DOMAIN reqs /\ reqs[sync.by].step = "done"

IsRead(snapshot) == snapshot = SyncRead(snapshot.plans, snapshot.syncs, snapshot.media)

\* What a request has read before its step n.
HasRead(s, n) ==
  IF n = 18 THEN s.snapshot = Unread
  ELSE /\ IsRead(s.snapshot)
       /\ \A i \in DOMAIN s.snapshot.syncs : DoneBy(req, s.snapshot.syncs[i])
       /\ \A m \in 18..n - 1 : Fits(db[Steps[m]], lastSync, s, Steps[m])

Syncing(s) == \A n \in 18..22 : s.step = Steps[n] => HasRead(s, n)

Synchronous ==
  /\ \A p \in Requests : Syncing(req[p])
  /\ \A i \in DOMAIN lastSync : DoneBy(req, lastSync[i])
  /\ RelationsMatch

\* A commit: the only step that changes the references or the syncs.
Commits(p) ==
  /\ Proceeds(p) /\ req[p].step = "relations" /\ req'[p].plan = req[p].plan
  /\ db' = SyncedStore(p) /\ lastSync' = SyncedHistory(p)

\* A commit is the only step that changes references.
LEMMA RefTablesChange ==
  ASSUME Shaped, IsStore(db), [Next]_vars
  PROVE  \/ (\A t \in RefTables : db'[t] = db[t]) /\ lastSync' = lastSync
         \/ \E p \in Requests : Commits(p)
<1>1. ASSUME NEW t \in Tables, t \notin RefTables, NEW table, db' = [db EXCEPT ![t] = table]
      PROVE  \A u \in RefTables : db'[u] = db[u]
  <2>1. \A u \in RefTables : u \in Tables /\ u # t
    BY <1>1, KindsOfTables
  <2>2. QED
    BY <1>1, <2>1, OneTableOnly
<1>2. CASE db' = db /\ lastSync' = lastSync
  BY <1>2
<1>3. CASE CreateTransferTask
  <2>1. "transfer_task" \in Tables /\ "transfer_task" \notin RefTables
    BY KindsOfTables DEF RefTables
  <2>2. PICK table : db' = [db EXCEPT !["transfer_task"] = table]
    BY <1>3 DEF CreateTransferTask
  <2>3. lastSync' = lastSync
    BY <1>3 DEF CreateTransferTask, history
  <2>4. QED
    BY <1>1, <2>1, <2>2, <2>3
<1>4. ASSUME NEW p \in Requests, NEW o, CommitLookup(p, o)
      PROVE  (\A t \in RefTables : db'[t] = db[t]) /\ lastSync' = lastSync
  <2>1. /\ req[p].step \in LookupTables /\ lastSync' = lastSync
        /\ db' = db \/ \E table : db' = [db EXCEPT ![req[p].step] = table]
    BY <1>4 DEF CommitLookup, DbAfter, history
  <2>2. req[p].step \in Tables /\ req[p].step \notin RefTables
    BY <2>1 DEF LookupTables, Tables, FactTables, RefTables
  <2>3. QED
    BY <1>1, <2>1, <2>2
<1>5. ASSUME NEW p \in Requests, NEW failing, Convert(p, failing)
      PROVE  (\A t \in RefTables : db'[t] = db[t]) /\ lastSync' = lastSync
  <2>1. (db' = db \/ db' = OwnLookups(req[p].batch, failing)) /\ lastSync' = lastSync
    BY <1>5, ConvertTurn DEF history
  <2>2. \A u \in RefTables : u \in Tables \ LookupTables
    BY DEF RefTables, Tables, LookupTables
  <2>3. db' = OwnLookups(req[p].batch, failing) => \A u \in Tables \ LookupTables : db'[u] = db[u]
    BY DEF OwnLookups
  <2>4. QED
    BY <2>1, <2>2, <2>3
<1>6. ASSUME NEW p \in Requests, NEW o, WriteRows(p, o)
      PROVE  (\A t \in RefTables : db'[t] = db[t]) /\ lastSync' = lastSync
  <2> DEFINE t == req[p].step
             rows == Rows(req[p].plan[t])
  <2>1. t \in FilledTables /\ (db' = db \/ db' = Write(t, rows)) /\ lastSync' = lastSync
    BY <1>6, WriteRowsTurn DEF history
  <2>2. rows = [k \in DOMAIN rows |-> rows[k]]
    BY RowsIsFunction
  <2> HIDE DEF rows
  <2>3. db' = Write(t, rows) => \A u \in Tables \ {t, "index_queue"} : db'[u] = db[u]
    BY <2>1, <2>2, WriteIs
  <2>4. \A u \in RefTables : u \in Tables \ {t, "index_queue"}
    BY <2>1, KindsOfTables
  <2>5. QED
    BY <2>1, <2>3, <2>4
<1>7. ASSUME NEW p \in Requests, NEW o, AppendVersions(p, o)
      PROVE  (\A t \in RefTables : db'[t] = db[t]) /\ lastSync' = lastSync
  <2> DEFINE t == req[p].step
             rows == Rows(req[p].plan[t])
             decisions == req[p].snapshot.decisions
             written == [db EXCEPT ![t] = Appended(@, rows, decisions)]
             new == IF t = "user_snapshot"
                    THEN [written EXCEPT !["index_queue"] = QueueSnapshots(db, decisions)["index_queue"]]
                    ELSE written
  <2>1. t \in VersionTables /\ (db' = db \/ db' = new) /\ lastSync' = lastSync
    BY <1>7, AppendVersionsTurn
  <2>2. \A u \in RefTables : u \in Tables \ {t, "index_queue"}
    BY <2>1, KindsOfTables
  <2>3. KeepsFacts(db, db')
    BY NextKeeps
  <2>4. CASE db' = new
    <3>1. \A u \in Tables \ {t, "index_queue"} : db'[u] = db[u]
      <4> HIDE DEF rows, decisions
      <4>1. QED
        BY <2>1, <2>3, <2>4, AppendGrows
    <3>2. QED
      BY <2>1, <2>2, <3>1
  <2>5. QED
    BY <2>1, <2>4
<1>8. ASSUME NEW p \in Requests, NEW o, NEW c, EnqueueTransfers(p, o, c)
      PROVE  (\A t \in RefTables : db'[t] = db[t]) /\ lastSync' = lastSync
  <2>1. PICK rows : db' = db \/ db' = [db EXCEPT !["transfer_task"] = Upsert(@, rows, {})]
    BY <1>8, EnqueueTransfersTurn
  <2>2. "transfer_task" \in Tables /\ "transfer_task" \notin RefTables
    BY KindsOfTables DEF RefTables
  <2>3. lastSync' = lastSync
    BY <1>8, EnqueueTransfersTurn DEF history
  <2>4. QED
    BY <1>1, <2>1, <2>2, <2>3
<1>9. ASSUME NEW p \in Requests, NEW o, NEW c, CommitRelations(p, o, c)
      PROVE  (db' = db /\ lastSync' = lastSync) \/ Commits(p)
  BY <1>9, CommitRelationsTurn DEF Commits
<1>10. ASSUME NEW p \in Requests,
              \/ ReadLookup(p) \/ DecideVersions(p) \/ PlanRelations(p) \/ Abandon(p)
              \/ \E o \in Outcomes : Preload(p, o)
      PROVE  db' = db /\ lastSync' = lastSync
  BY <1>10 DEF ReadLookup, DecideVersions, PlanRelations, Abandon, Preload, history
<1>11. CASE Quiet /\ (db' = db \/ CreateTransferTask)
  BY <1>2, <1>3, <1>11 DEF Quiet
<1>12. QED
  BY <1>2, <1>3, <1>4, <1>5, <1>6, <1>7, <1>8, <1>9, <1>10, <1>11, StepsAre DEF Moves

\* A request that comes to its sync has read nothing of it yet.
Comes(q) ==
  /\ req[q].step # "done"
  /\ \A n \in 18..22 : req'[q].step = Steps[n] => n = 18 /\ req'[q].snapshot = Unread

\* A request that goes on does not enter a sync half-way.
LEMMA ProceedsFrom ==
  ASSUME NEW q, Proceeds(q), NEW i \in 1..22, i \notin 18..21, req[q].step = Steps[i]
  PROVE  Comes(q)
<1>1. PICK x : req'[q].step = After(x, Steps[i])
  BY DEF Proceeds
<1>2. PICK m \in i + 1..23 : After(x, Steps[i]) = Steps[m] /\ (m \in 1..18 \/ m = 23)
  <2>1. CASE i = 22
    BY <2>1, AfterIs
  <2>2. CASE i # 22
    <3>1. i \in 1..17
      BY <2>2
    <3>2. After(x, Steps[i]) = Steps[23] \/ \E m \in i + 1..18 : After(x, Steps[i]) = Steps[m]
      BY <3>1, AfterOutside
    <3>3. QED
      BY <3>1, <3>2
  <2>3. QED
    BY <2>1, <2>2
<1>3. ASSUME NEW n \in 18..22, req'[q].step = Steps[n] PROVE n = 18
  <2>1. n \in 1..23 /\ m \in 1..23
    OBVIOUS
  <2>2. n = m
    BY <1>1, <1>2, <1>3, <2>1, StepsApart
  <2>3. QED
    BY <1>2, <2>2
<1>4. req[q].step # "done"
  <2>1. i \in 1..23 /\ 23 \in 1..23 /\ i # 23
    OBVIOUS
  <2>2. QED
    BY <2>1, StepsApart, StepNames
<1>5. QED
  BY <1>3, <1>4 DEF Comes, Proceeds

\* A step that takes a request to one that is no part of a sync.
LEMMA ElsewhereComes ==
  ASSUME NEW q, req[q].step # "done",
         req'[q].step = "gone" \/ \E i \in 1..23 : i \notin 18..22 /\ req'[q].step = Steps[i]
  PROVE  Comes(q)
<1>1. ASSUME NEW n \in 18..22 PROVE req'[q].step # Steps[n]
  <2>1. n \in 1..23
    OBVIOUS
  <2>2. Steps[n] # "gone"
    BY <2>1, NotAStep
  <2>3. ASSUME NEW i \in 1..23, i \notin 18..22 PROVE Steps[i] # Steps[n]
    BY <2>1, <2>3, StepsApart
  <2>4. QED
    BY <2>2, <2>3
<1>2. QED
  BY <1>1 DEF Comes

\* What a step does to a request: it leaves it alone, takes it outside a sync
\* or to the first step of one, or plans one of the tables of its sync.
LEMMA RequestMoves ==
  ASSUME Shaped, IsStore(db), [Next]_vars, NEW q \in Requests
  PROVE  req'[q] = req[q] \/ Comes(q) \/ PlanRelations(q)
<1>1. ASSUME NEW p \in Requests, Turn(p), p # q PROVE req'[q] = req[q]
  BY <1>1, TurnKeepsShape
<1>2. CASE Quiet
  BY <1>2 DEF Quiet
<1>3. CASE ReadLookup(q) \/ DecideVersions(q) \/ Abandon(q)
  <2>1. CASE ReadLookup(q)
    <3>1. req[q].step \in LookupTables /\ req'[q].step = req[q].step
      BY <2>1, ReadLookupTurn
    <3>2. PICK i \in 1..3 : req[q].step = Steps[i]
      BY <3>1, LookupTablesAre
    <3>3. i \in 1..23 /\ i \notin 18..22 /\ req[q].step # "done"
      BY <3>1 DEF LookupTables
    <3>4. QED
      BY <3>1, <3>2, <3>3, ElsewhereComes
  <2>2. CASE DecideVersions(q)
    <3>1. req[q].step \in VersionTables /\ req'[q].step = req[q].step
      BY <2>2, DecideVersionsTurn
    <3>2. PICK i \in 6..17 : req[q].step = Steps[i]
      BY <3>1, DataTablesAre DEF DataTables
    <3>3. i \in 1..23 /\ i \notin 18..22 /\ req[q].step # "done"
      BY <3>1 DEF VersionTables
    <3>4. QED
      BY <3>1, <3>2, <3>3, ElsewhereComes
  <2>3. CASE Abandon(q)
    BY <2>3, AbandonTurn, ElsewhereComes
  <2>4. QED
    BY <1>3, <2>1, <2>2, <2>3
<1>4. ASSUME NEW o, CommitLookup(q, o) PROVE Comes(q)
  <2>1. req[q].step \in LookupTables /\ (Proceeds(q) \/ req'[q].step = Steps[4])
    BY <1>4, CommitLookupTurn, StepNames
  <2>2. PICK i \in 1..3 : req[q].step = Steps[i]
    BY <2>1, LookupTablesAre
  <2>3. i \in 1..22 /\ i \notin 18..21 /\ 4 \in 1..23 /\ 4 \notin 18..22
    OBVIOUS
  <2>4. req[q].step # "done"
    BY <2>1 DEF LookupTables
  <2>5. QED
    BY <2>1, <2>2, <2>3, <2>4, ProceedsFrom, ElsewhereComes
<1>5. ASSUME NEW failing, Convert(q, failing) PROVE Comes(q)
  <2>1. Proceeds(q) /\ req[q].step = Steps[4]
    BY <1>5, ConvertTurn, StepNames
  <2>2. 4 \in 1..22 /\ 4 \notin 18..21
    OBVIOUS
  <2>3. QED
    BY <2>1, <2>2, ProceedsFrom
<1>6. ASSUME NEW o, Preload(q, o) PROVE Comes(q)
  <2>1. /\ req[q].step = Steps[5] /\ req[q].step = "dict_preload"
        /\ Proceeds(q) \/ req'[q].step = Steps[23]
    BY <1>6, PreloadTurn, StepNames
  <2>2. 5 \in 1..22 /\ 5 \notin 18..21 /\ 23 \in 1..23 /\ 23 \notin 18..22
    OBVIOUS
  <2>3. QED
    BY <2>1, <2>2, ProceedsFrom, ElsewhereComes
<1>7. ASSUME NEW o, WriteRows(q, o) \/ AppendVersions(q, o) PROVE Comes(q)
  <2>1. Proceeds(q) /\ req[q].step \in DataTables
    <3>1. CASE WriteRows(q, o)
      BY <3>1, WriteRowsTurn DEF DataTables
    <3>2. CASE AppendVersions(q, o)
      BY <3>2, AppendVersionsTurn DEF DataTables
    <3>3. QED
      BY <1>7, <3>1, <3>2
  <2>2. PICK i \in 6..17 : req[q].step = Steps[i]
    BY <2>1, DataTablesAre
  <2>3. i \in 1..22 /\ i \notin 18..21
    OBVIOUS
  <2>4. QED
    BY <2>1, <2>2, <2>3, ProceedsFrom
<1>8. ASSUME NEW o, NEW c, EnqueueTransfers(q, o, c) PROVE Comes(q)
  <2>1. Proceeds(q) /\ req[q].step = Steps[11]
    BY <1>8, EnqueueTransfersTurn, StepNames
  <2>2. 11 \in 1..22 /\ 11 \notin 18..21
    OBVIOUS
  <2>3. QED
    BY <2>1, <2>2, ProceedsFrom
<1>9. ASSUME NEW o, NEW c, CommitRelations(q, o, c) PROVE Comes(q)
  <2>1. Proceeds(q) /\ req[q].step = Steps[22]
    BY <1>9, CommitRelationsTurn, StepNames
  <2>2. 22 \in 1..22 /\ 22 \notin 18..21
    OBVIOUS
  <2>3. QED
    BY <2>1, <2>2, ProceedsFrom
<1>10. CASE Moves(q)
  BY <1>3, <1>4, <1>5, <1>6, <1>7, <1>8, <1>9, <1>10 DEF Moves
<1>11. ASSUME NEW p \in Requests, p # q, Moves(p) PROVE req'[q] = req[q]
  BY <1>1, <1>11, MovesTurn
<1>12. QED
  BY <1>2, <1>10, <1>11, StepsAre DEF Moves

\* A request that is done stays so.
LEMMA DoneStays ==
  ASSUME Shaped, IsStore(db), [Next]_vars, NEW q \in Requests, req[q].step = "done"
  PROVE  req'[q].step = "done"
<1>1. ~Comes(q)
  BY DEF Comes
<1>2. ~PlanRelations(q)
  BY DEF PlanRelations, RefTables
<1>3. QED
  BY <1>1, <1>2, RequestMoves

\* So a sync of a request that is done stays one.
LEMMA DoneByStays ==
  ASSUME Shaped, IsStore(db), [Next]_vars, NEW sync, DoneBy(req, sync)
  PROVE  DoneBy(req', sync)
<1>1. DOMAIN req = Requests /\ DOMAIN req' = Requests
  BY ShapeKept DEF Shaped
<1>2. QED
  BY <1>1, DoneStays DEF DoneBy

\* The fields of what a sync has read.
LEMMA SyncReadIs ==
  ASSUME NEW plans, NEW syncs, NEW media
  PROVE  LET x == SyncRead(plans, syncs, media)
         IN  x.plans = plans /\ x.syncs = syncs /\ x.media = media /\ IsRead(x)
  BY DEF SyncRead, IsRead

\* A plan fits a request that reads on, and one whose tweets are left alone.
LEMMA FitsStill ==
  ASSUME NEW table, NEW last, NEW s, NEW t, Fits(table, last, s, t), NEW r, r.plan = s.plan,
         t \in DOMAIN r.snapshot.plans, r.snapshot.plans[t] = s.snapshot.plans[t],
         r.snapshot.syncs = s.snapshot.syncs, r.snapshot.media = s.snapshot.media
  PROVE  Fits(table, last, r, t)
  BY DEF Fits, NotSince

\* A plan still fits when its tweets are left alone or others have synced them.
LEMMA FitsApart ==
  ASSUME NEW old, NEW new, NEW last, NEW now, NEW s, NEW t, Fits(old, last, s, t),
         \A e \in s.plan["relations"] : NotSince(now, s.snapshot, e.key) =>
           NotSince(last, s.snapshot, e.key) /\ OfTweet(old, e.key) = OfTweet(new, e.key)
  PROVE  Fits(new, now, s, t)
<1> DEFINE plan == s.snapshot.plans[t]
<1>1. ASSUME NEW e \in s.plan["relations"], plan.status[e.key] # "missing_tweet",
             NotSince(now, s.snapshot, e.key)
      PROVE  OfTweet(Synced(new, plan), e.key) = Wanted(e, t, s.snapshot.media)
  <2>1. NotSince(last, s.snapshot, e.key) /\ OfTweet(old, e.key) = OfTweet(new, e.key)
    BY <1>1
  <2>2. OfTweet(Synced(old, plan), e.key) = Wanted(e, t, s.snapshot.media)
    BY <1>1, <2>1 DEF Fits
  <2>3. OfTweet(Synced(old, plan), e.key) = OfTweet(Synced(new, plan), e.key)
    BY <2>1, SyncedAlike
  <2>4. QED
    BY <2>2, <2>3
<1>2. QED
  BY <1>1 DEF Fits

\* The statement just planned fits what it read.
LEMMA FitsAtFirst ==
  ASSUME NEW b, BatchOK(b), NEW s, PlanFrom(b, s.plan), NEW t \in RefTables, NEW last,
         t \in DOMAIN s.snapshot.plans,
         s.snapshot.plans[t] = PlanRefs(t, {e.key : e \in s.plan["relations"]},
                                        RefsOfAll(s.plan["relations"], t)),
         t = "tweet_media_ref" => s.snapshot.media = DOMAIN db["media"]
  PROVE  Fits(db[t], last, s, t)
<1> DEFINE entries == s.plan["relations"]
           new == PlanRefs(t, {e.key : e \in entries}, RefsOfAll(entries, t))
<1>1. /\ \A k \in new.deleted \cup DOMAIN new.inserted :
           (\E e \in entries : e.key = k[1]) /\ new.status[k[1]] # "missing_tweet"
      /\ \A e \in entries : new.status[e.key] # "missing_tweet" =>
           OfTweet(Synced(db[t], new), e.key) = Wanted(e, t, DOMAIN db["media"])
  BY PlanGivesWanted
<1>2. \A e : Wanted(e, t, DOMAIN db["media"]) = Wanted(e, t, s.snapshot.media)
  <2>1. CASE t = "tweet_media_ref"
    BY <2>1
  <2>2. CASE t # "tweet_media_ref"
    BY <2>2 DEF Wanted
  <2>3. QED
    BY <2>1, <2>2
<1>3. s.snapshot.plans[t] = new
  OBVIOUS
<1> HIDE DEF new
<1>4. QED
  BY <1>1, <1>2, <1>3 DEF Fits

\* Planning one more table of a sync.
LEMMA PlanningFits ==
  ASSUME Shaped, AllStaged, NEW q \in Requests, PlanRelations(q), Syncing(req[q]),
         \A i \in DOMAIN lastSync : DoneBy(req, lastSync[i]), NEW n \in 18..22, req'[q].step = Steps[n]
  PROVE  LET r == req'[q]
         IN  /\ n # 18 /\ IsRead(r.snapshot)
             /\ \A i \in DOMAIN r.snapshot.syncs : DoneBy(req, r.snapshot.syncs[i])
             /\ \A m \in 18..n - 1 : Fits(db[Steps[m]], lastSync, r, Steps[m])
<1> DEFINE s == req[q]
           r == req'[q]
           t == s.step
           plan == PlanRefs(t, {e.key : e \in s.plan["relations"]}, RefsOfAll(s.plan["relations"], t))
<1>1. /\ t \in RefTables /\ r.step = After(s, t) /\ r.plan = s.plan
      /\ s.snapshot = Unread =>
           r.snapshot = SyncRead(WithPlan(<< >>, t, plan), lastSync, DOMAIN db["media"])
      /\ \A plans, syncs, media :
           s.snapshot = SyncRead(plans, syncs, media) =>
             r.snapshot = SyncRead(WithPlan(plans, t, plan), syncs, media)
  BY PlanRelationsTurn
<1>2. BatchOK(s.batch) /\ PlanFrom(s.batch, s.plan) /\ Staged(s)
  BY PlansAre DEF AllStaged
<1>3. PICK m \in 18..21 : t = Steps[m]
  BY <1>1, RefTablesAre
<1>4. n = m + 1
  <2>1. Steps[n] = Steps[m + 1]
    BY <1>1, <1>2, <1>3, PlanningGoesOn
  <2>2. n \in 1..23 /\ m + 1 \in 1..23
    OBVIOUS
  <2>3. QED
    BY <2>1, <2>2, StepsApart
<1>5. HasRead(s, m)
  BY <1>3 DEF Syncing
<1>6. t = "tweet_media_ref" => m = 18
  <2>1. m \in 1..23 /\ 18 \in 1..23
    OBVIOUS
  <2>2. QED
    BY <1>3, <2>1, StepsApart, StepNames
<1>7. PICK plans, syncs, media :
        /\ r.snapshot = SyncRead(WithPlan(plans, t, plan), syncs, media)
        /\ \A i \in DOMAIN syncs : DoneBy(req, syncs[i])
        /\ m = 18 => media = DOMAIN db["media"]
        /\ m # 18 => s.snapshot = SyncRead(plans, syncs, media)
  <2>1. CASE m = 18
    <3>1. r.snapshot = SyncRead(WithPlan(<< >>, t, plan), lastSync, DOMAIN db["media"])
      BY <1>1, <1>5, <2>1 DEF HasRead
    <3>2. QED
      BY <2>1, <3>1
  <2>2. CASE m # 18
    <3>1. IsRead(s.snapshot) /\ \A i \in DOMAIN s.snapshot.syncs : DoneBy(req, s.snapshot.syncs[i])
      BY <1>5, <2>2 DEF HasRead
    <3>2. r.snapshot = SyncRead(WithPlan(s.snapshot.plans, t, plan), s.snapshot.syncs, s.snapshot.media)
      BY <1>1, <3>1 DEF IsRead
    <3>3. QED
      BY <2>2, <3>1, <3>2 DEF IsRead
  <2>3. QED
    BY <2>1, <2>2
<1>8. /\ r.snapshot.plans = WithPlan(plans, t, plan) /\ r.snapshot.syncs = syncs
      /\ r.snapshot.media = media /\ IsRead(r.snapshot)
  BY <1>7, SyncReadIs
<1>9. /\ t \in DOMAIN r.snapshot.plans /\ r.snapshot.plans[t] = plan
      /\ \A u \in DOMAIN plans : u # t => u \in DOMAIN r.snapshot.plans /\ r.snapshot.plans[u] = plans[u]
  <2> HIDE DEF r, t, plan
  <2>1. QED
    BY <1>8 DEF WithPlan
<1>10. Fits(db[t], lastSync, r, t)
  <2>1. BatchOK(s.batch) /\ PlanFrom(s.batch, r.plan)
    BY <1>1, <1>2
  <2>2. r.snapshot.plans[t] = PlanRefs(t, {e.key : e \in r.plan["relations"]},
                                       RefsOfAll(r.plan["relations"], t))
    BY <1>1, <1>9
  <2>3. t = "tweet_media_ref" => r.snapshot.media = DOMAIN db["media"]
    BY <1>6, <1>7, <1>8
  <2> HIDE DEF r, t
  <2>4. QED
    BY <1>1, <1>9, <2>1, <2>2, <2>3, FitsAtFirst
<1>11. ASSUME NEW j \in 18..n - 1 PROVE Fits(db[Steps[j]], lastSync, r, Steps[j])
  <2>1. CASE j = m
    BY <1>3, <1>10, <2>1
  <2>2. CASE j # m
    <3>1. j \in 18..m - 1 /\ m # 18
      BY <1>4, <2>2
    <3>2. Fits(db[Steps[j]], lastSync, s, Steps[j])
      BY <1>5, <3>1 DEF HasRead
    <3>3. s.snapshot.plans = plans /\ s.snapshot.syncs = syncs /\ s.snapshot.media = media
      BY <1>7, <3>1, SyncReadIs
    <3>4. Steps[j] \in DOMAIN plans
      BY <3>2, <3>3 DEF Fits
    <3>5. Steps[j] # t
      <4>1. j \in 1..23 /\ m \in 1..23
        BY <3>1
      <4>2. QED
        BY <1>3, <2>2, <4>1, StepsApart
    <3> DEFINE u == Steps[j]
    <3>6. u \in DOMAIN r.snapshot.plans /\ r.snapshot.plans[u] = s.snapshot.plans[u]
      BY <1>9, <3>3, <3>4, <3>5
    <3> HIDE DEF u, s, r
    <3>7. Fits(db[u], lastSync, s, u) /\ r.plan = s.plan
      BY <1>1, <3>2 DEF u
    <3>8. Fits(db[u], lastSync, r, u)
      BY <1>8, <3>3, <3>6, <3>7, FitsStill
    <3>9. QED
      BY <3>8 DEF u, r
  <2>3. QED
    BY <2>1, <2>2
<1>12. n # 18
  BY <1>4
<1>13. QED
  BY <1>7, <1>8, <1>11, <1>12

\* What a sync has at hand when it commits.
LEMMA SyncingReads ==
  ASSUME NEW s, Syncing(s), s.step = "relations", NEW t \in RefTables
  PROVE  /\ Fits(db[t], lastSync, s, t) /\ IsRead(s.snapshot)
         /\ \A i \in DOMAIN s.snapshot.syncs : DoneBy(req, s.snapshot.syncs[i])
<1>1. 22 \in 18..22 /\ s.step = Steps[22]
  BY StepNames
<1>2. HasRead(s, 22)
  BY <1>1 DEF Syncing
<1>3. PICK m \in 18..21 : t = Steps[m]
  BY RefTablesAre
<1>4. m \in 18..22 - 1
  OBVIOUS
<1>5. QED
  BY <1>2, <1>3, <1>4 DEF HasRead

\* The syncs after a commit.
LEMMA SyncedHistoryIs ==
  ASSUME NEW p, lastSync' = SyncedHistory(p)
  PROVE  /\ DOMAIN lastSync' = DOMAIN lastSync \cup SyncedIds(p)
         /\ \A i \in SyncedIds(p) : lastSync'[i] = SyncOf(p, i)
         /\ \A i \in DOMAIN lastSync : i \notin SyncedIds(p) => lastSync'[i] = lastSync[i]
  BY DEF SyncedHistory

\* The references after a commit.
LEMMA SyncedStoreIs ==
  ASSUME NEW p, db' = SyncedStore(p), NEW t \in RefTables
  PROVE  db'[t] = Synced(db[t], req[p].snapshot.plans[t])
<1>1. t \in Tables
  BY KindsOfTables
<1>2. QED
  BY <1>1 DEF SyncedStore

\* A commit leaves the other tweets alone.
LEMMA CommitLeaves ==
  ASSUME NEW p, Commits(p), Syncing(req[p]), NEW i, i \notin SyncedIds(p), NEW t \in RefTables
  PROVE  OfTweet(db'[t], i) = OfTweet(db[t], i)
<1> DEFINE s == req[p]
           plan == s.snapshot.plans[t]
<1>1. Fits(db[t], lastSync, s, t)
  BY SyncingReads DEF Commits
<1>2. ASSUME NEW k \in plan.deleted \cup DOMAIN plan.inserted PROVE k[1] # i
  <2>1. PICK e \in s.plan["relations"] : e.key = k[1] /\ plan.status[k[1]] # "missing_tweet"
    BY <1>1 DEF Fits
  <2>2. e.key \in SyncedIds(p)
    BY <2>1 DEF SyncedIds
  <2>3. QED
    BY <2>1, <2>2
<1>3. db'[t] = Synced(db[t], plan)
  BY SyncedStoreIs DEF Commits
<1> HIDE DEF plan
<1>4. QED
  BY <1>2, <1>3, SyncedOther

\* What a commit writes of a tweet that no other sync has touched since.
LEMMA CommitMatches ==
  ASSUME NEW p, Commits(p), Syncing(req[p]), NEW i \in SyncedIds(p), SyncOf(p, i).alone,
         NEW t \in RefTables
  PROVE  LET sync == SyncOf(p, i)
             refs == sync.refs[t]
         IN  OfTweet(db'[t], i) =
               [k \in {k \in DOMAIN refs : t = "tweet_media_ref" => k[2] \in sync.media} |-> refs[k]]
<1> DEFINE s == req[p]
           entries == s.plan["relations"]
           plan == s.snapshot.plans[t]
           chosen == CHOOSE e \in entries : e.key = i
           sync == SyncOf(p, i)
<1>1. /\ sync.refs = chosen.row /\ sync.media = s.snapshot.media
      /\ \A u \in RefTables : s.snapshot.plans[u].status[i] # "missing_tweet"
      /\ Undisturbed(s.snapshot, i)
  BY DEF SyncOf
<1>2. \E e \in entries : e.key = i
  BY DEF SyncedIds
<1>3. chosen \in entries /\ chosen.key = i
  BY <1>2
<1> HIDE DEF chosen, sync
<1>4. Fits(db[t], lastSync, s, t)
  BY SyncingReads DEF Commits
<1>5. OfTweet(Synced(db[t], plan), i) = Wanted(chosen, t, s.snapshot.media)
  BY <1>1, <1>3, <1>4 DEF Fits, NotSince, Undisturbed
<1>6. db'[t] = Synced(db[t], plan)
  BY SyncedStoreIs DEF Commits
<1>7. OfTweet(db'[t], i) = Wanted(chosen, t, sync.media)
  BY <1>1, <1>5, <1>6
<1>8. QED
  BY <1>1, <1>7 DEF Wanted, sync

\* A commit that touches a tweet another request has read shows in its syncs.
LEMMA CommitShows ==
  ASSUME Shaped, NEW p \in Requests, Commits(p), NEW snapshot,
         \A i \in DOMAIN snapshot.syncs : DoneBy(req, snapshot.syncs[i]),
         NEW i, NotSince(lastSync', snapshot, i)
  PROVE  i \notin SyncedIds(p) /\ NotSince(lastSync, snapshot, i)
<1>1. /\ DOMAIN lastSync' = DOMAIN lastSync \cup SyncedIds(p)
      /\ \A j \in SyncedIds(p) : lastSync'[j] = SyncOf(p, j)
      /\ \A j \in DOMAIN lastSync : j \notin SyncedIds(p) => lastSync'[j] = lastSync[j]
  BY SyncedHistoryIs DEF Commits
<1>2. ASSUME i \in SyncedIds(p) PROVE FALSE
  <2>1. i \in DOMAIN snapshot.syncs /\ snapshot.syncs[i] = SyncOf(p, i)
    BY <1>1, <1>2 DEF NotSince
  <2>2. DoneBy(req, SyncOf(p, i))
    BY <2>1
  <2>3. SyncOf(p, i).by = p
    BY DEF SyncOf
  <2>4. QED
    BY <2>2, <2>3 DEF DoneBy, Commits
<1>3. NotSince(lastSync, snapshot, i)
  BY <1>1, <1>2 DEF NotSince
<1>4. QED
  BY <1>2, <1>3

\* A commit leaves the plans of other requests fitting.
LEMMA CommitKeepsFits ==
  ASSUME Shaped, NEW p \in Requests, Commits(p), Syncing(req[p]), NEW s, NEW t \in RefTables,
         \A i \in DOMAIN s.snapshot.syncs : DoneBy(req, s.snapshot.syncs[i]), Fits(db[t], lastSync, s, t)
  PROVE  Fits(db'[t], lastSync', s, t)
<1>1. ASSUME NEW e \in s.plan["relations"], NotSince(lastSync', s.snapshot, e.key)
      PROVE  NotSince(lastSync, s.snapshot, e.key) /\ OfTweet(db[t], e.key) = OfTweet(db'[t], e.key)
  <2>1. e.key \notin SyncedIds(p) /\ NotSince(lastSync, s.snapshot, e.key)
    BY <1>1, CommitShows
  <2>2. QED
    BY <2>1, CommitLeaves
<1>2. QED
  BY <1>1, FitsApart

\* Every step keeps the invariant of the syncs.
LEMMA SynchronousKept ==
  ASSUME Shaped, IsStore(db), AllStaged, Synchronous, [Next]_vars
  PROVE  Synchronous'
<1>1. Requests' = Requests /\ \A sync : DoneBy(req, sync) => DoneBy(req', sync)
  BY ShapeKept, DoneByStays
<1>2. \A p \in Requests : Syncing(req[p])
  BY DEF Synchronous
<1>3. \A i \in DOMAIN lastSync : DoneBy(req, lastSync[i])
  BY DEF Synchronous
<1>4. ASSUME NEW q \in Requests, req'[q] = req[q],
             \A t \in RefTables : \A s :
               /\ Fits(db[t], lastSync, s, t)
               /\ \A i \in DOMAIN s.snapshot.syncs : DoneBy(req, s.snapshot.syncs[i])
               => Fits(db'[t], lastSync', s, t)
      PROVE  Syncing(req[q])'
  <2> SUFFICES ASSUME NEW n \in 18..22, req'[q].step = Steps[n] PROVE HasRead(req[q], n)'
    BY DEF Syncing
  <2>1. HasRead(req[q], n)
    BY <1>2, <1>4 DEF Syncing
  <2>2. CASE n = 18
    BY <1>4, <2>1, <2>2 DEF HasRead
  <2>3. CASE n # 18
    <3>1. \A i \in DOMAIN req[q].snapshot.syncs : DoneBy(req, req[q].snapshot.syncs[i])
      BY <2>1, <2>3 DEF HasRead
    <3>2. ASSUME NEW m \in 18..n - 1 PROVE Fits(db'[Steps[m]], lastSync', req[q], Steps[m])
      <4>1. Steps[m] \in RefTables
        <5>1. m \in {18, 19, 20, 21}
          OBVIOUS
        <5>2. QED
          BY <5>1, StepNames DEF RefTables
      <4>2. Fits(db[Steps[m]], lastSync, req[q], Steps[m])
        BY <2>1, <2>3 DEF HasRead
      <4>3. QED
        BY <1>4, <3>1, <4>1, <4>2
    <3>3. \A i \in DOMAIN req[q].snapshot.syncs : DoneBy(req', req[q].snapshot.syncs[i])
      BY <1>1, <3>1
    <3>4. QED
      BY <1>4, <2>1, <2>3, <3>2, <3>3 DEF HasRead
  <2>4. QED
    BY <2>2, <2>3
<1>5. ASSUME NEW q \in Requests, Comes(q) PROVE Syncing(req[q])'
  BY <1>5 DEF Comes, Syncing, HasRead
<1>6. ASSUME NEW q \in Requests, PlanRelations(q) PROVE Syncing(req[q])'
  <2> SUFFICES ASSUME NEW n \in 18..22, req'[q].step = Steps[n] PROVE HasRead(req[q], n)'
    BY DEF Syncing
  <2>1. /\ n # 18 /\ IsRead(req'[q].snapshot)
        /\ \A i \in DOMAIN req'[q].snapshot.syncs : DoneBy(req, req'[q].snapshot.syncs[i])
        /\ \A m \in 18..n - 1 : Fits(db[Steps[m]], lastSync, req'[q], Steps[m])
    BY <1>2, <1>3, <1>6, PlanningFits
  <2>2. db' = db /\ lastSync' = lastSync
    BY <1>6, PlanRelationsTurn DEF history
  <2>3. \A i \in DOMAIN req'[q].snapshot.syncs : DoneBy(req', req'[q].snapshot.syncs[i])
    BY <1>1, <2>1
  <2>4. QED
    BY <2>1, <2>2, <2>3 DEF HasRead
<1>7. CASE (\A t \in RefTables : db'[t] = db[t]) /\ lastSync' = lastSync
  <2>1. ASSUME NEW q \in Requests PROVE Syncing(req[q])'
    <3>1. CASE req'[q] = req[q]
      BY <1>4, <1>7, <3>1
    <3>2. QED
      BY <1>5, <1>6, <3>1, RequestMoves
  <2>2. \A i \in DOMAIN lastSync' : DoneBy(req', lastSync'[i])
    BY <1>1, <1>3, <1>7
  <2>3. RelationsMatch'
    BY <1>7 DEF Synchronous, RelationsMatch
  <2>4. QED
    BY <1>1, <2>1, <2>2, <2>3 DEF Synchronous
<1>8. ASSUME NEW p \in Requests, Commits(p) PROVE Synchronous'
  <2>1. Turn(p) /\ Syncing(req[p]) /\ Comes(p) /\ req'[p].step = "done"
    <3>1. req[p].step = Steps[22] /\ 22 \in 1..22 /\ 22 \notin 18..21
      BY <1>8, StepNames DEF Commits
    <3>2. Comes(p)
      BY <1>8, <3>1, ProceedsFrom DEF Commits
    <3>3. req'[p].step = "done"
      BY <1>8, <3>1, AfterIs, StepNames DEF Commits, Proceeds
    <3>4. QED
      BY <1>2, <1>8, <3>2, <3>3 DEF Commits, Proceeds
  <2>2. ASSUME NEW q \in Requests PROVE Syncing(req[q])'
    <3>1. CASE q = p
      BY <1>5, <2>1, <3>1
    <3>2. CASE q # p
      <4>1. req'[q] = req[q]
        BY <2>1, <3>2, TurnKeepsShape
      <4>2. QED
        BY <1>4, <1>8, <2>1, <4>1, CommitKeepsFits
    <3>3. QED
      BY <3>1, <3>2
  <2>3. /\ DOMAIN lastSync' = DOMAIN lastSync \cup SyncedIds(p)
        /\ \A i \in SyncedIds(p) : lastSync'[i] = SyncOf(p, i)
        /\ \A i \in DOMAIN lastSync : i \notin SyncedIds(p) => lastSync'[i] = lastSync[i]
    BY <1>8, SyncedHistoryIs DEF Commits
  <2>4. ASSUME NEW i \in DOMAIN lastSync' PROVE DoneBy(req', lastSync'[i])
    <3>1. CASE i \in SyncedIds(p)
      <4>1. lastSync'[i].by = p
        BY <2>3, <3>1 DEF SyncOf
      <4>2. p \in DOMAIN req'
        BY ShapeKept DEF Shaped
      <4>3. QED
        BY <2>1, <4>1, <4>2 DEF DoneBy
    <3>2. CASE i \notin SyncedIds(p)
      BY <1>1, <1>3, <2>3, <3>2
    <3>3. QED
      BY <3>1, <3>2
  <2>5. RelationsMatch'
    <3> SUFFICES ASSUME NEW i \in DOMAIN lastSync', lastSync'[i].alone, NEW t \in RefTables
                 PROVE  LET refs == lastSync'[i].refs[t]
                        IN  OfTweet(db'[t], i) =
                              [k \in {k \in DOMAIN refs : t = "tweet_media_ref" => k[2] \in lastSync'[i].media}
                                 |-> refs[k]]
      BY DEF RelationsMatch
    <3>1. CASE i \in SyncedIds(p)
      BY <1>8, <2>1, <2>3, <3>1, CommitMatches
    <3>2. CASE i \notin SyncedIds(p)
      <4>1. i \in DOMAIN lastSync /\ lastSync'[i] = lastSync[i]
        BY <2>3, <3>2
      <4>2. OfTweet(db'[t], i) = OfTweet(db[t], i)
        BY <1>8, <2>1, <3>2, CommitLeaves
      <4>3. QED
        BY <4>1, <4>2 DEF Synchronous, RelationsMatch
    <3>3. QED
      BY <3>1, <3>2
  <2>6. QED
    BY <1>1, <2>2, <2>4, <2>5 DEF Synchronous
<1>9. QED
  BY <1>7, <1>8, RefTablesChange

\* After a sync that overlapped no other sync of the tweet, the tweet refers
\* to what its conversion listed, less the media that were not stored.
THEOREM RelationsTheorem == Spec => []RelationsMatch
<1>1. Init => Synchronous
  <2> SUFFICES ASSUME Init PROVE Synchronous
    OBVIOUS
  <2>1. req = [p \in Requests |-> Started(load.batches[p])] /\ lastSync = << >>
    BY DEF Init
  <2>2. ASSUME NEW p \in Requests PROVE Syncing(req[p])
    <3>1. req[p].step = "refused" \/ \E m \in 1..4 : req[p].step = Steps[m]
      BY <2>1, StartedIs
    <3>2. ASSUME NEW n \in 18..22 PROVE req[p].step # Steps[n]
      <4>1. n \in 1..23 /\ Steps[n] # "refused"
        <5>1. n \in 1..23
          OBVIOUS
        <5>2. QED
          BY <5>1, NotAStep
      <4>2. ASSUME NEW m \in 1..4 PROVE Steps[m] # Steps[n]
        <5>1. m \in 1..23 /\ m # n
          OBVIOUS
        <5>2. QED
          BY <4>1, <5>1, StepsApart
      <4>3. QED
        BY <3>1, <4>1, <4>2
    <3>3. QED
      BY <3>2 DEF Syncing
  <2>3. QED
    BY <2>1, <2>2 DEF Synchronous, RelationsMatch
<1>2. Shaped /\ IsStore(db) /\ AllStaged /\ Synchronous /\ [Next]_vars => Synchronous'
  BY SynchronousKept
<1>3. Spec => [](Shaped /\ IsStore(db) /\ AllStaged)
  BY InductiveAtFirst, AllToldKept, PTL DEF Spec, Inductive
<1>4. Synchronous => RelationsMatch
  BY DEF Synchronous
<1>5. QED
  BY <1>1, <1>2, <1>3, <1>4, PTL DEF Spec

-----------------------------------------------------------------------------
(* The history of a parent, as long as its versions come in order and one  *)
(* at a time.                                                              *)

\* Each version has a time, and was the input that is remembered for it.
Recorded(table, inputs, t) ==
  \A k \in DOMAIN table : /\ k = <<k[1], k[2]>> /\ k[2] \in Nat
                          /\ \E o \in inputs : o.table = t /\ o.key = k

\* The two parts of HistoryFaithful, of one parent.
Shows(table, inputs, t, parent) ==
  \A o \in inputs : o.table = t /\ o.key[1] = parent =>
    \A k \in LatestAt(table, parent, o.key[2]) : table[k] = o.row
Distant(table, t, k, l) ==
  /\ table[k] # table[l]
  /\ t \in {"user_stats", "tweet_stats"} => l[2] - k[2] >= Interval
Neighbours(table, parent, k, l) ==
  /\ k[1] = parent /\ l[1] = parent /\ k[2] < l[2]
  /\ \A m \in DOMAIN table : m[1] = parent => m[2] <= k[2] \/ l[2] <= m[2]
Spaced(table, t, parent) ==
  \A k, l \in DOMAIN table : Neighbours(table, parent, k, l) => Distant(table, t, k, l)
Faithful(table, inputs, t, parent) == Shows(table, inputs, t, parent) /\ Spaced(table, t, parent)

\* Two tables that hold the same versions of a parent.
Alike(table, new, parent) ==
  /\ \A k \in DOMAIN table : k[1] = parent => k \in DOMAIN new /\ new[k] = table[k]
  /\ \A k \in DOMAIN new : k[1] = parent => k \in DOMAIN table

\* What was decided on an input of a parent.
Stands(table, t, k, row, decision) ==
  /\ decision = "unchanged" => \E l \in LatestAt(table, k[1], k[2]) : table[l] = row
  /\ decision = "candidate" =>
       \A l \in LatestAt(table, k[1], k[2]) :
         /\ table[l] # row
         /\ t \in {"user_stats", "tweet_stats"} => k[2] - l[2] >= Interval

\* A parent has one version at a time, so one latest.
LEMMA OneLatest ==
  ASSUME NEW table, NEW inputs, NEW t, Recorded(table, inputs, t),
         NEW parent, NEW at, NEW k \in LatestAt(table, parent, at), NEW l \in LatestAt(table, parent, at)
  PROVE  k = l
<1>1. /\ k \in DOMAIN table /\ k[1] = parent /\ k[2] <= at
      /\ l \in DOMAIN table /\ l[1] = parent /\ l[2] <= at
      /\ l[2] <= k[2] /\ k[2] <= l[2]
  BY DEF LatestAt
<1>2. /\ k = <<k[1], k[2]>> /\ k[2] \in Nat
      /\ l = <<l[1], l[2]>> /\ l[2] \in Nat
  BY <1>1 DEF Recorded
<1>3. k[2] = l[2]
  BY <1>1, <1>2
<1>4. QED
  BY <1>1, <1>2, <1>3

\* The latest versions of like tables are the same.
LEMMA LatestAlike ==
  ASSUME NEW table, NEW new, NEW parent, Alike(table, new, parent), NEW at
  PROVE  /\ LatestAt(new, parent, at) = LatestAt(table, parent, at)
         /\ \A k \in LatestAt(table, parent, at) : new[k] = table[k]
  BY DEF Alike, LatestAt

\* A parent none of whose versions changes stays faithful.
LEMMA FaithfulAlike ==
  ASSUME NEW table, NEW new, NEW parent, Alike(table, new, parent), NEW t, NEW inputs, NEW more,
         Faithful(table, inputs, t, parent),
         \A o \in more : o.table = t /\ o.key[1] = parent =>
            \/ o \in inputs
            \/ \A k \in LatestAt(table, parent, o.key[2]) : table[k] = o.row
  PROVE  Faithful(new, more, t, parent)
<1>1. Shows(new, more, t, parent)
  <2>1. ASSUME NEW o \in more, o.table = t, o.key[1] = parent,
               NEW k \in LatestAt(new, parent, o.key[2])
        PROVE  new[k] = o.row
    <3>1. k \in LatestAt(table, parent, o.key[2]) /\ new[k] = table[k]
      BY <2>1, LatestAlike
    <3>2. QED
      BY <2>1, <3>1 DEF Faithful, Shows
  <2>2. QED
    BY <2>1 DEF Shows
<1>2. Spaced(new, t, parent)
  <2>1. ASSUME NEW k \in DOMAIN new, NEW l \in DOMAIN new, Neighbours(new, parent, k, l)
        PROVE  Distant(new, t, k, l)
    <3>1. k[1] = parent /\ l[1] = parent /\ k[2] < l[2]
      BY <2>1 DEF Neighbours
    <3>2. /\ k \in DOMAIN table /\ new[k] = table[k] /\ l \in DOMAIN table /\ new[l] = table[l]
      BY <3>1 DEF Alike
    <3>3. Neighbours(table, parent, k, l)
      <4>1. \A m \in DOMAIN table : m[1] = parent => m \in DOMAIN new
        BY DEF Alike
      <4>2. QED
        BY <2>1, <4>1 DEF Neighbours
    <3>4. Distant(table, t, k, l)
      BY <3>2, <3>3 DEF Faithful, Spaced
    <3>5. QED
      BY <3>2, <3>4 DEF Distant
  <2>2. QED
    BY <2>1 DEF Spaced
<1>3. QED
  BY <1>1, <1>2 DEF Faithful

\* The version of key comes after all the others of its parent, and differs
\* from the last of them.
Lengthens(table, new, inputs, more, t, key, row) ==
  /\ Recorded(table, inputs, t) /\ (\A o \in inputs : o.key[2] \in Nat) /\ key[2] \in Nat
  /\ key \in DOMAIN new /\ new[key] = row
  /\ \A k \in DOMAIN table : k \in DOMAIN new /\ new[k] = table[k]
  /\ \A k \in DOMAIN new : k[1] = key[1] => k = key \/ k \in DOMAIN table
  /\ \A o \in inputs : o.table = t /\ o.key[1] = key[1] => o.key[2] < key[2]
  /\ \A o \in more : o.table = t /\ o.key[1] = key[1] => o \in inputs \/ (o.key = key /\ o.row = row)
  /\ \A l \in LatestAt(table, key[1], key[2]) :
       /\ table[l] # row
       /\ t \in {"user_stats", "tweet_stats"} => key[2] - l[2] >= Interval

\* Such a version leaves the history of its parent faithful.
LEMMA FaithfulLonger ==
  ASSUME NEW table, NEW new, NEW inputs, NEW more, NEW t, NEW key, NEW row,
         Lengthens(table, new, inputs, more, t, key, row), Faithful(table, inputs, t, key[1])
  PROVE  Faithful(new, more, t, key[1])
<1> DEFINE parent == key[1]
<1>0. /\ Recorded(table, inputs, t) /\ (\A o \in inputs : o.key[2] \in Nat) /\ key[2] \in Nat
      /\ key \in DOMAIN new /\ new[key] = row
      /\ \A k \in DOMAIN table : k \in DOMAIN new /\ new[k] = table[k]
      /\ \A k \in DOMAIN new : k[1] = key[1] => k = key \/ k \in DOMAIN table
      /\ \A o \in inputs : o.table = t /\ o.key[1] = key[1] => o.key[2] < key[2]
      /\ \A o \in more : o.table = t /\ o.key[1] = key[1] => o \in inputs \/ (o.key = key /\ o.row = row)
      /\ \A l \in LatestAt(table, key[1], key[2]) :
           /\ table[l] # row
           /\ t \in {"user_stats", "tweet_stats"} => key[2] - l[2] >= Interval
  BY DEF Lengthens
<1>1. ASSUME NEW k \in DOMAIN table, k[1] = parent
      PROVE  k[2] \in Nat /\ k[2] < key[2]
  <2>1. PICK o \in inputs : o.table = t /\ o.key = k
    BY <1>0, <1>1 DEF Recorded
  <2>2. o.key[1] = key[1]
    BY <1>1, <2>1
  <2>3. o.key[2] < key[2] /\ o.key[2] \in Nat
    BY <1>0, <2>1, <2>2
  <2>4. QED
    BY <2>1, <2>3
<1>2. Shows(new, more, t, parent)
  <2>1. ASSUME NEW o \in more, o.table = t, o.key[1] = parent,
               NEW k \in LatestAt(new, parent, o.key[2])
        PROVE  new[k] = o.row
    <3>1. /\ k \in DOMAIN new /\ k[1] = parent /\ k[2] <= o.key[2]
          /\ \A j \in DOMAIN new : j[1] = parent /\ j[2] <= o.key[2] => j[2] <= k[2]
      BY <2>1 DEF LatestAt
    <3>2. CASE o \in inputs
      <4>1. o.key[2] < key[2] /\ o.key[2] \in Nat
        BY <1>0, <2>1, <3>2
      <4>2. k \in DOMAIN table
        <5>1. k # key
          BY <1>0, <3>1, <4>1
        <5>2. QED
          BY <1>0, <3>1, <5>1
      <4>3. \A j \in DOMAIN table : j[1] = parent /\ j[2] <= o.key[2] => j[2] <= k[2]
        BY <1>0, <3>1
      <4>4. k \in LatestAt(table, parent, o.key[2])
        BY <3>1, <4>2, <4>3 DEF LatestAt
      <4>5. table[k] = o.row
        BY <2>1, <3>2, <4>4 DEF Faithful, Shows
      <4>6. QED
        BY <1>0, <4>2, <4>5
    <3>3. CASE o.key = key /\ o.row = row
      <4>1. key[2] <= k[2]
        BY <1>0, <3>1, <3>3
      <4>2. k = key
        BY <1>0, <1>1, <3>1, <4>1
      <4>3. QED
        BY <1>0, <3>3, <4>2
    <3>4. QED
      BY <1>0, <2>1, <3>2, <3>3
  <2>2. QED
    BY <2>1 DEF Shows
<1>3. Spaced(new, t, parent)
  <2>1. ASSUME NEW k \in DOMAIN new, NEW l \in DOMAIN new, Neighbours(new, parent, k, l)
        PROVE  Distant(new, t, k, l)
    <3>1. /\ k[1] = parent /\ l[1] = parent /\ k[2] < l[2]
          /\ \A m \in DOMAIN new : m[1] = parent => m[2] <= k[2] \/ l[2] <= m[2]
      BY <2>1 DEF Neighbours
    <3>2. k \in DOMAIN table
      <4>1. CASE k = key
        <5>1. l # key
          BY <1>0, <3>1, <4>1
        <5>2. l \in DOMAIN table
          BY <1>0, <3>1, <5>1
        <5>3. l[2] \in Nat /\ l[2] < key[2]
          BY <1>1, <3>1, <5>2
        <5>4. QED
          BY <1>0, <3>1, <4>1, <5>3
      <4>2. QED
        BY <1>0, <3>1, <4>1
    <3>3. CASE l \in DOMAIN table
      <4>1. \A m \in DOMAIN table : m[1] = parent => m[2] <= k[2] \/ l[2] <= m[2]
        BY <1>0, <3>1
      <4>2. Neighbours(table, parent, k, l)
        BY <3>1, <4>1 DEF Neighbours
      <4>3. Distant(table, t, k, l)
        BY <3>2, <3>3, <4>2 DEF Faithful, Spaced
      <4>4. QED
        BY <1>0, <3>2, <3>3, <4>3 DEF Distant
    <3>4. CASE l = key
      <4>1. ASSUME NEW j \in DOMAIN table, j[1] = parent PROVE j[2] <= k[2]
        <5>1. j[2] \in Nat /\ j[2] < key[2] /\ j \in DOMAIN new
          BY <1>0, <1>1, <4>1
        <5>2. j[2] <= k[2] \/ key[2] <= j[2]
          BY <3>1, <3>4, <4>1, <5>1
        <5>3. QED
          BY <1>0, <1>1, <3>1, <3>2, <5>1, <5>2
      <4>2. k[2] \in Nat /\ k[2] <= key[2]
        BY <1>0, <1>1, <3>1, <3>2
      <4>3. k \in LatestAt(table, key[1], key[2])
        BY <3>1, <3>2, <4>1, <4>2 DEF LatestAt
      <4>4. QED
        BY <1>0, <3>2, <3>4, <4>3 DEF Distant
    <3>5. QED
      BY <1>0, <3>1, <3>3, <3>4
  <2>2. QED
    BY <2>1 DEF Spaced
<1>4. QED
  BY <1>2, <1>3 DEF Faithful

\* The inputs an append remembers: those found unchanged and those that are new.
Kept(table, rows, decisions) ==
  {k \in DOMAIN rows : \/ decisions[k] = "unchanged"
                       \/ decisions[k] = "candidate" /\ k \notin DOMAIN table}
Input(t, k, row) == [table |-> t, key |-> k, row |-> row]

\* A statement appends to table t what was decided on when before was stored.
Appends(t, rows, decisions, before) ==
  /\ db'[t] = Appended(db[t], rows, decisions)
  /\ Remember(t, rows, AppendedStatus(db[t], decisions), before)
  /\ DOMAIN decisions = DOMAIN rows
  /\ \A k \in DOMAIN rows : k = <<k[1], k[2]>> /\ k[2] \in Nat /\ decisions[k] # "inserted"
  /\ \A k, l \in DOMAIN rows : k[1] = l[1] => k = l

\* What an append remembers.
LEMMA RememberIs ==
  ASSUME NEW t, NEW rows, NEW decisions, NEW before, Appends(t, rows, decisions, before)
  PROVE  /\ seen' = seen \cup {Input(t, k, rows[k]) : k \in Kept(db[t], rows, decisions)}
         /\ untidy' = untidy \cup {<<t, k[1]>> : k \in {j \in Kept(db[t], rows, decisions) : Late(t, j, before)}}
<1> DEFINE verdict == AppendedStatus(db[t], decisions)
           kept == {k \in DOMAIN rows : verdict[k] \in {"inserted", "unchanged"}}
<1>1. /\ seen' = seen \cup {Input(t, k, rows[k]) : k \in kept}
      /\ untidy' = untidy \cup {<<t, k[1]>> : k \in {j \in kept : Late(t, j, before)}}
  BY DEF Appends, Remember, Input
<1>2. ASSUME NEW k \in DOMAIN rows PROVE k \in kept <=> k \in Kept(db[t], rows, decisions)
  <2>1. k \in DOMAIN decisions /\ decisions[k] # "inserted"
    BY DEF Appends
  <2>2. verdict[k] = IF decisions[k] # "candidate" THEN decisions[k]
                     ELSE IF k \in DOMAIN db[t] THEN "duplicate" ELSE "inserted"
    BY <2>1 DEF AppendedStatus
  <2> HIDE DEF verdict
  <2>3. QED
    BY <2>1, <2>2 DEF Kept
<1> HIDE DEF verdict
<1>3. kept = Kept(db[t], rows, decisions)
  BY <1>2 DEF Kept
<1>4. QED
  BY <1>1, <1>3

\* A parent of which nothing is remembered is as it was.
LEMMA AppendLeaves ==
  ASSUME NEW t, NEW rows, NEW decisions, NEW before, Appends(t, rows, decisions, before),
         NEW parent, \A k \in Kept(db[t], rows, decisions) : k[1] # parent
  PROVE  /\ Alike(db[t], db'[t], parent)
         /\ \A o \in seen' : o.table = t /\ o.key[1] = parent => o \in seen
<1>1. Alike(db[t], db'[t], parent)
  <2>1. db'[t] = Appended(db[t], rows, decisions) /\ DOMAIN decisions = DOMAIN rows
    BY DEF Appends
  <2>2. ASSUME NEW k \in Candidates(decisions), k \notin DOMAIN db[t] PROVE k[1] # parent
    BY <2>1, <2>2 DEF Kept, Candidates
  <2>3. QED
    BY <2>1, <2>2 DEF Alike, Appended
<1>2. ASSUME NEW o \in seen', o.table = t, o.key[1] = parent, o \notin seen PROVE FALSE
  <2>1. PICK k \in Kept(db[t], rows, decisions) : o = Input(t, k, rows[k])
    BY <1>2, RememberIs
  <2>2. o.key = k
    BY <2>1 DEF Input
  <2>3. QED
    BY <1>2, <2>1, <2>2
<1>3. QED
  BY <1>1, <1>2

\* An input remembered of a parent still tidy came after all of its inputs,
\* and they had been read when it was decided on.
LEMMA AppendTimely ==
  ASSUME NEW t, NEW rows, NEW decisions, NEW before, Appends(t, rows, decisions, before),
         NEW k \in Kept(db[t], rows, decisions), <<t, k[1]>> \notin untidy',
         \A o \in seen : o.key[2] \in Nat
  PROVE  \A o \in seen : o.table = t /\ o.key[1] = k[1] => o.key[2] < k[2] /\ o \in before
<1>1. ~Late(t, k, before)
  <2>1. Late(t, k, before) => <<t, k[1]>> \in untidy'
    BY RememberIs
  <2>2. QED
    BY <2>1
<1>2. k \in DOMAIN rows /\ k[2] \in Nat
  BY DEF Kept, Appends
<1>3. ASSUME NEW o \in seen, o.table = t, o.key[1] = k[1] PROVE o.key[2] < k[2] /\ o \in before
  <2>1. ~(o.key[2] >= k[2]) /\ o \in before
    BY <1>1, <1>3 DEF Late
  <2>2. QED
    BY <1>2, <2>1
<1>4. QED
  BY <1>3

\* What is appended is recorded.
LEMMA AppendRecorded ==
  ASSUME NEW t, NEW rows, NEW decisions, NEW before, Appends(t, rows, decisions, before),
         Recorded(db[t], seen, t)
  PROVE  Recorded(db'[t], seen', t)
<1>1. db'[t] = Appended(db[t], rows, decisions) /\ DOMAIN decisions = DOMAIN rows
  BY DEF Appends
<1>2. seen \subseteq seen'
  BY RememberIs
<1>3. ASSUME NEW k \in DOMAIN db'[t]
      PROVE  /\ k = <<k[1], k[2]>> /\ k[2] \in Nat
             /\ \E o \in seen' : o.table = t /\ o.key = k
  <2>1. CASE k \in DOMAIN db[t]
    BY <1>2, <2>1 DEF Recorded
  <2>2. CASE k \notin DOMAIN db[t]
    <3>1. k \in Candidates(decisions)
      BY <1>1, <1>3, <2>2 DEF Appended
    <3>2. k \in Kept(db[t], rows, decisions) /\ k \in DOMAIN rows
      BY <1>1, <2>2, <3>1 DEF Kept, Candidates
    <3>3. Input(t, k, rows[k]) \in seen'
      BY <3>2, RememberIs
    <3>4. Input(t, k, rows[k]).table = t /\ Input(t, k, rows[k]).key = k
      BY DEF Input
    <3>5. QED
      BY <3>2, <3>3, <3>4 DEF Appends
  <2>3. QED
    BY <2>1, <2>2
<1>4. QED
  BY <1>3 DEF Recorded

\* An append leaves the history of a parent that is still tidy faithful.
LEMMA AppendFaithful ==
  ASSUME NEW t, NEW rows, NEW decisions, NEW before, Appends(t, rows, decisions, before),
         Recorded(db[t], seen, t), \A o \in seen : o.key[2] \in Nat,
         NEW parent, <<t, parent>> \notin untidy', Faithful(db[t], seen, t, parent),
         \A k \in DOMAIN rows :
           /\ k[1] = parent
           /\ \A o \in seen : o.table = t /\ o.key[1] = k[1] => o \in before
           => Stands(db[t], t, k, rows[k], decisions[k])
  PROVE  Faithful(db'[t], seen', t, parent)
<1> DEFINE kept == Kept(db[t], rows, decisions)
<1>1. CASE \A k \in kept : k[1] # parent
  <2>1. /\ Alike(db[t], db'[t], parent)
        /\ \A o \in seen' : o.table = t /\ o.key[1] = parent => o \in seen
    BY <1>1, AppendLeaves
  <2>2. QED
    BY <2>1, FaithfulAlike
<1>2. ASSUME NEW key \in kept, key[1] = parent PROVE Faithful(db'[t], seen', t, parent)
  <2>1. /\ key \in DOMAIN rows /\ key[2] \in Nat /\ DOMAIN decisions = DOMAIN rows
        /\ db'[t] = Appended(db[t], rows, decisions)
    BY <1>2 DEF Kept, Appends
  <2>2. \A o \in seen : o.table = t /\ o.key[1] = key[1] => o.key[2] < key[2] /\ o \in before
    BY <1>2, AppendTimely
  <2>3. Stands(db[t], t, key, rows[key], decisions[key])
    BY <1>2, <2>1, <2>2
  <2>4. \A k \in DOMAIN rows : k[1] = parent => k = key
    BY <1>2, <2>1 DEF Appends
  <2>5. ASSUME NEW o \in seen', o.table = t, o.key[1] = parent
        PROVE  o \in seen \/ (o.key = key /\ o.row = rows[key])
    <3>1. CASE o \notin seen
      <4>1. PICK k \in kept : o = Input(t, k, rows[k])
        BY <3>1, RememberIs
      <4>2. o.key = k /\ o.row = rows[k] /\ k \in DOMAIN rows
        BY <4>1 DEF Input, Kept
      <4>3. k = key
        BY <2>4, <2>5, <4>2
      <4>4. QED
        BY <4>2, <4>3
    <3>2. QED
      BY <3>1
  <2>6. CASE decisions[key] = "unchanged"
    <3>1. PICK l \in LatestAt(db[t], key[1], key[2]) : db[t][l] = rows[key]
      BY <2>3, <2>6 DEF Stands
    <3>2. \A k \in LatestAt(db[t], key[1], key[2]) : k = l
      BY OneLatest
    <3>3. Alike(db[t], db'[t], parent)
      <4>1. ASSUME NEW k \in Candidates(decisions) PROVE k[1] # parent
        <5>1. k \in DOMAIN rows /\ decisions[k] = "candidate"
          BY <2>1 DEF Candidates
        <5>2. k # key
          BY <2>6, <5>1
        <5>3. QED
          BY <2>4, <5>1, <5>2
      <4>2. QED
        BY <2>1, <4>1 DEF Alike, Appended
    <3>4. ASSUME NEW o \in seen', o.table = t, o.key[1] = parent, o \notin seen
          PROVE  \A k \in LatestAt(db[t], parent, o.key[2]) : db[t][k] = o.row
      <4>1. o.key = key /\ o.row = rows[key]
        BY <2>5, <3>4
      <4>2. QED
        BY <1>2, <3>1, <3>2, <4>1
    <3>5. QED
      BY <3>3, <3>4, FaithfulAlike
  <2>7. CASE decisions[key] # "unchanged"
    <3>1. decisions[key] = "candidate" /\ key \notin DOMAIN db[t]
      BY <1>2, <2>7 DEF Kept
    <3>2. /\ key \in DOMAIN db'[t] /\ db'[t][key] = rows[key]
          /\ \A k \in DOMAIN db[t] : k \in DOMAIN db'[t] /\ db'[t][k] = db[t][k]
      BY <2>1, <3>1 DEF Appended, Candidates
    <3>3. ASSUME NEW k \in DOMAIN db'[t], k[1] = key[1] PROVE k = key \/ k \in DOMAIN db[t]
      <4>1. k \in DOMAIN db[t] \/ k \in DOMAIN rows
        BY <2>1 DEF Appended, Candidates
      <4>2. QED
        BY <1>2, <2>4, <3>3, <4>1
    <3>4. \A l \in LatestAt(db[t], key[1], key[2]) :
            /\ db[t][l] # rows[key]
            /\ t \in {"user_stats", "tweet_stats"} => key[2] - l[2] >= Interval
      BY <2>3, <3>1 DEF Stands
    <3>5. Faithful(db[t], seen, t, key[1])
      BY <1>2
    <3>6. Lengthens(db[t], db'[t], seen, seen', t, key, rows[key])
      BY <1>2, <2>1, <2>2, <2>5, <3>2, <3>3, <3>4 DEF Lengthens
    <3>7. QED
      BY <1>2, <3>5, <3>6, FaithfulLonger
  <2>8. QED
    BY <2>6, <2>7
<1>3. QED
  BY <1>1, <1>2

\* Of a statement on versions each parent has one entry.
LEMMA ParentsApart ==
  ASSUME NEW b, BatchOK(b), NEW plan, PlanFrom(b, plan), NEW t \in VersionTables,
         NEW e \in plan[t], NEW f \in plan[t], e.key[1] = f.key[1]
  PROVE  e = f
<1>1. t \in PlannedTables
  BY DEF PlannedTables
<1>2. /\ e.item \in SourcesOf(b, t) /\ e = EntryOf(b, t, e.item)
      /\ f.item \in SourcesOf(b, t) /\ f = EntryOf(b, t, f.item)
  BY <1>1 DEF PlanFrom
<1>3. /\ e.item \in Present(b) /\ Live(b, e.item) /\ f.item \in Present(b) /\ Live(b, f.item)
      /\ e.item[1] = f.item[1]
  BY <1>1, <1>2, SourcesAre DEF VersionTables
<1>4. Item(b, e.item).id = Item(b, f.item).id
  <2>1. CASE t \in {"user_snapshot", "user_stats"}
    BY <1>2, <2>1, EntryItem DEF EntryOf
  <2>2. CASE t = "media_resource"
    BY <1>2, <2>2, EntryItem DEF EntryOf
  <2>3. CASE t = "tweet_stats"
    BY <1>2, <2>3, EntryItem DEF EntryOf
  <2>4. QED
    BY <2>1, <2>2, <2>3 DEF VersionTables
<1>5. e.item = f.item
  BY <1>3, <1>4, LiveUnique
<1>6. QED
  BY <1>2, <1>5

\* What was decided on the entries of a statement stands for those parents
\* whose inputs had all been read.
Informed(table, inputs, marked, entries, t, snapshot) ==
  /\ DOMAIN snapshot.decisions = {e.key : e \in entries}
  /\ snapshot.seen \subseteq inputs
  /\ \A e \in entries :
       /\ <<t, e.key[1]>> \notin marked
       /\ \A o \in inputs : o.table = t /\ o.key[1] = e.key[1] => o \in snapshot.seen
       => Stands(table, t, e.key, e.row, snapshot.decisions[e.key])
Current(s) ==
  s.step \in VersionTables /\ s.snapshot # Unread =>
    Informed(db[s.step], seen, untidy, s.plan[s.step], s.step, s.snapshot)

\* A decision stands when it is made.
LEMMA DecisionStands ==
  ASSUME NEW b, BatchOK(b), NEW plan, PlanFrom(b, plan), NEW t \in VersionTables,
         Recorded(db[t], seen, t)
  PROVE  LET decisions == Decide(t, Rows(plan[t]))
         IN  /\ DOMAIN decisions = {e.key : e \in plan[t]}
             /\ \A e \in plan[t] : Stands(db[t], t, e.key, e.row, decisions[e.key])
<1> DEFINE rows == Rows(plan[t])
           decisions == Decide(t, rows)
<1>1. PICK parents, interval : /\ decisions = Decisions(db[t], parents, rows, interval)
                               /\ t \in {"user_stats", "tweet_stats"} => interval = Interval
  <2>1. CASE t = "user_snapshot"
    BY <2>1 DEF Decide, DecideUserSnapshots
  <2>2. CASE t = "user_stats"
    BY <2>2 DEF Decide, DecideUserStats
  <2>3. CASE t = "media_resource"
    BY <2>3 DEF Decide, DecideMediaResources
  <2>4. CASE t = "tweet_stats"
    BY <2>4 DEF Decide, DecideTweetStats
  <2>5. QED
    BY <2>1, <2>2, <2>3, <2>4 DEF VersionTables
<1>2. DOMAIN rows = {e.key : e \in plan[t]}
  BY RowsDomain
<1>3. t \in KeyedByItem
  BY DEF KeyedByItem, PlannedTables, VersionTables
<1> HIDE DEF decisions
<1>4. ASSUME NEW e \in plan[t]
      PROVE  Stands(db[t], t, e.key, e.row, decisions[e.key])
  <2>1. e.key \in DOMAIN rows /\ rows[e.key] = e.row
    BY <1>3, RowsOfItems
  <2> HIDE DEF rows
  <2>2. decisions[e.key] = Decision(db[t], parents, e.key, e.row, interval)
    BY <1>1, <2>1 DEF Decisions
  <2>3. ASSUME decisions[e.key] = "candidate", NEW l \in LatestAt(db[t], e.key[1], e.key[2])
        PROVE  db[t][l] # e.row /\ ~(e.key[2] - l[2] < interval)
    BY <2>2, <2>3 DEF Decision
  <2>4. e.key[2] \in Nat /\ Interval \in Nat
    BY VersionTimes, SubmitAssumption
  <2>5. \A l \in LatestAt(db[t], e.key[1], e.key[2]) : l[2] \in Nat
    BY DEF LatestAt, Recorded
  <2>6. ASSUME decisions[e.key] = "unchanged"
        PROVE  \E l \in LatestAt(db[t], e.key[1], e.key[2]) : db[t][l] = e.row
    BY <2>2, <2>6 DEF Decision
  <2>7. ASSUME decisions[e.key] = "candidate", NEW l \in LatestAt(db[t], e.key[1], e.key[2]),
               t \in {"user_stats", "tweet_stats"}
        PROVE  e.key[2] - l[2] >= Interval
    BY <1>1, <2>3, <2>4, <2>5, <2>7
  <2>8. QED
    BY <2>3, <2>6, <2>7 DEF Stands
<1>5. DOMAIN decisions = DOMAIN rows
  BY <1>1 DEF Decisions
<1>6. QED
  BY <1>2, <1>4, <1>5 DEF decisions

\* What was decided on a parent that is as it was still stands.
LEMMA StandsAlike ==
  ASSUME NEW table, NEW new, NEW t, NEW k, NEW row, NEW decision,
         Alike(table, new, k[1]), Stands(table, t, k, row, decision)
  PROVE  Stands(new, t, k, row, decision)
  BY LatestAlike DEF Stands

\* What was read stays current while nothing is appended.
LEMMA CurrentSame ==
  ASSUME NEW q, Current(req[q]), req'[q] = req[q], \A t \in VersionTables : db'[t] = db[t],
         seen' = seen, untidy' = untidy
  PROVE  Current(req[q])'
  BY DEF Current

\* An append leaves what other requests have read of their tables current.
LEMMA CurrentAppended ==
  ASSUME NEW t, NEW rows, NEW decisions, NEW before, Appends(t, rows, decisions, before),
         \A u \in VersionTables \ {t} : db'[u] = db[u],
         \A o \in seen : o.key[2] \in Nat,
         NEW q, Current(req[q]), req'[q] = req[q]
  PROVE  Current(req[q])'
<1> DEFINE s == req[q]
           u == s.step
<1> SUFFICES ASSUME u \in VersionTables, s.snapshot # Unread
             PROVE  Informed(db'[u], seen', untidy', s.plan[u], u, s.snapshot)
  BY DEF Current
<1>1. Informed(db[u], seen, untidy, s.plan[u], u, s.snapshot)
  BY DEF Current
<1>2. seen \subseteq seen' /\ untidy \subseteq untidy'
  BY RememberIs
<1>3. ASSUME NEW e \in s.plan[u], <<u, e.key[1]>> \notin untidy',
             \A o \in seen' : o.table = u /\ o.key[1] = e.key[1] => o \in s.snapshot.seen
      PROVE  Stands(db'[u], u, e.key, e.row, s.snapshot.decisions[e.key])
  <2>1. Stands(db[u], u, e.key, e.row, s.snapshot.decisions[e.key])
    BY <1>1, <1>2, <1>3 DEF Informed
  <2>2. CASE u # t
    BY <2>1, <2>2
  <2>3. CASE u = t
    <3>1. ASSUME NEW k \in Kept(db[t], rows, decisions), k[1] = e.key[1] PROVE FALSE
      <4>1. Input(t, k, rows[k]) \in seen'
        BY RememberIs
      <4>2. Input(t, k, rows[k]).table = t /\ Input(t, k, rows[k]).key = k
        BY DEF Input
      <4>3. Input(t, k, rows[k]) \in seen
        BY <1>1, <1>3, <2>3, <3>1, <4>1, <4>2 DEF Informed
      <4>4. k[2] \in Nat
        BY DEF Kept, Appends
      <4>5. k[2] < k[2]
        BY <1>3, <2>3, <3>1, <4>2, <4>3, AppendTimely
      <4>6. QED
        BY <4>4, <4>5
    <3>2. Alike(db[t], db'[t], e.key[1])
      BY <3>1, AppendLeaves
    <3>3. QED
      BY <2>1, <2>3, <3>2, StandsAlike
  <2>4. QED
    BY <2>2, <2>3
<1>4. QED
  BY <1>1, <1>2, <1>3 DEF Informed

\* What holds of the versions between two steps: each is recorded, tidy parents
\* are faithful, and what was decided of them is current.
Chronicle ==
  /\ \A o \in seen : o.table \in VersionTables /\ o.key[2] \in Nat
  /\ \A t \in VersionTables :
       /\ Recorded(db[t], seen, t)
       /\ \A parent : <<t, parent>> \notin untidy => Faithful(db[t], seen, t, parent)
  /\ \A p \in Requests : Current(req[p])

\* A step that neither appends a version nor remembers one.
VersionsSame == (\A t \in VersionTables : db'[t] = db[t]) /\ seen' = seen /\ untidy' = untidy

\* Only AppendVersions changes versions or what is remembered of them.
LEMMA VersionsChange ==
  ASSUME Shaped, IsStore(db), [Next]_vars
  PROVE  VersionsSame \/ \E p \in Requests : \E o : AppendVersions(p, o)
<1>1. ASSUME NEW t \in Tables, t \notin VersionTables, NEW table, db' = [db EXCEPT ![t] = table]
      PROVE  \A u \in VersionTables : db'[u] = db[u]
  <2>1. \A u \in VersionTables : u \in Tables /\ u # t
    BY <1>1, KindsOfTables
  <2>2. QED
    BY <1>1, <2>1, OneTableOnly
<1>2. CASE Quiet /\ (db' = db \/ CreateTransferTask)
  <2>1. CASE CreateTransferTask
    <3>1. "transfer_task" \in Tables /\ "transfer_task" \notin VersionTables
      BY KindsOfTables
    <3>2. PICK table : db' = [db EXCEPT !["transfer_task"] = table]
      BY <2>1 DEF CreateTransferTask
    <3>3. QED
      BY <1>1, <1>2, <3>1, <3>2 DEF Quiet, VersionsSame
  <2>2. QED
    BY <1>2, <2>1 DEF Quiet, VersionsSame
<1>3. ASSUME NEW p \in Requests, NEW o, CommitLookup(p, o) PROVE VersionsSame
  <2>1. req[p].step \in LookupTables /\ (db' = db \/ \E table : db' = [db EXCEPT ![req[p].step] = table])
    BY <1>3 DEF CommitLookup, DbAfter
  <2>2. req[p].step \in Tables /\ req[p].step \notin VersionTables
    BY <2>1, KindsOfTables
  <2>3. \A u \in VersionTables : db'[u] = db[u]
    BY <1>1, <2>1, <2>2
  <2>4. QED
    BY <1>3, <2>3 DEF CommitLookup, history, VersionsSame
<1>4. ASSUME NEW p \in Requests, NEW failing, Convert(p, failing) PROVE VersionsSame
  <2>1. (db' = db \/ db' = OwnLookups(req[p].batch, failing)) /\ UNCHANGED history
    BY <1>4, ConvertTurn
  <2>2. \A u \in VersionTables : u \in Tables \ LookupTables
    BY KindsOfTables
  <2>3. db' = OwnLookups(req[p].batch, failing) => \A u \in Tables \ LookupTables : db'[u] = db[u]
    BY DEF OwnLookups
  <2>4. QED
    BY <2>1, <2>2, <2>3 DEF history, VersionsSame
<1>5. ASSUME NEW p \in Requests, NEW o, WriteRows(p, o) PROVE VersionsSame
  <2>1. UNCHANGED history /\ (db' = db \/ Writes(p))
    BY <1>5, WriteRowsTurn DEF Writes, WriteRows
  <2>2. CASE Writes(p)
    <3> DEFINE rows == Rows(req[p].plan[req[p].step])
    <3>1. req[p].step \in FilledTables /\ db' = Write(req[p].step, rows)
      BY <2>2 DEF Writes
    <3>2. rows = [k \in DOMAIN rows |-> rows[k]] /\ KeepsFacts(db, db')
      BY RowsIsFunction, NextKeeps
    <3> HIDE DEF rows
    <3>3. \A u \in Tables \ {req[p].step, "index_queue"} : db'[u] = db[u]
      BY <3>1, <3>2, WriteIs
    <3>4. \A u \in VersionTables : u \in Tables \ {req[p].step, "index_queue"}
      BY <3>1, KindsOfTables
    <3>5. QED
      BY <2>1, <3>3, <3>4 DEF history, VersionsSame
  <2>3. QED
    BY <2>1, <2>2 DEF history, VersionsSame
<1>6. ASSUME NEW p \in Requests, NEW o, NEW c, EnqueueTransfers(p, o, c) PROVE VersionsSame
  <2>1. PICK rows : db' = db \/ db' = [db EXCEPT !["transfer_task"] = Upsert(@, rows, {})]
    BY <1>6, EnqueueTransfersTurn
  <2>2. "transfer_task" \in Tables /\ "transfer_task" \notin VersionTables
    BY KindsOfTables
  <2>3. \A u \in VersionTables : db'[u] = db[u]
    BY <1>1, <2>1, <2>2
  <2>4. seen' = seen /\ untidy' = untidy
    BY <1>6 DEF EnqueueTransfers, history
  <2>5. QED
    BY <2>3, <2>4 DEF VersionsSame
<1>7. ASSUME NEW p \in Requests, NEW o, NEW c, CommitRelations(p, o, c) PROVE VersionsSame
  <2>1. db' = db \/ db' = SyncedStore(p)
    BY <1>7, CommitRelationsTurn
  <2>2. \A u \in VersionTables : u \in Tables \ RefTables
    BY KindsOfTables
  <2>3. db' = SyncedStore(p) => \A u \in Tables \ RefTables : db'[u] = db[u]
    BY DEF SyncedStore
  <2>4. seen' = seen /\ untidy' = untidy
    BY <1>7 DEF CommitRelations
  <2>5. QED
    BY <2>1, <2>2, <2>3, <2>4 DEF VersionsSame
<1>8. ASSUME NEW p \in Requests,
             \/ ReadLookup(p) \/ DecideVersions(p) \/ PlanRelations(p) \/ Abandon(p)
             \/ \E o \in Outcomes : Preload(p, o)
      PROVE  VersionsSame
  BY <1>8 DEF ReadLookup, DecideVersions, PlanRelations, Abandon, Preload, history, VersionsSame
<1>9. QED
  BY <1>2, <1>3, <1>4, <1>5, <1>6, <1>7, <1>8, StepsAre DEF Moves

\* A request holds what it has read of versions only after DecideVersions.
LEMMA ReadingMoves ==
  ASSUME Inductive, [Next]_vars, NEW q \in Requests
  PROVE  \/ req'[q] = req[q] \/ DecideVersions(q)
         \/ req'[q].step \notin VersionTables \/ req'[q].snapshot = Unread
<1> DEFINE Idle == req'[q].step \notin VersionTables \/ req'[q].snapshot = Unread
<1>0. Shaped /\ IsStore(db)
  BY DEF Inductive
<1>1. ASSUME NEW p \in Requests, p # q, Moves(p) PROVE req'[q] = req[q]
  <2>1. Turn(p)
    BY <1>0, <1>1, MovesTurn
  <2>2. QED
    BY <1>0, <1>1, <2>1, TurnKeepsShape
<1>2. CASE Quiet
  BY <1>2 DEF Quiet
<1>3. CASE ReadLookup(q) \/ Abandon(q)
  BY <1>0, <1>3, ReadLookupTurn, AbandonTurn, NoVersionStep
<1>4. CASE PlanRelations(q)
  <2>1. req[q].step \in RefTables /\ req'[q].step = After(req[q], req[q].step)
    BY <1>0, <1>4, PlanRelationsTurn
  <2>2. PICK n \in 18..21 : req[q].step = Steps[n]
    BY <2>1, RefTablesAre
  <2>3. req'[q].step = Steps[n + 1]
    BY <2>1, <2>2, PlanningGoesOn DEF Inductive, AllStaged
  <2>4. req'[q].step \in RefTables \cup {"relations"}
    BY <2>3, StepNames DEF RefTables
  <2>5. QED
    BY <2>4, NoVersionStep
<1>5. ASSUME NEW o, CommitLookup(q, o) PROVE Idle
  <2>1. Proceeds(q) \/ req'[q].step = "convert"
    BY <1>0, <1>5, CommitLookupTurn
  <2>2. QED
    BY <2>1, NoVersionStep DEF Proceeds
<1>6. ASSUME NEW failing, Convert(q, failing) PROVE Idle
  BY <1>0, <1>6, ConvertTurn DEF Proceeds
<1>7. ASSUME NEW o, Preload(q, o) PROVE Idle
  <2>1. Proceeds(q) \/ req'[q].step = "done"
    BY <1>0, <1>7, PreloadTurn
  <2>2. QED
    BY <2>1, NoVersionStep DEF Proceeds
<1>8. ASSUME NEW o, WriteRows(q, o) \/ AppendVersions(q, o) PROVE Idle
  BY <1>0, <1>8, WriteRowsTurn, AppendVersionsTurn DEF Proceeds
<1>9. ASSUME NEW o, NEW c, EnqueueTransfers(q, o, c) PROVE Idle
  BY <1>0, <1>9, EnqueueTransfersTurn DEF Proceeds
<1>10. ASSUME NEW o, NEW c, CommitRelations(q, o, c) PROVE Idle
  BY <1>0, <1>10, CommitRelationsTurn DEF Proceeds
<1>11. CASE Moves(q)
  BY <1>3, <1>4, <1>5, <1>6, <1>7, <1>8, <1>9, <1>10, <1>11 DEF Moves
<1>12. QED
  BY <1>1, <1>2, <1>11, StepsAre

\* Deciding reads what there is.
LEMMA DecidingReads ==
  ASSUME Inductive, Chronicle, NEW q \in Requests, DecideVersions(q)
  PROVE  Current(req[q])'
<1> DEFINE t == req[q].step
           plan == req[q].plan
           decisions == Decide(t, Rows(plan[t]))
<1>1. /\ UNCHANGED <<db, seen, untidy>> /\ t \in VersionTables /\ req'[q].step = t /\ req'[q].plan = plan
      /\ req'[q].snapshot = [decisions |-> decisions, seen |-> seen]
  BY DecideVersionsTurn DEF Inductive, history
<1>2. BatchOK(req[q].batch) /\ PlanFrom(req[q].batch, plan) /\ Recorded(db[t], seen, t)
  BY <1>1, PlansAre DEF Inductive, Chronicle
<1>3. /\ DOMAIN decisions = {e.key : e \in plan[t]}
      /\ \A e \in plan[t] : Stands(db[t], t, e.key, e.row, decisions[e.key])
  BY <1>1, <1>2, DecisionStands
<1> HIDE DEF decisions
<1>4. req'[q].snapshot.decisions = decisions /\ req'[q].snapshot.seen = seen
  BY <1>1
<1>5. Informed(db[t], seen, untidy, plan[t], t, req'[q].snapshot)
  BY <1>3, <1>4 DEF Informed
<1>6. QED
  BY <1>1, <1>5 DEF Current

\* A statement that appends, appends what it has decided on.
LEMMA AppendIs ==
  ASSUME Inductive, Chronicle, Grows(db, db'), NEW p \in Requests, NEW o, AppendVersions(p, o), o # "failed"
  PROVE  LET s == req[p]
             t == s.step
             rows == Rows(s.plan[t])
         IN  /\ t \in VersionTables
             /\ Appends(t, rows, s.snapshot.decisions, s.snapshot.seen)
             /\ \A u \in VersionTables \ {t} : db'[u] = db[u]
             /\ \A k \in DOMAIN rows :
                  /\ <<t, k[1]>> \notin untidy
                  /\ \A i \in seen : i.table = t /\ i.key[1] = k[1] => i \in s.snapshot.seen
                  => Stands(db[t], t, k, rows[k], s.snapshot.decisions[k])
<1> DEFINE s == req[p]
           t == s.step
           rows == Rows(s.plan[t])
           decisions == s.snapshot.decisions
           verdict == AppendedStatus(db[t], decisions)
           written == [db EXCEPT ![t] = Appended(@, rows, decisions)]
           new == IF t = "user_snapshot"
                  THEN [written EXCEPT !["index_queue"] = QueueSnapshots(db, decisions)["index_queue"]]
                  ELSE written
<1>1. /\ t \in VersionTables /\ s.snapshot # Unread /\ db' = new
      /\ Remember(t, rows, verdict, s.snapshot.seen)
  BY AppendVersionsTurn DEF Inductive
<1>2. db'[t] = Appended(db[t], rows, decisions) /\ \A u \in Tables \ {t, "index_queue"} : db'[u] = db[u]
  <2>1. KeepsFacts(db, db') /\ t \in VersionTables /\ IsStore(db) /\ db' = new
    BY <1>1 DEF Grows, Inductive
  <2> HIDE DEF rows, decisions, s, t
  <2>2. QED
    BY <2>1, AppendGrows
<1>3. \A u \in VersionTables \ {t} : db'[u] = db[u]
  BY <1>2, KindsOfTables
<1>4. t \in KeyedByItem /\ BatchOK(s.batch) /\ PlanFrom(s.batch, s.plan)
  BY <1>1, PlansAre DEF Inductive, KeyedByItem, PlannedTables, VersionTables
<1>5. Informed(db[t], seen, untidy, s.plan[t], t, s.snapshot)
  BY <1>1 DEF Chronicle, Current
<1>6. DOMAIN rows = {e.key : e \in s.plan[t]}
  BY RowsDomain
<1>7. ASSUME NEW e \in s.plan[t]
      PROVE  /\ rows[e.key] = e.row /\ e.key = <<e.key[1], e.key[2]>> /\ e.key[2] \in Nat
             /\ decisions[e.key] # "inserted"
  <2>1. rows[e.key] = e.row
    BY <1>4, RowsOfItems
  <2>2. decisions[e.key] # "inserted"
    BY <1>1 DEF Inductive, AllTold, Decided
  <2>3. e.key = <<e.key[1], e.key[2]>> /\ e.key[2] \in Nat
    BY <1>1, <1>4, VersionTimes
  <2>4. QED
    BY <2>1, <2>2, <2>3
<1>8. \A e, f \in s.plan[t] : e.key[1] = f.key[1] => e = f
  BY <1>1, <1>4, ParentsApart
<1>9. Appends(t, rows, decisions, s.snapshot.seen)
  <2>1. DOMAIN decisions = DOMAIN rows
    BY <1>5, <1>6 DEF Informed
  <2> HIDE DEF rows, decisions
  <2>2. \A k \in DOMAIN rows : k = <<k[1], k[2]>> /\ k[2] \in Nat /\ decisions[k] # "inserted"
    BY <1>6, <1>7
  <2>3. \A k, l \in DOMAIN rows : k[1] = l[1] => k = l
    BY <1>6, <1>8
  <2>4. QED
    BY <1>1, <1>2, <2>1, <2>2, <2>3 DEF Appends
<1>10. ASSUME NEW k \in DOMAIN rows, <<t, k[1]>> \notin untidy,
              \A i \in seen : i.table = t /\ i.key[1] = k[1] => i \in s.snapshot.seen
       PROVE  Stands(db[t], t, k, rows[k], decisions[k])
  <2>1. PICK e \in s.plan[t] : e.key = k
    BY <1>6
  <2>2. Stands(db[t], t, e.key, e.row, decisions[e.key])
    BY <1>5, <1>10, <2>1 DEF Informed
  <2>3. QED
    BY <1>7, <2>1, <2>2
<1>11. QED
  BY <1>1, <1>3, <1>9, <1>10

\* Every step keeps the chronicle.
LEMMA ChronicleKept ==
  ASSUME Inductive, Chronicle, [Next]_vars
  PROVE  Chronicle'
<1>1. Requests' = Requests /\ Grows(db, db')
  BY NextGrows, ShapeKept DEF Inductive
<1>2. \A q \in Requests : /\ DecideVersions(q) => Current(req[q])'
                          /\ req'[q].step \notin VersionTables \/ req'[q].snapshot = Unread => Current(req[q])'
  BY DecidingReads DEF Current
<1>3. CASE VersionsSame
  <2>1. \A q \in Requests : Current(req[q])'
    BY <1>2, <1>3, ReadingMoves, CurrentSame DEF Chronicle, VersionsSame
  <2>2. QED
    BY <1>1, <1>3, <2>1 DEF Chronicle, VersionsSame
<1>4. ASSUME NEW p \in Requests, NEW o, AppendVersions(p, o), o = "failed" PROVE VersionsSame
  BY <1>4 DEF AppendVersions, DbAfter, VersionsSame
<1>5. ASSUME NEW p \in Requests, NEW o, AppendVersions(p, o), o # "failed" PROVE Chronicle'
  <2> DEFINE t == req[p].step
             rows == Rows(req[p].plan[t])
             decisions == req[p].snapshot.decisions
             before == req[p].snapshot.seen
  <2>1. /\ t \in VersionTables /\ Appends(t, rows, decisions, before)
        /\ \A u \in VersionTables \ {t} : db'[u] = db[u]
        /\ \A k \in DOMAIN rows :
             /\ <<t, k[1]>> \notin untidy
             /\ \A i \in seen : i.table = t /\ i.key[1] = k[1] => i \in before
             => Stands(db[t], t, k, rows[k], decisions[k])
    BY <1>1, <1>5, AppendIs
  <2> HIDE DEF rows, decisions, before, t
  <2>2. /\ seen \subseteq seen' /\ untidy \subseteq untidy'
        /\ \A i \in seen' \ seen : \E k \in DOMAIN rows : i = Input(t, k, rows[k])
    BY <2>1, RememberIs DEF Kept
  <2>3. \A i \in seen' : i.table \in VersionTables /\ i.key[2] \in Nat
    <3>1. ASSUME NEW i \in seen' \ seen PROVE i.table = t /\ i.key[2] \in Nat
      BY <2>1, <2>2 DEF Input, Appends
    <3>2. QED
      BY <2>1, <3>1 DEF Chronicle
  <2>4. ASSUME NEW u \in VersionTables, u # t
        PROVE  \A i \in seen' : i.table = u => i \in seen
    BY <2>2, <2>4 DEF Input
  <2>5. ASSUME NEW u \in VersionTables
        PROVE  Recorded(db'[u], seen', u)
    <3>1. Recorded(db[u], seen, u)
      BY DEF Chronicle
    <3>2. CASE u = t
      BY <2>1, <3>1, <3>2, AppendRecorded
    <3>3. CASE u # t
      BY <2>1, <2>2, <3>1, <3>3 DEF Recorded
    <3>4. QED
      BY <3>2, <3>3
  <2>6. ASSUME NEW u \in VersionTables, NEW parent, <<u, parent>> \notin untidy'
        PROVE  Faithful(db'[u], seen', u, parent)
    <3>1. /\ Recorded(db[u], seen, u) /\ Faithful(db[u], seen, u, parent)
          /\ (\A i \in seen : i.key[2] \in Nat) /\ <<u, parent>> \notin untidy
      BY <2>2, <2>6 DEF Chronicle
    <3>2. CASE u = t
      <4>1. \A k \in DOMAIN rows :
              /\ k[1] = parent
              /\ \A i \in seen : i.table = t /\ i.key[1] = k[1] => i \in before
              => Stands(db[t], t, k, rows[k], decisions[k])
        BY <2>1, <3>1, <3>2
      <4>2. QED
        BY <2>1, <2>6, <3>1, <3>2, <4>1, AppendFaithful
    <3>3. CASE u # t
      BY <2>1, <2>4, <3>1, <3>3 DEF Faithful, Shows
    <3>4. QED
      BY <3>2, <3>3
  <2>7. ASSUME NEW q \in Requests PROVE Current(req[q])'
    <3>1. Current(req[q]) /\ \A i \in seen : i.key[2] \in Nat
      BY DEF Chronicle
    <3>2. req'[q] = req[q] => Current(req[q])'
      BY <2>1, <3>1, CurrentAppended
    <3>3. QED
      BY <1>2, <3>2, ReadingMoves
  <2>8. QED
    BY <1>1, <2>3, <2>5, <2>6, <2>7 DEF Chronicle
<1>6. QED
  BY <1>3, <1>4, <1>5, VersionsChange DEF Inductive

\* At first nothing is stored, remembered or decided.
LEMMA ChronicleAtFirst == Init => Chronicle
<1> SUFFICES ASSUME Init PROVE Chronicle
  OBVIOUS
<1>1. seen = {} /\ req = [p \in Requests |-> Started(load.batches[p])] /\ \A t \in Tables : db[t] = << >>
  BY DEF Init
<1>2. \A p \in Requests : Current(req[p])
  BY <1>1, StartedIs DEF Current
<1>3. \A t \in VersionTables : DOMAIN db[t] = {}
  BY <1>1, KindsOfTables
<1>4. QED
  BY <1>1, <1>2, <1>3 DEF Chronicle, Recorded, Faithful, Shows, Spaced

\* The history of a parent whose versions came in order and one at a time is
\* faithful: each input is what the store shows for its time, neighbours
\* differ, and statistics keep their distance.
THEOREM HistoryTheorem == Spec => []HistoryFaithful
<1>1. Init => Chronicle
  BY ChronicleAtFirst
<1>2. Inductive /\ Chronicle /\ [Next]_vars => Chronicle'
  BY ChronicleKept
<1>3. Chronicle => HistoryFaithful
  <2> SUFFICES ASSUME Chronicle PROVE HistoryFaithful
    OBVIOUS
  <2>1. ASSUME NEW o \in seen, <<o.table, o.key[1]>> \notin untidy, NEW k \in AsOf(o.table, o.key)
        PROVE  db[o.table][k] = o.row
    <3>1. o.table \in VersionTables /\ Faithful(db[o.table], seen, o.table, o.key[1])
      BY <2>1 DEF Chronicle
    <3>2. QED
      BY <2>1, <3>1 DEF AsOf, Faithful, Shows
  <2>2. ASSUME NEW t \in VersionTables, NEW k \in DOMAIN db[t], NEW l \in DOMAIN db[t],
               k[1] = l[1], k[2] < l[2], <<t, k[1]>> \notin untidy,
               \A m \in DOMAIN db[t] : m[1] = k[1] => m[2] <= k[2] \/ l[2] <= m[2]
        PROVE  Distant(db[t], t, k, l)
    <3>1. Faithful(db[t], seen, t, k[1])
      BY <2>2 DEF Chronicle
    <3>2. Neighbours(db[t], k[1], k, l)
      BY <2>2 DEF Neighbours
    <3>3. QED
      BY <3>1, <3>2 DEF Faithful, Spaced
  <2>3. QED
    BY <2>1, <2>2 DEF HistoryFaithful, Distant
<1>4. Spec => []Inductive
  BY InductiveAtFirst, AllToldKept, PTL DEF Spec
<1>5. QED
  BY <1>1, <1>2, <1>3, <1>4, PTL DEF Spec

-----------------------------------------------------------------------------
(* The transfer a stored resource is owed.                                 *)

\* The results say one of whys of the transfer of an entry.
SaysTransfer(results, e, whys) ==
  \E r \in results : r.item = e.item /\ r.op = "media_transfer" /\ r.why \in whys
TransferFailures == {"statement", "missing_media", "missing_source"}
Queued == {"enqueued", "already"}

SourceUrl(s, e) == SelectSource(Item(s.batch, e.item), e.row)
HasTask(e) == \E k \in DOMAIN db["transfer_task"] : k[1] = e.key[1] /\ k[2] <= e.key[2]

\* Before the resources are written nothing is told of them.  Once they are,
\* the verdicts wait for the enqueueing, and after it each one that was told
\* is answered.
Pending(s, e) ==
  /\ \A n \in 1..10 : s.step # Steps[n]
  /\ \/ /\ s.step \in {"transfer_task", "gone"}
        /\ e.key \in DOMAIN s.decided /\ ShouldEnqueue(s.decided[e.key])
     \/ load.active /\ SourceUrl(s, e) # Null =>
          SaysTransfer(s.results, e, Queued \cup TransferFailures)
Owing(s) ==
  \A e \in s.plan["media_resource"] :
    /\ Told(s.results, e, "media_resource") => Pending(s, e)
    /\ SaysTransfer(s.results, e, Queued) => HasTask(e)
AllOwing == \A p \in Requests : Owing(req[p])

\* No step goes back to those before the enqueueing.
Onward(q) ==
  \A n \in 1..10 : req'[q].step = Steps[n] => \E i \in 1..10 : req[q].step = Steps[i]

LEMMA ProceedsOnward ==
  ASSUME NEW q, Proceeds(q), NEW i \in 1..22, req[q].step = Steps[i]
  PROVE  Onward(q)
<1>1. PICK x : req'[q].step = After(x, Steps[i])
  BY DEF Proceeds
<1>2. PICK m \in i + 1..23 : After(x, Steps[i]) = Steps[m]
  BY AfterIs
<1>3. ASSUME NEW n \in 1..10, req'[q].step = Steps[n] PROVE i \in 1..10
  <2>1. n \in 1..23 /\ m \in 1..23
    OBVIOUS
  <2>2. n = m
    BY <1>1, <1>2, <1>3, <2>1, StepsApart
  <2>3. QED
    BY <2>2
<1>4. QED
  BY <1>3 DEF Onward

\* A step to one that is not before the enqueueing.
LEMMA BeyondOnward ==
  ASSUME NEW q, req'[q].step \in {"gone", "done"} \/ \E m \in 11..23 : req'[q].step = Steps[m]
  PROVE  Onward(q)
<1>1. ASSUME NEW n \in 1..10 PROVE req'[q].step # Steps[n]
  <2>1. n \in 1..23 /\ 23 \in 1..23 /\ \A m \in 11..23 : m \in 1..23 /\ m # n
    OBVIOUS
  <2>2. Steps[n] # "gone" /\ Steps[n] # "done"
    <3>1. Steps[n] # Steps[23]
      BY <2>1, StepsApart
    <3>2. Steps[n] # "gone"
      BY <2>1, NotAStep
    <3>3. QED
      BY <3>1, <3>2, StepNames
  <2>3. \A m \in 11..23 : Steps[m] # Steps[n]
    BY <2>1, StepsApart
  <2>4. QED
    BY <2>2, <2>3
<1>2. QED
  BY <1>1 DEF Onward

\* Every step of a request takes it onward.
LEMMA MovesOnward ==
  ASSUME Inductive, NEW q \in Requests, Moves(q)
  PROVE  Onward(q)
<1>0. Shaped /\ IsStore(db) /\ Staged(req[q])
  BY DEF Inductive, AllStaged
<1>1. ASSUME NEW o, CommitLookup(q, o) PROVE Onward(q)
  <2>1. req[q].step \in LookupTables /\ (Proceeds(q) \/ req'[q].step = Steps[4])
    BY <1>0, <1>1, CommitLookupTurn, StepNames
  <2>2. PICK i \in 1..3 : req[q].step = Steps[i]
    BY <2>1, LookupTablesAre
  <2>3. i \in 1..22 /\ i \in 1..10
    OBVIOUS
  <2>4. QED
    BY <2>2, <2>3 DEF Onward
<1>2. ASSUME NEW failing, Convert(q, failing) PROVE Onward(q)
  <2>1. Proceeds(q) /\ req[q].step = Steps[4]
    BY <1>0, <1>2, ConvertTurn, StepNames
  <2>2. 4 \in 1..22
    OBVIOUS
  <2>3. QED
    BY <2>1, <2>2, ProceedsOnward
<1>3. ASSUME NEW o, Preload(q, o) PROVE Onward(q)
  <2>1. req[q].step = Steps[5] /\ (Proceeds(q) \/ req'[q].step = "done")
    BY <1>0, <1>3, PreloadTurn, StepNames
  <2>2. 5 \in 1..22
    OBVIOUS
  <2>3. QED
    BY <2>1, <2>2, ProceedsOnward, BeyondOnward
<1>4. ASSUME NEW o, WriteRows(q, o) \/ AppendVersions(q, o) PROVE Onward(q)
  <2>1. Proceeds(q) /\ req[q].step \in DataTables
    <3>1. CASE WriteRows(q, o)
      BY <1>0, <3>1, WriteRowsTurn DEF DataTables
    <3>2. CASE AppendVersions(q, o)
      BY <1>0, <3>2, AppendVersionsTurn DEF DataTables
    <3>3. QED
      BY <1>4, <3>1, <3>2
  <2>2. PICK i \in 6..17 : req[q].step = Steps[i]
    BY <2>1, DataTablesAre
  <2>3. i \in 1..22
    OBVIOUS
  <2>4. QED
    BY <2>1, <2>2, <2>3, ProceedsOnward
<1>5. ASSUME NEW o, NEW c, EnqueueTransfers(q, o, c) PROVE Onward(q)
  <2>1. Proceeds(q) /\ req[q].step = Steps[11]
    BY <1>0, <1>5, EnqueueTransfersTurn, StepNames
  <2>2. 11 \in 1..22
    OBVIOUS
  <2>3. QED
    BY <2>1, <2>2, ProceedsOnward
<1>6. ASSUME NEW o, NEW c, CommitRelations(q, o, c) PROVE Onward(q)
  <2>1. Proceeds(q) /\ req[q].step = Steps[22]
    BY <1>0, <1>6, CommitRelationsTurn, StepNames
  <2>2. 22 \in 1..22
    OBVIOUS
  <2>3. QED
    BY <2>1, <2>2, ProceedsOnward
<1>7. CASE PlanRelations(q)
  <2>1. req[q].step \in RefTables /\ req'[q].step = After(req[q], req[q].step)
    BY <1>0, <1>7, PlanRelationsTurn
  <2>2. PICK n \in 18..21 : req[q].step = Steps[n]
    BY <2>1, RefTablesAre
  <2>3. req'[q].step = Steps[n + 1] /\ n + 1 \in 11..23
    BY <1>0, <2>1, <2>2, PlanningGoesOn
  <2>4. QED
    BY <2>3, BeyondOnward
<1>8. CASE ReadLookup(q) \/ DecideVersions(q)
  <2>1. req'[q].step = req[q].step
    BY <1>0, <1>8, ReadLookupTurn, DecideVersionsTurn
  <2>2. QED
    BY <2>1 DEF Onward
<1>9. CASE Abandon(q)
  BY <1>0, <1>9, AbandonTurn, BeyondOnward
<1>10. QED
  BY <1>1, <1>2, <1>3, <1>4, <1>5, <1>6, <1>7, <1>8, <1>9 DEF Moves

\* A task stays.
LEMMA TaskStays ==
  ASSUME Grows(db, db'), NEW e, HasTask(e)
  PROVE  HasTask(e)'
<1>1. DOMAIN db["transfer_task"] \subseteq DOMAIN db'["transfer_task"]
  BY DEF Grows, KeepsFacts, Keeps, FactTables
<1>2. QED
  BY <1>1 DEF HasTask

\* Results that tell nothing of a resource or its transfer.
Aside(results, more) ==
  /\ results \subseteq more
  /\ \A r \in more \ results :
       r.op # "media_transfer" /\ (r.op = "media_resource" => r.why \notin {"inserted", "unchanged"})

LEMMA AsideTells ==
  ASSUME NEW results, NEW more, Aside(results, more), NEW e
  PROVE  /\ Told(more, e, "media_resource") => Told(results, e, "media_resource")
         /\ \A whys : SaysTransfer(more, e, whys) <=> SaysTransfer(results, e, whys)
<1>1. OpName(e, "media_resource") = "media_resource"
  BY DEF OpName
<1>2. QED
  BY <1>1 DEF Aside, Told, SaysTransfer

\* A step that tells nothing of resources and transfers.
LEMMA AsideOwes ==
  ASSUME Grows(db, db'), load' = load, NEW q, Owing(req[q]), Onward(q),
         req'[q].batch = req[q].batch, req'[q].plan = req[q].plan, req'[q].decided = req[q].decided,
         Aside(req[q].results, req'[q].results),
         req[q].step \in {"transfer_task", "gone"} => req'[q].step \in {"transfer_task", "gone"}
  PROVE  Owing(req[q])'
<1> SUFFICES ASSUME NEW e \in req[q].plan["media_resource"]
             PROVE  /\ Told(req'[q].results, e, "media_resource") => Pending(req[q], e)'
                    /\ SaysTransfer(req'[q].results, e, Queued) => HasTask(e)'
  BY DEF Owing
<1>1. ASSUME Told(req'[q].results, e, "media_resource") PROVE Pending(req[q], e)'
  <2>1. Pending(req[q], e)
    BY <1>1, AsideTells DEF Owing
  <2>2. \A whys : SaysTransfer(req'[q].results, e, whys) <=> SaysTransfer(req[q].results, e, whys)
    BY AsideTells
  <2>3. \A n \in 1..10 : req'[q].step # Steps[n]
    BY <2>1 DEF Pending, Onward
  <2>4. SourceUrl(req[q], e)' = SourceUrl(req[q], e)
    BY DEF SourceUrl
  <2>5. QED
    BY <2>1, <2>2, <2>3, <2>4 DEF Pending
<1>2. ASSUME SaysTransfer(req'[q].results, e, Queued) PROVE HasTask(e)'
  BY <1>2, AsideTells, TaskStays DEF Owing
<1>3. QED
  BY <1>1, <1>2

\* What a statement on another table reports is aside.
LEMMA ReportsAside ==
  ASSUME NEW results, NEW entries, NEW u \in DataTables \cup RefTables, NEW verdict, NEW more,
         Adds(results, more, entries, u, verdict), u # "media_resource"
  PROVE  Aside(results, more)
<1>1. \A e : OpName(e, u) # "media_transfer" /\ OpName(e, u) # "media_resource"
  BY DEF OpName, DataTables, FilledTables, VersionTables, RefTables
<1>2. QED
  BY <1>1, ResultIs DEF Adds, Reports, Failures, Aside

\* Failures are aside.
LEMMA FailuresAside ==
  ASSUME NEW results, NEW entries, NEW u \in DataTables \cup RefTables
  PROVE  Aside(results, results \cup Failures(entries, u))
<1>1. \A e : OpName(e, u) # "media_transfer"
  BY DEF OpName, DataTables, FilledTables, VersionTables, RefTables
<1>2. QED
  BY <1>1, ResultIs DEF Failures, Aside

\* The steps that tell nothing of resources and transfers.
Rest(p) ==
  \/ ReadLookup(p) \/ DecideVersions(p) \/ PlanRelations(p) \/ Abandon(p)
  \/ \E o \in Outcomes : CommitLookup(p, o)
  \/ \E o \in Outcomes : Preload(p, o)
  \/ \E o \in Outcomes : WriteRows(p, o)
  \/ \E o \in Outcomes, c \in BOOLEAN : CommitRelations(p, o, c)
LeftAside(p) ==
  /\ req'[p].plan = req[p].plan /\ req'[p].decided = req[p].decided
  /\ Aside(req[p].results, req'[p].results)
  /\ req[p].step \in {"transfer_task", "gone"} => req'[p].step \in {"transfer_task", "gone"}

\* They leave both aside.
LEMMA RestAside ==
  ASSUME Inductive, NEW p \in Requests, Rest(p)
  PROVE  LeftAside(p)
<1> DEFINE s == req[p]
           n == req'[p]
<1>0. Shaped /\ IsStore(db)
  BY DEF Inductive
<1>1. ASSUME n.plan = s.plan, n.decided = s.decided, Aside(s.results, n.results),
             s.step \in {"transfer_task", "gone"} => n.step \in {"transfer_task", "gone"}
      PROVE  LeftAside(p)
  BY <1>1 DEF LeftAside
<1>2. n.results = s.results => Aside(s.results, n.results)
  BY DEF Aside
<1>3. \A t \in DataTables \cup RefTables \cup LookupTables \cup {"dict_preload", "relations"} :
         t \notin {"transfer_task", "gone"}
  BY DEF DataTables, FilledTables, VersionTables, RefTables, LookupTables
<1>4. CASE ReadLookup(p) \/ DecideVersions(p) \/ PlanRelations(p) \/ Abandon(p)
           \/ \E o \in Outcomes : CommitLookup(p, o)
  <2>1. /\ n.plan = s.plan /\ n.decided = s.decided /\ n.results = s.results
        /\ s.step \in DataTables \cup RefTables \cup LookupTables \/ n.step = "gone"
    BY <1>0, <1>4, ReadLookupTurn, DecideVersionsTurn, PlanRelationsTurn, AbandonTurn, CommitLookupTurn
       DEF DataTables
  <2> HIDE DEF s, n
  <2>2. QED
    BY <1>1, <1>2, <1>3, <2>1
<1>5. ASSUME NEW o \in Outcomes, Preload(p, o) PROVE LeftAside(p)
  <2>1. /\ n.plan = s.plan /\ n.decided = s.decided /\ s.step = "dict_preload"
        /\ \/ n.results = s.results
           \/ \E items : n.results = s.results \cup
                {Result(x, "dict_preload", "failed", "statement") : x \in items}
    BY <1>0, <1>5, PreloadTurn
  <2>2. Aside(s.results, n.results)
    BY <2>1, ResultIs DEF Aside
  <2>3. QED
    BY <1>1, <1>3, <2>1, <2>2
<1>6. ASSUME NEW o \in Outcomes, WriteRows(p, o) PROVE LeftAside(p)
  <2>1. /\ n.plan = s.plan /\ n.decided = s.decided /\ s.step \in FilledTables
        /\ \E verdict : Adds(s.results, n.results, s.plan[s.step], s.step, verdict)
    BY <1>0, <1>6, WriteRowsTurn DEF Adds
  <2>2. s.step \in DataTables /\ s.step # "media_resource"
    BY <2>1 DEF DataTables, FilledTables
  <2> HIDE DEF s, n
  <2>3. Aside(s.results, n.results)
    BY <2>1, <2>2, ReportsAside
  <2>4. QED
    BY <1>1, <1>3, <2>1, <2>2, <2>3
<1>7. ASSUME NEW o \in Outcomes, NEW c \in BOOLEAN, CommitRelations(p, o, c) PROVE LeftAside(p)
  <2> DEFINE entries == s.plan["relations"]
             verdict(t) == s.snapshot.plans[t].status
  <2>1. /\ n.plan = s.plan /\ n.decided = s.decided /\ s.step = "relations"
        /\ \/ n.results = s.results \cup UNION {Failures(entries, t) : t \in RefTables}
           \/ n.results = s.results \cup UNION {Reports(entries, t, verdict(t)) : t \in RefTables}
    BY <1>0, <1>7, CommitRelationsTurn
  <2>2. ASSUME NEW t \in RefTables
        PROVE  /\ Aside(s.results, s.results \cup Failures(entries, t))
               /\ Aside(s.results, s.results \cup Reports(entries, t, verdict(t)))
    <3>1. t # "media_resource"
      BY DEF RefTables
    <3> HIDE DEF s, entries, verdict
    <3>2. QED
      BY <3>1, ReportsAside DEF Adds
  <2> HIDE DEF s, n, entries, verdict
  <2>3. Aside(s.results, n.results)
    BY <2>1, <2>2 DEF Aside
  <2>4. QED
    BY <1>1, <1>3, <2>1, <2>3
<1>8. QED
  BY <1>4, <1>5, <1>6, <1>7 DEF Rest

\* So they owe no more than before.
LEMMA RestOwes ==
  ASSUME Inductive, Grows(db, db'), NEW p \in Requests, Owing(req[p]), Moves(p), Onward(p), Rest(p)
  PROVE  Owing(req[p])'
<1>1. Turn(p)
  BY MovesTurn DEF Inductive
<1>2. load' = load /\ req'[p].batch = req[p].batch
  BY <1>1 DEF Turn
<1>3. LeftAside(p)
  BY RestAside
<1>4. QED
  BY <1>2, <1>3, AsideOwes DEF LeftAside

\* The conversion tells nothing of either.
LEMMA ConvertOwes ==
  ASSUME Inductive, NEW p \in Requests, NEW failing, Convert(p, failing)
  PROVE  Owing(req[p])'
<1>1. req'[p].results = Refusals(req[p].batch) \cup ConversionFailures(req[p].batch, req'[p].plan)
  BY ConvertTurn DEF Inductive
<1>2. \A r \in req'[p].results : r.why \in {"bad_id", "shadowed", "conversion"}
  BY <1>1, RefusedIs, FailuresConcern
<1>3. QED
  BY <1>2 DEF Owing, Told, SaysTransfer, Queued

\* The append of the resources hands its verdicts to the enqueueing.
LEMMA AppendOwes ==
  ASSUME Inductive, Grows(db, db'), NEW p \in Requests, Owing(req[p]), Onward(p),
         NEW o, AppendVersions(p, o)
  PROVE  Owing(req[p])'
<1> DEFINE s == req[p]
           n == req'[p]
           t == s.step
           verdict == AppendedStatus(db[t], s.snapshot.decisions)
<1>1. /\ Proceeds(p) /\ t \in VersionTables /\ s.snapshot # Unread /\ n.plan = s.plan
      /\ \/ /\ n.results = s.results \cup Reports(s.plan[t], t, verdict)
            /\ n.decided = IF t = "media_resource" THEN verdict ELSE s.decided
         \/ n.results = s.results \cup Failures(s.plan[t], t) /\ n.decided = s.decided
  BY AppendVersionsTurn DEF Inductive
<1>2. t \in DataTables /\ t \notin {"transfer_task", "gone"}
  BY <1>1 DEF DataTables, VersionTables
<1>3. load' = load /\ n.batch = s.batch
  BY <1>1 DEF Proceeds, Turn
<1>4. CASE n.results = s.results \cup Failures(s.plan[t], t) /\ n.decided = s.decided
  <2>1. Aside(s.results, n.results)
    BY <1>2, <1>4, FailuresAside
  <2>2. QED
    BY <1>1, <1>2, <1>3, <1>4, <2>1, AsideOwes
<1>5. CASE t # "media_resource" /\ n.results = s.results \cup Reports(s.plan[t], t, verdict)
           /\ n.decided = s.decided
  <2>1. Aside(s.results, n.results)
    <3> HIDE DEF s, n, t, verdict
    <3>1. QED
      BY <1>2, <1>5, ReportsAside DEF Adds
  <2>2. QED
    BY <1>1, <1>2, <1>3, <1>5, <2>1, AsideOwes
<1>6. CASE t = "media_resource" /\ n.results = s.results \cup Reports(s.plan[t], t, verdict)
           /\ n.decided = verdict
  <2>1. t = Steps[10] /\ 10 \in 1..10
    BY <1>6, StepNames
  <2>2. \A e \in s.plan["media_resource"] : ~Told(s.results, e, "media_resource")
    BY <2>1 DEF Owing, Pending
  <2>3. ASSUME NEW e \in s.plan["media_resource"] PROVE n.step = "transfer_task"
    <3>1. PICK x : x.plan = n.plan /\ n.step = After(x, Steps[10])
      BY <1>1, <2>1 DEF Proceeds
    <3>2. HasWork(x, Steps[11])
      BY <1>1, <3>1, StepNames DEF HasWork, LookupTables
    <3>3. PICK m \in 11..23 : n.step = Steps[m] /\ \A j \in 11..m - 1 : ~HasWork(x, Steps[j])
      <4>1. 10 \in 1..22
        OBVIOUS
      <4> HIDE DEF n
      <4>2. QED
        BY <3>1, <4>1, AfterIs
    <3>4. m = 11
      BY <3>2, <3>3
    <3>5. QED
      BY <3>3, <3>4, StepNames
  <2>4. ASSUME NEW e \in s.plan["media_resource"], Told(n.results, e, "media_resource")
        PROVE  e.key \in DOMAIN n.decided /\ ShouldEnqueue(n.decided[e.key])
    <3>1. PlanFrom(s.batch, s.plan)
      BY PlansAre DEF Inductive
    <3> DEFINE results == s.results
               more == n.results
               plan == s.plan
               u == "media_resource"
    <3>2. Adds(results, more, plan[u], u, verdict)
      BY <1>6 DEF Adds
    <3>3. PlanFrom(s.batch, plan) /\ e \in plan[u] /\ Told(more, e, u) /\ ~Told(results, e, u) /\ u \in DataTables
      BY <1>2, <1>6, <2>2, <2>4, <3>1
    <3>4. verdict[e.key] \in {"inserted", "unchanged"}
      <4> HIDE DEF results, more, plan, verdict, s, u
      <4>1. QED
        BY <3>2, <3>3, ToldBy
    <3>5. e.key \in DOMAIN s.snapshot.decisions
      BY <1>1, <1>6 DEF Inductive, AllTold, Decided
    <3>6. e.key \in DOMAIN verdict
      BY <3>5 DEF AppendedStatus
    <3>7. QED
      BY <1>6, <3>4, <3>6 DEF ShouldEnqueue
  <2>5. ASSUME NEW e \in s.plan["media_resource"], SaysTransfer(n.results, e, Queued)
        PROVE  HasTask(e)'
    <3>1. \A r \in Reports(s.plan[t], t, verdict) : r.op # "media_transfer"
      BY <1>6, ResultIs DEF Reports, OpName
    <3>2. SaysTransfer(s.results, e, Queued)
      BY <1>6, <2>5, <3>1 DEF SaysTransfer
    <3>3. QED
      BY <3>2, TaskStays DEF Owing
  <2>6. \A e \in s.plan["media_resource"] : \A i \in 1..10 : n.step # Steps[i]
    <3>1. "transfer_task" = Steps[11] /\ 11 \in 1..23 /\ \A i \in 1..10 : i \in 1..23 /\ i # 11
      BY StepNames
    <3>2. QED
      BY <2>3, <3>1, StepsApart
  <2>7. ASSUME NEW e \in n.plan["media_resource"]
        PROVE  /\ Told(n.results, e, "media_resource") => Pending(s, e)'
               /\ SaysTransfer(n.results, e, Queued) => HasTask(e)'
    BY <1>1, <2>3, <2>4, <2>5, <2>6, <2>7 DEF Pending
  <2>8. QED
    BY <2>7 DEF Owing
<1>7. QED
  BY <1>1, <1>4, <1>5, <1>6

\* The entries an enqueueing is for, the version each one's task is of, and
\* the rows it is given.
Due(s) ==
  {e \in s.plan["media_resource"] : e.key \in DOMAIN s.decided /\ ShouldEnqueue(s.decided[e.key])}
VersionOf(s, e, lucky) == SourceVersion(e.key, SourceUrl(s, e), lucky)
Found(s, lucky) ==
  {e \in Due(s) : SourceUrl(s, e) # Null /\ VersionOf(s, e, lucky) # {}}
TaskRows(s, found, lucky) ==
  [k \in UNION {VersionOf(s, e, lucky) : e \in found} |->
     [source_url |-> SourceUrl(s, CHOOSE e \in found : k \in VersionOf(s, e, lucky))]]
EnqueuedStore(s, found, lucky) ==
  [db EXCEPT !["transfer_task"] = Upsert(@, TaskRows(s, found, lucky), {})]

\* Each row is that of an entry whose version it is of.
LEMMA TaskRowsAre ==
  ASSUME NEW s, NEW found, NEW lucky, NEW k \in DOMAIN TaskRows(s, found, lucky)
  PROVE  \E e \in found : /\ k \in VersionOf(s, e, lucky)
                          /\ TaskRows(s, found, lucky)[k] = [source_url |-> SourceUrl(s, e)]
<1> DEFINE e == CHOOSE e \in found : k \in VersionOf(s, e, lucky)
<1>1. \E f \in found : k \in VersionOf(s, f, lucky)
  BY DEF TaskRows
<1>2. e \in found /\ k \in VersionOf(s, e, lucky)
  BY <1>1
<1>3. TaskRows(s, found, lucky)[k] = [source_url |-> SourceUrl(s, e)]
  BY DEF TaskRows
<1>4. QED
  BY <1>2, <1>3

\* The rows cover the versions.
LEMMA TaskRowsCover ==
  ASSUME NEW s, NEW found, NEW lucky, NEW e \in found
  PROVE  VersionOf(s, e, lucky) \subseteq DOMAIN TaskRows(s, found, lucky)
  BY DEF TaskRows

\* The enqueueing answers every entry that is due, and what it calls queued
\* has its row.
LEMMA EnqueueIs ==
  ASSUME Shaped, NEW p \in Requests, NEW o, NEW lucky, EnqueueTransfers(p, o, lucky)
  PROVE  LET s == req[p]
             n == req'[p]
         IN  /\ Proceeds(p) /\ s.step = "transfer_task" /\ n.plan = s.plan /\ n.decided = s.decided
             /\ UNCHANGED <<admin, history>> /\ s.results \subseteq n.results
             /\ \A r \in n.results \ s.results : r.op = "media_transfer"
             /\ \A e \in Due(s) : load.active /\ SourceUrl(s, e) # Null =>
                  SaysTransfer(n.results, e, Queued \cup TransferFailures)
             /\ \E found \in SUBSET Found(s, lucky) :
                  /\ db' = db \/ db' = EnqueuedStore(s, found, lucky)
                  /\ \A r \in n.results \ s.results : r.why \in Queued =>
                       /\ db' = EnqueuedStore(s, found, lucky)
                       /\ \E e \in found : r.item = e.item
<1> DEFINE s == req[p]
           n == req'[p]
           E == s.plan["media_resource"]
           due == {e \in E : e.key \in DOMAIN s.decided /\ ShouldEnqueue(s.decided[e.key])}
           whole == {e \in due : e.item \in {f.item : f \in s.plan["media"]}}
           url(e) == SelectSource(Item(s.batch, e.item), e.row)
           tasks == IF load.active THEN {e \in whole : url(e) # Null} ELSE {}
           version(e) == SourceVersion(e.key, url(e), lucky)
           found == {e \in tasks : version(e) # {}}
           rows == [k \in UNION {version(e) : e \in found} |->
                      [source_url |-> url(CHOOSE e \in found : k \in version(e))]]
           verdict(e) == IF version(e) \subseteq DOMAIN db["transfer_task"] THEN "already" ELSE "enqueued"
           disabled == {Result(e.item, "media_transfer", "skipped", "disabled") : e \in due}
           missing == {Result(e.item, "media_transfer", "failed", "missing_media") : e \in due \ whole}
           unsourced == {Result(e.item, "media_transfer", "skipped", "no_source") : e \in whole \ tasks}
           early == IF ~load.active THEN disabled ELSE missing \cup unsourced
           failures == Failures(tasks, "media_transfer")
           queued == {Result(e.item, "media_transfer",
                             IF verdict(e) = "enqueued" THEN "accepted" ELSE "skipped", verdict(e)) : e \in found}
           sourceless == {Result(e.item, "media_transfer", "failed", "missing_source") : e \in tasks \ found}
           late == IF o # "ok" THEN failures ELSE queued \cup sourceless
           added == early \cup late
           new == [db EXCEPT !["transfer_task"] = Upsert(@, rows, {})]
<1>1. /\ UNCHANGED <<admin, history>> /\ load' = load /\ s.step = "transfer_task"
      /\ DbAfter(o, new)
      /\ req' = [req EXCEPT ![p] = Advance([s EXCEPT !.results = @ \cup early \cup late])]
  BY DEF EnqueueTransfers
<1>2. due = Due(s) /\ found \subseteq Found(s, lucky)
  BY DEF Due, Found, VersionOf, SourceUrl
<1>3. rows = TaskRows(s, found, lucky)
  BY DEF TaskRows, VersionOf, SourceUrl
<1>4. \A e : url(e) = SourceUrl(s, e)
  BY DEF SourceUrl
<1>5. /\ \A e \in due \ whole : \E r \in missing : r.item = e.item /\ r.op = "media_transfer" /\ r.why = "missing_media"
      /\ \A e \in tasks : \E r \in failures : r.item = e.item /\ r.op = "media_transfer" /\ r.why = "statement"
      /\ \A e \in found : \E r \in queued : r.item = e.item /\ r.op = "media_transfer" /\ r.why \in Queued
      /\ \A e \in tasks \ found : \E r \in sourceless :
           r.item = e.item /\ r.op = "media_transfer" /\ r.why = "missing_source"
  <2> HIDE DEF due, whole, tasks, found
  <2>1. ASSUME NEW e \in due \ whole
        PROVE  \E r \in missing : r.item = e.item /\ r.op = "media_transfer" /\ r.why = "missing_media"
    <3> DEFINE r == Result(e.item, "media_transfer", "failed", "missing_media")
    <3>1. r \in missing
      OBVIOUS
    <3>2. QED
      BY <3>1, ResultIs
  <2>2. ASSUME NEW e \in tasks
        PROVE  \E r \in failures : r.item = e.item /\ r.op = "media_transfer" /\ r.why = "statement"
    <3> DEFINE r == Result(e.item, OpName(e, "media_transfer"), "failed", "statement")
    <3>1. r \in failures
      BY DEF Failures
    <3>2. OpName(e, "media_transfer") = "media_transfer"
      BY DEF OpName
    <3>3. QED
      BY <3>1, <3>2, ResultIs
  <2>3. ASSUME NEW e \in found
        PROVE  \E r \in queued : r.item = e.item /\ r.op = "media_transfer" /\ r.why \in Queued
    <3> HIDE DEF version
    <3>1. verdict(e) \in Queued
      BY DEF Queued
    <3> HIDE DEF verdict
    <3> DEFINE r == Result(e.item, "media_transfer",
                           IF verdict(e) = "enqueued" THEN "accepted" ELSE "skipped", verdict(e))
    <3>2. r \in queued
      OBVIOUS
    <3>3. QED
      BY <3>1, <3>2, ResultIs
  <2>4. ASSUME NEW e \in tasks \ found
        PROVE  \E r \in sourceless : r.item = e.item /\ r.op = "media_transfer" /\ r.why = "missing_source"
    <3> DEFINE r == Result(e.item, "media_transfer", "failed", "missing_source")
    <3>1. r \in sourceless
      OBVIOUS
    <3>2. QED
      BY <3>1, ResultIs
  <2>5. QED
    BY <2>1, <2>2, <2>3, <2>4
<1>6. /\ \A r \in disabled : r.op = "media_transfer" /\ r.why = "disabled"
      /\ \A r \in missing : r.op = "media_transfer" /\ r.why = "missing_media"
      /\ \A r \in unsourced : r.op = "media_transfer" /\ r.why = "no_source"
      /\ \A r \in failures : r.op = "media_transfer" /\ r.why = "statement"
      /\ \A r \in queued : r.op = "media_transfer" /\ \E e \in found : r.item = e.item
      /\ \A r \in sourceless : r.op = "media_transfer" /\ r.why = "missing_source"
  <2> HIDE DEF due, whole, tasks, found, verdict
  <2>1. \A e : OpName(e, "media_transfer") = "media_transfer"
    BY DEF OpName
  <2>2. QED
    BY <2>1, ResultIs DEF Failures
<1>7. ASSUME NEW e \in Due(s), load.active, url(e) # Null
      PROVE  \E r \in added : r.item = e.item /\ r.op = "media_transfer" /\ r.why \in Queued \cup TransferFailures
  <2>1. e \in due \ whole \/ e \in tasks
    BY <1>2, <1>7
  <2>2. missing \subseteq early
    BY <1>7
  <2> HIDE DEF due, whole, tasks, found, missing, failures, queued, sourceless, early
  <2>3. CASE e \in due \ whole
    BY <1>5, <2>2, <2>3 DEF TransferFailures
  <2>4. CASE e \in tasks /\ o # "ok"
    BY <1>5, <2>4 DEF TransferFailures
  <2>5. CASE e \in tasks /\ o = "ok"
    BY <1>5, <2>5 DEF TransferFailures
  <2>6. QED
    BY <2>1, <2>3, <2>4, <2>5
<1> HIDE DEF url, due, whole, tasks, found, rows, version, verdict, disabled, missing, unsourced, failures, queued, sourceless
<1>8. \A r \in added : r.op = "media_transfer"
  BY <1>6
<1>9. \A r \in added : r.why \in Queued => o = "ok" /\ \E e \in found : r.item = e.item
  BY <1>6 DEF Queued
<1>10. req' = [req EXCEPT ![p] = Advance([s EXCEPT !.results = @ \cup added])]
  <2>1. s.results \cup early \cup late = s.results \cup added
    OBVIOUS
  <2> HIDE DEF early, late
  <2>2. QED
    BY <1>1, <2>1
<1> HIDE DEF added, early, late
<1>11. /\ Proceeds(p) /\ n.plan = s.plan /\ n.decided = s.decided
       /\ n.results = s.results \cup added
  BY <1>1, <1>10, ResultsTurn
<1>12. (db' = db \/ db' = new) /\ (o = "ok" => db' = new)
  BY <1>1 DEF DbAfter
<1>13. ASSUME NEW e \in Due(s), load.active, SourceUrl(s, e) # Null
       PROVE  SaysTransfer(n.results, e, Queued \cup TransferFailures)
  BY <1>4, <1>7, <1>11, <1>13 DEF SaysTransfer
<1>14. \A r \in n.results \ s.results :
         /\ r.op = "media_transfer"
         /\ r.why \in Queued => db' = new /\ \E e \in found : r.item = e.item
  BY <1>8, <1>9, <1>11, <1>12
<1>15. new = EnqueuedStore(s, found, lucky)
  BY <1>3 DEF EnqueuedStore
<1> HIDE DEF new
<1>16. \E f \in SUBSET Found(s, lucky) :
         /\ db' = db \/ db' = EnqueuedStore(s, f, lucky)
         /\ \A r \in n.results \ s.results : r.why \in Queued =>
              /\ db' = EnqueuedStore(s, f, lucky)
              /\ \E e \in f : r.item = e.item
  BY <1>2, <1>12, <1>14, <1>15
<1> HIDE DEF n, s
<1>17. QED
  BY <1>1, <1>11, <1>13, <1>14, <1>16 DEF n, s

\* The version a task is of: the one asked for, or an older one of the medium
\* that offers the URL.
LEMMA VersionIs ==
  ASSUME NEW key, NEW url, NEW lucky, NEW k \in SourceVersion(key, url, lucky)
  PROVE  /\ k \in DOMAIN db["media_resource"]
         /\ \/ k = key
            \/ k[1] = key[1] /\ k[2] <= key[2] /\ url \in SqlUrls(db["media_resource"][k])
<1> DEFINE same == {j \in DOMAIN db["media_resource"] :
                      LET urls == SqlUrls(db["media_resource"][j])
                      IN url \in urls /\ (lucky \/ urls = {url})}
<1>1. CASE key \in DOMAIN db["media_resource"]
  BY <1>1 DEF SourceVersion
<1>2. CASE key \notin DOMAIN db["media_resource"]
  <2>1. k \in LatestAt([j \in same |-> 0], key[1], key[2])
    BY <1>2 DEF SourceVersion
  <2>2. k \in same /\ k[1] = key[1] /\ k[2] <= key[2]
    <3> HIDE DEF same
    <3>1. QED
      BY <2>1 DEF LatestAt
  <2>3. QED
    BY <2>2
<1>3. QED
  BY <1>1, <1>2

\* What the enqueueing leaves in its table.
LEMMA EnqueuedRows ==
  ASSUME IsStore(db), NEW rows, db' = [db EXCEPT !["transfer_task"] = Upsert(@, rows, {})]
  PROVE  /\ db'["transfer_task"] = Upsert(db["transfer_task"], rows, {})
         /\ DOMAIN rows \subseteq DOMAIN db'["transfer_task"]
         /\ \A t \in Tables \ {"transfer_task"} : db'[t] = db[t]
<1> DEFINE table == Upsert(db["transfer_task"], rows, {})
<1>1. "transfer_task" \in Tables
  BY KindsOfTables
<1>2. DOMAIN rows \subseteq DOMAIN table
  BY DEF Upsert
<1> HIDE DEF table
<1>3. db' = [db EXCEPT !["transfer_task"] = table]
  BY DEF table
<1>4. db'["transfer_task"] = table /\ \A t \in Tables \ {"transfer_task"} : db'[t] = db[t]
  BY <1>1, <1>3 DEF IsStore
<1>5. QED
  BY <1>2, <1>4 DEF table

\* The enqueueing answers what is pending, and what it calls queued is.
LEMMA EnqueueOwes ==
  ASSUME Inductive, Grows(db, db'), NEW p \in Requests, Owing(req[p]), Onward(p),
         NEW o, NEW lucky, EnqueueTransfers(p, o, lucky)
  PROVE  Owing(req[p])'
<1> DEFINE s == req[p]
           n == req'[p]
           answer == Queued \cup TransferFailures
<1>1. /\ Proceeds(p) /\ s.step = "transfer_task" /\ n.plan = s.plan
      /\ s.results \subseteq n.results
      /\ \A r \in n.results \ s.results : r.op = "media_transfer"
      /\ \A e \in Due(s) : load.active /\ SourceUrl(s, e) # Null => SaysTransfer(n.results, e, answer)
  BY EnqueueIs DEF Inductive
<1>2. PICK found \in SUBSET Found(s, lucky) :
        \A r \in n.results \ s.results : r.why \in Queued =>
          /\ db' = EnqueuedStore(s, found, lucky)
          /\ \E e \in found : r.item = e.item
  BY EnqueueIs DEF Inductive
<1>3. load' = load /\ n.batch = s.batch
  BY <1>1 DEF Proceeds, Turn
<1>4. BatchOK(s.batch) /\ PlanFrom(s.batch, s.plan) /\ IsStore(db)
  BY PlansAre DEF Inductive
<1>5. ASSUME NEW e \in s.plan["media_resource"], Told(n.results, e, "media_resource")
      PROVE  Pending(s, e)'
  <2>1. Told(s.results, e, "media_resource")
    <3>1. OpName(e, "media_resource") = "media_resource"
      BY DEF OpName
    <3>2. QED
      BY <1>1, <1>5, <3>1 DEF Told
  <2>2. Pending(s, e)
    BY <2>1 DEF Owing
  <2>3. \A i \in 1..10 : n.step # Steps[i]
    BY <2>2 DEF Pending, Onward
  <2>4. SourceUrl(s, e)' = SourceUrl(s, e)
    BY <1>3 DEF SourceUrl
  <2>5. ASSUME load.active, SourceUrl(s, e) # Null
        PROVE  SaysTransfer(n.results, e, answer)
    <3>1. e \in Due(s) \/ SaysTransfer(s.results, e, answer)
      BY <2>2, <2>5 DEF Pending, Due
    <3>2. SaysTransfer(s.results, e, answer) => SaysTransfer(n.results, e, answer)
      BY <1>1 DEF SaysTransfer
    <3>3. QED
      BY <1>1, <2>5, <3>1, <3>2
  <2>6. QED
    BY <1>3, <2>3, <2>4, <2>5 DEF Pending
<1>6. ASSUME NEW e \in s.plan["media_resource"], SaysTransfer(n.results, e, Queued)
      PROVE  HasTask(e)'
  <2>1. CASE SaysTransfer(s.results, e, Queued)
    BY <2>1, TaskStays DEF Owing
  <2>2. CASE ~SaysTransfer(s.results, e, Queued)
    <3>1. PICK r \in n.results \ s.results : r.item = e.item /\ r.why \in Queued
      BY <1>6, <2>2 DEF SaysTransfer
    <3>2. PICK f \in found : r.item = f.item
      BY <1>2, <3>1
    <3>3. f \in s.plan["media_resource"] /\ VersionOf(s, f, lucky) # {}
      BY DEF Found, Due
    <3>4. f = e
      <4>1. "media_resource" \in PlannedTables
        BY DEF PlannedTables, VersionTables
      <4>2. QED
        BY <1>4, <3>1, <3>2, <3>3, <4>1 DEF PlanFrom
    <3>5. PICK k \in VersionOf(s, e, lucky) : TRUE
      BY <3>3, <3>4
    <3>6. k = e.key \/ (k[1] = e.key[1] /\ k[2] <= e.key[2])
      BY <3>5, VersionIs DEF VersionOf
    <3>7. e.key[2] \in Nat
      <4>1. "media_resource" \in VersionTables
        BY DEF VersionTables
      <4>2. QED
        BY <1>4, <4>1, VersionTimes
    <3>8. k \in DOMAIN TaskRows(s, found, lucky)
      BY <3>2, <3>4, <3>5, TaskRowsCover
    <3>9. DOMAIN TaskRows(s, found, lucky) \subseteq DOMAIN db'["transfer_task"]
      BY <1>2, <1>4, <3>1, EnqueuedRows DEF EnqueuedStore
    <3>10. QED
      BY <3>6, <3>7, <3>8, <3>9 DEF HasTask
  <2>3. QED
    BY <2>1, <2>2
<1>7. QED
  BY <1>1, <1>5, <1>6 DEF Owing

\* Every step keeps what is owed.
LEMMA OwingKept ==
  ASSUME Inductive, AllOwing, [Next]_vars
  PROVE  AllOwing'
<1>1. Shaped /\ IsStore(db) /\ Requests' = Requests /\ Grows(db, db') /\ load' = load
  BY NextGrows, ShapeKept DEF Inductive
<1>2. ASSUME NEW q \in Requests, req'[q] = req[q] PROVE Owing(req[q])'
  <2>1. Owing(req[q])
    BY DEF AllOwing
  <2>2. \A e : Pending(req[q], e) => Pending(req[q], e)'
    BY <1>1, <1>2 DEF Pending, SourceUrl
  <2>3. \A e : HasTask(e) => HasTask(e)'
    BY <1>1, TaskStays
  <2>4. QED
    BY <1>2, <2>1, <2>2, <2>3 DEF Owing
<1>3. ASSUME NEW p \in Requests, Moves(p) PROVE Owing(req[p])'
  <2>1. Owing(req[p]) /\ Onward(p)
    BY <1>3, MovesOnward DEF AllOwing
  <2>2. ASSUME NEW failing, Convert(p, failing) PROVE Owing(req[p])'
    BY <2>2, ConvertOwes
  <2>3. ASSUME NEW o, AppendVersions(p, o) PROVE Owing(req[p])'
    BY <1>1, <2>1, <2>3, AppendOwes
  <2>4. ASSUME NEW o, NEW lucky, EnqueueTransfers(p, o, lucky) PROVE Owing(req[p])'
    BY <1>1, <2>1, <2>4, EnqueueOwes
  <2>5. \/ \E failing : Convert(p, failing)
        \/ \E o : AppendVersions(p, o)
        \/ \E o, lucky : EnqueueTransfers(p, o, lucky)
        \/ Rest(p)
    BY <1>3 DEF Moves, Rest
  <2>6. QED
    BY <1>1, <1>3, <2>1, <2>2, <2>3, <2>4, <2>5, RestOwes
<1>4. ASSUME NEW p \in Requests, Moves(p), NEW q \in Requests PROVE Owing(req[q])'
  <2>1. CASE q = p
    BY <1>3, <1>4, <2>1
  <2>2. CASE q # p
    <3>1. Turn(p)
      BY <1>1, <1>4, MovesTurn
    <3>2. req'[q] = req[q]
      BY <1>1, <2>2, <3>1, TurnKeepsShape
    <3>3. QED
      BY <1>2, <3>2
  <2>3. QED
    BY <2>1, <2>2
<1>5. CASE Quiet
  BY <1>1, <1>2, <1>5 DEF Quiet, AllOwing
<1>6. QED
  BY <1>1, <1>4, <1>5, StepsAre DEF AllOwing

\* At first nothing was told.
LEMMA OwingAtFirst == Init => AllOwing
<1> SUFFICES ASSUME Init, NEW p \in Requests PROVE Owing(req[p])
  BY DEF AllOwing
<1>1. req[p].results = {}
  BY StartedIs DEF Init
<1>2. QED
  BY <1>1 DEF Owing, Told, SaysTransfer

\* A medium that is told to be stored with its resource is owed a transfer:
\* once its request is answered there is a task of the medium, of that time
\* or before, unless the response says why not.
TransferQueued ==
  \A p \in Requests : \A e \in req[p].plan["media_resource"] :
    /\ req[p].step = "done" /\ load.active /\ SourceUrl(req[p], e) # Null
    /\ Told(req[p].results, e, "media_resource")
    /\ ~SaysTransfer(req[p].results, e, TransferFailures)
    => HasTask(e)

\* Whatever is submitted, at the same time or before, and whatever fails.
THEOREM QueuedTheorem == Spec => []TransferQueued
<1>1. Inductive /\ AllOwing => TransferQueued
  <2> SUFFICES ASSUME AllOwing, NEW p \in Requests, NEW e \in req[p].plan["media_resource"],
                      req[p].step = "done", load.active, SourceUrl(req[p], e) # Null,
                      Told(req[p].results, e, "media_resource"),
                      ~SaysTransfer(req[p].results, e, TransferFailures)
               PROVE  HasTask(e)
    BY DEF TransferQueued
  <2>1. SaysTransfer(req[p].results, e, Queued \cup TransferFailures)
    BY DEF AllOwing, Owing, Pending
  <2>2. SaysTransfer(req[p].results, e, Queued)
    BY <2>1 DEF SaysTransfer
  <2>3. QED
    BY <2>2 DEF AllOwing, Owing
<1>2. Inductive /\ AllOwing /\ [Next]_vars => AllOwing'
  BY OwingKept
<1>3. Spec => []Inductive
  BY InductiveAtFirst, AllToldKept, PTL DEF Spec
<1>4. QED
  BY <1>1, <1>2, <1>3, OwingAtFirst, PTL DEF Spec

-----------------------------------------------------------------------------
(* The URL of a transfer task, when the requests agree on their sources.    *)

\* The stored version k came from medium n.
Origin(k, n) ==
  n \in Versioned(load) /\ k = <<n.id, n.resource.at>> /\ db["media_resource"][k] = MediaResourceRow(n)
VersionsSubmitted ==
  /\ \A k \in DOMAIN db["media_resource"] : \E n : Origin(k, n)
  /\ \A k \in DOMAIN db["media"] : \E m \in Submitted(load) : m.id = k /\ m.type = db["media"][k]["type"]

\* A task's row is of a stored version and has its URL: the one chosen for it
\* or, where an administrator may ask, one the statement prefers.
Sourced(k, row) ==
  /\ k \in DOMAIN db["media_resource"] /\ "source_url" \in DOMAIN row
  /\ \/ load.asked /\ row["source_url"] \in SqlUrls(db["media_resource"][k])
     \/ \E n : Origin(k, n) /\ row["source_url"] = Chosen(n)
TasksSourced == \A k \in DOMAIN db["transfer_task"] : Sourced(k, db["transfer_task"][k])
Asked ==
  /\ admin.step # "done" => load.asked
  /\ admin.step = "write" => Sourced(admin.key, admin.row)

HasSource(s, e) ==
  \E k \in DOMAIN db["transfer_task"] :
    /\ k[1] = e.key[1] /\ k[2] <= e.key[2]
    /\ db["transfer_task"][k]["source_url"] \in
         {SourceUrl(s, e)} \cup (IF load.asked THEN SqlUrls(db["media_resource"][k]) ELSE {})
Sources(s) ==
  \A e \in s.plan["media_resource"] : SaysTransfer(s.results, e, Queued) => HasSource(s, e)

\* What holds between two steps.
Ledger == VersionsSubmitted /\ TasksSourced /\ Asked /\ \A p \in Requests : Sources(req[p])

\* The media of a request are among those submitted.
LEMMA EntrySubmitted ==
  ASSUME Shaped, AllStaged, NEW p \in Requests
  PROVE  LET s == req[p]
         IN  /\ \A e \in s.plan["media_resource"] :
                  LET m == Item(s.batch, e.item)
                  IN  /\ m \in Versioned(load) /\ e.key = <<m.id, m.resource.at>>
                      /\ e.row = MediaResourceRow(m) /\ SourceUrl(s, e) = Chosen(m)
             /\ \A e \in s.plan["media"] :
                  LET m == Item(s.batch, e.item)
                  IN  m \in Submitted(load) /\ e.key = m.id /\ e.row["type"] = m.type
<1> DEFINE s == req[p]
           b == s.batch
<1>1. /\ BatchOK(b) /\ PlanFrom(b, s.plan) /\ b = load.batches[p]
      /\ {"media", "media_resource"} \subseteq PlannedTables
  BY PlansAre DEF Shaped, PlannedTables, FilledTables, VersionTables
<1>2. ASSUME NEW t \in {"media", "media_resource"}, NEW e \in s.plan[t]
      PROVE  /\ Item(b, e.item) \in Submitted(load)
             /\ HasPart(Item(b, e.item), t) /\ e = EntryOf(b, t, e.item)
  <2>1. e.item \in SourcesOf(b, t) /\ HasPart(Item(b, e.item), t) /\ e = EntryOf(b, t, e.item)
    BY <1>1 DEF PlanFrom
  <2>2. e.item \in Present(b) /\ e.item[1] = "media"
    BY <1>1, <2>1, SourcesAre
  <2>3. Item(b, e.item) \in Range(b["media"])
    BY <1>1, <2>2, ItemIs
  <2>4. p \in DOMAIN load.batches
    BY DEF Requests
  <2>5. QED
    BY <1>1, <2>1, <2>3, <2>4 DEF Submitted
<1>3. ASSUME NEW e \in s.plan["media_resource"]
      PROVE  LET m == Item(b, e.item)
             IN  /\ m \in Versioned(load) /\ e.key = <<m.id, m.resource.at>>
                 /\ e.row = MediaResourceRow(m) /\ SourceUrl(s, e) = Chosen(m)
  <2> DEFINE m == Item(b, e.item)
  <2>1. m \in Submitted(load) /\ m.resource # Null
    BY <1>2 DEF HasPart
  <2>2. e = EntryOf(b, "media_resource", e.item)
    BY <1>2
  <2>3. EntryOf(b, "media_resource", e.item) = Entry(e.item, <<m.id, m.resource.at>>, MediaResourceRow(m))
    BY DEF EntryOf
  <2>4. e.key = <<m.id, m.resource.at>> /\ e.row = MediaResourceRow(m)
    BY <2>2, <2>3, EntryItem
  <2>5. SourceUrl(s, e) = Chosen(m)
    BY <2>4 DEF SourceUrl, Chosen
  <2>6. QED
    BY <2>1, <2>4, <2>5 DEF Versioned
<1>4. ASSUME NEW e \in s.plan["media"]
      PROVE  LET m == Item(b, e.item)
             IN  m \in Submitted(load) /\ e.key = m.id /\ e.row["type"] = m.type
  <2> DEFINE m == Item(b, e.item)
  <2>1. e = EntryOf(b, "media", e.item)
    BY <1>2
  <2>2. EntryOf(b, "media", e.item) = Entry(e.item, m.id, [alt_text |-> m.alt, type |-> m.type])
    BY DEF EntryOf
  <2>3. e.key = m.id /\ e.row = [alt_text |-> m.alt, type |-> m.type]
    BY <2>1, <2>2, EntryItem
  <2>4. QED
    BY <1>2, <2>3
<1>5. QED
  BY <1>3, <1>4

\* The version an enqueueing finds came from a medium of the same choice.
LEMMA VersionAgrees ==
  ASSUME SourcesAgree, Shaped, AllStaged, NEW p \in Requests, NEW e \in req[p].plan["media_resource"],
         SourceUrl(req[p], e) # Null, NEW lucky, NEW k \in VersionOf(req[p], e, lucky), NEW n, Origin(k, n)
  PROVE  SourceUrl(req[p], e) = Chosen(n)
<1> DEFINE m == Item(req[p].batch, e.item)
           url == SourceUrl(req[p], e)
<1>1. m \in Versioned(load) /\ e.key = <<m.id, m.resource.at>> /\ url = Chosen(m)
  BY EntrySubmitted
<1>2. /\ n \in Versioned(load) /\ k = <<n.id, n.resource.at>>
      /\ db["media_resource"][k] = MediaResourceRow(n)
  BY DEF Origin
<1>3. \/ k = e.key
      \/ k[1] = e.key[1] /\ k[2] <= e.key[2] /\ url \in SqlUrls(db["media_resource"][k])
  BY VersionIs DEF VersionOf
<1>4. load \in Loads /\ m \in Submitted(load)
  BY <1>1 DEF Shaped, Versioned
<1> HIDE DEF m, url
<1>5. m.id = n.id /\ (m.resource.at = n.resource.at \/ Chosen(m) \in Offered(n))
  BY <1>1, <1>2, <1>3 DEF Offered
<1>6. Chosen(m) = Chosen(n)
  BY <1>1, <1>2, <1>4, <1>5 DEF SourcesAgree, url
<1>7. QED
  BY <1>1, <1>6 DEF url

\* Two steps write transfer tasks.
LEMMA TasksChange ==
  ASSUME Shaped, IsStore(db), [Next]_vars
  PROVE  \/ db'["transfer_task"] = db["transfer_task"]
         \/ CreateTransferTask
         \/ \E p \in Requests : \E o, lucky : EnqueueTransfers(p, o, lucky)
<1> DEFINE task == "transfer_task"
           Same == db'[task] = db[task]
<1>0. /\ task \in Tables
      /\ \A t \in VersionTables \cup FilledTables \cup LookupTables \cup RefTables \cup {"index_queue"} :
           t \in Tables /\ t # task
  BY DEF Tables, FactTables, VersionTables, FilledTables, LookupTables, RefTables
<1>1. ASSUME NEW t \in Tables, t # task, NEW table, db' = [db EXCEPT ![t] = table] PROVE Same
  BY <1>0, <1>1, OneTableOnly
<1>2. ASSUME NEW p \in Requests, NEW o, CommitLookup(p, o) PROVE Same
  <2>1. req[p].step \in LookupTables /\ (db' = db \/ \E table : db' = [db EXCEPT ![req[p].step] = table])
    BY <1>2 DEF CommitLookup, DbAfter
  <2>2. QED
    BY <1>0, <1>1, <2>1
<1>3. ASSUME NEW p \in Requests, NEW failing, Convert(p, failing) PROVE Same
  <2>1. db' = db \/ db' = OwnLookups(req[p].batch, failing)
    BY <1>3, ConvertTurn
  <2>2. task \in Tables \ LookupTables
    BY <1>0
  <2>3. db' = OwnLookups(req[p].batch, failing) => \A u \in Tables \ LookupTables : db'[u] = db[u]
    BY DEF OwnLookups
  <2> HIDE DEF task
  <2>4. QED
    BY <2>1, <2>2, <2>3
<1>4. ASSUME NEW p \in Requests, NEW o, WriteRows(p, o) PROVE Same
  <2> DEFINE t == req[p].step
             rows == Rows(req[p].plan[t])
  <2>1. t \in FilledTables /\ (db' = db \/ db' = Write(t, rows))
    BY <1>4, WriteRowsTurn
  <2>2. rows = [k \in DOMAIN rows |-> rows[k]]
    BY RowsIsFunction
  <2> HIDE DEF rows
  <2>3. db' = Write(t, rows) => \A u \in Tables \ {t, "index_queue"} : db'[u] = db[u]
    BY <2>1, <2>2, WriteIs
  <2>4. task \in Tables \ {t, "index_queue"}
    BY <1>0, <2>1
  <2> HIDE DEF task
  <2>5. QED
    BY <2>1, <2>3, <2>4
<1>5. ASSUME NEW p \in Requests, NEW o, AppendVersions(p, o) PROVE Same
  <2> DEFINE t == req[p].step
             rows == Rows(req[p].plan[t])
             decisions == req[p].snapshot.decisions
             written == [db EXCEPT ![t] = Appended(@, rows, decisions)]
             new == IF t = "user_snapshot"
                    THEN [written EXCEPT !["index_queue"] = QueueSnapshots(db, decisions)["index_queue"]]
                    ELSE written
  <2>1. t \in VersionTables /\ (db' = db \/ db' = new)
    BY <1>5, AppendVersionsTurn
  <2>2. task \in Tables \ {t, "index_queue"}
    BY <1>0, <2>1
  <2>3. KeepsFacts(db, db')
    BY NextKeeps
  <2>4. CASE db' = new
    <3>1. \A u \in Tables \ {t, "index_queue"} : db'[u] = db[u]
      <4> HIDE DEF rows, decisions
      <4>1. QED
        BY <2>1, <2>3, <2>4, AppendGrows
    <3>2. QED
      BY <2>2, <3>1
  <2>5. QED
    BY <2>1, <2>4
<1>6. ASSUME NEW p \in Requests, NEW o, NEW c, CommitRelations(p, o, c) PROVE Same
  <2>1. db' = db \/ db' = SyncedStore(p)
    BY <1>6, CommitRelationsTurn
  <2>2. task \in Tables \ RefTables
    BY <1>0
  <2>3. db' = SyncedStore(p) => \A u \in Tables \ RefTables : db'[u] = db[u]
    BY DEF SyncedStore
  <2> HIDE DEF task
  <2>4. QED
    BY <2>1, <2>2, <2>3
<1>7. ASSUME NEW p \in Requests,
             \/ ReadLookup(p) \/ DecideVersions(p) \/ PlanRelations(p) \/ Abandon(p)
             \/ \E o \in Outcomes : Preload(p, o)
      PROVE  db' = db
  BY <1>7 DEF ReadLookup, DecideVersions, PlanRelations, Abandon, Preload
<1>8. QED
  BY <1>2, <1>3, <1>4, <1>5, <1>6, <1>7, StepsAre DEF Moves

\* The administrator's request moves by its own two steps.
LEMMA AdminMoves ==
  ASSUME [Next]_vars
  PROVE  admin' = admin \/ ReadSource \/ CreateTransferTask
<1>1. ASSUME NEW p \in Requests, Moves(p) PROVE admin' = admin
  <2>1. CASE ReadLookup(p) \/ DecideVersions(p) \/ PlanRelations(p) \/ Abandon(p)
    BY <2>1 DEF ReadLookup, DecideVersions, PlanRelations, Abandon
  <2>2. ASSUME NEW o, CommitLookup(p, o) \/ Preload(p, o) PROVE admin' = admin
    BY <2>2 DEF CommitLookup, Preload
  <2>3. ASSUME NEW failing, Convert(p, failing) PROVE admin' = admin
    BY <2>3 DEF Convert
  <2>4. ASSUME NEW o, WriteRows(p, o) \/ AppendVersions(p, o) PROVE admin' = admin
    BY <2>4 DEF WriteRows, AppendVersions
  <2>5. ASSUME NEW o, NEW c, EnqueueTransfers(p, o, c) PROVE admin' = admin
    BY <2>5 DEF EnqueueTransfers
  <2>6. ASSUME NEW o, NEW c, CommitRelations(p, o, c) PROVE admin' = admin
    BY <2>6 DEF CommitRelations
  <2>7. QED
    BY <1>1, <2>1, <2>2, <2>3, <2>4, <2>5, <2>6 DEF Moves
<1>2. CASE UNCHANGED vars
  BY <1>2 DEF vars
<1>3. QED
  BY <1>1, <1>2 DEF Next, Moves

\* A version keeps its row, and with it its source.
LEMMA SourcedStays ==
  ASSUME Grows(db, db'), load' = load, NEW k, NEW row, Sourced(k, row)
  PROVE  Sourced(k, row)'
<1>1. k \in DOMAIN db'["media_resource"] /\ db'["media_resource"][k] = db["media_resource"][k]
  BY DEF Sourced, Grows, KeepsRows, VersionTables
<1>2. QED
  BY <1>1 DEF Sourced, Origin

\* Every version stored is of a medium submitted, and so is every medium.
LEMMA VersionsSubmittedKept ==
  ASSUME Inductive, Chronicle, VersionsSubmitted, [Next]_vars
  PROVE  VersionsSubmitted'
<1>0. /\ Shaped /\ IsStore(db) /\ AllStaged /\ SoundStore
      /\ Grows(db, db') /\ load' = load
      /\ "media_resource" \in VersionTables /\ "media" \in FilledTables
      /\ "media_resource" \in KeyedByItem /\ "media" \in KeyedByItem
  BY NextGrows, ShapeKept DEF Inductive, VersionTables, FilledTables, KeyedByItem, PlannedTables
<1>1. ASSUME NEW k \in DOMAIN db'["media_resource"] PROVE \E n : Origin(k, n)'
  <2>1. CASE k \in DOMAIN db["media_resource"]
    <3>1. PICK n : Origin(k, n)
      BY <2>1 DEF VersionsSubmitted
    <3>2. db'["media_resource"][k] = db["media_resource"][k]
      BY <1>0, <2>1 DEF Grows, KeepsRows
    <3>3. Origin(k, n)'
      BY <1>0, <3>1, <3>2 DEF Origin
    <3>4. QED
      BY <3>3
  <2>2. CASE k \notin DOMAIN db["media_resource"]
    <3>1. PICK p \in Requests : \E o : AppendVersions(p, o)
      BY <1>0, <1>1, <2>2, VersionsChange DEF VersionsSame
    <3>2. PICK o : AppendVersions(p, o)
      BY <3>1
    <3> DEFINE s == req[p]
               t == s.step
               rows == Rows(s.plan[t])
               decisions == s.snapshot.decisions
    <3>3. o # "failed"
      BY <1>1, <2>2, <3>2 DEF AppendVersions, DbAfter
    <3>4. /\ Appends(t, rows, decisions, s.snapshot.seen)
          /\ \A u \in VersionTables \ {t} : db'[u] = db[u]
      BY <1>0, <3>2, <3>3, AppendIs
    <3>5. t = "media_resource"
      BY <1>0, <1>1, <2>2, <3>4
    <3>6. db'[t] = Appended(db[t], rows, decisions) /\ DOMAIN decisions = DOMAIN rows
      BY <3>4 DEF Appends
    <3>0. DOMAIN rows = {e.key : e \in s.plan[t]}
      BY RowsDomain
    <3> HIDE DEF rows, decisions
    <3>7. k \in DOMAIN rows /\ db'[t][k] = rows[k]
      BY <1>1, <2>2, <3>5, <3>6 DEF Appended, Candidates
    <3>8. PICK e \in s.plan[t] : e.key = k
      BY <3>0, <3>7
    <3>9. rows[k] = e.row
      BY <1>0, <3>5, <3>8, PlansAre, RowsOfItems DEF rows
    <3>10. PICK n : n \in Versioned(load) /\ e.key = <<n.id, n.resource.at>> /\ e.row = MediaResourceRow(n)
      BY <1>0, <3>5, <3>8, EntrySubmitted
    <3>11. Origin(k, n)'
      BY <1>0, <3>5, <3>7, <3>8, <3>9, <3>10 DEF Origin
    <3>12. QED
      BY <3>11
  <2>3. QED
    BY <2>1, <2>2
<1>2. ASSUME NEW k \in DOMAIN db'["media"]
      PROVE  \E m \in Submitted(load) : m.id = k /\ m.type = db'["media"][k]["type"]
  <2>1. CASE k \in DOMAIN db["media"]
    <3>1. PICK m \in Submitted(load) : m.id = k /\ m.type = db["media"][k]["type"]
      BY <2>1 DEF VersionsSubmitted
    <3>2. HasColumns("media", db["media"][k])
      BY <1>0, <2>1 DEF SoundStore
    <3>3. "type" \in DOMAIN db["media"][k] /\ db["media"][k]["type"] # Null
      BY <3>2 DEF HasColumns, ColumnsOf, NotNull
    <3>4. Keeps(db["media"], db'["media"])
      BY <1>0 DEF Grows, KeepsFacts, FactTables
    <3>5. db'["media"][k]["type"] = db["media"][k]["type"]
      BY <2>1, <3>3, <3>4 DEF Keeps
    <3>6. QED
      BY <3>1, <3>5
  <2>2. CASE k \notin DOMAIN db["media"]
    <3>1. PICK p \in Requests : Writes(p)
      BY <1>0, <1>2, <2>2, FilledTablesChange
    <3> DEFINE s == req[p]
               t == s.step
               rows == Rows(s.plan[t])
    <3>2. t \in FilledTables /\ db' = Write(t, rows)
      BY <3>1 DEF Writes
    <3>3. rows = [j \in DOMAIN rows |-> rows[j]]
      BY RowsIsFunction
    <3>0. DOMAIN rows = {e.key : e \in s.plan[t]}
      BY RowsDomain
    <3> HIDE DEF rows
    <3>4. /\ \A u \in Tables \ {t, "index_queue"} : db'[u] = db[u]
          /\ t \notin ChildTables => db'[t] = Upsert(db[t], rows, FilledColumns(t))
      BY <1>0, <3>2, <3>3, WriteIs
    <3>5. "media" \in Tables /\ "media" # "index_queue" /\ "media" \notin ChildTables
      BY DEF Tables, FactTables, FilledTables, ChildTables
    <3>6. t = "media"
      BY <1>2, <2>2, <3>4, <3>5
    <3>7. k \in DOMAIN rows /\ db'["media"][k] = rows[k]
      BY <1>2, <2>2, <3>4, <3>5, <3>6 DEF Upsert
    <3>8. PICK e \in s.plan[t] : e.key = k
      BY <3>0, <3>7
    <3>9. rows[k] = e.row
      BY <1>0, <3>6, <3>8, PlansAre, RowsOfItems DEF rows
    <3> DEFINE m == Item(s.batch, e.item)
    <3>10. m \in Submitted(load) /\ e.key = m.id /\ e.row["type"] = m.type
      BY <1>0, <3>6, <3>8, EntrySubmitted
    <3> HIDE DEF m
    <3>11. QED
      BY <3>7, <3>8, <3>9, <3>10
  <2>3. QED
    BY <2>1, <2>2
<1>3. QED
  BY <1>0, <1>1, <1>2 DEF VersionsSubmitted

\* ON CONFLICT DO NOTHING leaves the columns of a row that is there.
LEMMA UpsertLeaves ==
  ASSUME NEW table, NEW rows, NEW k \in DOMAIN table
  PROVE  LET row == Upsert(table, rows, {})[k]
         IN  DOMAIN row = DOMAIN table[k] /\ \A c \in DOMAIN table[k] : row[c] = table[k][c]
<1>1. CASE k \notin DOMAIN rows
  BY <1>1 DEF Upsert
<1>2. CASE k \in DOMAIN rows
  <2>1. Upsert(table, rows, {})[k] = Filled(table[k], rows[k], {})
    BY <1>2 DEF Upsert
  <2>2. QED
    BY <2>1 DEF Filled
<1>3. QED
  BY <1>1, <1>2

\* What is added to the transfer tasks is the administrator's row or those of
\* an enqueueing.
LEMMA TasksAre ==
  ASSUME Inductive, [Next]_vars
  PROVE  \/ db'["transfer_task"] = db["transfer_task"]
         \/ /\ CreateTransferTask
            /\ db'["transfer_task"] = Upsert(db["transfer_task"], [k \in {admin.key} |-> admin.row], {})
         \/ \E p \in Requests : \E lucky : \E found \in SUBSET Found(req[p], lucky) :
              db'["transfer_task"] = Upsert(db["transfer_task"], TaskRows(req[p], found, lucky), {})
<1>1. Shaped /\ IsStore(db)
  BY DEF Inductive
<1>2. CASE CreateTransferTask
  <2> DEFINE rows == [k \in {admin.key} |-> admin.row]
  <2>1. db' = [db EXCEPT !["transfer_task"] = Upsert(@, rows, {})]
    BY <1>2 DEF CreateTransferTask
  <2> HIDE DEF rows
  <2>2. db'["transfer_task"] = Upsert(db["transfer_task"], rows, {})
    BY <1>1, <2>1, EnqueuedRows
  <2>3. QED
    BY <1>2, <2>2 DEF rows
<1>3. ASSUME NEW p \in Requests, NEW o, NEW lucky, EnqueueTransfers(p, o, lucky)
      PROVE  \/ db'["transfer_task"] = db["transfer_task"]
             \/ \E found \in SUBSET Found(req[p], lucky) :
                  db'["transfer_task"] = Upsert(db["transfer_task"], TaskRows(req[p], found, lucky), {})
  <2>1. PICK found \in SUBSET Found(req[p], lucky) :
          db' = db \/ db' = EnqueuedStore(req[p], found, lucky)
    BY <1>1, <1>3, EnqueueIs
  <2>2. CASE db' = EnqueuedStore(req[p], found, lucky)
    <3> DEFINE rows == TaskRows(req[p], found, lucky)
    <3>1. db' = [db EXCEPT !["transfer_task"] = Upsert(@, rows, {})]
      BY <2>2 DEF EnqueuedStore
    <3> HIDE DEF rows
    <3>2. db'["transfer_task"] = Upsert(db["transfer_task"], rows, {})
      BY <1>1, <3>1, EnqueuedRows
    <3>3. QED
      BY <3>2 DEF rows
  <2>3. QED
    BY <2>1, <2>2
<1>4. QED
  BY <1>1, <1>2, <1>3, TasksChange

\* A task keeps its URL.
TaskKept(k) ==
  /\ k \in DOMAIN db'["transfer_task"]
  /\ "source_url" \in DOMAIN db'["transfer_task"][k]
  /\ db'["transfer_task"][k]["source_url"] = db["transfer_task"][k]["source_url"]

LEMMA TasksKept ==
  ASSUME Inductive, TasksSourced, [Next]_vars, NEW k \in DOMAIN db["transfer_task"]
  PROVE  TaskKept(k)
<1>1. "source_url" \in DOMAIN db["transfer_task"][k]
  BY DEF TasksSourced, Sourced
<1>2. ASSUME NEW rows, db'["transfer_task"] = Upsert(db["transfer_task"], rows, {}) PROVE TaskKept(k)
  <2>1. k \in DOMAIN Upsert(db["transfer_task"], rows, {})
    BY DEF Upsert
  <2>2. QED
    BY <1>1, <1>2, <2>1, UpsertLeaves DEF TaskKept
<1>3. CASE db'["transfer_task"] = db["transfer_task"]
  BY <1>1, <1>3 DEF TaskKept
<1>4. QED
  BY <1>2, <1>3, TasksAre

\* What an enqueueing writes has its source.
LEMMA RowsSourced ==
  ASSUME SourcesAgree, Inductive, VersionsSubmitted, NEW p \in Requests, NEW lucky,
         NEW found \in SUBSET Found(req[p], lucky), NEW k \in DOMAIN TaskRows(req[p], found, lucky),
         NEW row, row = TaskRows(req[p], found, lucky)[k]
  PROVE  Sourced(k, row)
<1>1. PICK e \in found : /\ k \in VersionOf(req[p], e, lucky)
                         /\ TaskRows(req[p], found, lucky)[k] = [source_url |-> SourceUrl(req[p], e)]
  BY TaskRowsAre
<1>2. e \in req[p].plan["media_resource"] /\ SourceUrl(req[p], e) # Null
  BY DEF Found, Due
<1>3. k \in DOMAIN db["media_resource"]
  BY <1>1, VersionIs DEF VersionOf
<1>4. PICK n : Origin(k, n)
  BY <1>3 DEF VersionsSubmitted
<1>5. SourceUrl(req[p], e) = Chosen(n)
  BY <1>1, <1>2, <1>4, VersionAgrees DEF Inductive
<1> HIDE DEF Inductive
<1>6. "source_url" \in DOMAIN row /\ row["source_url"] = SourceUrl(req[p], e)
  BY <1>1
<1>7. QED
  BY <1>3, <1>4, <1>5, <1>6 DEF Sourced

\* Every step leaves each task with its source.
LEMMA TasksSourcedKept ==
  ASSUME SourcesAgree, Inductive, VersionsSubmitted, TasksSourced, Asked, [Next]_vars
  PROVE  TasksSourced'
<1>0. Grows(db, db') /\ load' = load
  BY NextGrows, ShapeKept DEF Inductive
<1> SUFFICES ASSUME NEW k \in DOMAIN db'["transfer_task"]
             PROVE  Sourced(k, db["transfer_task"][k])'
  BY DEF TasksSourced
<1>1. CASE k \in DOMAIN db["transfer_task"]
  <2>1. PICK row : row = db["transfer_task"][k]
    OBVIOUS
  <2>2. Sourced(k, row)'
    BY <1>0, <1>1, <2>1, SourcedStays DEF TasksSourced
  <2>3. TaskKept(k)
    BY <1>1, TasksKept
  <2>4. QED
    BY <2>1, <2>2, <2>3 DEF TaskKept, Sourced
<1>2. CASE k \notin DOMAIN db["transfer_task"]
  <2>1. ASSUME NEW rows, db'["transfer_task"] = Upsert(db["transfer_task"], rows, {})
        PROVE  k \in DOMAIN rows /\ db'["transfer_task"][k] = rows[k]
    BY <1>2, <2>1 DEF Upsert
  <2>2. PICK row : row = db'["transfer_task"][k]
    OBVIOUS
  <2>3. Sourced(k, row)
    <3>1. CASE /\ CreateTransferTask
               /\ db'["transfer_task"] = Upsert(db["transfer_task"], [j \in {admin.key} |-> admin.row], {})
      <4>1. k = admin.key /\ row = admin.row
        BY <2>1, <2>2, <3>1
      <4>2. admin.step = "write"
        BY <3>1 DEF CreateTransferTask
      <4>3. QED
        BY <4>1, <4>2 DEF Asked
    <3>2. ASSUME NEW p \in Requests, NEW lucky, NEW found \in SUBSET Found(req[p], lucky),
                 db'["transfer_task"] = Upsert(db["transfer_task"], TaskRows(req[p], found, lucky), {})
          PROVE  Sourced(k, row)
      <4>1. k \in DOMAIN TaskRows(req[p], found, lucky) /\ row = TaskRows(req[p], found, lucky)[k]
        BY <2>1, <2>2, <3>2
      <4>2. QED
        BY <4>1, RowsSourced
    <3>3. QED
      BY <1>2, <3>1, <3>2, TasksAre
  <2>4. Sourced(k, row)'
    BY <1>0, <2>3, SourcedStays
  <2>5. QED
    BY <2>2, <2>4 DEF Sourced
<1>3. QED
  BY <1>1, <1>2

\* The administrator's row has its source: what is read for a photo is a URL
\* that the statement prefers, too.
LEMMA AskedKept ==
  ASSUME SourcesAgree, Inductive, VersionsSubmitted, Asked, [Next]_vars
  PROVE  Asked'
<1>0. Grows(db, db') /\ load' = load /\ load \in Loads
  BY NextGrows, ShapeKept DEF Inductive, Shaped
<1>1. CASE admin' = admin
  <2>1. PICK k, row : k = admin.key /\ row = admin.row
    OBVIOUS
  <2>2. admin.step = "write" => Sourced(k, row)'
    BY <1>0, <2>1, SourcedStays DEF Asked
  <2>3. QED
    BY <1>0, <1>1, <2>1, <2>2 DEF Asked, Sourced
<1>2. CASE CreateTransferTask
  BY <1>2 DEF CreateTransferTask, Asked
<1>3. CASE ReadSource
  <2>1. load.asked
    BY <1>3 DEF ReadSource, Asked
  <2>2. PICK id \in DOMAIN db["media"] : \E k \in LatestVersion(id) :
           \E url \in SqlSources(id, db["media_resource"][k]) :
             admin' = IF url = Null THEN [step |-> "done"]
                      ELSE [step |-> "write", key |-> k, row |-> [source_url |-> url]]
    BY <1>3 DEF ReadSource
  <2>3. PICK k \in LatestVersion(id) :
           \E url \in SqlSources(id, db["media_resource"][k]) :
             admin' = IF url = Null THEN [step |-> "done"]
                      ELSE [step |-> "write", key |-> k, row |-> [source_url |-> url]]
    BY <2>2
  <2>4. PICK url \in SqlSources(id, db["media_resource"][k]) :
             admin' = IF url = Null THEN [step |-> "done"]
                      ELSE [step |-> "write", key |-> k, row |-> [source_url |-> url]]
    BY <2>3
  <2>5. k \in DOMAIN db["media_resource"] /\ k[1] = id
    BY DEF LatestVersion
  <2>6. url \in SqlUrls(db["media_resource"][k])
    <3>1. CASE db["media"][id]["type"] # "photo"
      BY <3>1 DEF SqlSources
    <3>2. CASE db["media"][id]["type"] = "photo"
      <4>1. PICK n : Origin(k, n)
        BY <2>5 DEF VersionsSubmitted
      <4>2. PICK m \in Submitted(load) : m.id = id /\ m.type = "photo"
        BY <3>2 DEF VersionsSubmitted
      <4>3. /\ n \in Versioned(load) /\ k = <<n.id, n.resource.at>>
            /\ db["media_resource"][k] = MediaResourceRow(n)
        BY <4>1 DEF Origin
      <4>4. n.id = m.id
        BY <2>5, <4>2, <4>3
      <4>5. n.resource.url \in Offered(n)
        BY <1>0, <2>1, <4>2, <4>3, <4>4 DEF SourcesAgree
      <4>6. MediaResourceRow(n)["media_url"] = n.resource.url
        BY DEF MediaResourceRow
      <4>7. url = n.resource.url
        BY <3>2, <4>3, <4>6 DEF SqlSources
      <4>8. QED
        BY <4>3, <4>5, <4>7 DEF Offered
    <3>3. QED
      BY <3>1, <3>2
  <2> DEFINE row == [source_url |-> url]
  <2>7. "source_url" \in DOMAIN row /\ row["source_url"] = url
    OBVIOUS
  <2> HIDE DEF row
  <2>8. Sourced(k, row)
    BY <2>1, <2>5, <2>6, <2>7 DEF Sourced
  <2>9. Sourced(k, row)'
    BY <1>0, <2>8, SourcedStays
  <2>10. \/ admin' = [step |-> "done"]
         \/ admin' = [step |-> "write", key |-> k, row |-> row]
    BY <2>4 DEF row
  <2>11. admin'.step = "write" => admin'.key = k /\ admin'.row = row
    BY <2>10
  <2>12. QED
    BY <1>0, <2>1, <2>9, <2>11 DEF Asked, Sourced
<1>4. QED
  BY <1>1, <1>2, <1>3, AdminMoves

\* A task of a source stays one.
LEMMA HasSourceStays ==
  ASSUME Inductive, TasksSourced, [Next]_vars, NEW q, req'[q].batch = req[q].batch,
         NEW e, HasSource(req[q], e)
  PROVE  HasSource(req[q], e)'
<1>1. PICK k \in DOMAIN db["transfer_task"] :
        /\ k[1] = e.key[1] /\ k[2] <= e.key[2]
        /\ db["transfer_task"][k]["source_url"] \in
             {SourceUrl(req[q], e)} \cup (IF load.asked THEN SqlUrls(db["media_resource"][k]) ELSE {})
  BY DEF HasSource
<1>2. Grows(db, db') /\ load' = load
  BY NextGrows, ShapeKept DEF Inductive
<1>3. k \in DOMAIN db["media_resource"]
  BY DEF TasksSourced, Sourced
<1>4. db'["media_resource"][k] = db["media_resource"][k]
  BY <1>2, <1>3 DEF Grows, KeepsRows, VersionTables
<1>5. TaskKept(k)
  BY TasksKept
<1>6. SourceUrl(req[q], e)' = SourceUrl(req[q], e)
  BY DEF SourceUrl
<1>7. SqlUrls(db["media_resource"][k])' = SqlUrls(db["media_resource"][k])
  BY <1>4 DEF SqlUrls
<1>8. QED
  BY <1>1, <1>2, <1>5, <1>6, <1>7 DEF HasSource, TaskKept

\* A step that says nothing of a transfer.
LEMMA SourcesStay ==
  ASSUME Inductive, TasksSourced, [Next]_vars, NEW q, Sources(req[q]),
         req'[q].batch = req[q].batch, req'[q].plan = req[q].plan,
         \A r \in req'[q].results \ req[q].results : r.op # "media_transfer"
  PROVE  Sources(req[q])'
<1> SUFFICES ASSUME NEW e \in req[q].plan["media_resource"], SaysTransfer(req'[q].results, e, Queued)
             PROVE  HasSource(req[q], e)'
  BY DEF Sources
<1>1. SaysTransfer(req[q].results, e, Queued)
  BY DEF SaysTransfer
<1>2. HasSource(req[q], e)
  BY <1>1 DEF Sources
<1>3. QED
  BY <1>2, HasSourceStays

\* What an enqueueing calls queued is a task of the source.
LEMMA SourcesEnqueued ==
  ASSUME SourcesAgree, Inductive, VersionsSubmitted, TasksSourced, Asked, [Next]_vars,
         NEW p \in Requests, Sources(req[p]), NEW o, NEW lucky, EnqueueTransfers(p, o, lucky)
  PROVE  Sources(req[p])'
<1> DEFINE s == req[p]
           n == req'[p]
<1>1. Proceeds(p) /\ n.plan = s.plan
  BY EnqueueIs DEF Inductive
<1>2. PICK found \in SUBSET Found(s, lucky) :
        \A r \in n.results \ s.results : r.why \in Queued =>
          /\ db' = EnqueuedStore(s, found, lucky)
          /\ \E e \in found : r.item = e.item
  BY EnqueueIs DEF Inductive
<1>3. /\ load' = load /\ n.batch = s.batch /\ Grows(db, db')
      /\ Shaped /\ AllStaged /\ IsStore(db)
  BY <1>1, NextGrows DEF Proceeds, Turn, Inductive
<1>4. BatchOK(s.batch) /\ PlanFrom(s.batch, s.plan)
  BY <1>3, PlansAre
<1> SUFFICES ASSUME NEW e \in s.plan["media_resource"], SaysTransfer(n.results, e, Queued)
             PROVE  HasSource(req[p], e)'
  BY <1>1 DEF Sources
<1>5. CASE SaysTransfer(s.results, e, Queued)
  <2>1. HasSource(req[p], e)
    BY <1>5 DEF Sources
  <2>2. QED
    BY <1>3, <2>1, HasSourceStays
<1>6. CASE ~SaysTransfer(s.results, e, Queued)
  <2>1. PICK r \in n.results \ s.results : r.item = e.item /\ r.why \in Queued
    BY <1>6 DEF SaysTransfer
  <2>2. PICK f \in found : r.item = f.item
    BY <1>2, <2>1
  <2>3. f \in s.plan["media_resource"] /\ VersionOf(s, f, lucky) # {} /\ SourceUrl(s, f) # Null
    BY DEF Found, Due
  <2>4. f = e
    <3>1. "media_resource" \in PlannedTables
      BY DEF PlannedTables, VersionTables
    <3>2. QED
      BY <1>4, <2>1, <2>2, <2>3, <3>1 DEF PlanFrom
  <2>5. PICK k \in VersionOf(s, e, lucky) : TRUE
    BY <2>3, <2>4
  <2>6. /\ k \in DOMAIN db["media_resource"]
        /\ k = e.key \/ (k[1] = e.key[1] /\ k[2] <= e.key[2])
    BY <2>5, VersionIs DEF VersionOf
  <2>7. e.key[2] \in Nat
    <3>1. "media_resource" \in VersionTables
      BY DEF VersionTables
    <3>2. QED
      BY <1>4, <3>1, VersionTimes
  <2>8. k \in DOMAIN TaskRows(s, found, lucky)
    BY <2>2, <2>4, <2>5, TaskRowsCover
  <2>9. DOMAIN TaskRows(s, found, lucky) \subseteq DOMAIN db'["transfer_task"]
    BY <1>2, <1>3, <2>1, EnqueuedRows DEF EnqueuedStore
  <2>10. Sourced(k, db["transfer_task"][k])'
    BY <2>8, <2>9, TasksSourcedKept DEF TasksSourced
  <2>11. db'["media_resource"][k] = db["media_resource"][k]
    BY <1>3, <2>6 DEF Grows, KeepsRows, VersionTables
  <2>12. SourceUrl(req[p], e)' = SourceUrl(req[p], e)
    BY <1>3 DEF SourceUrl
  <2>13. ASSUME NEW m, Origin(k, m)' PROVE SourceUrl(req[p], e) = Chosen(m)
    <3>1. Origin(k, m)
      BY <1>3, <2>11, <2>13 DEF Origin
    <3>2. QED
      BY <1>3, <2>3, <2>4, <2>5, <3>1, VersionAgrees
  <2>14. \/ load'.asked /\ db'["transfer_task"][k]["source_url"] \in SqlUrls(db["media_resource"][k])'
         \/ db'["transfer_task"][k]["source_url"] = SourceUrl(req[p], e)'
    BY <2>10, <2>12, <2>13 DEF Sourced
  <2>15. k[1] = e.key[1] /\ k[2] <= e.key[2]
    BY <2>6, <2>7
  <2>16. QED
    BY <2>8, <2>9, <2>14, <2>15 DEF HasSource
<1>7. QED
  BY <1>5, <1>6

\* A step of a request keeps what it says of sources.
LEMMA SourcesMoved ==
  ASSUME SourcesAgree, Inductive, VersionsSubmitted, TasksSourced, Asked, [Next]_vars,
         NEW p \in Requests, Sources(req[p]), Moves(p)
  PROVE  Sources(req[p])'
<1>0. Shaped /\ IsStore(db) /\ Turn(p)
  BY MovesTurn DEF Inductive
<1>1. req'[p].batch = req[p].batch
  BY <1>0 DEF Turn
<1>2. CASE Rest(p)
  <2>1. LeftAside(p)
    BY <1>2, RestAside
  <2>2. QED
    BY <1>1, <2>1, SourcesStay DEF LeftAside, Aside
<1>3. ASSUME NEW failing, Convert(p, failing) PROVE Sources(req[p])'
  <2>1. req'[p].results = Refusals(req[p].batch) \cup ConversionFailures(req[p].batch, req'[p].plan)
    BY <1>0, <1>3, ConvertTurn
  <2>2. \A r \in req'[p].results : r.why \in {"bad_id", "shadowed", "conversion"}
    BY <2>1, RefusedIs, FailuresConcern
  <2>3. QED
    BY <2>2 DEF Sources, SaysTransfer, Queued
<1>4. ASSUME NEW o, AppendVersions(p, o) PROVE Sources(req[p])'
  <2> DEFINE s == req[p]
             t == s.step
             verdict == AppendedStatus(db[t], s.snapshot.decisions)
  <2>1. /\ t \in VersionTables /\ req'[p].plan = s.plan
        /\ \/ req'[p].results = s.results \cup Reports(s.plan[t], t, verdict)
           \/ req'[p].results = s.results \cup Failures(s.plan[t], t)
    BY <1>0, <1>4, AppendVersionsTurn
  <2>2. \A e : OpName(e, t) # "media_transfer"
    BY <2>1 DEF OpName, VersionTables
  <2> HIDE DEF t, verdict
  <2>3. /\ \A r \in Reports(s.plan[t], t, verdict) : r.op # "media_transfer"
        /\ \A r \in Failures(s.plan[t], t) : r.op # "media_transfer"
    BY <2>2, ResultIs DEF Reports, Failures
  <2>4. \A r \in req'[p].results \ req[p].results : r.op # "media_transfer"
    BY <2>1, <2>3
  <2>5. QED
    BY <1>1, <2>1, <2>4, SourcesStay
<1>5. ASSUME NEW o, NEW lucky, EnqueueTransfers(p, o, lucky) PROVE Sources(req[p])'
  BY <1>5, SourcesEnqueued
<1>6. \/ \E failing : Convert(p, failing)
      \/ \E o : AppendVersions(p, o)
      \/ \E o, lucky : EnqueueTransfers(p, o, lucky)
      \/ Rest(p)
  BY DEF Moves, Rest
<1>7. QED
  BY <1>2, <1>3, <1>4, <1>5, <1>6

\* Every step keeps the ledger.
LEMMA LedgerKept ==
  ASSUME SourcesAgree, Inductive, Chronicle, Ledger, [Next]_vars
  PROVE  Ledger'
<1>1. Shaped /\ IsStore(db) /\ Requests' = Requests
  BY ShapeKept DEF Inductive
<1>2. VersionsSubmitted /\ TasksSourced /\ Asked /\ \A q \in Requests : Sources(req[q])
  BY DEF Ledger
<1>3. ASSUME NEW q \in Requests PROVE Sources(req[q])'
  <2>1. req'[q] = req[q] => Sources(req[q])'
    BY <1>2, SourcesStay
  <2>2. Moves(q) => Sources(req[q])'
    BY <1>2, SourcesMoved
  <2>3. ASSUME NEW p \in Requests, Moves(p), p # q PROVE req'[q] = req[q]
    <3>1. Turn(p)
      BY <1>1, <2>3, MovesTurn
    <3>2. QED
      BY <1>1, <2>3, <3>1, TurnKeepsShape
  <2>4. QED
    BY <2>1, <2>2, <2>3, StepsAre DEF Quiet
<1>4. VersionsSubmitted' /\ TasksSourced' /\ Asked'
  BY <1>2, VersionsSubmittedKept, TasksSourcedKept, AskedKept
<1>5. QED
  BY <1>1, <1>3, <1>4 DEF Ledger

\* At first it is empty.
LEMMA LedgerAtFirst == Init => Ledger
<1> SUFFICES ASSUME Init PROVE Ledger
  OBVIOUS
<1>1. \A t \in Tables : db[t] = << >>
  BY DEF Init
<1>2. {"media_resource", "media", "transfer_task"} \subseteq Tables
  BY DEF Tables, FactTables, VersionTables, FilledTables
<1>3. VersionsSubmitted /\ TasksSourced
  BY <1>1, <1>2 DEF VersionsSubmitted, TasksSourced
<1>4. Asked
  BY DEF Init, Asked
<1>5. ASSUME NEW p \in Requests PROVE Sources(req[p])
  <2>1. req[p].results = {}
    BY StartedIs DEF Init
  <2>2. QED
    BY <2>1 DEF Sources, SaysTransfer
<1>6. QED
  BY <1>3, <1>4, <1>5 DEF Ledger

\* Every verdict on a resource is answered, and what is called queued has its
\* source.
LEMMA OwedIs ==
  ASSUME AllOwing, Ledger
  PROVE  TransferOwed
<1> SUFFICES ASSUME NEW p \in Requests, NEW e \in req[p].plan["media_resource"],
                    req[p].step = "done", load.active, SourceUrl(req[p], e) # Null,
                    Told(req[p].results, e, "media_resource"),
                    ~SaysTransfer(req[p].results, e, TransferFailures)
             PROVE  HasSource(req[p], e)
  <2>1. \A e : OpName(e, "media_resource") = "media_resource"
    BY DEF OpName
  <2>2. QED
    BY <2>1 DEF TransferOwed, SourceUrl, Told, SaysTransfer, TransferFailures, HasSource
<1>1. SaysTransfer(req[p].results, e, Queued \cup TransferFailures)
  BY DEF AllOwing, Owing, Pending
<1>2. SaysTransfer(req[p].results, e, Queued)
  BY <1>1 DEF SaysTransfer
<1>3. QED
  BY <1>2 DEF Ledger, Sources

\* Where the requests agree on the sources of a medium, the task of a medium that
\* was told to be stored has the URL selected for it, or the one an administrator
\* asked for, whatever overlaps and whatever fails.  Without the hypothesis this
\* is false: a version that is stored already keeps the URL of its first request.
THEOREM TransferTheorem ==
  ASSUME SourcesAgree
  PROVE  Spec => []TransferOwed
<1>1. Inductive /\ Chronicle /\ Ledger /\ [Next]_vars => Ledger'
  BY LedgerKept
<1>2. Inductive /\ AllOwing /\ [Next]_vars => AllOwing'
  BY OwingKept
<1>3. AllOwing /\ Ledger => TransferOwed
  BY OwedIs
<1>4. Spec => []Inductive
  BY InductiveAtFirst, AllToldKept, PTL DEF Spec
<1>5. Inductive /\ Chronicle /\ [Next]_vars => Chronicle'
  BY ChronicleKept
<1>6. QED
  BY <1>1, <1>2, <1>3, <1>4, <1>5, OwingAtFirst, LedgerAtFirst, ChronicleAtFirst, PTL DEF Spec
=============================================================================
