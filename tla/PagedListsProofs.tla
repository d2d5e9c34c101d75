-------------------------- MODULE PagedListsProofs --------------------------
(***************************************************************************)
(* A traversal answers one query, is refused no cursor of its own, misses  *)
(* no row that stays as it was and repeats none that was not moved back,   *)
(* for any rows, times, limits and number of writes.                       *)
(***************************************************************************)
EXTENDS PagedLists, FiniteSetTheorems, SequenceTheorems, TLAPS

-----------------------------------------------------------------------------
(* Every handler compares, with those of the cursor, all the filters that  *)
(* shape its answer.                                                       *)

\* A list made by Keyset compares what it uses.
LEMMA KeysetChecks ==
  ASSUME NEW key, NEW filters, NEW written
  PROVE  /\ Keyset(key, filters, written).used = filters
         /\ Keyset(key, filters, written).checked = filters
  BY DEF Keyset

\* So do the lists of hits.
LEMMA HitsCheck ==
  ASSUME NEW filters
  PROVE  Hits(filters).used = filters /\ Hits(filters).checked = filters
  BY KeysetChecks DEF Hits

\* No handler uses a filter it does not compare: the sort of the tweets, the
\* author names and the ids of the parent are among those compared.
LEMMA HandlersCheckWhatTheyUse ==
  \A l \in AllLists : l.used = l.checked
<1>1. \A sort : ListTweets(sort).used = ListTweets(sort).checked
  BY KeysetChecks DEF ListTweets
<1>2. ListTweetMedia.used = ListTweetMedia.checked
  BY DEF ListTweetMedia, Keyset
<1>3. SearchTweets.used = SearchTweets.checked
  BY DEF SearchTweets, Hits, Keyset
<1>4. /\ ListTwitterUserTweets.used = ListTwitterUserTweets.checked
      /\ SearchTwitterUsers.used = SearchTwitterUsers.checked
      /\ AdminListTwitterUsersSearch.used = AdminListTwitterUsersSearch.checked
      /\ AdminListTweetsSearch.used = AdminListTweetsSearch.checked
  BY HitsCheck DEF ListTwitterUserTweets, SearchTwitterUsers, AdminListTwitterUsersSearch,
                   AdminListTweetsSearch
<1>5. /\ ListTwitterUsers.used = ListTwitterUsers.checked
      /\ ListTwitterUserSnapshots.used = ListTwitterUserSnapshots.checked
      /\ ListTwitterUserStats.used = ListTwitterUserStats.checked
      /\ ListMedia.used = ListMedia.checked
      /\ ListMediaResources.used = ListMediaResources.checked
      /\ ListMediaTweets.used = ListMediaTweets.checked
      /\ ListMediaTransferTasks.used = ListMediaTransferTasks.checked
  BY KeysetChecks DEF ListTwitterUsers, ListTwitterUserSnapshots, ListTwitterUserStats, ListMedia,
                      ListMediaResources, ListMediaTweets, ListMediaTransferTasks
<1>6. /\ ListTransferTasks.used = ListTransferTasks.checked
      /\ ListStorageObjects.used = ListStorageObjects.checked
      /\ ListStorageObjectTasks.used = ListStorageObjectTasks.checked
      /\ ListIndexTasks.used = ListIndexTasks.checked
      /\ ListEvents.used = ListEvents.checked
      /\ ListUsers.used = ListUsers.checked
      /\ ListUserSessions.used = ListUserSessions.checked
      /\ ListUserSsoAuthorizations.used = ListUserSsoAuthorizations.checked
  BY KeysetChecks DEF ListTransferTasks, ListStorageObjects, ListStorageObjectTasks, ListIndexTasks,
                      ListEvents, ListUsers, ListUserSessions, ListUserSsoAuthorizations
<1>7. /\ AdminListUsers.used = AdminListUsers.checked
      /\ AdminListTwitterUsers.used = AdminListTwitterUsers.checked
      /\ AdminListTweets.used = AdminListTweets.checked
      /\ AdminListMedia.used = AdminListMedia.checked
      /\ AdminListStorageObjects.used = AdminListStorageObjects.checked
      /\ AdminListTransferTasks.used = AdminListTransferTasks.checked
  BY KeysetChecks DEF AdminListUsers, AdminListTwitterUsers, AdminListTweets, AdminListMedia,
                      AdminListStorageObjects, AdminListTransferTasks
<1>8. QED
  BY <1>1, <1>2, <1>3, <1>4, <1>5, <1>6, <1>7, Zenon DEF AllLists

-----------------------------------------------------------------------------
(* The invariant: as long as the traversal was not refused it has asked    *)
(* the first query only, and its cursor carries that query and the names   *)
(* as they were at some earlier time.                                      *)

Unmixed ==
  /\ list.used = list.checked
  /\ read.phase \in {"open", "done", "refused"}
  /\ read.phase # "refused" => read.queries \subseteq {{}}
  /\ read.phase = "done" => {} \in read.queries
  /\ read.phase = "open" /\ read.cursor # NoCursor =>
       /\ read.cursor.changed = {}
       /\ read.cursor.renamed \in BOOLEAN
       /\ read.cursor.renamed => renamed
  /\ renamed \in BOOLEAN

\* A request refused without a filter changed had its names resolved anew.
RefusedForNames == read.phase = "refused" /\ read.queries = {{}} => renamed

OneQuery == Unmixed /\ RefusedForNames

LEMMA InitUnmixed == Init => OneQuery
  BY HandlersCheckWhatTheyUse DEF Init, OneQuery, Unmixed, RefusedForNames, Open

\* What an accepted request asks for, when the traversal is unmixed.
LEMMA AcceptedUnchanged ==
  ASSUME Unmixed, read.phase = "open", NEW changed \in Changes, Accepts(read.cursor, changed)
  PROVE  changed = {}
<1>1. CASE read.cursor = NoCursor
  BY <1>1 DEF Changes
<1>2. CASE read.cursor # NoCursor
  <2>1. changed \cap list.checked = {}
    BY <1>2 DEF Accepts, Unmixed
  <2>2. changed \subseteq list.used
    BY <1>2 DEF Changes
  <2>3. QED
    BY <2>1, <2>2 DEF Unmixed
<1>3. QED
  BY <1>1, <1>2

\* An answer keeps the traversal unmixed.
LEMMA AnswerUnmixed ==
  ASSUME OneQuery, NEW changed \in Changes, Answer(changed)
  PROVE  OneQuery'
<1>1. changed = {}
  BY AcceptedUnchanged DEF Answer, OneQuery
<1>2. PICK more, page, limit, size, asked, listed :
        read' = [phase   |-> IF more THEN "open" ELSE "done",
                 asked   |-> asked,
                 cursor  |-> IF more THEN Issued(page, limit, read.cursor, changed) ELSE NoCursor,
                 size    |-> size,
                 listed  |-> listed,
                 queries |-> read.queries \cup {changed}]
  BY DEF Answer
<1>3. /\ Issued(page, limit, read.cursor, changed).changed = {}
      /\ Issued(page, limit, read.cursor, changed).renamed = renamed
  BY <1>1 DEF Issued
<1>4. list' = list /\ renamed' = renamed /\ read.phase = "open"
  BY DEF Answer
<1>5. read'.phase # "refused" /\ read'.queries = read.queries \cup {{}}
  BY <1>1, <1>2
<1>6. read'.phase \in {"open", "done"}
  BY <1>2
<1>7. read'.phase = "open" =>
        /\ read'.cursor.changed = {}
        /\ read'.cursor.renamed = renamed
  BY <1>2, <1>3
<1>8. QED
  BY <1>4, <1>5, <1>6, <1>7 DEF OneQuery, Unmixed, RefusedForNames

\* A refusal without a change of filters is one for the names.
LEMMA RefusalUnmixed ==
  ASSUME OneQuery, NEW changed \in Changes, Refusal(changed)
  PROVE  OneQuery'
<1>1. /\ list' = list /\ renamed' = renamed /\ read.phase = "open"
      /\ ~Accepts(read.cursor, changed)
  BY DEF Refusal
<1>2. read'.phase = "refused" /\ changed \in read'.queries
  BY OneQuery, <1>1 DEF Refusal
<1>3. ASSUME read'.queries = {{}}
      PROVE  renamed
  <2>1. changed = {}
    BY <1>2, <1>3
  <2>2. read.cursor # NoCursor /\ read.cursor.renamed # renamed
    BY <1>1, <2>1 DEF Accepts, OneQuery, Unmixed
  <2>3. QED
    BY <1>1, <2>2 DEF OneQuery, Unmixed
<1>4. QED
  BY <1>1, <1>2, <1>3 DEF OneQuery, Unmixed, RefusedForNames

\* The other steps leave the queries and the cursor alone.
LEMMA OthersUnmixed ==
  ASSUME OneQuery, Others \/ UNCHANGED vars
  PROVE  OneQuery'
<1>1. CASE Ask
  <2>1. PICK asked \in Asked : read' = [read EXCEPT !.asked = asked]
    BY <1>1 DEF Ask
  <2>2. /\ read'.phase = read.phase /\ read'.queries = read.queries
        /\ read'.cursor = read.cursor
    BY <1>1, <2>1 DEF Ask
  <2>3. QED
    BY <1>1, <2>2 DEF Ask, OneQuery, Unmixed, RefusedForNames
<1>2. CASE InsertRow \/ TouchRow \/ RefileRow \/ MoveRow \/ DeleteRow \/ IndexDoc
  <2>1. UNCHANGED <<list, renamed, read>>
    BY <1>2 DEF InsertRow, TouchRow, RefileRow, MoveRow, DeleteRow, IndexDoc, Write, Writing
  <2>2. QED
    BY <2>1 DEF OneQuery, Unmixed, RefusedForNames
<1>3. CASE Rename
  BY <1>3 DEF Rename, OneQuery, Unmixed, RefusedForNames
<1>4. CASE UNCHANGED vars
  BY <1>4 DEF vars, OneQuery, Unmixed, RefusedForNames
<1>5. QED
  BY <1>1, <1>2, <1>3, <1>4 DEF Others

LEMMA NextUnmixed == OneQuery /\ [Next]_vars => OneQuery'
  BY AnswerUnmixed, RefusalUnmixed, OthersUnmixed DEF Next, Fetch, Refuse, Ended

\* Every reachable traversal is of one query.
THEOREM OneQueryInvariant == Spec => []OneQuery
  BY InitUnmixed, NextUnmixed, PTL DEF Spec

\* All pages of a traversal that came to its end answer the query it began
\* with: a request that changed a filter or the sort was refused, whichever
\* list it read.
THEOREM PagesOfOneQueryTheorem == Spec => []PagesOfOneQuery
<1>1. OneQuery => PagesOfOneQuery
  BY DEF OneQuery, Unmixed, PagesOfOneQuery
<1>2. QED
  BY <1>1, OneQueryInvariant, PTL

\* The server refuses none of the cursors it issued for the same query, save
\* where author names have come to stand for other users.
THEOREM IssuedCursorTheorem == Spec => []IssuedCursorAccepted
<1>1. OneQuery => IssuedCursorAccepted
  BY DEF OneQuery, RefusedForNames, IssuedCursorAccepted
<1>2. QED
  BY <1>1, OneQueryInvariant, PTL

-----------------------------------------------------------------------------
(* Numbering the elements of a finite set in a strict total order, which   *)
(* is given by the set of those before each.                               *)

IsOrder(S, before) ==
  /\ before \in [S -> SUBSET S]
  /\ \A e \in S : e \notin before[e]
  /\ \A e, f \in S : e = f \/ e \in before[f] \/ f \in before[e]
  /\ \A e, f \in S : f \in before[e] => before[f] \subseteq before[e]

\* all lists the elements of S in that order.
Lists(S, before, all) ==
  /\ all \in [1..Cardinality(S) -> S]
  /\ \A m, n \in 1..Cardinality(S) : m < n => all[m] \in before[all[n]]
  /\ \A e \in S : \E n \in 1..Cardinality(S) : all[n] = e

\* An element is preceded by more than those that precede it.
LEMMA RankMonotonic ==
  ASSUME NEW S, IsFiniteSet(S), NEW before, IsOrder(S, before)
  PROVE  /\ Cardinality(S) \in Nat
         /\ \A e \in S : Cardinality(before[e]) \in 0..(Cardinality(S) - 1)
         /\ \A e, f \in S : f \in before[e] => Cardinality(before[f]) < Cardinality(before[e])
<1>1. Cardinality(S) \in Nat
  BY FS_CardinalityType
<1>2. ASSUME NEW A \in SUBSET S, NEW B \in SUBSET S, A \subseteq B, A # B
      PROVE  Cardinality(A) \in Nat /\ Cardinality(B) \in Nat /\ Cardinality(A) < Cardinality(B)
  <2>1. IsFiniteSet(A) /\ IsFiniteSet(B)
    BY FS_Subset
  <2>2. Cardinality(A) \in Nat /\ Cardinality(B) \in Nat
    BY <2>1, FS_CardinalityType
  <2>3. Cardinality(A) <= Cardinality(B) /\ (Cardinality(B) = Cardinality(A) => B = A)
    BY <1>2, <2>1, FS_Subset
  <2>4. QED
    BY <1>2, <2>2, <2>3
<1>3. ASSUME NEW e \in S
      PROVE  Cardinality(before[e]) \in 0..(Cardinality(S) - 1)
  <2>1. before[e] \in SUBSET S /\ before[e] # S
    BY DEF IsOrder
  <2>2. Cardinality(before[e]) \in Nat /\ Cardinality(before[e]) < Cardinality(S)
    BY <1>2, <2>1
  <2>3. QED
    BY <1>1, <2>2
<1>4. ASSUME NEW e \in S, NEW f \in S, f \in before[e]
      PROVE  Cardinality(before[f]) < Cardinality(before[e])
  <2>1. /\ before[e] \in SUBSET S /\ before[f] \in SUBSET S
        /\ before[f] \subseteq before[e] /\ before[f] # before[e]
    BY <1>4 DEF IsOrder
  <2>2. QED
    BY <1>2, <2>1
<1>5. QED
  BY <1>1, <1>3, <1>4

\* all has in place n the element before which n - 1 others come, if there is one.
Numbers(S, before, all) ==
  /\ all = [n \in 1..Cardinality(S) |-> all[n]]
  /\ \A n \in 1..Cardinality(S) :
       (\E e \in S : Cardinality(before[e]) = n - 1)
         => all[n] \in S /\ Cardinality(before[all[n]]) = n - 1

\* Then there always is one, and all lists S in the order.
LEMMA Numbering ==
  ASSUME NEW S, IsFiniteSet(S), NEW before, IsOrder(S, before),
         NEW all, Numbers(S, before, all)
  PROVE  Lists(S, before, all)
<1> DEFINE N == Cardinality(S)
           rank == [e \in S |-> Cardinality(before[e])]
<1>1. /\ N \in Nat
      /\ \A e \in S : Cardinality(before[e]) \in 0..(N - 1)
      /\ \A e, f \in S : f \in before[e] => Cardinality(before[f]) < Cardinality(before[e])
  BY RankMonotonic
<1>2. rank \in Injection(S, 0..(N - 1))
  <2>1. rank \in [S -> 0..(N - 1)]
    BY <1>1
  <2>2. ASSUME NEW e \in S, NEW f \in S, rank[e] = rank[f]
        PROVE  e = f
    <3>1. /\ f \notin before[e] /\ e \notin before[f]
      BY <1>1, <2>1, <2>2
    <3>2. QED
      BY <3>1 DEF IsOrder
  <2>3. QED
    BY <2>1, <2>2 DEF Injection, IsInjective
<1>3. IsFiniteSet(0..(N - 1)) /\ Cardinality(0..(N - 1)) = N
  BY <1>1, FS_Interval
<1>4. rank \in Surjection(S, 0..(N - 1))
  BY <1>2, <1>3, FS_Injection
<1>5. ASSUME NEW n \in 1..N
      PROVE  \E e \in S : Cardinality(before[e]) = n - 1
  <2>1. n - 1 \in 0..(N - 1)
    BY <1>1
  <2>2. PICK e \in S : rank[e] = n - 1
    BY <1>4, <2>1 DEF Surjection
  <2>3. QED
    BY <2>2
<1>6. \A n \in 1..N : all[n] \in S /\ Cardinality(before[all[n]]) = n - 1
  BY <1>5 DEF Numbers
<1>7. all \in [1..N -> S]
  BY <1>6 DEF Numbers
<1>8. ASSUME NEW m \in 1..N, NEW n \in 1..N, m < n
      PROVE  all[m] \in before[all[n]]
  <2>1. /\ all[m] \in S /\ Cardinality(before[all[m]]) = m - 1
        /\ all[n] \in S /\ Cardinality(before[all[n]]) = n - 1
    BY <1>6
  <2>3. ~(Cardinality(before[all[n]]) < Cardinality(before[all[m]]))
    BY <1>1, <1>8, <2>1
  <2>4. all[n] \notin before[all[m]] /\ all[m] # all[n]
    BY <1>1, <1>8, <2>1, <2>3
  <2>5. QED
    BY <2>1, <2>4 DEF IsOrder
<1>9. ASSUME NEW e \in S
      PROVE  \E n \in 1..N : all[n] = e
  <2>1. Cardinality(before[e]) \in 0..(N - 1)
    BY <1>1
  <2>2. PICK n \in 1..N : n - 1 = Cardinality(before[e])
    <3>1. Cardinality(before[e]) + 1 \in 1..N
      BY <1>1, <2>1
    <3>2. (Cardinality(before[e]) + 1) - 1 = Cardinality(before[e])
      BY <2>1
    <3>3. QED
      BY <3>1, <3>2
  <2>3. all[n] \in S /\ Cardinality(before[all[n]]) = n - 1
    BY <1>6
  <2>4. rank[all[n]] = rank[e]
    BY <2>2, <2>3
  <2>5. all[n] = e
    BY <1>2, <2>3, <2>4 DEF Injection, IsInjective
  <2>6. QED
    BY <2>5
<1>10. QED
  BY <1>7, <1>8, <1>9 DEF Lists

-----------------------------------------------------------------------------
(* The order of the rows, and of the hits.                                 *)

Entry == [key : Times, id : Ids]

\* Precedes, for a list that is rising or falling.
Ahead(rising, a, b) ==
  IF rising
  THEN a.key < b.key \/ (a.key = b.key /\ a.id < b.id)
  ELSE a.key > b.key \/ (a.key = b.key /\ a.id > b.id)

\* The order is total, and strict.
LEMMA AheadOrder ==
  ASSUME NEW rising, NEW a \in Entry, NEW b \in Entry
  PROVE  /\ ~Ahead(rising, a, a)
         /\ Ahead(rising, a, b) => ~Ahead(rising, b, a)
         /\ a = b \/ Ahead(rising, a, b) \/ Ahead(rising, b, a)
         /\ \A c \in Entry : Ahead(rising, a, b) /\ Ahead(rising, b, c) => Ahead(rising, a, c)
<1>1. /\ a.key \in Nat /\ a.id \in Nat /\ b.key \in Nat /\ b.id \in Nat
      /\ \A c \in Entry : c.key \in Nat /\ c.id \in Nat
  BY ListAssumption DEF Entry
<1>2. a.key = b.key /\ a.id = b.id => a = b
  BY DEF Entry
<1>3. QED
  BY <1>1, <1>2 DEF Ahead

\* ORDER BY lists the rows it is given.
LEMMA SortedLists ==
  ASSUME NEW S \in SUBSET Entry, IsFiniteSet(S)
  PROVE  Lists(S, [e \in S |-> {f \in S : Ahead(list.rising, f, e)}], Sorted(S))
<1> DEFINE before == [e \in S |-> {f \in S : Ahead(list.rising, f, e)}]
<1>1. IsOrder(S, before)
  <2>1. before \in [S -> SUBSET S]
    OBVIOUS
  <2>2. ASSUME NEW e \in S
        PROVE  e \notin before[e]
    BY AheadOrder
  <2>3. ASSUME NEW e \in S, NEW f \in S
        PROVE  e = f \/ e \in before[f] \/ f \in before[e]
    BY AheadOrder
  <2>4. ASSUME NEW e \in S, NEW f \in S, f \in before[e]
        PROVE  before[f] \subseteq before[e]
    <3>1. ASSUME NEW g \in S, Ahead(list.rising, g, f)
          PROVE  Ahead(list.rising, g, e)
      BY <2>4, <3>1, AheadOrder
    <3>2. QED
      BY <3>1
  <2>5. QED
    BY <2>1, <2>2, <2>3, <2>4 DEF IsOrder
<1>2. Sorted(S) = [n \in 1..Cardinality(S) |-> Sorted(S)[n]]
  <2> DEFINE Chosen(n) == CHOOSE e \in S : Cardinality({f \in S : Precedes(f, e)}) = n - 1
  <2>1. Sorted(S) = [n \in 1..Cardinality(S) |-> Chosen(n)]
    BY Zenon DEF Sorted
  <2> HIDE DEF Chosen
  <2>2. QED
    BY <2>1
<1>3. ASSUME NEW n \in 1..Cardinality(S), NEW e \in S, Cardinality(before[e]) = n - 1
      PROVE  Sorted(S)[n] \in S /\ Cardinality(before[Sorted(S)[n]]) = n - 1
  <2>1. \A f, g : Precedes(f, g) = Ahead(list.rising, f, g)
    BY DEF Precedes, Ahead
  <2>2. \A f \in S : {g \in S : Precedes(g, f)} = before[f]
    BY <2>1
  <2>3. Cardinality({g \in S : Precedes(g, e)}) = n - 1
    BY <1>3, <2>2
  <2>4. Sorted(S)[n] = CHOOSE f \in S : Cardinality({g \in S : Precedes(g, f)}) = n - 1
    BY DEF Sorted
  <2>5. /\ Sorted(S)[n] \in S
        /\ Cardinality({g \in S : Precedes(g, Sorted(S)[n])}) = n - 1
    BY <2>3, <2>4
  <2>6. QED
    BY <2>2, <2>5
<1>4. Numbers(S, before, Sorted(S))
  BY <1>2, <1>3 DEF Numbers
<1>5. QED
  BY <1>1, <1>4, Numbering

\* A hit of the index: its address is a place of the index.
Hit == [key : Times, at : Nat, id : Ids]

\* Ranking lists the hits it is given, whatever their order.
LEMMA RankedLists ==
  ASSUME NEW S \in SUBSET Hit, IsFiniteSet(S),
         \A g, h \in S : g.at = h.at => g = h
  PROVE  \E before : Lists(S, before, Ranked(S)) /\ IsOrder(S, before)
<1> DEFINE Better(g, h) == g.key > h.key \/ (g.key = h.key /\ g.at < h.at)
           before == [e \in S |-> {f \in S : Better(f, e)}]
<1>0. \A h \in S : h.key \in Nat /\ h.at \in Nat
  BY ListAssumption DEF Hit
<1>1. IsOrder(S, before)
  <2>1. before \in [S -> SUBSET S]
    OBVIOUS
  <2>2. ASSUME NEW e \in S
        PROVE  e \notin before[e]
    BY <1>0
  <2>3. ASSUME NEW e \in S, NEW f \in S
        PROVE  e = f \/ e \in before[f] \/ f \in before[e]
    BY <1>0
  <2>4. ASSUME NEW e \in S, NEW f \in S, f \in before[e]
        PROVE  before[f] \subseteq before[e]
    BY <1>0, <2>4
  <2>5. QED
    BY <2>1, <2>2, <2>3, <2>4 DEF IsOrder
<1>2. Ranked(S) = [n \in 1..Cardinality(S) |-> Ranked(S)[n]]
  <2> DEFINE Chosen(n) == CHOOSE e \in S : Cardinality({f \in S : Better(f, e)}) = n - 1
  <2>1. Ranked(S) = [n \in 1..Cardinality(S) |-> Chosen(n)]
    BY Zenon DEF Ranked
  <2> HIDE DEF Chosen
  <2>2. QED
    BY <2>1
<1>3. ASSUME NEW n \in 1..Cardinality(S), NEW e \in S, Cardinality(before[e]) = n - 1
      PROVE  Ranked(S)[n] \in S /\ Cardinality(before[Ranked(S)[n]]) = n - 1
  <2>2. \A f \in S : {g \in S : Better(g, f)} = before[f]
    OBVIOUS
  <2>3. Cardinality({g \in S : Better(g, e)}) = n - 1
    BY <1>3, <2>2
  <2>4. Ranked(S)[n] = CHOOSE f \in S : Cardinality({g \in S : Better(g, f)}) = n - 1
    BY DEF Ranked
  <2>5. /\ Ranked(S)[n] \in S
        /\ Cardinality({g \in S : Better(g, Ranked(S)[n])}) = n - 1
    <3> HIDE DEF Better
    <3>1. QED
      BY <2>3, <2>4
  <2>6. QED
    BY <2>2, <2>5
<1>4. Numbers(S, before, Ranked(S))
  BY <1>2, <1>3 DEF Numbers
<1>5. Lists(S, before, Ranked(S))
  <2> HIDE DEF before
  <2>1. QED
    BY <1>1, <1>4, Numbering
<1>6. QED
  BY <1>1, <1>5

-----------------------------------------------------------------------------
(* The page a request is answered with.                                    *)

\* What the statement or the search puts in order, and from where on.
AllOf(found) == IF list.key = "index" THEN Ranked(found) ELSE Sorted(found)
From(cursor) == IF list.key = "index" THEN OffsetOf(cursor) ELSE 0

\* all's entry in place n.
EntryAt(all, n) == [key |-> all[n].key, id |-> all[n].id]

\* page is what all holds from the place after from on: the rest, or limit of
\* it when there are more.
IsPage(page, more, all, total, from, limit) ==
  /\ page \in Seq(Entry)
  /\ more <=> total - from > limit
  /\ Len(page) = IF total - from > limit THEN limit ELSE total - from
  /\ \A n \in 1..Len(page) : page[n] = EntryAt(all, from + n)

\* Fetching a row more than the limit, and dropping it, is a page of them.
LEMMA FetchedPage ==
  ASSUME NEW found, NEW cursor, NEW limit \in Nat \ {0}, Cardinality(found) \in Nat,
         From(cursor) \in 0..Cardinality(found),
         \A n \in 1..Cardinality(found) : EntryAt(AllOf(found), n) \in Entry
  PROVE  IsPage(Page(Fetched(found, limit, cursor), limit),
                HasMore(Fetched(found, limit, cursor), limit),
                AllOf(found), Cardinality(found), From(cursor), limit)
<1> DEFINE total == Cardinality(found)
           from == From(cursor)
           all == AllOf(found)
           rows == Fetched(found, limit, cursor)
           size == IF limit + 1 < total - from THEN limit + 1 ELSE total - from
<1>1. size \in Nat /\ total \in Nat /\ from \in Nat
  OBVIOUS
<1>2. rows = [n \in 1..size |-> EntryAt(all, from + n)]
  <2>1. (IF total > from THEN total - from ELSE 0) = total - from
    BY <1>1
  <2>2. QED
    BY <2>1, Zenon DEF Fetched, AllOf, From, LimitPlusOne, EntryAt
<1> HIDE DEF rows, all, total, from
<1>3. \A n \in 1..size : EntryAt(all, from + n) \in Entry
  <2>1. TAKE n \in 1..size
  <2>2. from + n \in 1..total
    BY <1>1
  <2>3. QED
    BY <2>2 DEF all, total, from
<1>4. /\ rows \in Seq(Entry) /\ Len(rows) = size
      /\ \A n \in 1..size : rows[n] = EntryAt(all, from + n)
  <2>1. rows \in [1..size -> Entry]
    BY <1>2, <1>3
  <2>2. \A n \in 1..size : rows[n] = EntryAt(all, from + n)
    BY <1>2, Zenon
  <2> HIDE DEF size
  <2>3. rows \in Seq(Entry) /\ Len(rows) = size
    BY <1>1, <2>1
  <2>4. QED
    BY <2>2, <2>3
<1>5. HasMore(rows, limit) <=> total - from > limit
  BY <1>1, <1>4 DEF HasMore
<1>6. ASSUME total - from > limit
      PROVE  IsPage(Page(rows, limit), HasMore(rows, limit), all, total, from, limit)
  <2>1. Page(rows, limit) = SubSeq(rows, 1, limit) /\ limit \in 1..size
    BY <1>1, <1>5, <1>6 DEF Page
  <2>2. \A n \in 1..limit : n \in 1..size
    BY <1>1, <2>1
  <2>3. /\ SubSeq(rows, 1, limit) \in Seq(Entry) /\ Len(SubSeq(rows, 1, limit)) = limit
        /\ \A n \in 1..limit : SubSeq(rows, 1, limit)[n] = rows[n]
    BY <1>3, <1>4, <2>2, SubSeqProperties
  <2>4. \A n \in 1..limit : SubSeq(rows, 1, limit)[n] = EntryAt(all, from + n)
    BY <1>4, <2>2, <2>3
  <2> HIDE DEF size
  <2>5. QED
    BY <1>5, <1>6, <2>1, <2>3, <2>4 DEF IsPage
<1>7. ASSUME ~(total - from > limit)
      PROVE  IsPage(Page(rows, limit), HasMore(rows, limit), all, total, from, limit)
  <2>1. Page(rows, limit) = rows /\ size = total - from
    BY <1>1, <1>5, <1>7 DEF Page
  <2> HIDE DEF size
  <2>2. QED
    BY <1>4, <1>5, <1>7, <2>1 DEF IsPage
<1>8. QED
  BY <1>6, <1>7 DEF rows, all, total, from

\* resolve_limit lets through one row at least.
LEMMA LimitPositive ==
  ASSUME NEW asked \in Asked \cup {NoLimit}
  PROVE  ResolveLimit(asked) \in Nat \ {0}
  BY ListAssumption DEF ResolveLimit

-----------------------------------------------------------------------------
(* A list of rows.                                                         *)

\* The place of row i in the list.
At(rows, i) == [key |-> rows[i].key, id |-> i]

RowTyped ==
  /\ row \in [Ids -> Row \cup {Absent}]
  /\ read.listed \in Seq(Entry)
  /\ read.asked \in Asked \cup {NoLimit}
  /\ stable \subseteq Ids /\ stable \cap setBack = {}

\* What was listed is not after the cursor.
Behind ==
  read.phase = "open" =>
    IF read.cursor = NoCursor
    THEN read.listed = <<>>
    ELSE /\ read.cursor.at \in Entry
         /\ \A n \in 1..Len(read.listed) :
              ~Ahead(list.rising, read.cursor.at, read.listed[n])

\* A listed row that was not set back is where it was listed, or before.
Forward ==
  \A n \in 1..Len(read.listed) : \A i \in Ids \ setBack :
    read.listed[n].id = i =>
      row[i] # Absent /\ ~Ahead(list.rising, read.listed[n], At(row, i))

\* What was listed twice was set back.
Once ==
  \A m, n \in 1..Len(read.listed) :
    m # n /\ read.listed[m].id = read.listed[n].id => read.listed[n].id \in setBack

\* A row to be listed once is selected, and it was listed or comes after the cursor.
Covered ==
  \A i \in stable :
    /\ row[i] # Absent /\ row[i].selected = TRUE
    /\ \/ read.phase = "refused"
       \/ \E n \in 1..Len(read.listed) : read.listed[n].id = i
       \/ /\ read.phase = "open"
          /\ read.cursor # NoCursor => Ahead(list.rising, read.cursor.at, At(row, i))

Rows == list.key # "index" => RowTyped /\ Behind /\ Forward /\ Once /\ Covered

\* The statement admits the selected rows after the cursor's.
LEMMA FollowingRows ==
  ASSUME RowTyped, NEW cursor
  PROVE  /\ IsFiniteSet(Following(cursor, {})) /\ Following(cursor, {}) \in SUBSET Entry
         /\ \A e \in Following(cursor, {}) :
              /\ row[e.id] # Absent /\ e = At(row, e.id)
              /\ cursor # NoCursor => Ahead(list.rising, cursor.at, e)
         /\ \A i \in Ids :
              /\ row[i] # Absent /\ row[i].selected = TRUE
              /\ cursor # NoCursor => Ahead(list.rising, cursor.at, At(row, i))
              => At(row, i) \in Following(cursor, {})
<1> DEFINE F == Following(cursor, {})
           chosen == {j \in Ids : row[j] # Absent /\ row[j].selected = TRUE}
<1>1. F = {e \in {At(row, i) : i \in chosen} :
             cursor = NoCursor \/ Ahead(list.rising, cursor.at, e)}
  <2>1. \A a, b : Precedes(a, b) = Ahead(list.rising, a, b)
    BY DEF Precedes, Ahead
  <2>2. {j \in Present : row[j].selected = ({} = {})} = chosen
    BY DEF Present
  <2>3. QED
    BY <2>1, <2>2 DEF Following, At
<1> HIDE DEF F
<1>2. \A i \in chosen : At(row, i) \in Entry /\ At(row, i).id = i
  BY DEF RowTyped, Row, Entry, At
<1>3. \A e \in F : e.id \in chosen /\ e = At(row, e.id)
  BY <1>1, <1>2
<1>4. F \in SUBSET Entry
  BY <1>2, <1>3
<1>5. IsFiniteSet(F)
  <2> DEFINE f == [e \in F |-> e.id]
  <2>1. f \in Injection(F, Ids)
    <3>1. f \in [F -> Ids]
      BY <1>3
    <3>2. \A d, e \in F : f[d] = f[e] => d = e
      BY <1>3
    <3>3. QED
      BY <3>1, <3>2 DEF Injection, IsInjective
  <2>2. QED
    BY <2>1, FS_Injection, ListAssumption
<1>6. QED
  BY <1>1, <1>2, <1>3, <1>4, <1>5 DEF F

\* The page of a statement: its first rows in the order.
LEMMA RowsPage ==
  ASSUME RowTyped, list.key # "index", NEW cursor, NEW limit \in Nat \ {0}, NEW found,
         found = Following(cursor, {}), NEW page, NEW more,
         page = Page(Fetched(found, limit, cursor), limit),
         more = HasMore(Fetched(found, limit, cursor), limit)
  PROVE  /\ page \in Seq(Entry) /\ more \in BOOLEAN
         /\ more => Len(page) = limit
         /\ \A n \in 1..Len(page) : page[n] \in found
         /\ \A m, n \in 1..Len(page) : m < n => Ahead(list.rising, page[m], page[n])
         /\ \A e \in found : \/ \E n \in 1..Len(page) : page[n] = e
                             \/ more /\ Ahead(list.rising, page[Len(page)], e)
<1> DEFINE total == Cardinality(found)
           all == Sorted(found)
<1>1. /\ IsFiniteSet(found) /\ found \in SUBSET Entry
  BY FollowingRows
<1>2. total \in Nat
  BY <1>1, FS_CardinalityType
<1>3. Lists(found, [e \in found |-> {f \in found : Ahead(list.rising, f, e)}], all)
  BY <1>1, SortedLists
<1>4. /\ \A n \in 1..total : all[n] \in found
      /\ \A m, n \in 1..total : m < n => Ahead(list.rising, all[m], all[n])
      /\ \A e \in found : \E n \in 1..total : all[n] = e
  BY <1>3 DEF Lists
<1>5. \A e \in Entry : [key |-> e.key, id |-> e.id] = e
  BY DEF Entry
<1>6. \A n \in 1..total : EntryAt(all, n) = all[n] /\ EntryAt(all, n) \in Entry
  BY <1>1, <1>4, <1>5 DEF EntryAt
<1>7. IsPage(page, more, all, total, 0, limit)
  <2>1. AllOf(found) = all /\ From(cursor) = 0
    BY DEF AllOf, From
  <2>2. From(cursor) \in 0..Cardinality(found)
    BY <1>2, <2>1
  <2>3. \A n \in 1..Cardinality(found) : EntryAt(AllOf(found), n) \in Entry
    BY <1>6, <2>1
  <2> HIDE DEF all, total
  <2>4. IsPage(page, more, AllOf(found), Cardinality(found), From(cursor), limit)
    BY <1>2, <2>2, <2>3, FetchedPage DEF total
  <2>5. QED
    BY <2>1, <2>4 DEF total
<1> HIDE DEF all, total
<1>8. /\ page \in Seq(Entry)
      /\ more <=> total > limit
      /\ Len(page) = IF total > limit THEN limit ELSE total
      /\ Len(page) \in 0..total
      /\ \A n \in 1..Len(page) : page[n] = all[n]
  <2>1. /\ page \in Seq(Entry)
        /\ more <=> total > limit
        /\ Len(page) = IF total > limit THEN limit ELSE total
        /\ \A n \in 1..Len(page) : page[n] = EntryAt(all, 0 + n)
    BY <1>2, <1>7 DEF IsPage
  <2>2. Len(page) \in 0..total
    BY <1>2, <2>1
  <2>3. \A n \in 1..Len(page) : 0 + n = n /\ n \in 1..total
    BY <1>2, <2>2
  <2>4. QED
    BY <1>6, <2>1, <2>2, <2>3
<1>9. ASSUME NEW e \in found, ~ \E n \in 1..Len(page) : page[n] = e
      PROVE  more /\ Ahead(list.rising, page[Len(page)], e)
  <2>1. PICK n \in 1..total : all[n] = e
    BY <1>4
  <2>2. n \notin 1..Len(page)
    BY <1>8, <1>9, <2>1
  <2>3. Len(page) < n /\ total > limit /\ Len(page) = limit
    BY <1>2, <1>8, <2>2
  <2>4. Len(page) \in 1..total /\ Len(page) \in 1..Len(page)
    BY <1>2, <2>3
  <2>5. QED
    BY <1>4, <1>8, <2>1, <2>3, <2>4
<1>10. more \in BOOLEAN
  BY DEF HasMore
<1>11. \A n \in 1..Len(page) : n \in 1..total
  BY <1>2, <1>8
<1>12. \A n \in 1..Len(page) : page[n] \in found
  BY <1>4, <1>8, <1>11
<1>13. \A m, n \in 1..Len(page) : m < n => Ahead(list.rising, page[m], page[n])
  BY <1>4, <1>8, <1>11
<1>14. QED
  BY <1>8, <1>9, <1>10, <1>12, <1>13

\* What an answer makes of the traversal.
LEMMA AnswerRows ==
  ASSUME Rows, list.key # "index", Answer({})
  PROVE  \E page, more :
           LET found == Following(read.cursor, {})
           IN  /\ page \in Seq(Entry) /\ more \in BOOLEAN
               /\ more => Len(page) > 0
               /\ \A n \in 1..Len(page) : page[n] \in found
               /\ \A m, n \in 1..Len(page) : m < n => Ahead(list.rising, page[m], page[n])
               /\ \A e \in found : \/ \E n \in 1..Len(page) : page[n] = e
                                   \/ more /\ Ahead(list.rising, page[Len(page)], e)
               /\ read'.phase = (IF more THEN "open" ELSE "done")
               /\ read'.listed = read.listed \o page
               /\ read'.asked \in Asked \cup {NoLimit}
               /\ more => read'.cursor # NoCursor /\ read'.cursor.at = page[Len(page)]
<1> DEFINE limit == ResolveLimit(read.asked)
           found == Following(read.cursor, {})
           rows == Fetched(found, limit, read.cursor)
           page == Page(rows, limit)
           more == HasMore(rows, limit)
<1>1. RowTyped
  BY DEF Rows
<1>2. limit \in Nat \ {0}
  BY <1>1, LimitPositive DEF RowTyped
<1>3. /\ page \in Seq(Entry) /\ more \in BOOLEAN
      /\ more => Len(page) = limit
      /\ \A n \in 1..Len(page) : page[n] \in found
      /\ \A m, n \in 1..Len(page) : m < n => Ahead(list.rising, page[m], page[n])
      /\ \A e \in found : \/ \E n \in 1..Len(page) : page[n] = e
                          \/ more /\ Ahead(list.rising, page[Len(page)], e)
  <2> HIDE DEF limit, found
  <2>1. QED
    BY <1>1, <1>2, RowsPage DEF found
<1>4. Found(read.cursor, {}) = found
  BY DEF Found
<1>5. read' = [phase   |-> IF more /\ page # <<>> THEN "open" ELSE "done",
               asked   |-> IF more /\ page # <<>> THEN read.asked ELSE NoLimit,
               cursor  |-> IF more /\ page # <<>>
                           THEN Issued(page, limit, read.cursor, {}) ELSE NoCursor,
               size    |-> Len(page),
               listed  |-> read.listed \o page,
               queries |-> read.queries \cup {{}}]
  BY <1>4, Zenon DEF Answer
<1> HIDE DEF page, more, limit, found
<1>6. more => page # <<>> /\ Len(page) > 0
  BY <1>2, <1>3
<1>7. /\ Issued(page, limit, read.cursor, {}).at = page[Len(page)]
      /\ Issued(page, limit, read.cursor, {}) # NoCursor
  <2>1. Issued(page, limit, read.cursor, {}).at = page[Len(page)]
    BY DEF Issued
  <2>2. "at" \in DOMAIN Issued(page, limit, read.cursor, {}) /\ "at" \notin DOMAIN NoCursor
    BY DEF Issued, NoCursor
  <2>3. QED
    BY <2>1, <2>2
<1>8. /\ read'.phase = (IF more THEN "open" ELSE "done")
      /\ read'.listed = read.listed \o page
      /\ read'.asked \in Asked \cup {NoLimit}
      /\ more => read'.cursor # NoCursor /\ read'.cursor.at = page[Len(page)]
  BY <1>1, <1>5, <1>6, <1>7 DEF RowTyped
<1>9. QED
  BY <1>3, <1>6, <1>8 DEF found

\* An answer preserves the invariant of a list of rows.
LEMMA RowsAnswered ==
  ASSUME Rows, Answer({}), list.key # "index"
  PROVE  Rows'
<1> DEFINE found == Following(read.cursor, {})
           rising == list.rising
           listed == read.listed
           after == read'.listed
<1>1. PICK page, more :
        /\ page \in Seq(Entry) /\ more \in BOOLEAN
        /\ more => Len(page) > 0
        /\ \A n \in 1..Len(page) : page[n] \in found
        /\ \A m, n \in 1..Len(page) : m < n => Ahead(rising, page[m], page[n])
        /\ \A e \in found : \/ \E n \in 1..Len(page) : page[n] = e
                            \/ more /\ Ahead(rising, page[Len(page)], e)
        /\ read'.phase = (IF more THEN "open" ELSE "done")
        /\ after = listed \o page
        /\ read'.asked \in Asked \cup {NoLimit}
        /\ more => read'.cursor # NoCursor /\ read'.cursor.at = page[Len(page)]
  BY AnswerRows
<1>2. /\ RowTyped /\ Behind /\ Forward /\ Once /\ Covered
      /\ read.phase = "open"
      /\ UNCHANGED <<list, row, stable, setBack>>
  BY DEF Rows, Answer
<1>3. /\ found \in SUBSET Entry
      /\ \A e \in found : /\ row[e.id] # Absent /\ e = At(row, e.id)
                          /\ read.cursor # NoCursor => Ahead(rising, read.cursor.at, e)
      /\ \A i \in Ids :
           /\ row[i] # Absent /\ row[i].selected = TRUE
           /\ read.cursor # NoCursor => Ahead(rising, read.cursor.at, At(row, i))
           => At(row, i) \in found
  BY <1>2, FollowingRows
<1> HIDE DEF found
<1>4. /\ listed \in Seq(Entry) /\ after \in Seq(Entry)
      /\ Len(after) = Len(listed) + Len(page)
      /\ \A n \in 1..Len(listed) : n \in 1..Len(after) /\ after[n] = listed[n] /\ listed[n] \in Entry
      /\ \A n \in 1..Len(page) :
           /\ Len(listed) + n \in 1..Len(after) /\ after[Len(listed) + n] = page[n]
           /\ page[n] \in Entry
      /\ \A n \in 1..Len(after) :
           \/ n \in 1..Len(listed)
           \/ \E m \in 1..Len(page) : n = Len(listed) + m
  <2>1. listed \in Seq(Entry)
    BY <1>2 DEF RowTyped
  <2>2. /\ after \in Seq(Entry) /\ Len(after) = Len(listed) + Len(page)
        /\ \A n \in 1..Len(listed) + Len(page) :
             after[n] = IF n <= Len(listed) THEN listed[n] ELSE page[n - Len(listed)]
    BY <1>1, <2>1, ConcatProperties
  <2>3. Len(listed) \in Nat /\ Len(page) \in Nat
    BY <1>1, <2>1
  <2>4. ASSUME NEW n \in 1..Len(listed)
        PROVE  n \in 1..Len(after) /\ after[n] = listed[n] /\ listed[n] \in Entry
    BY <2>1, <2>2, <2>3
  <2>5. ASSUME NEW n \in 1..Len(page)
        PROVE  /\ Len(listed) + n \in 1..Len(after) /\ after[Len(listed) + n] = page[n]
               /\ page[n] \in Entry
    <3>1. /\ Len(listed) + n \in 1..Len(listed) + Len(page) /\ ~(Len(listed) + n <= Len(listed))
          /\ (Len(listed) + n) - Len(listed) = n
      BY <2>3
    <3>2. QED
      BY <1>1, <2>2, <3>1
  <2>6. ASSUME NEW n \in 1..Len(after), n \notin 1..Len(listed)
        PROVE  \E m \in 1..Len(page) : n = Len(listed) + m
    <3>1. n - Len(listed) \in 1..Len(page) /\ n = Len(listed) + (n - Len(listed))
      BY <2>2, <2>3, <2>6
    <3>2. QED
      BY <3>1
  <2>7. QED
    BY <2>1, <2>2, <2>4, <2>5, <2>6
<1>5. \A n \in 1..Len(listed) : read.cursor # NoCursor /\ read.cursor.at \in Entry
                                /\ ~Ahead(rising, read.cursor.at, listed[n])
  BY <1>2, <1>4 DEF Behind
<1> HIDE DEF after, rising, listed
\* What is on the page comes after what was listed.
<1>6. \A n \in 1..Len(listed) : \A m \in 1..Len(page) : Ahead(rising, listed[n], page[m])
  <2>1. ASSUME NEW n \in 1..Len(listed), NEW m \in 1..Len(page)
        PROVE  Ahead(rising, listed[n], page[m])
    <3>1. /\ Ahead(rising, read.cursor.at, page[m]) /\ ~Ahead(rising, read.cursor.at, listed[n])
          /\ listed[n] \in Entry /\ page[m] \in Entry /\ read.cursor.at \in Entry
      BY <1>1, <1>3, <1>4, <1>5
    <3>2. listed[n] = read.cursor.at \/ Ahead(rising, listed[n], read.cursor.at)
      BY <3>1, AheadOrder
    <3>3. QED
      BY <3>1, <3>2, AheadOrder
  <2>2. QED
    BY <2>1
<1>7. RowTyped'
  BY <1>1, <1>2, <1>4 DEF RowTyped, after
<1>8. Behind'
  <2>1. ASSUME more, NEW n \in 1..Len(after)
        PROVE  ~Ahead(rising, page[Len(page)], after[n])
    <3>1. Len(page) \in 1..Len(page) /\ page[Len(page)] \in Entry
      BY <1>1, <1>4, <2>1
    <3>2. CASE n \in 1..Len(listed)
      BY <1>4, <1>6, <3>1, <3>2, AheadOrder
    <3>3. ASSUME NEW m \in 1..Len(page), n = Len(listed) + m
          PROVE  ~Ahead(rising, page[Len(page)], after[n])
      <4>1. after[n] = page[m] /\ page[m] \in Entry
        BY <1>4, <3>3
      <4>2. m = Len(page) \/ m < Len(page)
        BY <3>1
      <4>3. m = Len(page) \/ Ahead(rising, page[m], page[Len(page)])
        BY <1>1, <3>1, <4>2
      <4>4. QED
        BY <3>1, <4>1, <4>3, AheadOrder
    <3>4. QED
      BY <1>4, <3>2, <3>3
  <2>2. more => page[Len(page)] \in Entry
    BY <1>1, <1>4
  <2>3. QED
    BY <1>1, <1>2, <2>1, <2>2 DEF Behind, after, rising
<1>9. Forward'
  <2>1. ASSUME NEW n \in 1..Len(after), NEW i \in Ids \ setBack, after[n].id = i
        PROVE  row[i] # Absent /\ ~Ahead(rising, after[n], At(row, i))
    <3>1. CASE n \in 1..Len(listed)
      BY <1>2, <1>4, <2>1, <3>1 DEF Forward, rising, listed
    <3>2. ASSUME NEW m \in 1..Len(page), n = Len(listed) + m
          PROVE  row[i] # Absent /\ ~Ahead(rising, after[n], At(row, i))
      <4>1. after[n] = page[m] /\ page[m] \in Entry /\ page[m] \in found
        BY <1>1, <1>4, <3>2
      <4>2. row[i] # Absent /\ page[m] = At(row, i)
        BY <1>3, <2>1, <4>1
      <4>3. QED
        BY <4>1, <4>2, AheadOrder
    <3>3. QED
      BY <1>4, <3>1, <3>2
  <2>2. QED
    BY <1>2, <2>1 DEF Forward, after, rising
<1>10. Once'
  <2>1. ASSUME NEW n \in 1..Len(listed), NEW m \in 1..Len(page), listed[n].id = page[m].id
        PROVE  page[m].id \in setBack
    <3>1. page[m] = At(row, page[m].id) /\ page[m] \in Entry /\ page[m].id \in Ids
      BY <1>1, <1>3, <1>4 DEF Entry
    <3>2. page[m].id \notin setBack => ~Ahead(rising, listed[n], page[m])
      BY <1>2, <2>1, <3>1 DEF Forward, rising, listed
    <3>3. QED
      BY <1>6, <3>2
  <2>2. ASSUME NEW m \in 1..Len(page), NEW n \in 1..Len(page), m # n
        PROVE  page[m].id # page[n].id
    <3>1. page[m] = At(row, page[m].id) /\ page[n] = At(row, page[n].id)
          /\ page[m] \in Entry /\ page[n] \in Entry
      BY <1>1, <1>3, <1>4
    <3>2. m < n \/ n < m
      BY <2>2
    <3>3. Ahead(rising, page[m], page[n]) \/ Ahead(rising, page[n], page[m])
      BY <1>1, <3>2
    <3>4. page[m] # page[n]
      BY <3>1, <3>3, AheadOrder
    <3>5. QED
      BY <3>1, <3>4
  <2>3. ASSUME NEW m \in 1..Len(after), NEW n \in 1..Len(after), m # n, after[m].id = after[n].id
        PROVE  after[n].id \in setBack
    <3>1. CASE m \in 1..Len(listed) /\ n \in 1..Len(listed)
      BY <1>2, <1>4, <2>3, <3>1 DEF Once, listed
    <3>2. CASE m \in 1..Len(listed) /\ n \notin 1..Len(listed)
      <4>1. PICK k \in 1..Len(page) : n = Len(listed) + k
        BY <1>4, <3>2
      <4>2. after[m] = listed[m] /\ after[n] = page[k]
        BY <1>4, <3>2, <4>1
      <4>3. QED
        BY <2>1, <2>3, <3>2, <4>2
    <3>3. CASE m \notin 1..Len(listed) /\ n \in 1..Len(listed)
      <4>1. PICK k \in 1..Len(page) : m = Len(listed) + k
        BY <1>4, <3>3
      <4>2. after[m] = page[k] /\ after[n] = listed[n]
        BY <1>4, <3>3, <4>1
      <4>3. listed[n].id = page[k].id
        BY <2>3, <4>2
      <4>4. QED
        BY <2>1, <3>3, <4>2, <4>3
    <3>4. CASE m \notin 1..Len(listed) /\ n \notin 1..Len(listed)
      <4>1. PICK j \in 1..Len(page) : m = Len(listed) + j
        BY <1>4, <3>4
      <4>2. PICK k \in 1..Len(page) : n = Len(listed) + k
        BY <1>4, <3>4
      <4>3. QED
        BY <1>4, <2>2, <2>3, <4>1, <4>2
    <3>5. QED
      BY <3>1, <3>2, <3>3, <3>4
  <2>4. QED
    BY <1>2, <2>3 DEF Once, after
<1>11. Covered'
  <2>1. ASSUME NEW i \in stable
        PROVE  /\ row[i] # Absent /\ row[i].selected = TRUE
               /\ \/ \E n \in 1..Len(after) : after[n].id = i
                  \/ more /\ Ahead(rising, page[Len(page)], At(row, i))
    <3>1. /\ row[i] # Absent /\ row[i].selected = TRUE
          /\ \/ \E n \in 1..Len(listed) : listed[n].id = i
             \/ read.cursor # NoCursor => Ahead(rising, read.cursor.at, At(row, i))
      BY <1>2 DEF Covered, rising, listed
    <3>2. CASE \E n \in 1..Len(listed) : listed[n].id = i
      BY <1>4, <3>1, <3>2
    <3>3. CASE read.cursor # NoCursor => Ahead(rising, read.cursor.at, At(row, i))
      <4>1. At(row, i) \in found /\ At(row, i).id = i
        BY <1>2, <1>3, <3>1, <3>3 DEF RowTyped, At
      <4>2. CASE \E n \in 1..Len(page) : page[n] = At(row, i)
        <5>1. PICK n \in 1..Len(page) : page[n] = At(row, i)
          BY <4>2
        <5>2. Len(listed) + n \in 1..Len(after) /\ after[Len(listed) + n].id = i
          BY <1>4, <4>1, <5>1
        <5>3. QED
          BY <3>1, <5>2
      <4>3. CASE more /\ Ahead(rising, page[Len(page)], At(row, i))
        BY <3>1, <4>3
      <4>4. QED
        BY <1>1, <4>1, <4>2, <4>3
    <3>4. QED
      BY <3>1, <3>2, <3>3
  <2>2. QED
    BY <1>1, <1>2, <2>1 DEF Covered, after, rising
<1>12. QED
  BY <1>7, <1>8, <1>9, <1>10, <1>11 DEF Rows

\* A write ends what was promised of its row, and notes when it moved it back.
LEMMA RowsWritten ==
  ASSUME Rows, NEW i \in Ids, NEW new \in Row \cup {Absent}, Write(i, new)
  PROVE  Rows'
<1> SUFFICES ASSUME list.key # "index"
             PROVE  (RowTyped /\ Behind /\ Forward /\ Once /\ Covered)'
  BY DEF Rows, Write, Writing
<1>1. /\ RowTyped /\ Behind /\ Forward /\ Once /\ Covered
      /\ UNCHANGED <<list, read>>
      /\ row' = [row EXCEPT ![i] = new]
      /\ stable' = stable \ {i}
      /\ setBack' = IF row[i] # Absent /\ (new = Absent \/ Precedes([key |-> row[i].key, id |-> i],
                                                                  [key |-> new.key, id |-> i]))
                    THEN setBack \cup {i} ELSE setBack
  BY DEF Rows, Write, Writing
<1>2. /\ \A j \in Ids \ {i} : row'[j] = row[j] /\ At(row', j) = At(row, j)
      /\ row'[i] = new /\ row' \in [Ids -> Row \cup {Absent}]
      /\ setBack \subseteq setBack' /\ setBack' \subseteq setBack \cup {i}
  BY <1>1 DEF RowTyped, At
<1>3. RowTyped'
  BY <1>1, <1>2 DEF RowTyped
<1>4. Behind'
  BY <1>1 DEF Behind
<1>5. Forward'
  <2>1. ASSUME NEW n \in 1..Len(read.listed), NEW j \in Ids \ setBack', read.listed[n].id = j
        PROVE  row'[j] # Absent /\ ~Ahead(list.rising, read.listed[n], At(row', j))
    <3>1. /\ j \in Ids \ setBack /\ row[j] # Absent
          /\ ~Ahead(list.rising, read.listed[n], At(row, j))
      BY <1>1, <1>2, <2>1 DEF Forward
    <3>2. CASE j # i
      BY <1>2, <3>1, <3>2
    <3>3. CASE j = i
      <4>1. /\ new # Absent
            /\ ~Precedes([key |-> row[i].key, id |-> i], [key |-> new.key, id |-> i])
        BY <1>1, <2>1, <3>1, <3>3
      <4>2. ~Ahead(list.rising, At(row, i), At(row', i))
        BY <1>2, <4>1 DEF At, Precedes, Ahead
      <4>3. /\ read.listed[n] \in Entry /\ At(row, i) \in Entry /\ At(row', i) \in Entry
        <5>1. read.listed[n] \in Entry
          BY <1>1 DEF RowTyped
        <5>2. row[i] \in Row /\ row'[i] \in Row
          BY <1>1, <1>2, <3>1, <3>3, <4>1 DEF RowTyped
        <5>3. QED
          BY <5>1, <5>2 DEF At, Row, Entry
      <4>4. At(row', i) = At(row, i) \/ Ahead(list.rising, At(row', i), At(row, i))
        BY <4>2, <4>3, AheadOrder
      <4>5. At(row, i) = read.listed[n] \/ Ahead(list.rising, At(row, i), read.listed[n])
        BY <3>1, <3>3, <4>3, AheadOrder
      <4>6. At(row', i) = read.listed[n] \/ Ahead(list.rising, At(row', i), read.listed[n])
        BY <4>3, <4>4, <4>5, AheadOrder
      <4>7. ~Ahead(list.rising, read.listed[n], At(row', i))
        BY <4>3, <4>6, AheadOrder
      <4>8. QED
        BY <1>2, <3>3, <4>1, <4>7
    <3>4. QED
      BY <3>2, <3>3
  <2>2. QED
    BY <1>1, <2>1 DEF Forward
<1>6. Once'
  BY <1>1, <1>2 DEF Once
<1>7. Covered'
  <2>1. \A j \in stable' : j \in stable /\ j \in Ids \ {i}
    BY <1>1 DEF RowTyped
  <2>2. QED
    BY <1>1, <1>2, <2>1 DEF Covered
<1>8. QED
  BY <1>3, <1>4, <1>5, <1>6, <1>7

\* The row statements write a row of the table.
LEMMA RowsChanged ==
  ASSUME Rows, list.key # "index",
         InsertRow \/ TouchRow \/ RefileRow \/ MoveRow \/ DeleteRow
  PROVE  Rows'
<1>1. row \in [Ids -> Row \cup {Absent}]
  BY DEF Rows, RowTyped
<1>2. \A i \in Present : i \in Ids /\ row[i] \in Row
  BY <1>1 DEF Present
<1>3. CASE InsertRow
  BY <1>3, RowsWritten DEF InsertRow
<1>4. CASE TouchRow
  <2>1. PICK i \in Present, now \in Times, selected \in BOOLEAN :
          Write(i, [key |-> IF list.key = "updated" THEN now ELSE row[i].key,
                    selected |-> selected])
    BY <1>4 DEF TouchRow
  <2>2. [key |-> IF list.key = "updated" THEN now ELSE row[i].key,
         selected |-> selected] \in Row
    BY <1>2 DEF Row
  <2>3. QED
    BY <1>2, <2>1, <2>2, RowsWritten
<1>5. CASE RefileRow
  <2>1. PICK i \in Present : Write(i, [row[i] EXCEPT !.selected = ~@])
    BY <1>5 DEF RefileRow
  <2>2. [row[i] EXCEPT !.selected = ~@] \in Row
    BY <1>2 DEF Row
  <2>3. QED
    BY <1>2, <2>1, <2>2, RowsWritten
<1>6. CASE MoveRow
  <2>1. PICK i \in Present, place \in Times : Write(i, [row[i] EXCEPT !.key = place])
    BY <1>6 DEF MoveRow
  <2>2. [row[i] EXCEPT !.key = place] \in Row
    BY <1>2 DEF Row
  <2>3. QED
    BY <1>2, <2>1, <2>2, RowsWritten
<1>7. CASE DeleteRow
  BY <1>2, <1>7, RowsWritten DEF DeleteRow
<1>8. QED
  BY <1>3, <1>4, <1>5, <1>6, <1>7

\* The client's other steps, the renames and the index leave rows and list alone.
LEMMA RowsLeft ==
  ASSUME Rows, Ask \/ Rename \/ UNCHANGED vars \/ (\E changed \in Changes : Refusal(changed))
  PROVE  Rows'
<1>1. UNCHANGED <<list, row, stable, setBack>>
  BY DEF Ask, Rename, vars, Refusal
<1>2. CASE Ask
  <2>1. PICK asked \in Asked : read' = [read EXCEPT !.asked = asked]
    BY <1>2 DEF Ask
  <2>2. /\ read'.phase = read.phase /\ read'.listed = read.listed /\ read'.cursor = read.cursor
        /\ read'.asked \in Asked \cup {NoLimit} \/ read'.asked = read.asked
    BY <2>1
  <2>3. QED
    BY <1>1, <2>2 DEF Rows, RowTyped, Behind, Forward, Once, Covered
<1>3. CASE Rename \/ UNCHANGED vars
  <2>1. read' = read
    BY <1>3 DEF Rename, vars
  <2>2. QED
    BY <1>1, <2>1 DEF Rows, RowTyped, Behind, Forward, Once, Covered
<1>4. ASSUME NEW changed \in Changes, Refusal(changed)
      PROVE  Rows'
  <2>1. /\ read' = [read EXCEPT !.phase = "refused", !.queries = @ \cup {changed}]
        /\ read.phase = "open"
    BY <1>4 DEF Refusal
  <2>2. /\ read'.phase = "refused" \/ read'.phase = read.phase
        /\ read'.listed = read.listed /\ read'.cursor = read.cursor
        /\ read'.asked = read.asked
    BY <2>1
  <2>3. QED
    BY <1>1, <2>1, <2>2 DEF Rows, RowTyped, Behind, Forward, Once, Covered
<1>5. QED
  BY <1>2, <1>3, <1>4

-----------------------------------------------------------------------------
(* A list of hits.                                                         *)

\* While nothing was indexed, the client was given the first hits of the first
\* query, as many as its offset says, and all of them when it is done.
Still ==
  /\ docs \in Seq(Doc)
  /\ \A m, n \in 1..Len(docs) : m # n => docs[m].id # docs[n].id
  /\ \A i \in stable : \E n \in 1..Len(docs) : docs[n].id = i /\ docs[n].selected = TRUE
  /\ read.listed \in Seq(Entry)
  /\ read.asked \in Asked \cup {NoLimit}
  /\ Len(read.listed) <= Cardinality(Matching({}))
  /\ \A n \in 1..Len(read.listed) : read.listed[n] = EntryAt(Ranked(Matching({})), n)
  /\ read.phase = "open" => OffsetOf(read.cursor) = Len(read.listed)
  /\ read.phase = "done" => Len(read.listed) = Cardinality(Matching({}))

Indexed ==
  list.key = "index" =>
    /\ \A i \in Ids : row[i] = Absent
    /\ stable \subseteq Ids /\ stable \cap setBack = {}
    /\ setBack # Ids => Still

\* all are the selected documents, each once.
RanksHits(all, total) ==
  /\ total \in Nat
  /\ \A n \in 1..total : EntryAt(all, n) \in Entry
  /\ \A m, n \in 1..total : m # n => all[m].id # all[n].id
  /\ \A k \in 1..Len(docs) : docs[k].selected = TRUE =>
       \E n \in 1..total : all[n].id = docs[k].id

\* So are the ranked hits.
LEMMA RankedHits ==
  ASSUME docs \in Seq(Doc), \A m, n \in 1..Len(docs) : m # n => docs[m].id # docs[n].id
  PROVE  RanksHits(Ranked(Matching({})), Cardinality(Matching({})))
<1>0a. PICK all : all = Ranked(Matching({}))
  OBVIOUS
<1>0b. PICK total : total = Cardinality(Matching({}))
  OBVIOUS
<1> DEFINE hits == Matching({})
           HitAt(k) == [key |-> docs[k].key, at |-> k, id |-> docs[k].id]
           chosen == {k \in 1..Len(docs) : docs[k].selected = TRUE}
<1>1. hits = {HitAt(k) : k \in chosen}
  <2>1. {k \in DOMAIN docs : docs[k].selected = ({} = {})} = chosen
    <3>1. DOMAIN docs = 1..Len(docs)
      OBVIOUS
    <3>2. QED
      BY <3>1
  <2>2. QED
    BY <2>1 DEF Matching
<1>2. ASSUME NEW k \in chosen
      PROVE  HitAt(k) \in Hit
  <2>1. docs[k] \in Doc /\ k \in Nat
    OBVIOUS
  <2>2. docs[k].key \in Times /\ docs[k].id \in Ids
    BY <2>1 DEF Doc
  <2>3. QED
    BY <2>1, <2>2 DEF Hit
<1> HIDE DEF hits
<1>3. ASSUME NEW h \in hits
      PROVE  h.at \in chosen /\ h = HitAt(h.at) /\ h \in Hit
  <2>1. PICK k \in chosen : h = HitAt(k)
    BY <1>1, Zenon
  <2>2. h.at = k
    BY <2>1
  <2>3. QED
    BY <1>2, <2>1, <2>2
<1>4. IsFiniteSet(hits)
  <2> DEFINE f == [h \in hits |-> h.at]
  <2>1. f \in Injection(hits, 1..Len(docs))
    <3>1. f \in [hits -> 1..Len(docs)]
      BY <1>3
    <3>2. \A g, h \in hits : f[g] = f[h] => g = h
      BY <1>3
    <3>3. QED
      BY <3>1, <3>2 DEF Injection, IsInjective
  <2>2. IsFiniteSet(1..Len(docs))
    BY FS_Interval
  <2>3. QED
    BY <2>1, <2>2, FS_Injection
<1>5. PICK before : Lists(hits, before, all) /\ IsOrder(hits, before)
  BY <1>0a, <1>3, <1>4, RankedLists DEF hits
<1>6. total = Cardinality(hits) /\ total \in Nat
  BY <1>0b, <1>4, FS_CardinalityType DEF hits
<1>7. /\ \A n \in 1..total : all[n] \in hits
      /\ \A h \in hits : \E n \in 1..total : all[n] = h
  BY <1>5, <1>6 DEF Lists
<1>8. ASSUME NEW n \in 1..total
      PROVE  EntryAt(all, n) \in Entry
  BY <1>3, <1>7 DEF EntryAt, Entry, Hit
<1>9. ASSUME NEW m \in 1..total, NEW n \in 1..total, m # n
      PROVE  all[m].id # all[n].id
  <2>1. all[m] \in hits /\ all[n] \in hits
    BY <1>7
  <2>2. m < n \/ n < m
    BY <1>6, <1>9
  <2>3. all[m] \in before[all[n]] \/ all[n] \in before[all[m]]
    BY <1>5, <1>6, <2>2 DEF Lists
  <2>4. all[m] # all[n]
    BY <1>5, <2>1, <2>3 DEF IsOrder
  <2>5. all[m].at # all[n].at
    BY <1>3, <2>1, <2>4
  <2>6. /\ all[m].at \in 1..Len(docs) /\ all[n].at \in 1..Len(docs)
        /\ all[m].id = docs[all[m].at].id /\ all[n].id = docs[all[n].at].id
    <3>1. \A h \in hits : h.at \in 1..Len(docs) /\ h.id = docs[h.at].id
      <4>1. ASSUME NEW h \in hits
            PROVE  h.at \in 1..Len(docs) /\ h.id = docs[h.at].id
        <5>1. h = HitAt(h.at) /\ h.at \in chosen
          BY <1>3
        <5>2. HitAt(h.at).id = docs[h.at].id
          OBVIOUS
        <5>3. h.id = docs[h.at].id
          BY <5>1, <5>2, Zenon
        <5>4. QED
          BY <5>1, <5>3
      <4>2. QED
        BY <4>1
    <3>2. QED
      BY <2>1, <3>1
  <2>7. QED
    BY <2>5, <2>6
<1>10. ASSUME NEW k \in 1..Len(docs), docs[k].selected = TRUE
       PROVE  \E n \in 1..total : all[n].id = docs[k].id
  <2>1. HitAt(k) \in hits
    <3>1. k \in chosen
      BY <1>10
    <3>2. QED
      BY <1>1, <3>1, Zenon
  <2>2. PICK n \in 1..total : all[n] = HitAt(k)
    BY <1>7, <2>1
  <2>3. QED
    BY <2>2
<1>11. QED
  BY <1>0a, <1>0b, <1>6, <1>8, <1>9, <1>10 DEF RanksHits

\* An answer gives the hits from the offset on.
LEMMA StillAnswered ==
  ASSUME Still, list.key = "index", Answer({})
  PROVE  Still'
<1> DEFINE limit == ResolveLimit(read.asked)
           found == Matching({})
           total == Cardinality(found)
           all == Ranked(found)
           rows == Fetched(found, limit, read.cursor)
           page == Page(rows, limit)
           more == HasMore(rows, limit)
           from == OffsetOf(read.cursor)
           listed == read.listed
           after == read'.listed
<1>1. /\ read.phase = "open" /\ UNCHANGED <<list, row, docs, stable, setBack>>
      /\ limit \in Nat \ {0}
  BY LimitPositive DEF Answer, Still
<1>2. /\ total \in Nat
      /\ \A n \in 1..total : EntryAt(all, n) \in Entry
  BY RankedHits DEF Still, RanksHits
<1>3. /\ listed \in Seq(Entry) /\ from = Len(listed) /\ Len(listed) <= total
      /\ \A n \in 1..Len(listed) : listed[n] = EntryAt(all, n)
  BY <1>1 DEF Still
<1>4. IsPage(page, more, all, total, from, limit)
  <2>1. AllOf(found) = all /\ From(read.cursor) = from
    BY DEF AllOf, From
  <2>2. from \in 0..total
    BY <1>2, <1>3
  <2> HIDE DEF all, found, limit, from
  <2>3. IsPage(page, more, AllOf(found), total, From(read.cursor), limit)
    BY <1>1, <1>2, <2>1, <2>2, FetchedPage
  <2>4. QED
    BY <2>1, <2>3
<1>5. read' = [phase   |-> IF more THEN "open" ELSE "done",
               asked   |-> IF more THEN read.asked ELSE NoLimit,
               cursor  |-> IF more THEN Issued(page, limit, read.cursor, {}) ELSE NoCursor,
               size    |-> Len(page),
               listed  |-> read.listed \o page,
               queries |-> read.queries \cup {{}}]
  <2>1. Found(read.cursor, {}) = found
    BY DEF Found
  <2>2. (list.key = "index" \/ page # <<>>) = TRUE
    OBVIOUS
  <2>3. more \in BOOLEAN
    BY DEF HasMore
  <2>4. (more /\ (list.key = "index" \/ page # <<>>)) = more
    BY <2>2, <2>3
  <2>5. read' = [phase   |-> IF more /\ (list.key = "index" \/ page # <<>>) THEN "open" ELSE "done",
                 asked   |-> IF more /\ (list.key = "index" \/ page # <<>>)
                             THEN read.asked ELSE NoLimit,
                 cursor  |-> IF more /\ (list.key = "index" \/ page # <<>>)
                             THEN Issued(page, limit, read.cursor, {}) ELSE NoCursor,
                 size    |-> Len(page),
                 listed  |-> read.listed \o page,
                 queries |-> read.queries \cup {{}}]
    BY <2>1, Zenon DEF Answer
  <2> HIDE DEF more, page, limit
  <2>6. QED
    BY <2>4, <2>5
<1>6. Matching({})' = found
  BY <1>1 DEF Matching
<1> HIDE DEF page, more, limit, found, all, total, from, listed
<1>7. Issued(page, limit, read.cursor, {}).offset = from + limit
      /\ Issued(page, limit, read.cursor, {}) # NoCursor
  <2>1. Issued(page, limit, read.cursor, {}).offset = from + limit
    BY DEF Issued, from
  <2>2. "at" \in DOMAIN Issued(page, limit, read.cursor, {}) /\ "at" \notin DOMAIN NoCursor
    BY DEF Issued, NoCursor
  <2>3. QED
    BY <2>1, <2>2
<1>8. /\ page \in Seq(Entry)
      /\ more <=> total - from > limit
      /\ Len(page) = IF total - from > limit THEN limit ELSE total - from
      /\ \A n \in 1..Len(page) : page[n] = EntryAt(all, from + n)
  BY <1>4 DEF IsPage
<1>9. /\ after \in Seq(Entry) /\ Len(after) = Len(listed) + Len(page)
      /\ \A n \in 1..Len(listed) + Len(page) :
           after[n] = IF n <= Len(listed) THEN listed[n] ELSE page[n - Len(listed)]
  BY <1>3, <1>5, <1>8, ConcatProperties DEF listed
<1>10. ASSUME NEW n \in 1..Len(after)
       PROVE  after[n] = EntryAt(all, n)
  <2>1. CASE n <= Len(listed)
    BY <1>3, <1>9, <2>1
  <2>2. CASE ~(n <= Len(listed))
    <3>1. n - Len(listed) \in 1..Len(page) /\ from + (n - Len(listed)) = n
      BY <1>3, <1>8, <1>9, <2>2
    <3>2. QED
      BY <1>8, <1>9, <2>2, <3>1
  <2>3. QED
    BY <2>1, <2>2
<1>11. /\ Len(after) <= total
       /\ read'.phase = "done" => Len(after) = total
       /\ read'.phase = "open" => OffsetOf(read'.cursor) = Len(after)
  <2>1. Len(page) \in Nat /\ Len(listed) \in Nat
    BY <1>3, <1>8
  <2>2. CASE more
    BY <1>1, <1>2, <1>3, <1>5, <1>7, <1>8, <1>9, <2>1, <2>2 DEF OffsetOf
  <2>3. CASE ~more
    BY <1>1, <1>2, <1>3, <1>5, <1>8, <1>9, <2>1, <2>3
  <2>4. QED
    BY <2>2, <2>3
<1>12. read'.asked \in Asked \cup {NoLimit}
  BY <1>5 DEF Still
<1>13. QED
  BY <1>1, <1>6, <1>9, <1>10, <1>11, <1>12 DEF Still, found, all, total

\* What the promise of a list of hits rests on is left alone by the client's
\* other steps and by renames.
LEMMA StillLeft ==
  ASSUME Still, Ask \/ Rename \/ UNCHANGED vars \/ (\E changed \in Changes : Refusal(changed))
  PROVE  Still'
<1>1. UNCHANGED <<list, docs, stable>>
  BY DEF Ask, Rename, vars, Refusal
<1>2. Matching({})' = Matching({})
  BY <1>1 DEF Matching
<1>3. /\ read'.phase = read.phase \/ read'.phase = "refused"
      /\ read'.listed = read.listed /\ read'.cursor = read.cursor
      /\ read'.asked \in Asked \cup {NoLimit}
  <2>1. CASE Ask
    <3>1. PICK asked \in Asked : read' = [read EXCEPT !.asked = asked]
      BY <2>1 DEF Ask
    <3>2. read'.asked = asked \/ read'.asked = read.asked
      BY <3>1
    <3>3. QED
      BY <3>1, <3>2 DEF Still
  <2>2. CASE Rename \/ UNCHANGED vars
    BY <2>2 DEF Rename, vars, Still
  <2>3. ASSUME NEW changed \in Changes, Refusal(changed)
        PROVE  /\ read'.phase = "refused"
               /\ read'.listed = read.listed /\ read'.cursor = read.cursor
               /\ read'.asked \in Asked \cup {NoLimit}
    <3>1. read' = [read EXCEPT !.phase = "refused", !.queries = @ \cup {changed}]
      BY <2>3 DEF Refusal
    <3>2. QED
      BY <3>1 DEF Still
  <2>4. QED
    BY <2>1, <2>2, <2>3
<1>4. QED
  BY <1>1, <1>2, <1>3 DEF Still

\* Every step preserves the invariant of a list of hits.
LEMMA IndexedNext ==
  ASSUME OneQuery, Indexed, [Next]_vars
  PROVE  Indexed'
<1> SUFFICES ASSUME list.key = "index"
             PROVE  Indexed'
  <2>1. list' = list
    BY DEF Next, Fetch, Refuse, Others, Ended, Answer, Refusal, Ask, Rename, vars, IndexDoc, Writing,
           InsertRow, TouchRow, RefileRow, MoveRow, DeleteRow, Write
  <2>2. QED
    BY <2>1 DEF Indexed
<1>1. /\ \A i \in Ids : row[i] = Absent
      /\ stable \subseteq Ids /\ stable \cap setBack = {}
      /\ setBack # Ids => Still
  BY DEF Indexed
<1>2. Present = {}
  BY <1>1 DEF Present
<1>3. CASE IndexDoc
  BY <1>1, <1>3 DEF IndexDoc, Writing, Indexed
<1>4. CASE InsertRow \/ TouchRow \/ RefileRow \/ MoveRow \/ DeleteRow
  BY <1>2, <1>4 DEF InsertRow, TouchRow, RefileRow, MoveRow, DeleteRow
<1>5. ASSUME NEW changed \in Changes, Answer(changed)
      PROVE  Indexed'
  <2>1. changed = {}
    BY <1>5, AcceptedUnchanged DEF OneQuery, Answer
  <2>2. UNCHANGED <<list, row, stable, setBack>>
    BY <1>5 DEF Answer
  <2>3. setBack # Ids => Still'
    BY <1>1, <1>5, <2>1, StillAnswered
  <2>4. QED
    BY <1>1, <2>2, <2>3 DEF Indexed
<1>6. CASE Ask \/ Rename \/ UNCHANGED vars \/ (\E changed \in Changes : Refusal(changed))
  <2>1. UNCHANGED <<list, row, stable, setBack>>
    BY <1>6 DEF Ask, Rename, vars, Refusal
  <2>2. setBack # Ids => Still'
    BY <1>1, <1>6, StillLeft
  <2>3. QED
    BY <1>1, <2>1, <2>2 DEF Indexed
<1>7. QED
  BY <1>3, <1>4, <1>5, <1>6 DEF Next, Fetch, Refuse, Others, Ended

\* So does every step that of a list of rows.
LEMMA RowsNext ==
  ASSUME OneQuery, Rows, [Next]_vars
  PROVE  Rows'
<1> SUFFICES ASSUME list.key # "index"
             PROVE  Rows'
  <2>1. list' = list
    BY DEF Next, Fetch, Refuse, Others, Ended, Answer, Refusal, Ask, Rename, vars, IndexDoc, Writing,
           InsertRow, TouchRow, RefileRow, MoveRow, DeleteRow, Write
  <2>2. QED
    BY <2>1 DEF Rows
<1>1. ASSUME NEW changed \in Changes, Answer(changed)
      PROVE  Rows'
  <2>1. changed = {}
    BY <1>1, AcceptedUnchanged DEF OneQuery, Answer
  <2>2. QED
    BY <1>1, <2>1, RowsAnswered
<1>2. CASE InsertRow \/ TouchRow \/ RefileRow \/ MoveRow \/ DeleteRow
  BY <1>2, RowsChanged
<1>3. CASE Ask \/ Rename \/ UNCHANGED vars \/ (\E changed \in Changes : Refusal(changed))
  BY <1>3, RowsLeft
<1>4. ~IndexDoc
  BY DEF IndexDoc
<1>5. QED
  BY <1>1, <1>2, <1>3, <1>4 DEF Next, Fetch, Refuse, Others, Ended

\* Before the first page nothing is listed.
LEMMA InitListing == Init => Rows /\ Indexed
<1> SUFFICES ASSUME Init
             PROVE  Rows /\ Indexed
  OBVIOUS
<1>1. PICK asked \in Asked : read = [Open EXCEPT !.asked = asked]
  BY DEF Init
<1>2. /\ read.phase = "open" /\ read.cursor = NoCursor /\ read.listed = <<>>
      /\ read.asked \in Asked \cup {NoLimit} /\ setBack = {}
  BY <1>1 DEF Open, Init
<1>3. ASSUME list.key # "index"
      PROVE  Rows
  <2>1. /\ row \in [Ids -> Row \cup {Absent}]
        /\ stable = {i \in Present : row[i].selected}
    BY <1>3 DEF Init
  <2>2. \A i \in stable : i \in Ids /\ row[i] # Absent /\ row[i].selected = TRUE
    <3>1. ASSUME NEW i \in stable
          PROVE  i \in Ids /\ row[i] # Absent /\ row[i].selected = TRUE
      <4>1. i \in Ids /\ row[i] # Absent /\ row[i] \in Row /\ row[i].selected
        BY <2>1 DEF Present
      <4>2. row[i].selected \in BOOLEAN
        BY <4>1 DEF Row
      <4>3. QED
        BY <4>1, <4>2
    <3>2. QED
      BY <3>1
  <2>3. QED
    BY <1>2, <2>1, <2>2 DEF Rows, RowTyped, Behind, Forward, Once, Covered
<1>4. ASSUME list.key = "index"
      PROVE  Indexed
  <2>1. /\ row = [i \in Ids |-> Absent] /\ docs \in Indexes
        /\ stable = {docs[n].id : n \in {m \in DOMAIN docs : docs[m].selected}}
    BY <1>4 DEF Init
  <2>2. PICK size \in Nat : docs \in [1..size -> Doc]
    <3>1. PICK size \in 0..Cardinality(Ids) : docs \in [1..size -> Doc]
      BY <2>1 DEF Indexes
    <3>2. QED
      BY <3>1
  <2>3. docs \in Seq(Doc) /\ Len(docs) = size /\ DOMAIN docs = 1..Len(docs)
    BY <2>2
  <2>4. \A n \in 1..Len(docs) : /\ docs[n].id \in Ids /\ docs[n].id \in Nat
                                /\ docs[n].selected \in BOOLEAN
    <3>1. \A n \in 1..Len(docs) : docs[n] \in Doc
      BY <2>3
    <3>2. QED
      BY <3>1, ListAssumption DEF Doc
  <2>5. \A m, n \in 1..Len(docs) : m < n => docs[m].id < docs[n].id
    BY <2>1, <2>3 DEF Indexes
  <2>6. \A m, n \in 1..Len(docs) : m # n => docs[m].id # docs[n].id
    <3>1. ASSUME NEW m \in 1..Len(docs), NEW n \in 1..Len(docs), m # n
          PROVE  docs[m].id # docs[n].id
      <4>1. m < n \/ n < m
        BY <2>3, <3>1
      <4>2. QED
        BY <2>4, <2>5, <4>1
    <3>2. QED
      BY <3>1
  <2>7. \A i \in stable : /\ i \in Ids
                          /\ \E n \in 1..Len(docs) : docs[n].id = i /\ docs[n].selected = TRUE
    BY <2>1, <2>3, <2>4
  <2>8. Cardinality(Matching({})) \in Nat
    BY <2>3, <2>6, RankedHits DEF RanksHits
  <2>9. OffsetOf(read.cursor) = 0
    BY <1>2 DEF OffsetOf
  <2>10. Still
    BY <1>2, <2>3, <2>6, <2>7, <2>8, <2>9 DEF Still
  <2>11. QED
    BY <1>2, <2>1, <2>7, <2>10 DEF Indexed
<1>5. QED
  BY <1>3, <1>4 DEF Rows, Indexed

Listing == OneQuery /\ Rows /\ Indexed

\* Every reachable traversal is behind its cursor, and has missed nothing.
THEOREM ListingInvariant == Spec => []Listing
<1>1. Init => Listing
  BY InitUnmixed, InitListing DEF Listing
<1>2. Listing /\ [Next]_vars => Listing'
  BY NextUnmixed, RowsNext, IndexedNext DEF Listing
<1>3. QED
  BY <1>1, <1>2, PTL DEF Spec

\* What the invariant says of the places where a row was listed.
LEMMA ListedPlaces ==
  ASSUME Listing
  PROVE  /\ \A i \in Ids \ setBack : \A m, n \in Listed(i) : m = n
         /\ read.phase = "done" => \A i \in stable : i \in Ids \ setBack /\ Listed(i) # {}
<1>1. CASE list.key # "index"
  <2>1. RowTyped /\ Once /\ Covered
    BY <1>1 DEF Listing, Rows
  <2>2. DOMAIN read.listed = 1..Len(read.listed)
    BY <2>1 DEF RowTyped
  <2>3. QED
    BY <2>1, <2>2 DEF RowTyped, Once, Covered, Listed
<1>2. CASE list.key = "index"
  <2>1. /\ stable \subseteq Ids /\ stable \cap setBack = {}
        /\ setBack # Ids => Still
    BY <1>2 DEF Listing, Indexed
  <2>2. ASSUME setBack # Ids
        PROVE  /\ \A m, n \in DOMAIN read.listed : m # n => read.listed[m].id # read.listed[n].id
               /\ read.phase = "done" =>
                    \A i \in stable : \E n \in DOMAIN read.listed : read.listed[n].id = i
    <3>0a. PICK all : all = Ranked(Matching({}))
      OBVIOUS
    <3>0b. PICK total : total = Cardinality(Matching({}))
      OBVIOUS
    <3>1. Still
      BY <2>1, <2>2
    <3>2. RanksHits(all, total)
      BY <3>0a, <3>0b, <3>1, RankedHits DEF Still
    <3>3. /\ DOMAIN read.listed = 1..Len(read.listed) /\ Len(read.listed) \in Nat
          /\ Len(read.listed) <= total
          /\ read.phase = "done" => Len(read.listed) = total
          /\ \A n \in 1..Len(read.listed) : read.listed[n].id = all[n].id
      <4>1. /\ read.listed \in Seq(Entry) /\ Len(read.listed) <= total
            /\ read.phase = "done" => Len(read.listed) = total
            /\ \A n \in 1..Len(read.listed) : read.listed[n] = EntryAt(all, n)
        BY <3>1, <3>0a, <3>0b DEF Still
      <4>2. \A n : EntryAt(all, n).id = all[n].id
        BY DEF EntryAt
      <4>3. QED
        BY <4>1, <4>2
    <3>4. \A i \in stable : \E k \in 1..Len(docs) : docs[k].id = i /\ docs[k].selected = TRUE
      BY <3>1 DEF Still
    <3>5. ASSUME NEW m \in DOMAIN read.listed, NEW n \in DOMAIN read.listed, m # n
          PROVE  read.listed[m].id # read.listed[n].id
      <4>1. m \in 1..total /\ n \in 1..total
        BY <3>2, <3>3 DEF RanksHits
      <4>2. QED
        BY <3>2, <3>3, <3>5, <4>1 DEF RanksHits
    <3>6. ASSUME read.phase = "done", NEW i \in stable
          PROVE  \E n \in DOMAIN read.listed : read.listed[n].id = i
      <4>1. PICK n \in 1..total : all[n].id = i
        BY <3>2, <3>4 DEF RanksHits
      <4>2. n \in DOMAIN read.listed /\ read.listed[n].id = all[n].id
        BY <3>3, <3>6
      <4>3. QED
        BY <4>1, <4>2
    <3>7. QED
      BY <3>5, <3>6
  <2>3. QED
    BY <2>1, <2>2 DEF Listed
<1>3. QED
  BY <1>1, <1>2

\* No row is listed twice unless its key was moved back behind the cursor, or
\* it was deleted and came again, whatever is written between the pages, for
\* any rows, times and limits; and no document unless the index changed.
THEOREM RepeatsTheorem == Spec => []RepeatsOnlyWhenSetBack
<1>1. Listing => RepeatsOnlyWhenSetBack
  <2>1. ASSUME Listing, NEW i \in Ids \ setBack
        PROVE  Cardinality(Listed(i)) <= 1
    <3>1. \A m, n \in Listed(i) : m = n
      BY <2>1, ListedPlaces
    <3>2. Listed(i) = {} \/ \E n \in Listed(i) : Listed(i) = {n}
      BY <3>1
    <3>3. Cardinality(Listed(i)) = 0 \/ Cardinality(Listed(i)) = 1
      BY <3>2, FS_EmptySet, FS_Singleton
    <3>4. QED
      BY <3>3
  <2>2. QED
    BY <2>1 DEF RepeatsOnlyWhenSetBack
<1>2. QED
  BY <1>1, ListingInvariant, PTL

\* A traversal that came to its end has listed every row that the query selected
\* at the first page and that nobody wrote since, and has listed it once.
THEOREM StableListedTheorem == Spec => []StableListedOnce
<1>1. Listing => StableListedOnce
  <2>1. ASSUME Listing, read.phase = "done", NEW i \in stable
        PROVE  Cardinality(Listed(i)) = 1
    <3>1. Listed(i) # {} /\ \A m, n \in Listed(i) : m = n
      BY <2>1, ListedPlaces
    <3>2. \E n \in Listed(i) : Listed(i) = {n}
      BY <3>1
    <3>3. QED
      BY <3>2, FS_Singleton
  <2>2. QED
    BY <2>1 DEF StableListedOnce
<1>2. QED
  BY <1>1, ListingInvariant, PTL
=============================================================================
