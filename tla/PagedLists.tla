----------------------------- MODULE PagedLists -----------------------------
(***************************************************************************)
(* Reading a list page by page while its rows change.                      *)
(*                                                                         *)
(* A client asks for a page, and again with the nextCursor of the answer   *)
(* until there is none.  Every request is one statement on the database,   *)
(* or one search of the index, as it is then.  Between two requests rows   *)
(* are inserted, updated and deleted, by transactions whose NOW() is the   *)
(* time they began: one that waited long enough commits a time older than  *)
(* others already visible.  The client may ask with another limit, or with *)
(* a filter changed.                                                       *)
(***************************************************************************)
EXTENDS ListHandlers, Naturals, Sequences, FiniteSets

CONSTANTS Ids,        \* the ids of the rows
          Times,      \* what rows are ordered by: times, or positions
          Default,    \* DEFAULT_LIMIT
          MaxLimit,   \* MAX_LIMIT
          Asked,      \* the limits clients ask for; NoLimit is none
          NoLimit,
          MaxWrites   \* a bound: the writes between the pages

ASSUME ListAssumption ==
  /\ Ids \subseteq Nat /\ IsFiniteSet(Ids)
  /\ Times \subseteq Nat
  /\ MaxLimit \in Nat \ {0} /\ Default \in 1..MaxLimit
  /\ Asked \subseteq Nat \cup {NoLimit}
  /\ MaxWrites \in Nat

VARIABLES list,      \* the list that is read
          row,       \* [Ids -> its entry in the list's table, or Absent]
          docs,      \* the index: its documents in the order of their addresses
          renamed,   \* whether the names of the query stand for other ids by now
          read,      \* the client's traversal
          stable,    \* ghost: the rows it should list exactly once
          setBack,   \* ghost: the rows moved back in the order, or deleted, since
          writes     \* the writes so far

vars == <<list, row, docs, renamed, read, stable, setBack, writes>>

\* What the list sees of a row: the value of its key column, and whether the
\* client's query selects it.
Row == [key : Times, selected : BOOLEAN]

Doc == [id : Ids, key : Times, selected : BOOLEAN]

Absent == [absent |-> TRUE]

NoCursor == [none |-> TRUE]

\* No row: what the cursor of an index's list has in place of one.
Top == [top |-> TRUE]

Present == {i \in Ids : row[i] # Absent}

-----------------------------------------------------------------------------
(* One page.                                                               *)

\* The order of two entries [key, id] of the list.
Precedes(a, b) ==
  IF list.rising
  THEN a.key < b.key \/ (a.key = b.key /\ a.id < b.id)
  ELSE a.key > b.key \/ (a.key = b.key /\ a.id > b.id)

\* As Following, but the comparison admits the cursor's row again.
FollowingInclusive(cursor, changed) ==
  {e \in {[key |-> row[i].key, id |-> i] :
            i \in {j \in Present : row[j].selected = (changed = {})}} :
     cursor = NoCursor \/ ~Precedes(e, cursor.at)}

\* The rows the statement's WHERE admits: those the query selects that come
\* after the cursor's row.  A changed filter selects the others.
Following(cursor, changed) ==
  {e \in {[key |-> row[i].key, id |-> i] :
            i \in {j \in Present : row[j].selected = (changed = {})}} :
     cursor = NoCursor \/ Precedes(cursor.at, e)}

\* ORDER BY.
Sorted(entries) ==
  [n \in 1..Cardinality(entries) |->
     CHOOSE e \in entries : Cardinality({f \in entries : Precedes(f, e)}) = n - 1]

\* The hits of the query, with their addresses.
Matching(changed) ==
  {[key |-> docs[n].key, at |-> n, id |-> docs[n].id] :
     n \in {m \in DOMAIN docs : docs[m].selected = (changed = {})}}

\* The best first; those that rank the same in the order of their addresses.
Ranked(hits) ==
  LET Better(g, h) == g.key > h.key \/ (g.key = h.key /\ g.at < h.at)
  IN  [n \in 1..Cardinality(hits) |->
         CHOOSE h \in hits : Cardinality({g \in hits : Better(g, h)}) = n - 1]

OffsetOf(cursor) == IF cursor = NoCursor THEN 0 ELSE cursor.offset

\* As ResolveLimit, but a limit of nought stands.
ResolveLimitFromZero(asked) ==
  LET wanted == IF asked = NoLimit THEN Default ELSE asked
  IN  IF wanted > MaxLimit THEN MaxLimit ELSE wanted

\* resolve_limit: none is the default, and the rest is clamped.
ResolveLimit(asked) ==
  LET wanted == IF asked = NoLimit THEN Default ELSE asked
  IN  IF wanted < 1 THEN 1 ELSE IF wanted > MaxLimit THEN MaxLimit ELSE wanted

\* As LimitPlusOne, but no row more.
LimitOnly(limit) == limit

\* limit_plus_one: one row more tells whether there is another page.
LimitPlusOne(limit) == limit + 1

\* What the statement admits, or the search finds ...
Found(cursor, changed) ==
  IF list.key = "index" THEN Matching(changed) ELSE Following(cursor, changed)

\* ... in its order, from the offset on, as many as LIMIT lets through.
Fetched(found, limit, cursor) ==
  LET all  == IF list.key = "index" THEN Ranked(found) ELSE Sorted(found)
      from == IF list.key = "index" THEN OffsetOf(cursor) ELSE 0
      left == IF Cardinality(found) > from THEN Cardinality(found) - from ELSE 0
      size == IF LimitPlusOne(limit) < left THEN LimitPlusOne(limit) ELSE left
  IN  [n \in 1..size |-> [key |-> all[from + n].key, id |-> all[from + n].id]]

HasMore(rows, limit) == Len(rows) > limit

\* paginate_rows: the extra row is dropped.
Page(rows, limit) == IF HasMore(rows, limit) THEN SubSeq(rows, 1, limit) ELSE rows

\* The cursor of the page's last row, or the next offset; with it the filters
\* and the ids of the names.
Issued(page, limit, cursor, changed) ==
  [at |-> IF list.key = "index" THEN Top ELSE page[Len(page)], offset |-> OffsetOf(cursor) + limit,
   changed |-> changed, renamed |-> renamed]

\* As Accepts, but the ids are compared before the names are resolved.
AcceptsUnresolved(cursor, changed) ==
  cursor # NoCursor =>
    /\ cursor.changed \cap list.checked = changed \cap list.checked
    /\ ~list.names

\* The comparisons before anything is read: the request's filters must be the
\* cursor's, and its names must still stand for the same ids.
Accepts(cursor, changed) ==
  cursor # NoCursor =>
    /\ cursor.changed \cap list.checked = changed \cap list.checked
    /\ list.names => cursor.renamed = renamed

-----------------------------------------------------------------------------
(* The client.                                                             *)

Open == [phase |-> "open", asked |-> NoLimit, cursor |-> NoCursor, size |-> 0,
         listed |-> <<>>, queries |-> {}]

\* The filters a client may have changed since the first page: none or one.
Changes == {{}} \cup {{f} : f \in IF read.cursor = NoCursor THEN {} ELSE list.used}

\* A request whose cursor matches it is answered with the next page.  The new
\* cursor is that of the page's last row, if there is one.
Answer(changed) ==
  /\ read.phase = "open"
  /\ Accepts(read.cursor, changed)
  /\ \E limit \in {ResolveLimit(read.asked)}, found \in {Found(read.cursor, changed)} :
     \E rows \in {Fetched(found, limit, read.cursor)} :
       LET page == Page(rows, limit)
           more == HasMore(rows, limit) /\ (list.key = "index" \/ page # <<>>)
       IN  read' = [phase   |-> IF more THEN "open" ELSE "done",
                    asked   |-> IF more THEN read.asked ELSE NoLimit,
                    cursor  |-> IF more THEN Issued(page, limit, read.cursor, changed) ELSE NoCursor,
                    size    |-> Len(page),
                    listed  |-> read.listed \o page,
                    queries |-> read.queries \cup {changed}]
  /\ UNCHANGED <<list, row, docs, renamed, stable, setBack, writes>>

\* One whose cursor does not is answered 400.
Refusal(changed) ==
  /\ read.phase = "open"
  /\ ~Accepts(read.cursor, changed)
  /\ read' = [read EXCEPT !.phase = "refused", !.queries = @ \cup {changed}]
  /\ UNCHANGED <<list, row, docs, renamed, stable, setBack, writes>>

Fetch == \E changed \in Changes : Answer(changed)

Refuse == \E changed \in Changes : Refusal(changed)

\* The client may come to ask for pages of another size.
Ask ==
  /\ read.phase = "open" /\ read.cursor # NoCursor
  /\ \E asked \in Asked : read' = [read EXCEPT !.asked = asked]
  /\ UNCHANGED <<list, row, docs, renamed, stable, setBack, writes>>

-----------------------------------------------------------------------------
(* The writers.  Nothing is written before the first page and after the    *)
(* last: the rows the client begins with may be any.                       *)

Writing ==
  /\ read.phase = "open" /\ read.cursor # NoCursor
  /\ writes < MaxWrites
  /\ writes' = writes + 1
  /\ UNCHANGED <<list, renamed, read>>

\* A write of row i ends the promise to list it once; it moves the row back
\* when its place is not the old one nor before it.
Write(i, new) ==
  /\ Writing
  /\ row' = [row EXCEPT ![i] = new]
  /\ stable' = stable \ {i}
  /\ setBack' = IF row[i] # Absent /\ (new = Absent \/ Precedes([key |-> row[i].key, id |-> i],
                                                              [key |-> new.key, id |-> i]))
                THEN setBack \cup {i} ELSE setBack
  /\ UNCHANGED docs

\* The new row's key is the NOW() of a transaction that may have begun before
\* others that committed, or a time or position of the row's own.
InsertRow ==
  /\ list.key # "index"
  /\ \E i \in Ids \ Present, new \in Row : Write(i, new)

\* An update may change what the filters look at, and moves the row where the
\* key is updated_at: to the time its transaction began, which may be before
\* the one that stands there (the row was locked by a later transaction).
TouchRow ==
  /\ "touch" \in list.writes
  /\ \E i \in Present, now \in Times, selected \in BOOLEAN :
       Write(i, [key |-> IF list.key = "updated" THEN now ELSE row[i].key,
                 selected |-> selected])

\* The filter looks at another table, whose update leaves the row alone.
RefileRow ==
  /\ "refile" \in list.writes
  /\ \E i \in Present : Write(i, [row[i] EXCEPT !.selected = ~@])

MoveRow ==
  /\ "move" \in list.writes
  /\ \E i \in Present, place \in Times : Write(i, [row[i] EXCEPT !.key = place])

DeleteRow ==
  /\ "delete" \in list.writes
  /\ \E i \in Present : Write(i, Absent)

\* The index worker replaces or adds a document: it goes to the end, with the
\* score or time and the contents it has now.  Every later offset may mean
\* another hit.
IndexDoc ==
  /\ list.key = "index"
  /\ Writing
  /\ \E doc \in Doc :
       LET Other(d) == d.id # doc.id
       IN  docs' = Append(SelectSeq(docs, Other), doc)
  /\ stable' = {} /\ setBack' = Ids
  /\ UNCHANGED row

\* Users take and give up names: the names of the query stand for other ids.
Rename ==
  /\ list.names /\ ~renamed /\ read.phase = "open"
  /\ renamed' = TRUE
  /\ UNCHANGED <<list, row, docs, read, stable, setBack, writes>>

-----------------------------------------------------------------------------
\* The documents an index may hold, one at most per id; what the ids are does
\* not matter to it, so let those of the earlier addresses be the lower ones.
Indexes == {d \in UNION {[1..n -> Doc] : n \in 0..Cardinality(Ids)} :
              \A m, n \in DOMAIN d : m < n => d[m].id < d[n].id}

Init ==
  /\ list \in AllLists
  /\ IF list.key = "index"
     THEN row = [i \in Ids |-> Absent] /\ docs \in Indexes
     ELSE row \in [Ids -> Row \cup {Absent}] /\ docs = <<>>
  /\ renamed = FALSE
  /\ \E asked \in Asked : read = [Open EXCEPT !.asked = asked]
  /\ stable = IF list.key = "index"
              THEN {docs[n].id : n \in {m \in DOMAIN docs : docs[m].selected}}
              ELSE {i \in Present : row[i].selected}
  /\ setBack = {}
  /\ writes = 0

Others ==
  \/ Ask \/ InsertRow \/ TouchRow \/ RefileRow \/ MoveRow \/ DeleteRow \/ IndexDoc \/ Rename

Ended == read.phase # "open" /\ UNCHANGED vars

Next == Fetch \/ Refuse \/ Others \/ Ended

\* A client that goes on with its query as long as it is given cursors.
Proceed == Answer({}) \/ Refusal({})

Spec == Init /\ [][Next]_vars /\ WF_vars(Proceed)

-----------------------------------------------------------------------------
(* Properties.                                                             *)

Listed(i) == {n \in DOMAIN read.listed : read.listed[n].id = i}

\* Every row that the query selected at the first page and that nobody wrote
\* until the last is listed, and once, whatever happened to the others and
\* whatever limits were asked for.  A list by offset promises this only while
\* the index stands still.
StableListedOnce ==
  read.phase = "done" => \A i \in stable : Cardinality(Listed(i)) = 1

\* A row is listed twice only when its key was moved back behind the cursor:
\* never by created_at, published_at or recorded_at, and by updated_at only
\* when a transaction that began earlier commits its update later.
RepeatsOnlyWhenSetBack ==
  \A i \in Ids \ setBack : Cardinality(Listed(i)) <= 1

\* All pages of a traversal answer one query: a request that changed a filter
\* or the sort is refused (docs/api.md: 400 when the filters change).
PagesOfOneQuery ==
  read.phase = "done" => read.queries = {{}}

\* A cursor the server issued is good for the query it was issued for: such a
\* request is refused only where author names stand for other ids by now.
IssuedCursorAccepted ==
  read.phase = "refused" /\ read.queries = {{}} => renamed

\* A client that follows nextCursor comes to the end, whatever is written
\* meanwhile and whatever limits it asked for, and no page on the way was
\* longer than MAX_LIMIT.
TraversalEnds == <>(read.phase # "open") /\ [](read.size <= MaxLimit)
=============================================================================
