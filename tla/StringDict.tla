----------------------------- MODULE StringDict -----------------------------
(***************************************************************************)
(* tweet.string_dict and its cache in each process (string_dict.rs, the    *)
(* SQL function dict_id): a request interns the strings of its objects in  *)
(* one transaction (ensure_many), caches the ids when it has committed,    *)
(* and then writes rows that hold the ids.                                 *)
(*                                                                         *)
(* Inside a transaction dict_id looks, inserts, and looks again when the   *)
(* insert met a row: an insert of a key another transaction holds waits    *)
(* for it, so that two requests can wait for each other.                   *)
(***************************************************************************)
EXTENDS DictEntries, Integers, Sequences, Functions

CONSTANTS
  Instances,   \* the processes
  Callers,     \* request handlers
  Home,        \* the process of each caller
  Loads,       \* what the callers store: a sequence of objects for each
  MaxId,       \* the last value of the identity column (SMALLINT)
  MaxFaults    \* bound on failures and restarts

Objects == UNION {Range(l[c]) : l \in Loads, c \in Callers}

ASSUME DictAssumption ==
  /\ Home \in [Callers -> Instances]
  /\ Loads \subseteq [Callers -> Seq(Objects)]
  /\ \A o \in Objects : IsObject(o)
  /\ MaxId \in Nat /\ MaxFaults \in Nat
  /\ \A ids \in SUBSET (1 .. MaxId) : ids # Null

VARIABLES
  table,   \* key -> id, committed
  next,    \* the next value of the identity sequence
  byKey,   \* CacheState.by_key of each process
  byId,    \* CacheState.by_id of each process
  call,    \* the call of each caller
  rows,    \* the rows written: [object, row]
  mine,    \* history: the rows a process wrote, or found when it started
  load,    \* what the callers have still to store
  faults

vars == <<table, next, byKey, byId, call, rows, mine, load, faults>>

Idle == [pc |-> "idle"]

Init ==
  /\ table = << >> /\ next = 1
  /\ byKey = [i \in Instances |-> << >>] /\ byId = [i \in Instances |-> << >>]
  /\ call = [c \in Callers |-> Idle]
  /\ rows = {} /\ mine = [i \in Instances |-> {}]
  /\ load \in Loads /\ faults = 0

Extend(f, k, v) == [x \in DOMAIN f \cup {k} |-> IF x = k THEN v ELSE f[x]]
Merge(f, g) == [x \in DOMAIN f \cup DOMAIN g |-> IF x \in DOMAIN g THEN g[x] ELSE f[x]]
Inverted(f) == [i \in {f[k] : k \in DOMAIN f} |-> CHOOSE k \in DOMAIN f : f[k] = i]

Set(c, new) == call' = [call EXCEPT ![c] = new]
Fault == faults < MaxFaults /\ faults' = faults + 1

-----------------------------------------------------------------------------
(* ensure_many.                                                            *)

\* added are the rows inserted but not committed, got the ids found so far.
\* known tells whether the table had all the keys when the call began.
Begin(c) ==
  LET o == Head(load[c])
      missing == Entries(o) \ DOMAIN byKey[Home[c]]
  IN /\ call[c].pc = "idle" /\ load[c] # << >>
     /\ load' = [load EXCEPT ![c] = Tail(@)]
     /\ Set(c, [pc |-> IF missing = {} THEN "write" ELSE "run", object |-> o, todo |-> missing,
                added |-> << >>, got |-> << >>, key |-> Null, drawn |-> 0, why |-> Null,
                known |-> missing \subseteq DOMAIN table])
     /\ UNCHANGED <<table, next, byKey, byId, rows, mine, faults>>

Held(c) == DOMAIN call[c].added
Running(c) == call[c].pc \in {"run", "insert", "wait"}
Holders(k, c) == {d \in Callers \ {c} : Running(d) /\ k \in Held(d)}
RolledBack(s, why) ==
  [s EXCEPT !.pc = "failed", !.why = why, !.key = Null, !.added = << >>, !.got = << >>, !.drawn = 0]
Took(s, k, id) == [s EXCEPT !.pc = "run", !.todo = @ \ {k}, !.got = Extend(@, k, id), !.key = Null]

\* Mutant: insert without looking first.
LookNot(c) ==
  /\ call[c].pc = "run"
  /\ \E k \in call[c].todo : Set(c, [call[c] EXCEPT !.pc = "insert", !.key = k])
  /\ UNCHANGED <<table, next, byKey, byId, rows, mine, load, faults>>
\* The first SELECT of dict_id.  The rows come in no particular order.
Look(c) ==
  LET s == call[c]
  IN /\ s.pc = "run"
     /\ \E k \in s.todo :
          Set(c, IF k \in DOMAIN table THEN Took(s, k, table[k])
                 ELSE [s EXCEPT !.pc = "insert", !.key = k])
     /\ UNCHANGED <<table, next, byKey, byId, rows, mine, load, faults>>


\* INSERT ... ON CONFLICT DO NOTHING draws an id before it looks for a row.
Insert(c) ==
  LET s == call[c]
      k == s.key
  IN /\ s.pc = "insert" /\ next <= MaxId
     /\ next' = next + 1
     /\ Set(c, IF k \in DOMAIN table \/ Holders(k, c) # {} THEN [s EXCEPT !.pc = "wait", !.drawn = next]
               ELSE [Took(s, k, next) EXCEPT !.added = Extend(@, k, next)])
     /\ UNCHANGED <<table, byKey, byId, rows, mine, load, faults>>

\* nextval: reached maximum value of sequence
Exhausted(c) ==
  /\ call[c].pc = "insert" /\ next > MaxId
  /\ Set(c, RolledBack(call[c], "exhausted"))
  /\ UNCHANGED <<table, next, byKey, byId, rows, mine, load, faults>>

\* Mutant: wait until the row of the other transaction is there.
WaitedForRow(c) ==
  LET s == call[c]
  IN /\ s.pc = "wait" /\ s.key \in DOMAIN table
     /\ Set(c, [Took(s, s.key, table[s.key]) EXCEPT !.drawn = 0])
     /\ UNCHANGED <<table, next, byKey, byId, rows, mine, load, faults>>
\* The other transaction has ended: its row is there, or ours goes in under
\* the id drawn before the wait.
Waited(c) ==
  LET s == call[c]
      k == s.key
  IN /\ s.pc = "wait" /\ Holders(k, c) = {}
     /\ Set(c, [(IF k \in DOMAIN table THEN Took(s, k, table[k])
                 ELSE [Took(s, k, s.drawn) EXCEPT !.added = Extend(@, k, s.drawn)])
                EXCEPT !.drawn = 0])
     /\ UNCHANGED <<table, next, byKey, byId, rows, mine, load, faults>>

\* Callers each of whom waits for the next: the server aborts one of them.
Deadlocked(S) ==
  /\ S # {} /\ \A c \in S : call[c].pc = "wait"
  /\ \A c \in S : \E d \in S : d \in Holders(call[c].key, c)
AbortDeadlock(c) ==
  /\ \E S \in SUBSET Callers : c \in S /\ Deadlocked(S)
  /\ Set(c, RolledBack(call[c], "deadlock"))
  /\ UNCHANGED <<table, next, byKey, byId, rows, mine, load, faults>>

\* The statement is a transaction of its own.
Commit(c) ==
  /\ call[c].pc = "run" /\ call[c].todo = {}
  /\ table' = Merge(table, call[c].added)
  /\ Set(c, [call[c] EXCEPT !.pc = "cache", !.added = << >>])
  /\ UNCHANGED <<next, byKey, byId, rows, mine, load, faults>>

\* insert_cached, one row of the result after the other.
Cache(c) ==
  LET s == call[c]
      i == Home[c]
  IN /\ s.pc = "cache"
     /\ IF s.got = << >>
        THEN Set(c, [s EXCEPT !.pc = "write"]) /\ UNCHANGED <<byKey, byId>>
        ELSE \E k \in DOMAIN s.got :
               /\ byKey' = [byKey EXCEPT ![i] = Extend(@, k, s.got[k])]
               /\ byId' = [byId EXCEPT ![i] = Extend(@, s.got[k], k)]
               /\ Set(c, [s EXCEPT !.got = Restrict(@, DOMAIN @ \ {k})])
     /\ UNCHANGED <<table, next, rows, mine, load, faults>>

-----------------------------------------------------------------------------
(* The rest of a request, and what may go wrong.                           *)

\* The row of the object, its strings replaced by the ids of the cache.
WriteRow(c) ==
  LET s == call[c]
      written == [object |-> s.object, row |-> Payload(byKey[Home[c]], s.object)]
  IN /\ s.pc = "write"
     /\ rows' = rows \cup {written}
     /\ mine' = [mine EXCEPT ![Home[c]] = @ \cup {written}]
     /\ Set(c, Idle)
     /\ UNCHANGED <<table, next, byKey, byId, load, faults>>

\* Mutant: the ids are cached as they come in, and the statement fails then.
StatementFailsCached(c) ==
  /\ Running(c) /\ Fault
  /\ Set(c, [call[c] EXCEPT !.pc = "cache", !.added = << >>])
  /\ UNCHANGED <<table, next, byKey, byId, rows, mine, load>>
\* The statement fails or its connection is lost before it commits.
StatementFails(c) ==
  /\ Running(c) /\ Fault
  /\ Set(c, RolledBack(call[c], "error"))
  /\ UNCHANGED <<table, next, byKey, byId, rows, mine, load>>

\* It commits and the answer is lost: nothing is cached.
CommitUnacknowledged(c) ==
  /\ call[c].pc = "run" /\ call[c].todo = {} /\ Fault
  /\ table' = Merge(table, call[c].added)
  /\ Set(c, RolledBack(call[c], "error"))
  /\ UNCHANGED <<next, byKey, byId, rows, mine, load>>

\* The handler is dropped with its connection, after any step of its own.
Abandon(c) ==
  /\ call[c].pc \in {"run", "cache", "write"} /\ Fault
  /\ Set(c, Idle)
  /\ UNCHANGED <<table, next, byKey, byId, rows, mine, load>>

\* A process ends with its requests and loads the dictionary when it starts.
Restart(i) ==
  /\ Fault
  /\ call' = [c \in Callers |-> IF Home[c] = i THEN Idle ELSE call[c]]
  /\ byKey' = [byKey EXCEPT ![i] = table]
  /\ byId' = [byId EXCEPT ![i] = Inverted(table)]
  /\ mine' = [mine EXCEPT ![i] = rows]
  /\ UNCHANGED <<table, next, rows, load>>

\* The error reaches the client.
Return(c) ==
  /\ call[c].pc = "failed"
  /\ Set(c, Idle)
  /\ UNCHANGED <<table, next, byKey, byId, rows, mine, load, faults>>

Own(c) ==
  \/ Look(c) \/ Insert(c) \/ Exhausted(c) \/ Waited(c) \/ AbortDeadlock(c)
  \/ Commit(c) \/ Cache(c) \/ WriteRow(c) \/ Return(c)

Next ==
  \/ \E c \in Callers :
       Begin(c) \/ Own(c) \/ StatementFails(c) \/ CommitUnacknowledged(c) \/ Abandon(c)
  \/ \E i \in Instances : Restart(i)

Spec == Init /\ [][Next]_vars /\ \A c \in Callers : WF_vars(Own(c))

-----------------------------------------------------------------------------
(* Properties.                                                             *)

Steps == {"run", "insert", "wait", "cache", "write", "failed"}

\* Ids are drawn from the sequence and a key has one id.
TypeOK ==
  /\ next \in 1 .. MaxId + 1
  /\ \A k \in DOMAIN table : table[k] \in 1 .. next - 1
  /\ IsInjective(table)
  /\ \A c \in Callers : call[c] = Idle \/ call[c].pc \in Steps
  /\ faults \in 0 .. MaxFaults

\* A cached id is the id of a committed row, in both directions: ids of
\* transactions that roll back never reach a cache (ensure_many caches after
\* fetch_all has returned).
CacheAgrees ==
  \A i \in Instances :
    /\ \A k \in DOMAIN byKey[i] : k \in DOMAIN table /\ byKey[i][k] = table[k]
    /\ \A id \in DOMAIN byId[i] : byId[i][id] \in DOMAIN table /\ table[byId[i][id]] = id

\* What a request interned up front is all its row needs: no string is left
\* to a statement of its own, which collectors and payloads must agree on.
PreloadCovers ==
  \A c \in Callers :
    call[c].pc = "write" => Complete(Payload(byKey[Home[c]], call[c].object))

\* A row this process wrote or found is read back by it as it was submitted,
\* its strings trimmed: payloads and builders agree on the meaning of every
\* field, and the ids still stand for the same strings.
OwnRowsReadable ==
  \A i \in Instances : \A w \in mine[i] : Build(byId[i], w.row) = ReadBack(w.object)

\* A request that brings no new string never waits for another one, so it
\* fails neither in a deadlock nor for want of ids.
KnownStringsAreFree ==
  \A c \in Callers :
    call[c] # Idle /\ call[c].known => call[c].pc # "wait" /\ call[c].why \in {Null, "error"}

\* Every request comes to its end, also those that wait for each other.
EveryCallReturns == \A c \in Callers : call[c] # Idle ~> call[c] = Idle
=============================================================================
