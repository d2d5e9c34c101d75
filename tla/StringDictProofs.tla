-------------------------- MODULE StringDictProofs --------------------------
(***************************************************************************)
(* The caches of the dictionary agree with its table, and what is written  *)
(* with them is read back, for any processes, requests, strings and        *)
(* failures.                                                               *)
(*                                                                         *)
(* The invariant says where the ids are that a transaction has drawn: in   *)
(* no row of the table and in no other transaction, under keys that nobody *)
(* else has; and that what a call has found so far is either in the table  *)
(* or among its own rows, which a commit puts there.                       *)
(***************************************************************************)
EXTENDS StringDict, TLAPS

Open == {"run", "insert", "wait"}

Fields == {"pc", "object", "todo", "added", "got", "key", "drawn", "why", "known"}
IsCall(s) == s = [x \in Fields |-> s[x]] /\ s.pc \in Steps

\* The rows, the drawn id and the findings of one call, against table t whose
\* next id is n.
Good(s, t, n) ==
  /\ s.pc \notin Open => DOMAIN s.added = {}
  /\ \A k \in DOMAIN s.added : k \notin DOMAIN t /\ s.added[k] \in 1 .. n - 1
  /\ \A k \in DOMAIN s.added, j \in DOMAIN t : s.added[k] # t[j]
  /\ \A k, j \in DOMAIN s.added : s.added[k] = s.added[j] => k = j
  /\ s.pc = "wait" => /\ s.drawn \in 1 .. n - 1
                      /\ \A j \in DOMAIN t : t[j] # s.drawn
                      /\ \A k \in DOMAIN s.added : s.added[k] # s.drawn
  /\ \A k \in DOMAIN s.got : \/ k \in DOMAIN t /\ s.got[k] = t[k]
                             \/ k \in DOMAIN s.added /\ s.got[k] = s.added[k]

\* Two calls share no key and no id.
Apart(s, r) ==
  /\ \A k \in DOMAIN s.added, j \in DOMAIN r.added : k # j /\ s.added[k] # r.added[j]
  /\ r.pc = "wait" => \A k \in DOMAIN s.added : s.added[k] # r.drawn
  /\ s.pc = "wait" => \A k \in DOMAIN r.added : r.added[k] # s.drawn
  /\ s.pc = "wait" /\ r.pc = "wait" => s.drawn # r.drawn

TableOK ==
  /\ next \in 1 .. MaxId + 1
  /\ \A k \in DOMAIN table : table[k] \in 1 .. next - 1
  /\ \A k, j \in DOMAIN table : table[k] = table[j] => k = j

CallsOK ==
  /\ call = [c \in Callers |-> call[c]]
  /\ \A c \in Callers : call[c] # Idle => IsCall(call[c]) /\ Good(call[c], table, next)
  /\ \A c, d \in Callers :
       c # d /\ call[c] # Idle /\ call[d] # Idle => Apart(call[c], call[d])

\* A call that found all its strings in the table needs no id.
KnownOK ==
  \A c \in Callers : call[c] # Idle /\ call[c].known =>
    /\ call[c].pc \notin {"insert", "wait"} /\ call[c].why \in {Null, "error"}
    /\ call[c].todo \subseteq DOMAIN table

CachesOK ==
  /\ byKey = [i \in Instances |-> byKey[i]] /\ byId = [i \in Instances |-> byId[i]]
  /\ CacheAgrees

DictInv == TableOK /\ CallsOK /\ KnownOK /\ CachesOK /\ faults \in 0 .. MaxFaults

-----------------------------------------------------------------------------
(* Facts about records and functions.                                      *)

LEMMA IdlePc == Idle.pc = "idle"
  BY DEF Idle

LEMMA TookIs ==
  ASSUME NEW s, IsCall(s), NEW k, NEW id
  PROVE  /\ IsCall(Took(s, k, id))
         /\ Took(s, k, id).pc = "run" /\ Took(s, k, id).added = s.added
         /\ Took(s, k, id).got = Extend(s.got, k, id) /\ Took(s, k, id).todo = s.todo \ {k}
         /\ Took(s, k, id).drawn = s.drawn /\ Took(s, k, id).known = s.known
         /\ Took(s, k, id).why = s.why /\ Took(s, k, id).object = s.object
  BY DEF Took, IsCall, Fields, Steps

LEMMA RolledBackIs ==
  ASSUME NEW s, IsCall(s), NEW why
  PROVE  /\ IsCall(RolledBack(s, why))
         /\ RolledBack(s, why).pc = "failed" /\ DOMAIN RolledBack(s, why).added = {}
         /\ DOMAIN RolledBack(s, why).got = {} /\ RolledBack(s, why).why = why
         /\ RolledBack(s, why).todo = s.todo /\ RolledBack(s, why).known = s.known
<1>1. /\ IsCall(RolledBack(s, why))
      /\ RolledBack(s, why).pc = "failed" /\ RolledBack(s, why).added = << >>
      /\ RolledBack(s, why).got = << >> /\ RolledBack(s, why).why = why
      /\ RolledBack(s, why).todo = s.todo /\ RolledBack(s, why).known = s.known
  BY DEF RolledBack, IsCall, Fields, Steps
<1>2. DOMAIN << >> = {}
  OBVIOUS
<1>3. QED
  BY <1>1, <1>2

-----------------------------------------------------------------------------
(* Steps of one call that leave the table as it is.                        *)

\* What a call becomes: nothing, or one that is good against the table and
\* apart from the others.
Becomes(c, new, n) ==
  \/ new = Idle
  \/ /\ IsCall(new) /\ Good(new, table, n)
     /\ \A d \in Callers \ {c} : call[d] # Idle => Apart(new, call[d])
     /\ new.known => /\ new.pc \notin {"insert", "wait"} /\ new.why \in {Null, "error"}
                     /\ new.todo \subseteq DOMAIN table

LEMMA ApartSymmetric ==
  ASSUME NEW s, NEW r, Apart(s, r) PROVE Apart(r, s)
  BY DEF Apart

\* Ids drawn by others leave a call good.
LEMMA GoodLater ==
  ASSUME NEW s, NEW t, NEW n \in Int, NEW m \in Int, n <= m, Good(s, t, n)
  PROVE  Good(s, t, m)
  BY DEF Good

LEMMA CallStep ==
  ASSUME DictInv, NEW c \in Callers, NEW new, NEW n \in next .. MaxId + 1,
         Set(c, new), next' = n, table' = table, Becomes(c, new, n)
  PROVE  TableOK' /\ CallsOK' /\ KnownOK'
<1> USE DictAssumption
<1>1. /\ next \in Int /\ MaxId \in Nat
      /\ call' = [d \in Callers |-> IF d = c THEN new ELSE call[d]]
  BY DEF DictInv, TableOK, CallsOK, Set
<1>2. TableOK'
  BY <1>1 DEF DictInv, TableOK
<1>3. ASSUME NEW d \in Callers, call'[d] # Idle
      PROVE  IsCall(call'[d]) /\ Good(call'[d], table, n)
  <2>1. CASE d = c
    BY <1>1, <1>3, <2>1 DEF Becomes
  <2>2. CASE d # c
    BY <1>1, <1>3, <2>2, GoodLater DEF DictInv, CallsOK
  <2>3. QED
    BY <2>1, <2>2
<1>4. ASSUME NEW d \in Callers, NEW e \in Callers, d # e, call'[d] # Idle, call'[e] # Idle
      PROVE  Apart(call'[d], call'[e])
  <2>1. CASE d = c
    BY <1>1, <1>4, <2>1 DEF Becomes
  <2>2. CASE e = c
    BY <1>1, <1>4, <2>2, ApartSymmetric DEF Becomes
  <2>3. CASE d # c /\ e # c
    BY <1>1, <1>4, <2>3 DEF DictInv, CallsOK
  <2>4. QED
    BY <2>1, <2>2, <2>3
<1>5. CallsOK'
  BY <1>1, <1>3, <1>4 DEF CallsOK
<1>6. KnownOK'
  BY <1>1 DEF KnownOK, DictInv, Becomes
<1>7. QED
  BY <1>2, <1>5, <1>6

\* A call that holds nothing is good and apart from all others.
LEMMA HoldsNothing ==
  ASSUME DictInv, NEW c \in Callers, NEW new, IsCall(new), NEW n \in Int,
         DOMAIN new.added = {}, DOMAIN new.got = {}, new.pc # "wait",
         new.known => /\ new.pc # "insert" /\ new.why \in {Null, "error"}
                      /\ new.todo \subseteq DOMAIN table
  PROVE  Becomes(c, new, n)
  BY DEF Becomes, Good, Apart

\* What the invariant says of one call.
LEMMA CallFacts ==
  ASSUME DictInv, NEW c \in Callers, call[c] # Idle
  PROVE  /\ IsCall(call[c]) /\ Good(call[c], table, next)
         /\ \A d \in Callers \ {c} : call[d] # Idle => Apart(call[c], call[d])
         /\ call[c].known => /\ call[c].pc \notin {"insert", "wait"}
                             /\ call[c].why \in {Null, "error"}
                             /\ call[c].todo \subseteq DOMAIN table
         /\ next \in Int /\ next \in next .. MaxId + 1
<1>1. next \in Int /\ next \in next .. MaxId + 1
  BY DictAssumption DEF DictInv, TableOK
<1>2. QED
  BY <1>1 DEF DictInv, CallsOK, KnownOK

\* The caches and the faults do not move in a step of a call.
CallsAndTable == TableOK /\ CallsOK /\ KnownOK

LEMMA BeginSafe ==
  ASSUME DictInv, NEW c \in Callers, Begin(c) PROVE CallsAndTable'
<1> DEFINE missing == Entries(Head(load[c])) \ DOMAIN byKey[Home[c]]
           new == [pc |-> IF missing = {} THEN "write" ELSE "run", object |-> Head(load[c]),
                   todo |-> missing, added |-> << >>, got |-> << >>, key |-> Null, drawn |-> 0,
                   why |-> Null, known |-> missing \subseteq DOMAIN table]
<1>1. Set(c, new) /\ next' = next /\ table' = table
  BY DEF Begin
<1>2. IsCall(new) /\ new.added = << >> /\ new.got = << >> /\ new.pc \in {"run", "write"}
      /\ new.why = Null /\ new.todo = missing /\ new.known = (missing \subseteq DOMAIN table)
  <2> HIDE DEF missing
  <2>1. QED
    BY DEF IsCall, Fields, Steps
<1>3. next \in Int /\ next \in next .. MaxId + 1
  BY DictAssumption DEF DictInv, TableOK
<1>4. DOMAIN new.added = {} /\ DOMAIN new.got = {}
  BY <1>2
<1> HIDE DEF new
<1>5. Becomes(c, new, next)
  BY <1>2, <1>3, <1>4, HoldsNothing
<1>6. QED
  BY <1>1, <1>3, <1>5, CallStep DEF CallsAndTable

\* A call that found the id of a key is as good as it was.
LEMMA FoundGood ==
  ASSUME NEW s, NEW new, NEW t, NEW n, NEW k \in DOMAIN t, Good(s, t, n),
         s.pc \in Open, new.pc = "run", new.added = s.added, new.got = Extend(s.got, k, t[k])
  PROVE  Good(new, t, n)
<1> DEFINE g == Extend(s.got, k, t[k])
<1>1. DOMAIN g = DOMAIN s.got \cup {k} /\ g[k] = t[k]
  BY DEF Extend
<1>2. \A x \in DOMAIN s.got \ {k} : g[x] = s.got[x]
  BY DEF Extend
<1> HIDE DEF g
<1>3. ASSUME NEW j \in DOMAIN g
      PROVE  (j \in DOMAIN t /\ g[j] = t[j]) \/ (j \in DOMAIN s.added /\ g[j] = s.added[j])
  BY <1>1, <1>2, <1>3 DEF Good
<1>4. new.got = g
  BY DEF g
<1>5. QED
  BY <1>3, <1>4 DEF Good, Open

\* A call that found its key in the table, or goes on to insert it.
LEMMA LookSafe ==
  ASSUME DictInv, NEW c \in Callers, Look(c) PROVE CallsAndTable'
<1> DEFINE s == call[c]
<1>1. PICK k \in s.todo : Set(c, IF k \in DOMAIN table THEN Took(s, k, table[k])
                                 ELSE [s EXCEPT !.pc = "insert", !.key = k])
  BY DEF Look
<1>2. s.pc = "run" /\ s # Idle /\ next' = next /\ table' = table
  BY IdlePc DEF Look
<1>3. CASE k \in DOMAIN table
  <2> DEFINE new == Took(s, k, table[k])
  <2>1. Becomes(c, new, next)
    <3>1. IsCall(new) /\ new.pc = "run" /\ new.added = s.added /\ new.todo = s.todo \ {k}
          /\ new.got = Extend(s.got, k, table[k]) /\ new.known = s.known /\ new.why = s.why
      BY <1>2, CallFacts, TookIs
    <3>2. Good(new, table, next)
      BY <1>2, <1>3, <3>1, CallFacts, FoundGood DEF Open
    <3>3. ASSUME NEW d \in Callers \ {c}, call[d] # Idle PROVE Apart(new, call[d])
      BY <1>2, <3>1, <3>3, CallFacts DEF Apart
    <3> HIDE DEF new, s
    <3>4. QED
      BY <1>2, <3>1, <3>2, <3>3, CallFacts DEF Becomes, s
  <2>2. QED
    BY <1>1, <1>2, <1>3, <2>1, CallFacts, CallStep DEF CallsAndTable
<1>4. CASE k \notin DOMAIN table
  <2> DEFINE new == [s EXCEPT !.pc = "insert", !.key = k]
  <2>1. Becomes(c, new, next)
    <3>1. IsCall(new) /\ new.pc = "insert" /\ new.added = s.added /\ new.todo = s.todo
          /\ new.got = s.got /\ new.known = s.known /\ new.why = s.why
      BY <1>2, CallFacts DEF IsCall, Fields, Steps
    <3>2. ~s.known
      BY <1>2, <1>4, CallFacts
    <3> HIDE DEF new, s
    <3>3. Good(new, table, next)
      BY <1>2, <3>1, CallFacts DEF Good, Open, s
    <3>4. ASSUME NEW d \in Callers \ {c}, call[d] # Idle PROVE Apart(new, call[d])
      BY <1>2, <3>1, <3>4, CallFacts DEF Apart, s
    <3>5. QED
      BY <3>1, <3>2, <3>3, <3>4 DEF Becomes
  <2>2. QED
    BY <1>1, <1>2, <1>4, <2>1, CallFacts, CallStep DEF CallsAndTable
<1>5. QED
  BY <1>3, <1>4

\* A call that inserts a row under an id that nobody has.
LEMMA AddedGood ==
  ASSUME NEW s, NEW new, NEW t, NEW n \in Int, NEW m \in Int, n <= m, NEW k, NEW id \in 1 .. m - 1,
         Good(s, t, n), s.pc \in Open, k \notin DOMAIN t,
         \A j \in DOMAIN t : t[j] # id, \A j \in DOMAIN s.added : s.added[j] # id,
         new.pc = "run", new.added = Extend(s.added, k, id), new.got = Extend(s.got, k, id)
  PROVE  Good(new, t, m)
<1> DEFINE a == Extend(s.added, k, id)
           g == Extend(s.got, k, id)
<1>1. DOMAIN a = DOMAIN s.added \cup {k} /\ a[k] = id
      /\ \A x \in DOMAIN s.added \ {k} : a[x] = s.added[x]
  BY DEF Extend
<1>2. DOMAIN g = DOMAIN s.got \cup {k} /\ g[k] = id
      /\ \A x \in DOMAIN s.got \ {k} : g[x] = s.got[x]
  BY DEF Extend
<1> HIDE DEF a, g
<1>3. ASSUME NEW j \in DOMAIN a
      PROVE  /\ j \notin DOMAIN t /\ a[j] \in 1 .. m - 1
             /\ \A i \in DOMAIN t : a[j] # t[i]
             /\ \A i \in DOMAIN a : a[j] = a[i] => j = i
  BY <1>1, <1>3 DEF Good
<1>4. ASSUME NEW j \in DOMAIN g
      PROVE  (j \in DOMAIN t /\ g[j] = t[j]) \/ (j \in DOMAIN a /\ g[j] = a[j])
  BY <1>1, <1>2, <1>4 DEF Good
<1>5. new.added = a /\ new.got = g
  BY DEF a, g
<1>6. QED
  BY <1>3, <1>4, <1>5 DEF Good, Open

LEMMA AddedApart ==
  ASSUME NEW s, NEW new, NEW r, NEW k, NEW id, Apart(s, r), new.pc = "run",
         new.added = Extend(s.added, k, id), k \notin DOMAIN r.added,
         \A j \in DOMAIN r.added : r.added[j] # id, r.pc = "wait" => r.drawn # id
  PROVE  Apart(new, r)
<1> DEFINE a == Extend(s.added, k, id)
<1>1. DOMAIN a = DOMAIN s.added \cup {k} /\ a[k] = id
      /\ \A x \in DOMAIN s.added \ {k} : a[x] = s.added[x]
  BY DEF Extend
<1> HIDE DEF a
<1>2. new.added = a
  BY DEF a
<1>3. QED
  BY <1>1, <1>2 DEF Apart

\* No other call has the key: those that run because they are no holders, the
\* others because they hold nothing.
LEMMA NoHolder ==
  ASSUME DictInv, NEW c \in Callers, NEW k, Holders(k, c) = {},
         NEW d \in Callers \ {c}, call[d] # Idle
  PROVE  k \notin DOMAIN call[d].added
<1>1. CASE Running(d)
  BY <1>1 DEF Holders, Held
<1>2. CASE ~Running(d)
  BY <1>2, CallFacts DEF Running, Good, Open
<1>3. QED
  BY <1>1, <1>2

LEMMA InsertSafe ==
  ASSUME DictInv, NEW c \in Callers, Insert(c) PROVE CallsAndTable'
<1> DEFINE s == call[c]
           k == s.key
<1>1. /\ s.pc = "insert" /\ s # Idle /\ next' = next + 1 /\ table' = table
      /\ next \in Int /\ next + 1 \in next .. MaxId + 1 /\ next \in 1 .. (next + 1) - 1
  BY IdlePc, DictAssumption DEF Insert, DictInv, TableOK
<1>2. /\ IsCall(s) /\ Good(s, table, next) /\ ~s.known
      /\ \A d \in Callers \ {c} : call[d] # Idle => Apart(s, call[d])
  BY <1>1, CallFacts
<1>3. /\ \A j \in DOMAIN table : table[j] # next
      /\ \A d \in Callers : call[d] # Idle =>
           /\ \A j \in DOMAIN call[d].added : call[d].added[j] # next
           /\ call[d].pc = "wait" => call[d].drawn # next
  <2>1. \A j \in DOMAIN table : table[j] # next
    BY <1>1 DEF DictInv, TableOK
  <2>2. ASSUME NEW d \in Callers, call[d] # Idle
        PROVE  /\ \A j \in DOMAIN call[d].added : call[d].added[j] # next
               /\ call[d].pc = "wait" => call[d].drawn # next
    BY <1>1, <2>2, CallFacts DEF Good
  <2>3. QED
    BY <2>1, <2>2
<1>4. CASE k \in DOMAIN table \/ Holders(k, c) # {}
  <2> DEFINE new == [s EXCEPT !.pc = "wait", !.drawn = next]
  <2>1. IsCall(new) /\ new.pc = "wait" /\ new.drawn = next /\ new.added = s.added
        /\ new.got = s.got /\ new.known = s.known
    BY <1>2 DEF IsCall, Fields, Steps
  <2>2. Set(c, new)
    BY <1>4 DEF Insert
  <2> HIDE DEF new, s
  <2>3. Good(new, table, next + 1)
    BY <1>1, <1>2, <1>3, <2>1 DEF Good, Open, s
  <2>4. ASSUME NEW d \in Callers \ {c}, call[d] # Idle PROVE Apart(new, call[d])
    BY <1>2, <1>3, <2>1, <2>4 DEF Apart
  <2>5. Becomes(c, new, next + 1)
    BY <1>2, <2>1, <2>3, <2>4 DEF Becomes
  <2>6. QED
    BY <1>1, <2>2, <2>5, CallStep DEF CallsAndTable
<1>5. CASE k \notin DOMAIN table /\ Holders(k, c) = {}
  <2> DEFINE took == Took(s, k, next)
             new == [took EXCEPT !.added = Extend(@, k, next)]
  <2>1. IsCall(took) /\ took.pc = "run" /\ took.added = s.added
        /\ took.got = Extend(s.got, k, next) /\ took.known = s.known
    BY <1>2, TookIs
  <2>2. Set(c, new)
    BY <1>5 DEF Insert
  <2> HIDE DEF took
  <2>3. IsCall(new) /\ new.pc = "run" /\ new.added = Extend(s.added, k, next)
        /\ new.got = Extend(s.got, k, next) /\ new.known = s.known
    BY <2>1 DEF IsCall, Fields, Steps
  <2> HIDE DEF new
  <2>4. Good(new, table, next + 1)
    BY <1>1, <1>2, <1>3, <1>5, <2>3, AddedGood DEF Open
  <2>5. ASSUME NEW d \in Callers \ {c}, call[d] # Idle PROVE Apart(new, call[d])
    <3>1. k \notin DOMAIN call[d].added
      BY <1>5, <2>5, NoHolder
    <3>2. Apart(s, call[d])
      BY <1>2, <2>5
    <3>3. /\ \A j \in DOMAIN call[d].added : call[d].added[j] # next
          /\ call[d].pc = "wait" => call[d].drawn # next
      BY <1>3, <2>5
    <3>4. QED
      BY <2>3, <3>1, <3>2, <3>3, AddedApart
  <2>6. Becomes(c, new, next + 1)
    BY <1>2, <2>3, <2>4, <2>5 DEF Becomes
  <2>7. QED
    BY <1>1, <2>2, <2>6, CallStep DEF CallsAndTable
<1>6. QED
  BY <1>4, <1>5

\* The id drawn before the wait is still nobody's.
LEMMA WaitedSafe ==
  ASSUME DictInv, NEW c \in Callers, Waited(c) PROVE CallsAndTable'
<1> DEFINE s == call[c]
           k == s.key
<1>1. /\ s.pc = "wait" /\ s # Idle /\ next' = next /\ table' = table /\ Holders(k, c) = {}
      /\ next \in Int /\ next \in next .. MaxId + 1
  BY IdlePc, DictAssumption DEF Waited, DictInv, TableOK
<1>2. /\ IsCall(s) /\ Good(s, table, next) /\ ~s.known
      /\ \A d \in Callers \ {c} : call[d] # Idle => Apart(s, call[d])
  BY <1>1, CallFacts
<1>3. CASE k \in DOMAIN table
  <2> DEFINE took == Took(s, k, table[k])
             new == [took EXCEPT !.drawn = 0]
  <2>1. IsCall(took) /\ took.pc = "run" /\ took.added = s.added
        /\ took.got = Extend(s.got, k, table[k]) /\ took.known = s.known
    BY <1>2, TookIs
  <2>2. Set(c, new)
    BY <1>3 DEF Waited
  <2> HIDE DEF took
  <2>3. IsCall(new) /\ new.pc = "run" /\ new.added = s.added
        /\ new.got = Extend(s.got, k, table[k]) /\ new.known = s.known
    BY <2>1 DEF IsCall, Fields, Steps
  <2> HIDE DEF new
  <2>4. Good(new, table, next)
    BY <1>1, <1>2, <1>3, <2>3, FoundGood DEF Open
  <2>5. ASSUME NEW d \in Callers \ {c}, call[d] # Idle PROVE Apart(new, call[d])
    BY <1>2, <2>3, <2>5 DEF Apart
  <2>6. Becomes(c, new, next)
    BY <1>2, <2>3, <2>4, <2>5 DEF Becomes
  <2>7. QED
    BY <1>1, <2>2, <2>6, CallStep DEF CallsAndTable
<1>4. CASE k \notin DOMAIN table
  <2> DEFINE took == Took(s, k, s.drawn)
             added == [took EXCEPT !.added = Extend(@, k, s.drawn)]
             new == [added EXCEPT !.drawn = 0]
  <2>1. IsCall(took) /\ took.pc = "run" /\ took.added = s.added
        /\ took.got = Extend(s.got, k, s.drawn) /\ took.known = s.known
    BY <1>2, TookIs
  <2>2. Set(c, new)
    BY <1>4 DEF Waited
  <2> HIDE DEF took
  <2>3. IsCall(added) /\ added.pc = "run" /\ added.added = Extend(s.added, k, s.drawn)
        /\ added.got = Extend(s.got, k, s.drawn) /\ added.known = s.known
    BY <2>1 DEF IsCall, Fields, Steps
  <2> HIDE DEF added
  <2>4. IsCall(new) /\ new.pc = "run" /\ new.added = Extend(s.added, k, s.drawn)
        /\ new.got = Extend(s.got, k, s.drawn) /\ new.known = s.known
    BY <2>3 DEF IsCall, Fields, Steps
  <2> HIDE DEF new
  <2>5. /\ s.drawn \in 1 .. next - 1 /\ \A j \in DOMAIN table : table[j] # s.drawn
        /\ \A j \in DOMAIN s.added : s.added[j] # s.drawn
    BY <1>1, <1>2 DEF Good
  <2>6. Good(new, table, next)
    BY <1>1, <1>2, <1>4, <2>4, <2>5, AddedGood DEF Open
  <2>7. ASSUME NEW d \in Callers \ {c}, call[d] # Idle PROVE Apart(new, call[d])
    <3>1. k \notin DOMAIN call[d].added
      BY <1>1, <2>7, NoHolder
    <3>2. Apart(s, call[d])
      BY <1>2, <2>7
    <3>3. /\ \A j \in DOMAIN call[d].added : call[d].added[j] # s.drawn
          /\ call[d].pc = "wait" => call[d].drawn # s.drawn
      BY <1>1, <3>2 DEF Apart
    <3>4. QED
      BY <2>4, <3>1, <3>2, <3>3, AddedApart
  <2>8. Becomes(c, new, next)
    BY <1>2, <2>4, <2>6, <2>7 DEF Becomes
  <2>9. QED
    BY <1>1, <2>2, <2>8, CallStep DEF CallsAndTable
<1>5. QED
  BY <1>3, <1>4

\* The steps after which a call holds nothing.
LEMMA EndsSafe ==
  ASSUME DictInv, NEW c \in Callers,
         \/ Exhausted(c) \/ AbortDeadlock(c) \/ StatementFails(c) \/ Return(c)
         \/ WriteRow(c) \/ Abandon(c)
  PROVE  CallsAndTable'
<1> DEFINE s == call[c]
<1>1. next' = next /\ table' = table /\ next \in next .. MaxId + 1 /\ next \in Int
  BY DictAssumption DEF Exhausted, AbortDeadlock, StatementFails, Return, WriteRow, Abandon, DictInv, TableOK
<1>2. CASE Return(c) \/ WriteRow(c) \/ Abandon(c)
  <2>1. Set(c, Idle)
    BY <1>2 DEF Return, WriteRow, Abandon
  <2>2. Becomes(c, Idle, next)
    BY DEF Becomes
  <2>3. QED
    BY <1>1, <2>1, <2>2, CallStep DEF CallsAndTable
<1>3. ASSUME NEW why, s # Idle, Set(c, RolledBack(s, why)),
             s.known => why = "error" /\ s.todo \subseteq DOMAIN table
      PROVE  CallsAndTable'
  <2> DEFINE new == RolledBack(s, why)
  <2>1. IsCall(new) /\ new.pc = "failed" /\ DOMAIN new.added = {} /\ DOMAIN new.got = {}
        /\ new.why = why /\ new.todo = s.todo /\ new.known = s.known
    BY <1>3, CallFacts, RolledBackIs
  <2>2. Becomes(c, new, next)
    <3> HIDE DEF new
    <3>1. QED
      BY <1>1, <1>3, <2>1, HoldsNothing
  <2>3. QED
    BY <1>1, <1>3, <2>2, CallStep DEF CallsAndTable
<1>4. CASE Exhausted(c)
  <2>1. s.pc = "insert" /\ s # Idle /\ Set(c, RolledBack(s, "exhausted"))
    BY <1>4, IdlePc DEF Exhausted
  <2>2. ~s.known
    BY <2>1, CallFacts
  <2>3. QED
    BY <1>3, <2>1, <2>2
<1>5. CASE AbortDeadlock(c)
  <2>1. s.pc = "wait" /\ s # Idle /\ Set(c, RolledBack(s, "deadlock"))
    BY <1>5, IdlePc DEF AbortDeadlock, Deadlocked
  <2>2. ~s.known
    BY <2>1, CallFacts
  <2>3. QED
    BY <1>3, <2>1, <2>2
<1>6. CASE StatementFails(c)
  <2>1. s # Idle /\ Set(c, RolledBack(s, "error"))
    BY <1>6, IdlePc DEF StatementFails, Running
  <2>2. s.known => s.todo \subseteq DOMAIN table
    BY <2>1, CallFacts
  <2>3. QED
    BY <1>3, <2>1, <2>2
<1>7. QED
  BY <1>2, <1>4, <1>5, <1>6

-----------------------------------------------------------------------------
(* A commit moves the rows of one call into the table.                     *)

\* What the table becomes.
LEMMA CommittedTable ==
  ASSUME DictInv, NEW c \in Callers, call[c] # Idle, table' = Merge(table, call[c].added), next' = next
  PROVE  /\ TableOK'
         /\ \A k \in DOMAIN table : k \in DOMAIN table' /\ table'[k] = table[k]
         /\ \A k \in DOMAIN call[c].added : k \in DOMAIN table' /\ table'[k] = call[c].added[k]
         /\ DOMAIN table' = DOMAIN table \cup DOMAIN call[c].added
<1> DEFINE a == call[c].added
<1>1. Good(call[c], table, next)
  BY CallFacts
<1>2. /\ DOMAIN table' = DOMAIN table \cup DOMAIN a
      /\ \A k \in DOMAIN a : table'[k] = a[k]
      /\ \A k \in DOMAIN table \ DOMAIN a : table'[k] = table[k]
  BY DEF Merge
<1>3. \A k \in DOMAIN a : k \notin DOMAIN table
  BY <1>1 DEF Good
<1>4. \A k \in DOMAIN table : table'[k] = table[k]
  BY <1>2, <1>3
<1>5. /\ \A k \in DOMAIN table' : table'[k] \in 1 .. next - 1
      /\ \A k, j \in DOMAIN table' : table'[k] = table'[j] => k = j
  BY <1>1, <1>2, <1>4 DEF Good, DictInv, TableOK
<1>6. QED
  BY <1>2, <1>4, <1>5 DEF DictInv, TableOK

\* Every call, against the table with the rows of call c.
LEMMA CommittedGood ==
  ASSUME DictInv, NEW c \in Callers, call[c] # Idle, table' = Merge(table, call[c].added), next' = next,
         NEW d \in Callers \ {c}, call[d] # Idle
  PROVE  Good(call[d], table', next)
<1>1. Good(call[d], table, next) /\ Apart(call[c], call[d])
  BY CallFacts
<1>2. /\ DOMAIN table' = DOMAIN table \cup DOMAIN call[c].added
      /\ \A k \in DOMAIN table : table'[k] = table[k]
      /\ \A k \in DOMAIN call[c].added : table'[k] = call[c].added[k]
  BY CommittedTable
<1>3. QED
  BY <1>1, <1>2 DEF Good, Apart

LEMMA CommitSafe ==
  ASSUME DictInv, NEW c \in Callers, Commit(c) \/ CommitUnacknowledged(c)
  PROVE  /\ CallsAndTable'
         /\ \A k \in DOMAIN table : k \in DOMAIN table' /\ table'[k] = table[k]
<1> DEFINE s == call[c]
<1>1. /\ s.pc = "run" /\ s # Idle /\ next' = next /\ table' = Merge(table, s.added)
  BY IdlePc DEF Commit, CommitUnacknowledged
<1>2. /\ IsCall(s) /\ Good(s, table, next)
      /\ s.known => s.why \in {Null, "error"} /\ s.todo \subseteq DOMAIN table
  BY <1>1, CallFacts
<1>3. /\ TableOK' /\ \A k \in DOMAIN table : k \in DOMAIN table' /\ table'[k] = table[k]
      /\ \A k \in DOMAIN s.added : k \in DOMAIN table' /\ table'[k] = s.added[k]
  BY <1>1, CommittedTable
<1>4. PICK new : /\ Set(c, new) /\ IsCall(new) /\ new.pc \in {"cache", "failed"}
                 /\ DOMAIN new.added = {} /\ (new.got = s.got \/ DOMAIN new.got = {})
                 /\ new.known = s.known /\ new.todo = s.todo
                 /\ new.why \in {s.why, "error"}
  <2>1. CASE Commit(c)
    <3> DEFINE new == [s EXCEPT !.pc = "cache", !.added = << >>]
    <3>1. IsCall(new) /\ new.pc = "cache" /\ new.added = << >> /\ new.got = s.got
          /\ new.known = s.known /\ new.todo = s.todo /\ new.why = s.why
      BY <1>2 DEF IsCall, Fields, Steps
    <3>2. Set(c, new)
      BY <2>1 DEF Commit
    <3>3. DOMAIN << >> = {}
      OBVIOUS
    <3> HIDE DEF new
    <3>4. QED
      BY <3>1, <3>2, <3>3
  <2>2. CASE CommitUnacknowledged(c)
    <3>1. Set(c, RolledBack(s, "error"))
      BY <2>2 DEF CommitUnacknowledged
    <3>2. QED
      BY <1>2, <3>1, RolledBackIs
  <2>3. QED
    BY <2>1, <2>2
<1>5. call' = [d \in Callers |-> IF d = c THEN new ELSE call[d]]
  BY <1>4 DEF Set, DictInv, CallsOK
<1>6. ASSUME NEW d \in Callers, call'[d] # Idle
      PROVE  IsCall(call'[d]) /\ Good(call'[d], table', next)
  <2>1. CASE d = c
    <3>1. \A k \in DOMAIN s.got : k \in DOMAIN table' /\ table'[k] = s.got[k]
      BY <1>2, <1>3 DEF Good
    <3>2. QED
      BY <1>4, <1>5, <2>1, <3>1 DEF Good, Open
  <2>2. CASE d # c
    BY <1>1, <1>5, <1>6, <2>2, CallFacts, CommittedGood
  <2>3. QED
    BY <2>1, <2>2
<1>7. ASSUME NEW d \in Callers, NEW e \in Callers, d # e, call'[d] # Idle, call'[e] # Idle
      PROVE  Apart(call'[d], call'[e])
  <2>1. ASSUME NEW r PROVE Apart(new, r) /\ Apart(r, new)
    BY <1>4 DEF Apart
  <2>2. CASE d = c \/ e = c
    BY <1>5, <2>1, <2>2
  <2>3. CASE d # c /\ e # c
    BY <1>5, <1>7, <2>3 DEF DictInv, CallsOK
  <2>4. QED
    BY <2>2, <2>3
<1>8. CallsOK'
  BY <1>1, <1>5, <1>6, <1>7 DEF CallsOK
<1>9. KnownOK'
  <2>1. ASSUME NEW d \in Callers, call'[d] # Idle, call'[d].known
        PROVE  /\ call'[d].pc \notin {"insert", "wait"} /\ call'[d].why \in {Null, "error"}
               /\ call'[d].todo \subseteq DOMAIN table'
    <3>1. CASE d = c
      BY <1>2, <1>3, <1>4, <1>5, <2>1, <3>1
    <3>2. CASE d # c
      BY <1>3, <1>5, <2>1, <3>2 DEF DictInv, KnownOK
    <3>3. QED
      BY <3>1, <3>2
  <2>2. QED
    BY <2>1 DEF KnownOK
<1>10. QED
  BY <1>3, <1>8, <1>9 DEF CallsAndTable

-----------------------------------------------------------------------------
(* The caches.                                                             *)

\* A cache that agrees goes on agreeing while ids stay with their keys.
LEMMA CachesStay ==
  ASSUME DictInv, UNCHANGED <<byKey, byId>>,
         \A k \in DOMAIN table : k \in DOMAIN table' /\ table'[k] = table[k]
  PROVE  CachesOK'
<1>1. \A i \in Instances :
        /\ \A k \in DOMAIN byKey[i] : k \in DOMAIN table' /\ byKey[i][k] = table'[k]
        /\ \A id \in DOMAIN byId[i] : byId[i][id] \in DOMAIN table' /\ table'[byId[i][id]] = id
  BY DEF DictInv, CachesOK, CacheAgrees
<1>2. QED
  BY <1>1 DEF DictInv, CachesOK, CacheAgrees

LEMMA CacheSafe ==
  ASSUME DictInv, NEW c \in Callers, Cache(c) PROVE CallsAndTable' /\ CachesOK'
<1> DEFINE s == call[c]
           i == Home[c]
<1>1. /\ s.pc = "cache" /\ s # Idle /\ next' = next /\ table' = table
      /\ next \in Int /\ next \in next .. MaxId + 1
  BY IdlePc, DictAssumption DEF Cache, DictInv, TableOK
<1>2. /\ IsCall(s) /\ Good(s, table, next)
      /\ s.known => s.why \in {Null, "error"} /\ s.todo \subseteq DOMAIN table
  BY <1>1, CallFacts
<1>3. DOMAIN s.added = {} /\ \A k \in DOMAIN s.got : k \in DOMAIN table /\ s.got[k] = table[k]
  BY <1>1, <1>2 DEF Good, Open
<1>4. CASE s.got = << >>
  <2> DEFINE new == [s EXCEPT !.pc = "write"]
  <2>1. IsCall(new) /\ new.pc = "write" /\ new.added = s.added /\ new.got = s.got
        /\ new.known = s.known /\ new.todo = s.todo /\ new.why = s.why
    BY <1>2 DEF IsCall, Fields, Steps
  <2>2. Set(c, new) /\ UNCHANGED <<byKey, byId>>
    BY <1>4 DEF Cache
  <2>3. DOMAIN s.got = {}
    BY <1>4
  <2> HIDE DEF new
  <2>4. Becomes(c, new, next)
    BY <1>1, <1>2, <1>3, <2>1, <2>3, HoldsNothing
  <2>5. QED
    BY <1>1, <2>2, <2>4, CallStep, CachesStay DEF CallsAndTable
<1>5. CASE s.got # << >>
  <2>1. PICK k \in DOMAIN s.got :
          /\ byKey' = [byKey EXCEPT ![i] = Extend(@, k, s.got[k])]
          /\ byId' = [byId EXCEPT ![i] = Extend(@, s.got[k], k)]
          /\ Set(c, [s EXCEPT !.got = Restrict(@, DOMAIN @ \ {k})])
    BY <1>5 DEF Cache
  <2> DEFINE left == Restrict(s.got, DOMAIN s.got \ {k})
             new == [s EXCEPT !.got = left]
  <2>2. DOMAIN left \subseteq DOMAIN s.got /\ \A j \in DOMAIN left : left[j] = s.got[j]
    BY DEF Restrict
  <2> HIDE DEF left
  <2>3. IsCall(new) /\ new.pc = "cache" /\ new.added = s.added /\ new.got = left
        /\ new.known = s.known /\ new.todo = s.todo /\ new.why = s.why
    BY <1>1, <1>2 DEF IsCall, Fields, Steps
  <2>4. Set(c, new)
    BY <2>1 DEF left
  <2> HIDE DEF new
  <2>5. Becomes(c, new, next)
    <3>1. Good(new, table, next)
      BY <1>3, <2>2, <2>3 DEF Good, Open
    <3>2. ASSUME NEW d \in Callers \ {c} PROVE Apart(new, call[d])
      BY <1>3, <2>3 DEF Apart
    <3>3. QED
      BY <1>2, <2>3, <3>1, <3>2 DEF Becomes
  <2>6. k \in DOMAIN table /\ s.got[k] = table[k]
    BY <1>3, <2>1
  <2>7. CachesOK'
    <3> DEFINE id == table[k]
    <3>1. /\ byKey' = [j \in Instances |-> IF j = i THEN Extend(byKey[j], k, id) ELSE byKey[j]]
          /\ byId' = [j \in Instances |-> IF j = i THEN Extend(byId[j], id, k) ELSE byId[j]]
      BY <2>1, <2>6 DEF DictInv, CachesOK
    <3>2. ASSUME NEW j \in Instances
          PROVE  /\ \A x \in DOMAIN byKey'[j] : x \in DOMAIN table /\ byKey'[j][x] = table[x]
                 /\ \A y \in DOMAIN byId'[j] : byId'[j][y] \in DOMAIN table /\ table[byId'[j][y]] = y
      BY <2>6, <3>1 DEF Extend, DictInv, CachesOK, CacheAgrees
    <3>3. QED
      BY <1>1, <3>1, <3>2 DEF CachesOK, CacheAgrees
  <2>8. QED
    BY <1>1, <2>4, <2>5, <2>7, CallStep DEF CallsAndTable
<1>6. QED
  BY <1>4, <1>5

\* A process loads the table when it starts.
LEMMA RestartSafe ==
  ASSUME DictInv, NEW i \in Instances, Restart(i) PROVE CallsAndTable' /\ CachesOK'
<1>1. /\ next' = next /\ table' = table
      /\ call' = [c \in Callers |-> IF Home[c] = i THEN Idle ELSE call[c]]
  BY DEF Restart
<1>2. CallsAndTable'
  BY <1>1 DEF CallsAndTable, DictInv, TableOK, CallsOK, KnownOK
<1>3. /\ byKey' = [j \in Instances |-> IF j = i THEN table ELSE byKey[j]]
      /\ byId' = [j \in Instances |-> IF j = i THEN Inverted(table) ELSE byId[j]]
  BY DEF Restart, DictInv, CachesOK
<1>4. \A id \in DOMAIN Inverted(table) :
        Inverted(table)[id] \in DOMAIN table /\ table[Inverted(table)[id]] = id
  BY DEF Inverted
<1>5. CachesOK'
  BY <1>1, <1>3, <1>4 DEF DictInv, CachesOK, CacheAgrees
<1>6. QED
  BY <1>2, <1>5

-----------------------------------------------------------------------------
(* The invariant and what it implies.                                      *)

LEMMA InitSafe == Init => DictInv
<1> SUFFICES ASSUME Init PROVE DictInv
  OBVIOUS
<1>1. DOMAIN << >> = {}
  OBVIOUS
<1>2. table = << >> /\ next = 1 /\ faults = 0
      /\ byKey = [i \in Instances |-> << >>] /\ byId = [i \in Instances |-> << >>]
      /\ call = [c \in Callers |-> Idle]
  BY DEF Init
<1>3. TableOK /\ faults \in 0 .. MaxFaults
  BY <1>1, <1>2, DictAssumption DEF TableOK
<1>4. CallsOK /\ KnownOK
  BY <1>2 DEF CallsOK, KnownOK
<1>5. CachesOK
  BY <1>1, <1>2 DEF CachesOK, CacheAgrees
<1>6. QED
  BY <1>3, <1>4, <1>5 DEF DictInv

LEMMA NextSafe == DictInv /\ [Next]_vars => DictInv'
<1> SUFFICES ASSUME DictInv, [Next]_vars PROVE DictInv'
  OBVIOUS
<1>1. faults' \in 0 .. MaxFaults
  <2>1. CASE UNCHANGED vars
    BY <2>1 DEF vars, DictInv
  <2>2. ASSUME NEW c \in Callers, Begin(c) \/ Own(c) PROVE faults' = faults
    BY <2>2 DEF Own, Begin, Look, Insert, Exhausted, Waited, AbortDeadlock, Commit, Cache, WriteRow,
                Return
  <2>3. ASSUME NEW c \in Callers, StatementFails(c) \/ CommitUnacknowledged(c) \/ Abandon(c)
        PROVE  Fault
    BY <2>3 DEF StatementFails, CommitUnacknowledged, Abandon
  <2>4. ASSUME NEW i \in Instances, Restart(i) PROVE Fault
    BY <2>4 DEF Restart
  <2>5. Fault => faults' \in 0 .. MaxFaults
    BY DictAssumption DEF Fault, DictInv
  <2>6. QED
    BY <2>1, <2>2, <2>3, <2>4, <2>5 DEF Next, DictInv
<1>2. ASSUME NEW c \in Callers, Cache(c) PROVE CallsAndTable' /\ CachesOK'
  BY <1>2, CacheSafe
<1>3. ASSUME NEW c \in Callers, Commit(c) \/ CommitUnacknowledged(c)
      PROVE  CallsAndTable' /\ CachesOK'
  <2>1. UNCHANGED <<byKey, byId>>
    BY <1>3 DEF Commit, CommitUnacknowledged
  <2>2. QED
    BY <1>3, <2>1, CommitSafe, CachesStay
<1>4. ASSUME UNCHANGED <<table, byKey, byId>> PROVE CachesOK'
  BY <1>4, CachesStay
<1>5. ASSUME NEW c \in Callers, Begin(c) \/ Look(c) \/ Insert(c) \/ Waited(c)
      PROVE  CallsAndTable' /\ CachesOK'
  <2>1. UNCHANGED <<table, byKey, byId>>
    BY <1>5 DEF Begin, Look, Insert, Waited
  <2>2. QED
    BY <1>4, <1>5, <2>1, BeginSafe, LookSafe, InsertSafe, WaitedSafe
<1>6. ASSUME NEW c \in Callers, \/ Exhausted(c) \/ AbortDeadlock(c) \/ StatementFails(c)
                                \/ Return(c) \/ WriteRow(c) \/ Abandon(c)
      PROVE  CallsAndTable' /\ CachesOK'
  <2>1. UNCHANGED <<table, byKey, byId>>
    BY <1>6 DEF Exhausted, AbortDeadlock, StatementFails, Return, WriteRow, Abandon
  <2>2. QED
    BY <1>4, <1>6, <2>1, EndsSafe
<1>7. CASE UNCHANGED vars
  <2>1. UNCHANGED <<table, next, call, byKey, byId>>
    BY <1>7 DEF vars
  <2>2. CallsAndTable'
    BY <2>1 DEF CallsAndTable, DictInv, TableOK, CallsOK, KnownOK
  <2>3. QED
    BY <1>1, <1>4, <2>1, <2>2 DEF DictInv, CallsAndTable
<1>8. QED
  BY <1>1, <1>2, <1>3, <1>5, <1>6, <1>7, RestartSafe DEF Next, Own, DictInv, CallsAndTable

\* Ids and keys stay one to one, and what is not committed is apart.
THEOREM DictInvariant == Spec => []DictInv
  BY InitSafe, NextSafe, PTL DEF Spec

\* The sequence gives every key an id of its own, however many transactions
\* insert at once, wait for each other, fail or are aborted.
THEOREM TypeCorrect == Spec => []TypeOK
<1>1. DictInv => TypeOK
  BY DEF DictInv, TableOK, CallsOK, TypeOK, IsInjective, IsCall
<1>2. QED
  BY <1>1, DictInvariant, PTL

\* No process ever holds an id that was rolled back, or one under another
\* meaning or string, in either direction of its cache.
THEOREM CacheCorrect == Spec => []CacheAgrees
<1>1. DictInv => CacheAgrees
  BY DEF DictInv, CachesOK
<1>2. QED
  BY <1>1, DictInvariant, PTL

\* A request whose strings the table holds meets no deadlock and no exhausted
\* sequence, whatever others do.
THEOREM KnownCorrect == Spec => []KnownStringsAreFree
<1>1. DictInv => KnownStringsAreFree
  BY IdlePc DEF DictInv, KnownOK, CallsOK, KnownStringsAreFree
<1>2. QED
  BY <1>1, DictInvariant, PTL

-----------------------------------------------------------------------------
(* What the collectors gather is what the payloads look up, and the        *)
(* builders look up under the meaning it was written under.                *)

\* The keys of D answer for a string, or for a list of strings.
Covers(D, m, v) == v # Null /\ Trim(v) # Null => <<m, Trim(v)>> \in D
CoversAll(D, m, strings) == \A v \in strings : Trim(v) # Null => <<m, Trim(v)>> \in D
CoversText(D, styles) == CoversAll(D, "tweet_text_style_name", TextOf(styles))

LEMMA KeysCover ==
  ASSUME NEW D, NEW m, NEW strings, Keys(m, strings) \subseteq D
  PROVE  CoversAll(D, m, strings)
  BY DEF Keys, CoversAll

LEMMA OneCovers ==
  ASSUME NEW D, NEW m, NEW v, Keys(m, One(v)) \subseteq D
  PROVE  Covers(D, m, v)
  BY KeysCover DEF CoversAll, Covers, One

LEMMA TextCovers ==
  ASSUME NEW D, NEW styles, TextEntries(styles) \subseteq D
  PROVE  CoversText(D, styles)
  BY KeysCover DEF CoversText, TextEntries

\* Every field of an object, if D holds its entries.
Covered(D, o) ==
  CASE o.kind = "user_snapshot" ->
         /\ Covers(D, "tweet_user_avatar_shape", o.avatar_shape) /\ CoversText(D, o.bio)
         /\ Covers(D, "tweet_user_verification_type", o.verified_type)
         /\ Covers(D, "tweet_user_disclosure_relation", o.relation)
         /\ Covers(D, "tweet_user_parody_label", o.parody_label)
         /\ Covers(D, "tweet_user_professional_type", o.professional_type)
    [] o.kind = "tweet_place" ->
         /\ Covers(D, "tweet_country_name", o.country)
         /\ Covers(D, "tweet_country_code", o.country_code)
         /\ Covers(D, "tweet_place_kind", o.place_kind)
    [] o.kind = "tweet" ->
         /\ Covers(D, "tweet_source", o.source) /\ Covers(D, "tweet_language_code", o.language)
         /\ CoversText(D, o.legacy_text) /\ CoversText(D, o.note_text)
    [] o.kind = "tweet_policy" ->
         /\ Covers(D, "tweet_reply_policy_code", o.reply_policy)
         /\ CoversAll(D, "tweet_action_code", o.available_actions)
    [] o.kind = "tweet_community_note" -> CoversText(D, o.subtitle) /\ CoversText(D, o.footer)
    [] o.kind = "media" ->
         /\ \A v \in {o.large, o.medium, o.small, o.thumb} : Covers(D, "tweet_media_resize_mode", v)
         /\ CoversAll(D, "tweet_media_tag_kind", o.tag_kinds)
         /\ CoversAll(D, "tweet_media_sensitivity_code", o.sensitivity_warnings)
    [] o.kind = "media_resource" ->
         /\ Covers(D, "tweet_media_availability_status", o.availability)
         /\ CoversAll(D, "tweet_video_content_type", o.content_types)

LEMMA EntriesCover ==
  ASSUME NEW o, o.kind \in Kinds, NEW D, Entries(o) \subseteq D
  PROVE  Covered(D, o)
<1>1. CASE o.kind = "user_snapshot"
  BY <1>1, OneCovers, TextCovers DEF Entries, UserSnapshotEntries, Covered
<1>2. CASE o.kind = "tweet_place"
  BY <1>2, OneCovers DEF Entries, TweetPlaceEntries, Covered
<1>3. CASE o.kind = "tweet"
  BY <1>3, OneCovers, TextCovers DEF Entries, TweetEntries, Covered
<1>4. CASE o.kind = "tweet_policy"
  BY <1>4, OneCovers, KeysCover DEF Entries, TweetPolicyEntries, Covered
<1>5. CASE o.kind = "tweet_community_note"
  BY <1>5, TextCovers DEF Entries, CommunityNoteEntries, Covered
<1>6. CASE o.kind = "media"
  <2> DEFINE sizes == One(o.large) \cup One(o.medium) \cup One(o.small) \cup One(o.thumb)
  <2>1. /\ Keys("tweet_media_resize_mode", sizes) \subseteq D
        /\ Keys("tweet_media_tag_kind", o.tag_kinds) \subseteq D
        /\ Keys("tweet_media_sensitivity_code", o.sensitivity_warnings) \subseteq D
    BY <1>6 DEF Entries, MediaEntries
  <2>2. ASSUME NEW v \in {o.large, o.medium, o.small, o.thumb}
        PROVE  Covers(D, "tweet_media_resize_mode", v)
    <3>1. CoversAll(D, "tweet_media_resize_mode", sizes)
      BY <2>1, KeysCover
    <3>2. v # Null => v \in sizes
      BY DEF One
    <3>3. QED
      BY <3>1, <3>2 DEF Covers, CoversAll
  <2>3. QED
    BY <1>6, <2>1, <2>2, KeysCover DEF Covered
<1>7. CASE o.kind = "media_resource"
  BY <1>7, OneCovers, KeysCover DEF Entries, MediaResourceEntries, Covered
<1>8. QED
  BY <1>1, <1>2, <1>3, <1>4, <1>5, <1>6, <1>7 DEF Kinds

\* The ids of a cache are ids.
Ids(f) == \A k \in DOMAIN f : f[k] \in 1 .. MaxId

LEMMA IdsWritten ==
  ASSUME NEW f, Ids(f)
  PROVE  /\ \A m, v : Covers(DOMAIN f, m, v) => EnsureId(f, m, v) # Unknown
         /\ \A m, strings : CoversAll(DOMAIN f, m, strings) => Unknown \notin EnsureIds(f, m, strings)
         /\ \A styles : CoversText(DOMAIN f, styles) =>
              TextPayload(f, styles) = Null \/ Unknown \notin TextPayload(f, styles)
<1> USE DictAssumption, NullAssumption
<1>1. ASSUME NEW m, NEW v, Covers(DOMAIN f, m, v) PROVE EnsureId(f, m, v) # Unknown
  BY <1>1 DEF Covers, EnsureId, Ids, Unknown
<1>2. ASSUME NEW m, NEW strings, CoversAll(DOMAIN f, m, strings)
      PROVE  Unknown \notin EnsureIds(f, m, strings)
  <2>1. ASSUME NEW v \in strings, Trim(v) # Null PROVE EnsureId(f, m, v) # Unknown
    BY <1>1, <1>2, <2>1 DEF Covers, CoversAll
  <2>2. QED
    BY <2>1 DEF EnsureIds
<1>3. ASSUME NEW styles, CoversText(DOMAIN f, styles)
      PROVE  TextPayload(f, styles) = Null \/ Unknown \notin TextPayload(f, styles)
  BY <1>2, <1>3 DEF CoversText, TextPayload, TextOf
<1>4. QED
  BY <1>1, <1>2, <1>3

\* A row of an object whose entries the cache holds needs no other statement.
LEMMA CoveredComplete ==
  ASSUME NEW o, o.kind \in Kinds, NEW f, Ids(f), Entries(o) \subseteq DOMAIN f
  PROVE  Complete(Payload(f, o))
<1>1. Covered(DOMAIN f, o)
  BY EntriesCover
<1>2. CASE o.kind = "user_snapshot"
  BY <1>1, <1>2, IdsWritten DEF Covered, Payload, UserSnapshotPayload, Complete, Lists
<1>3. CASE o.kind = "tweet_place"
  BY <1>1, <1>3, IdsWritten DEF Covered, Payload, TweetPlacePayload, Complete, Lists
<1>4. CASE o.kind = "tweet"
  BY <1>1, <1>4, IdsWritten DEF Covered, Payload, TweetPayload, Complete, Lists
<1>5. CASE o.kind = "tweet_policy"
  BY <1>1, <1>5, IdsWritten DEF Covered, Payload, TweetPolicyPayload, Complete, Lists
<1>6. CASE o.kind = "tweet_community_note"
  BY <1>1, <1>6, IdsWritten DEF Covered, Payload, CommunityNotePayload, Complete, Lists
<1>7. CASE o.kind = "media"
  BY <1>1, <1>7, IdsWritten DEF Covered, Payload, MediaPayload, SizeVariantPayload, Complete, Lists
<1>8. CASE o.kind = "media_resource"
  BY <1>1, <1>8, IdsWritten DEF Covered, Payload, MediaResourcePayload, Complete, Lists
<1>9. QED
  BY <1>2, <1>3, <1>4, <1>5, <1>6, <1>7, <1>8 DEF Kinds

\* The row depends on the ids of the entries alone.
LEMMA SamePayload ==
  ASSUME NEW o, o.kind \in Kinds, NEW f, NEW g,
         \A k \in Entries(o) : k \in DOMAIN f /\ k \in DOMAIN g /\ f[k] = g[k]
  PROVE  Payload(f, o) = Payload(g, o)
<1> DEFINE D == {k \in DOMAIN f \cap DOMAIN g : f[k] = g[k]}
<1>1. Covered(D, o)
  BY EntriesCover
<1>2. ASSUME NEW m, NEW v, Covers(D, m, v) PROVE EnsureId(f, m, v) = EnsureId(g, m, v)
  BY <1>2 DEF Covers, EnsureId
<1>3. ASSUME NEW m, NEW strings, CoversAll(D, m, strings)
      PROVE  EnsureIds(f, m, strings) = EnsureIds(g, m, strings)
  <2>1. ASSUME NEW v \in strings, Trim(v) # Null PROVE EnsureId(f, m, v) = EnsureId(g, m, v)
    BY <1>2, <1>3, <2>1 DEF Covers, CoversAll
  <2>2. QED
    BY <2>1 DEF EnsureIds
<1>4. ASSUME NEW styles, CoversText(D, styles) PROVE TextPayload(f, styles) = TextPayload(g, styles)
  BY <1>3, <1>4 DEF CoversText, TextPayload, TextOf
<1> HIDE DEF D
<1>5. CASE o.kind = "user_snapshot"
  BY <1>1, <1>2, <1>4, <1>5 DEF Covered, Payload, UserSnapshotPayload
<1>6. CASE o.kind = "tweet_place"
  BY <1>1, <1>2, <1>6 DEF Covered, Payload, TweetPlacePayload
<1>7. CASE o.kind = "tweet"
  BY <1>1, <1>2, <1>4, <1>7 DEF Covered, Payload, TweetPayload
<1>8. CASE o.kind = "tweet_policy"
  BY <1>1, <1>2, <1>3, <1>8 DEF Covered, Payload, TweetPolicyPayload
<1>9. CASE o.kind = "tweet_community_note"
  BY <1>1, <1>4, <1>9 DEF Covered, Payload, CommunityNotePayload
<1>10. CASE o.kind = "media"
  BY <1>1, <1>2, <1>3, <1>10 DEF Covered, Payload, MediaPayload, SizeVariantPayload
<1>11. CASE o.kind = "media_resource"
  BY <1>1, <1>2, <1>3, <1>11 DEF Covered, Payload, MediaResourcePayload
<1>12. QED
  BY <1>5, <1>6, <1>7, <1>8, <1>9, <1>10, <1>11 DEF Kinds

\* d leads from the ids of f back to their keys.
Mirrors(d, f) == \A k \in DOMAIN f : f[k] \in DOMAIN d /\ d[f[k]] = k

LEMMA IdsReadBack ==
  ASSUME NEW f, NEW d, Ids(f), Mirrors(d, f)
  PROVE  /\ \A m, v : Covers(DOMAIN f, m, v) => Resolve(d, m, EnsureId(f, m, v)) = Trimmed(v)
         /\ \A m, strings : CoversAll(DOMAIN f, m, strings) =>
              ResolveList(d, m, EnsureIds(f, m, strings)) = TrimmedAll(strings)
         /\ \A styles : CoversText(DOMAIN f, styles) =>
              BuildText(d, TextPayload(f, styles)) =
                IF styles = Null THEN Null ELSE TrimmedAll(styles)
<1> USE DictAssumption, NullAssumption
<1>1. ASSUME NEW m, NEW v, Covers(DOMAIN f, m, v)
      PROVE  Resolve(d, m, EnsureId(f, m, v)) = Trimmed(v)
  <2>1. CASE v = Null \/ Trim(v) = Null
    BY <2>1 DEF EnsureId, Resolve, Trimmed
  <2>2. CASE v # Null /\ Trim(v) # Null
    <3> DEFINE k == <<m, Trim(v)>>
    <3>1. k \in DOMAIN f /\ EnsureId(f, m, v) = f[k]
      BY <1>1, <2>2 DEF Covers, EnsureId
    <3>2. f[k] # Null /\ f[k] \in DOMAIN d /\ d[f[k]] = k
      BY <3>1 DEF Ids, Mirrors
    <3>3. k[1] = m /\ k[2] = Trim(v)
      OBVIOUS
    <3> HIDE DEF k
    <3>4. QED
      BY <2>2, <3>1, <3>2, <3>3 DEF Resolve, Trimmed
  <2>3. QED
    BY <2>1, <2>2
<1>2. ASSUME NEW m, NEW strings, CoversAll(DOMAIN f, m, strings)
      PROVE  /\ ResolveList(d, m, EnsureIds(f, m, strings)) = TrimmedAll(strings)
             /\ EnsureIds(f, m, strings) \subseteq 1 .. MaxId
  <2> DEFINE S == {v \in strings : Trim(v) # Null}
  <2>1. ASSUME NEW v \in S
        PROVE  EnsureId(f, m, v) \in 1 .. MaxId /\ Resolve(d, m, EnsureId(f, m, v)) = Trim(v)
    <3>1. v # Null /\ Covers(DOMAIN f, m, v)
      BY <1>2, <2>1 DEF Covers, CoversAll
    <3>2. QED
      BY <1>1, <2>1, <3>1 DEF Covers, EnsureId, Ids, Trimmed
  <2>2. QED
    BY <2>1 DEF ResolveList, EnsureIds, TrimmedAll
<1>3. ASSUME NEW styles, CoversText(DOMAIN f, styles)
      PROVE  BuildText(d, TextPayload(f, styles)) =
               IF styles = Null THEN Null ELSE TrimmedAll(styles)
  <2>1. CASE styles = Null
    BY <2>1 DEF TextPayload, BuildText
  <2>2. CASE styles # Null
    <3>1. EnsureIds(f, "tweet_text_style_name", styles) # Null
      BY <1>2, <1>3, <2>2 DEF CoversText, TextOf
    <3>2. QED
      BY <1>2, <1>3, <2>2, <3>1 DEF CoversText, TextOf, TextPayload, BuildText
  <2>3. QED
    BY <2>1, <2>2
<1>4. QED
  BY <1>1, <1>2, <1>3

\* What was written with one direction of a cache is read back with the other.
LEMMA CoveredReadBack ==
  ASSUME NEW o, IsObject(o), NEW f, NEW d, Ids(f), Mirrors(d, f), Entries(o) \subseteq DOMAIN f
  PROVE  Build(d, Payload(f, o)) = ReadBack(o)
<1>1. o.kind \in Kinds /\ Covered(DOMAIN f, o) /\ DOMAIN o = FieldsOf(o.kind)
  BY EntriesCover DEF IsObject
<1>2. \A g \in DOMAIN o : g \in {"available_actions", "tag_kinds", "sensitivity_warnings",
                               "content_types"} => o[g] # Null
  BY DEF IsObject
<1>3. CASE o.kind = "user_snapshot"
  <2>1. DOMAIN o = {"kind", "avatar_shape", "bio", "verified_type", "relation", "parody_label",
                    "professional_type"}
    BY <1>1, <1>3 DEF FieldsOf
  <2>2. Payload(f, o) = UserSnapshotPayload(f, o) /\ UserSnapshotPayload(f, o).kind = "user_snapshot"
    BY <1>3 DEF Payload, UserSnapshotPayload
  <2>3. Build(d, Payload(f, o)) = BuildUserSnapshot(d, UserSnapshotPayload(f, o))
    BY <2>2 DEF Build
  <2>4. BuildUserSnapshot(d, UserSnapshotPayload(f, o)) = ReadBack(o)
    BY <1>1, <1>3, <2>1, IdsReadBack
       DEF Covered, UserSnapshotPayload, BuildUserSnapshot, ReadBack, Lists
  <2>5. QED
    BY <2>3, <2>4
<1>4. CASE o.kind = "tweet_place"
  <2>1. DOMAIN o = {"kind", "country", "country_code", "place_kind"}
    BY <1>1, <1>4 DEF FieldsOf
  <2>2. Payload(f, o) = TweetPlacePayload(f, o) /\ TweetPlacePayload(f, o).kind = "tweet_place"
    BY <1>4 DEF Payload, TweetPlacePayload
  <2>3. Build(d, Payload(f, o)) = BuildTweetPlace(d, TweetPlacePayload(f, o))
    BY <2>2 DEF Build
  <2>4. BuildTweetPlace(d, TweetPlacePayload(f, o)) = ReadBack(o)
    BY <1>1, <1>4, <2>1, IdsReadBack
       DEF Covered, TweetPlacePayload, BuildTweetPlace, ReadBack, Lists
  <2>5. QED
    BY <2>3, <2>4
<1>5. CASE o.kind = "tweet"
  <2>1. DOMAIN o = {"kind", "source", "language", "legacy_text", "note_text"}
    BY <1>1, <1>5 DEF FieldsOf
  <2>2. Payload(f, o) = TweetPayload(f, o) /\ TweetPayload(f, o).kind = "tweet"
    BY <1>5 DEF Payload, TweetPayload
  <2>3. Build(d, Payload(f, o)) = BuildTweet(d, TweetPayload(f, o))
    BY <2>2 DEF Build
  <2>4. BuildTweet(d, TweetPayload(f, o)) = ReadBack(o)
    BY <1>1, <1>5, <2>1, IdsReadBack DEF Covered, TweetPayload, BuildTweet, ReadBack, Lists
  <2>5. QED
    BY <2>3, <2>4
<1>6. CASE o.kind = "tweet_policy"
  <2>1. DOMAIN o = {"kind", "reply_policy", "available_actions"} /\ o.available_actions # Null
    BY <1>1, <1>2, <1>6 DEF FieldsOf
  <2>2. Payload(f, o) = TweetPolicyPayload(f, o) /\ TweetPolicyPayload(f, o).kind = "tweet_policy"
    BY <1>6 DEF Payload, TweetPolicyPayload
  <2>3. Build(d, Payload(f, o)) = BuildTweetPolicy(d, TweetPolicyPayload(f, o))
    BY <2>2 DEF Build
  <2>4. BuildTweetPolicy(d, TweetPolicyPayload(f, o)) = ReadBack(o)
    BY <1>1, <1>6, <2>1, IdsReadBack
       DEF Covered, TweetPolicyPayload, BuildTweetPolicy, ReadBack, Lists
  <2>5. QED
    BY <2>3, <2>4
<1>7. CASE o.kind = "tweet_community_note"
  <2>1. DOMAIN o = {"kind", "subtitle", "footer"}
    BY <1>1, <1>7 DEF FieldsOf
  <2>2. /\ Payload(f, o) = CommunityNotePayload(f, o)
        /\ CommunityNotePayload(f, o).kind = "tweet_community_note"
    BY <1>7 DEF Payload, CommunityNotePayload
  <2>3. Build(d, Payload(f, o)) = BuildCommunityNote(d, CommunityNotePayload(f, o))
    BY <2>2 DEF Build
  <2>4. BuildCommunityNote(d, CommunityNotePayload(f, o)) = ReadBack(o)
    BY <1>1, <1>7, <2>1, IdsReadBack
       DEF Covered, CommunityNotePayload, BuildCommunityNote, ReadBack, Lists
  <2>5. QED
    BY <2>3, <2>4
<1>8. CASE o.kind = "media"
  <2>1. /\ DOMAIN o = {"kind", "large", "medium", "small", "thumb", "tag_kinds",
                       "sensitivity_warnings"}
        /\ o.tag_kinds # Null /\ o.sensitivity_warnings # Null
    BY <1>1, <1>2, <1>8 DEF FieldsOf
  <2>2. Payload(f, o) = MediaPayload(f, o) /\ MediaPayload(f, o).kind = "media"
    BY <1>8 DEF Payload, MediaPayload
  <2>3. Build(d, Payload(f, o)) = BuildMedia(d, MediaPayload(f, o))
    BY <2>2 DEF Build
  <2>4. BuildMedia(d, MediaPayload(f, o)) = ReadBack(o)
    BY <1>1, <1>8, <2>1, IdsReadBack
       DEF Covered, MediaPayload, SizeVariantPayload, BuildMedia, BuildMediaVariant, ReadBack, Lists
  <2>5. QED
    BY <2>3, <2>4
<1>9. CASE o.kind = "media_resource"
  <2>1. DOMAIN o = {"kind", "availability", "content_types"} /\ o.content_types # Null
    BY <1>1, <1>2, <1>9 DEF FieldsOf
  <2>2. /\ Payload(f, o) = MediaResourcePayload(f, o)
        /\ MediaResourcePayload(f, o).kind = "media_resource"
    BY <1>9 DEF Payload, MediaResourcePayload
  <2>3. Build(d, Payload(f, o)) = BuildMediaResource(d, MediaResourcePayload(f, o))
    BY <2>2 DEF Build
  <2>4. BuildMediaResource(d, MediaResourcePayload(f, o)) = ReadBack(o)
    BY <1>1, <1>9, <2>1, IdsReadBack
       DEF Covered, MediaResourcePayload, BuildMediaResource, ReadBack, Lists
  <2>5. QED
    BY <2>3, <2>4
<1>10. QED
  BY <1>1, <1>3, <1>4, <1>5, <1>6, <1>7, <1>8, <1>9 DEF Kinds

-----------------------------------------------------------------------------
(* The entries of a call's object are cached, found or still to do; a row  *)
(* holds the ids of the table, and the cache of a process leads back from  *)
(* the ids of the rows it wrote or found.                                  *)

Preloaded(s, f) ==
  /\ s.object \in Objects
  /\ s.pc # "failed" => Entries(s.object) \subseteq DOMAIN f \cup s.todo \cup DOMAIN s.got
  /\ s.pc \in {"cache", "write"} => s.todo = {}
  /\ s.pc = "write" => DOMAIN s.got = {}

PreloadOK ==
  /\ load = [c \in Callers |-> load[c]] /\ \A c \in Callers : load[c] \in Seq(Objects)
  /\ \A c \in Callers : call[c] # Idle => Preloaded(call[c], byKey[Home[c]])

Stored(f, w) ==
  w.object \in Objects /\ Entries(w.object) \subseteq DOMAIN f /\ w.row = Payload(f, w.object)

RowsOK ==
  /\ \A w \in rows : Stored(table, w)
  /\ mine = [i \in Instances |-> mine[i]]
  /\ \A i \in Instances : \A w \in mine[i] : Stored(byKey[i], w)

MirrorsOK == \A i \in Instances : Mirrors(byId[i], byKey[i])

ReadInv == DictInv /\ PreloadOK /\ MirrorsOK /\ RowsOK

\* No step takes an id from its key, in the table or in a cache: what a cache
\* is replaced by when a process starts is the table.
LEMMA TableGrows ==
  ASSUME DictInv, [Next]_vars
  PROVE  \A k \in DOMAIN table : k \in DOMAIN table' /\ table'[k] = table[k]
<1>1. ASSUME NEW c \in Callers, Commit(c) \/ CommitUnacknowledged(c)
      PROVE  \A k \in DOMAIN table : k \in DOMAIN table' /\ table'[k] = table[k]
  <2>1. call[c] # Idle /\ table' = Merge(table, call[c].added)
    BY <1>1, IdlePc DEF Commit, CommitUnacknowledged
  <2>2. \A k \in DOMAIN call[c].added : k \notin DOMAIN table
    BY <2>1, CallFacts DEF Good
  <2>3. QED
    BY <2>1, <2>2 DEF Merge
<1>2. CASE table' = table
  BY <1>2
<1>3. ASSUME NEW c \in Callers,
             \/ Begin(c) \/ Look(c) \/ Insert(c) \/ Exhausted(c) \/ Waited(c) \/ AbortDeadlock(c)
             \/ Cache(c) \/ WriteRow(c) \/ Return(c) \/ StatementFails(c) \/ Abandon(c)
      PROVE  table' = table
  BY <1>3 DEF Begin, Look, Insert, Exhausted, Waited, AbortDeadlock, Cache, WriteRow, Return,
              StatementFails, Abandon
<1>4. ASSUME (\E i \in Instances : Restart(i)) \/ UNCHANGED vars PROVE table' = table
  BY <1>4 DEF Restart, vars
<1>5. QED
  BY <1>1, <1>2, <1>3, <1>4 DEF Next, Own

LEMMA CachesGrow ==
  ASSUME DictInv, [Next]_vars
  PROVE  \A i \in Instances : DOMAIN byKey[i] \subseteq DOMAIN byKey'[i]
<1> SUFFICES ASSUME NEW i \in Instances PROVE DOMAIN byKey[i] \subseteq DOMAIN byKey'[i]
  OBVIOUS
<1>1. ASSUME NEW c \in Callers, Cache(c) PROVE DOMAIN byKey[i] \subseteq DOMAIN byKey'[i]
  <2>1. CASE byKey' = byKey
    BY <2>1
  <2>2. ASSUME NEW k, NEW id, byKey' = [byKey EXCEPT ![Home[c]] = Extend(@, k, id)]
        PROVE  DOMAIN byKey[i] \subseteq DOMAIN byKey'[i]
    <3>1. byKey'[i] = IF i = Home[c] THEN Extend(byKey[i], k, id) ELSE byKey[i]
      BY <2>2 DEF DictInv, CachesOK
    <3>2. QED
      BY <3>1 DEF Extend
  <2>3. QED
    BY <1>1, <2>1, <2>2 DEF Cache
<1>2. ASSUME NEW j \in Instances, Restart(j) PROVE DOMAIN byKey[i] \subseteq DOMAIN byKey'[i]
  <2>1. byKey'[i] = IF i = j THEN table ELSE byKey[i]
    BY <1>2 DEF Restart, DictInv, CachesOK
  <2>2. DOMAIN byKey[i] \subseteq DOMAIN table
    BY DEF DictInv, CachesOK, CacheAgrees
  <2>3. QED
    BY <2>1, <2>2
<1>3. ASSUME NEW c \in Callers,
             \/ Begin(c) \/ Look(c) \/ Insert(c) \/ Exhausted(c) \/ Waited(c) \/ AbortDeadlock(c)
             \/ Commit(c) \/ WriteRow(c) \/ Return(c)
             \/ StatementFails(c) \/ CommitUnacknowledged(c) \/ Abandon(c)
      PROVE  byKey' = byKey
  BY <1>3 DEF Begin, Look, Insert, Exhausted, Waited, AbortDeadlock, Commit, WriteRow, Return,
              StatementFails, CommitUnacknowledged, Abandon
<1>4. ASSUME UNCHANGED vars PROVE byKey' = byKey
  BY <1>4 DEF vars
<1>5. QED
  BY <1>1, <1>2, <1>3, <1>4 DEF Next, Own

\* A step of one call is safe for the others: their caches only grow.
LEMMA PreloadStep ==
  ASSUME ReadInv, [Next]_vars, NEW c \in Callers, NEW new, Set(c, new), load' = load,
         new = Idle \/ Preloaded(new, byKey'[Home[c]])
  PROVE  PreloadOK'
<1>1. call' = [d \in Callers |-> IF d = c THEN new ELSE call[d]]
  BY DEF Set, ReadInv, DictInv, CallsOK
<1>2. ASSUME NEW d \in Callers, call'[d] # Idle PROVE Preloaded(call'[d], byKey'[Home[d]])
  <2>1. CASE d = c
    BY <1>1, <1>2, <2>1
  <2>2. CASE d # c
    <3>1. call'[d] = call[d] /\ Preloaded(call[d], byKey[Home[d]])
      BY <1>1, <1>2, <2>2 DEF ReadInv, PreloadOK
    <3>2. DOMAIN byKey[Home[d]] \subseteq DOMAIN byKey'[Home[d]]
      BY CachesGrow, DictAssumption DEF ReadInv
    <3>3. QED
      BY <3>1, <3>2 DEF Preloaded
  <2>3. QED
    BY <2>1, <2>2
<1>3. QED
  BY <1>2 DEF ReadInv, PreloadOK

\* A found key moves from the open ones to the findings.
LEMMA TookPreloaded ==
  ASSUME NEW s, IsCall(s), NEW f, Preloaded(s, f), s.pc # "failed", NEW k, NEW id, NEW new,
         new.pc = "run", new.object = s.object, new.todo = s.todo \ {k},
         new.got = Extend(s.got, k, id)
  PROVE  Preloaded(new, f)
  BY DEF Preloaded, Extend

LEMMA PreloadSafe ==
  ASSUME ReadInv, [Next]_vars
  PROVE  PreloadOK'
<1>1. ASSUME NEW c \in Callers, Begin(c) PROVE PreloadOK'
  <2> DEFINE o == Head(load[c])
             missing == Entries(o) \ DOMAIN byKey[Home[c]]
             new == [pc |-> IF missing = {} THEN "write" ELSE "run", object |-> o, todo |-> missing,
                     added |-> << >>, got |-> << >>, key |-> Null, drawn |-> 0, why |-> Null,
                     known |-> missing \subseteq DOMAIN table]
  <2>1. /\ Set(c, new) /\ byKey' = byKey /\ load' = [load EXCEPT ![c] = Tail(@)]
        /\ load[c] # << >>
    BY <1>1 DEF Begin
  <2>2. /\ load = [d \in Callers |-> load[d]] /\ \A d \in Callers : load[d] \in Seq(Objects)
    BY DEF ReadInv, PreloadOK
  <2>3. o \in Objects /\ Tail(load[c]) \in Seq(Objects)
    BY <2>1, <2>2
  <2>4. load' = [d \in Callers |-> load'[d]] /\ \A d \in Callers : load'[d] \in Seq(Objects)
    BY <2>1, <2>2, <2>3
  <2>5. DOMAIN << >> = {}
    OBVIOUS
  <2>6. Preloaded(new, byKey[Home[c]])
    <3> HIDE DEF o
    <3>1. QED
      BY <2>3, <2>5 DEF Preloaded
  <2>7. call' = [d \in Callers |-> IF d = c THEN new ELSE call[d]]
    BY <2>1 DEF Set, ReadInv, DictInv, CallsOK
  <2> HIDE DEF new
  <2>8. QED
    BY <2>1, <2>4, <2>6, <2>7 DEF ReadInv, PreloadOK
<1>2. ASSUME NEW c \in Callers, Look(c) PROVE PreloadOK'
  <2> DEFINE s == call[c]
  <2>1. PICK k \in s.todo :
          Set(c, IF k \in DOMAIN table THEN Took(s, k, table[k]) ELSE [s EXCEPT !.pc = "insert", !.key = k])
    BY <1>2 DEF Look
  <2>2. s # Idle /\ s.pc = "run" /\ load' = load /\ byKey' = byKey
    BY <1>2, IdlePc DEF Look
  <2>3. IsCall(s) /\ Preloaded(s, byKey[Home[c]])
    BY <2>2, CallFacts DEF ReadInv, PreloadOK
  <2>4. CASE k \in DOMAIN table
    <3>1. Preloaded(Took(s, k, table[k]), byKey[Home[c]])
      BY <2>2, <2>3, TookIs, TookPreloaded
    <3>2. QED
      BY <2>1, <2>2, <2>4, <3>1, PreloadStep
  <2>5. CASE k \notin DOMAIN table
    <3> DEFINE new == [s EXCEPT !.pc = "insert", !.key = k]
    <3>1. new.pc = "insert" /\ new.object = s.object /\ new.todo = s.todo /\ new.got = s.got
      BY <2>3 DEF IsCall, Fields
    <3>2. Set(c, new)
      BY <2>1, <2>5
    <3> HIDE DEF new
    <3>3. Preloaded(new, byKey[Home[c]])
      BY <2>2, <2>3, <3>1 DEF Preloaded
    <3>4. QED
      BY <2>2, <3>2, <3>3, PreloadStep
  <2>6. QED
    BY <2>4, <2>5
<1>3. ASSUME NEW c \in Callers, Insert(c) \/ Waited(c) PROVE PreloadOK'
  <2> DEFINE s == call[c]
  <2>1. s # Idle /\ s.pc \in {"insert", "wait"} /\ load' = load /\ byKey' = byKey
    BY <1>3, IdlePc DEF Insert, Waited
  <2>2. IsCall(s) /\ Preloaded(s, byKey[Home[c]])
    BY <2>1, CallFacts DEF ReadInv, PreloadOK
  <2>3. PICK new : /\ Set(c, new)
                   /\ \/ new = [s EXCEPT !.pc = "wait", !.drawn = next]
                      \/ \E id, more :
                           \/ new = [Took(s, s.key, id) EXCEPT !.added = more]
                           \/ new = [Took(s, s.key, id) EXCEPT !.drawn = 0]
                           \/ new = [[Took(s, s.key, id) EXCEPT !.added = more] EXCEPT !.drawn = 0]
    <3>1. CASE Insert(c)
      BY <3>1 DEF Insert
    <3>2. CASE Waited(c)
      <4>1. PICK new : Set(c, new) /\
              new = [(IF s.key \in DOMAIN table THEN Took(s, s.key, table[s.key])
                      ELSE [Took(s, s.key, s.drawn) EXCEPT !.added = Extend(@, s.key, s.drawn)])
                     EXCEPT !.drawn = 0]
        BY <3>2 DEF Waited
      <4>2. CASE s.key \in DOMAIN table
        BY <4>1, <4>2
      <4>3. CASE s.key \notin DOMAIN table
        BY <4>1, <4>3
      <4>4. QED
        BY <4>2, <4>3
    <3>3. QED
      BY <1>3, <3>1, <3>2
  <2>4. CASE new = [s EXCEPT !.pc = "wait", !.drawn = next]
    <3>1. new.pc = "wait" /\ new.object = s.object /\ new.todo = s.todo /\ new.got = s.got
      BY <2>2, <2>4 DEF IsCall, Fields
    <3>2. Preloaded(new, byKey[Home[c]])
      BY <2>1, <2>2, <3>1 DEF Preloaded
    <3>3. QED
      BY <2>1, <2>3, <3>2, PreloadStep
  <2>5. ASSUME NEW id, NEW more,
               \/ new = [Took(s, s.key, id) EXCEPT !.added = more]
               \/ new = [Took(s, s.key, id) EXCEPT !.drawn = 0]
               \/ new = [[Took(s, s.key, id) EXCEPT !.added = more] EXCEPT !.drawn = 0]
        PROVE  PreloadOK'
    <3> DEFINE took == Took(s, s.key, id)
    <3>1. /\ IsCall(took) /\ took.pc = "run" /\ took.object = s.object
          /\ took.todo = s.todo \ {s.key} /\ took.got = Extend(s.got, s.key, id)
      BY <2>2, TookIs
    <3> HIDE DEF took
    <3>2. /\ new.pc = "run" /\ new.object = s.object
          /\ new.todo = s.todo \ {s.key} /\ new.got = Extend(s.got, s.key, id)
      BY <2>5, <3>1 DEF took, IsCall, Fields
    <3>3. Preloaded(new, byKey[Home[c]])
      BY <2>1, <2>2, <3>2, TookPreloaded
    <3>4. QED
      BY <2>1, <2>3, <3>3, PreloadStep
  <2>6. QED
    BY <2>3, <2>4, <2>5
<1>4. ASSUME NEW c \in Callers, Commit(c) PROVE PreloadOK'
  <2> DEFINE s == call[c]
             new == [s EXCEPT !.pc = "cache", !.added = << >>]
  <2>1. /\ Set(c, new) /\ s # Idle /\ s.pc = "run" /\ s.todo = {} /\ load' = load
        /\ byKey' = byKey
    BY <1>4, IdlePc DEF Commit
  <2>2. IsCall(s) /\ Preloaded(s, byKey[Home[c]])
    BY <2>1, CallFacts DEF ReadInv, PreloadOK
  <2>3. new.pc = "cache" /\ new.object = s.object /\ new.todo = s.todo /\ new.got = s.got
    BY <2>2 DEF IsCall, Fields
  <2> HIDE DEF new
  <2>4. QED
    BY <2>1, <2>2, <2>3, PreloadStep DEF Preloaded
<1>5. ASSUME NEW c \in Callers, Cache(c) PROVE PreloadOK'
  <2> DEFINE s == call[c]
             i == Home[c]
  <2>1. s # Idle /\ s.pc = "cache" /\ load' = load
    BY <1>5, IdlePc DEF Cache
  <2>2. IsCall(s) /\ Preloaded(s, byKey[i])
    BY <2>1, CallFacts DEF ReadInv, PreloadOK
  <2>3. CASE s.got = << >>
    <3> DEFINE new == [s EXCEPT !.pc = "write"]
    <3>1. new.pc = "write" /\ new.object = s.object /\ new.todo = s.todo /\ new.got = s.got
      BY <2>2 DEF IsCall, Fields
    <3>2. Set(c, new) /\ byKey' = byKey
      BY <1>5, <2>3 DEF Cache
    <3>3. DOMAIN s.got = {}
      BY <2>3
    <3> HIDE DEF new
    <3>4. QED
      BY <2>1, <2>2, <3>1, <3>2, <3>3, PreloadStep DEF Preloaded
  <2>4. CASE s.got # << >>
    <3>1. PICK k \in DOMAIN s.got :
            /\ byKey' = [byKey EXCEPT ![i] = Extend(@, k, s.got[k])]
            /\ Set(c, [s EXCEPT !.got = Restrict(@, DOMAIN @ \ {k})])
      BY <1>5, <2>4 DEF Cache
    <3> DEFINE left == Restrict(s.got, DOMAIN s.got \ {k})
               new == [s EXCEPT !.got = left]
    <3>2. new.pc = "cache" /\ new.object = s.object /\ new.todo = s.todo /\ new.got = left
      BY <2>1, <2>2 DEF IsCall, Fields
    <3>3. Set(c, new)
      BY <3>1
    <3>4. DOMAIN left = DOMAIN s.got \ {k}
      BY DEF Restrict
    <3>5. DOMAIN byKey'[i] = DOMAIN byKey[i] \cup {k}
      <4>1. byKey'[i] = Extend(byKey[i], k, s.got[k])
        BY <3>1, DictAssumption DEF ReadInv, DictInv, CachesOK
      <4>2. QED
        BY <4>1 DEF Extend
    <3> HIDE DEF new, left
    <3>6. Preloaded(new, byKey'[i])
      BY <2>1, <2>2, <3>2, <3>4, <3>5 DEF Preloaded
    <3>7. QED
      BY <2>1, <3>3, <3>6, PreloadStep
  <2>5. QED
    BY <2>3, <2>4
<1>6. ASSUME NEW c \in Callers, WriteRow(c) \/ Return(c) \/ Abandon(c) PROVE PreloadOK'
  <2>1. Set(c, Idle) /\ load' = load
    BY <1>6 DEF WriteRow, Return, Abandon
  <2>2. QED
    BY <2>1, PreloadStep
<1>7. ASSUME NEW c \in Callers, \/ Exhausted(c) \/ AbortDeadlock(c) \/ StatementFails(c)
                                \/ CommitUnacknowledged(c)
      PROVE  PreloadOK'
  <2> DEFINE s == call[c]
  <2>1. PICK why : Set(c, RolledBack(s, why))
    BY <1>7 DEF Exhausted, AbortDeadlock, StatementFails, CommitUnacknowledged
  <2>2. s # Idle /\ load' = load
    BY <1>7, IdlePc DEF Exhausted, AbortDeadlock, StatementFails, CommitUnacknowledged, Running, Deadlocked
  <2>3. IsCall(s) /\ Preloaded(s, byKey[Home[c]])
    BY <2>2, CallFacts DEF ReadInv, PreloadOK
  <2>4. RolledBack(s, why).pc = "failed" /\ RolledBack(s, why).object = s.object
    BY <2>3 DEF RolledBack, IsCall, Fields
  <2>5. QED
    BY <2>1, <2>2, <2>3, <2>4, PreloadStep DEF Preloaded
<1>8. ASSUME NEW i \in Instances, Restart(i) PROVE PreloadOK'
  <2>1. /\ call' = [c \in Callers |-> IF Home[c] = i THEN Idle ELSE call[c]]
        /\ load' = load /\ byKey' = [byKey EXCEPT ![i] = table]
    BY <1>8 DEF Restart
  <2>2. ASSUME NEW c \in Callers, call'[c] # Idle PROVE call'[c] = call[c] /\ byKey'[Home[c]] = byKey[Home[c]]
    BY <2>1, <2>2, DictAssumption DEF ReadInv, DictInv, CachesOK
  <2>3. QED
    BY <2>1, <2>2 DEF ReadInv, PreloadOK
<1>9. CASE UNCHANGED vars
  BY <1>9 DEF vars, ReadInv, PreloadOK
<1>10. QED
  BY <1>1, <1>2, <1>3, <1>4, <1>5, <1>6, <1>7, <1>8, <1>9 DEF Next, Own

\* The directions of a cache are filled together, and loaded from one table.
LEMMA MirrorsSafe ==
  ASSUME ReadInv, [Next]_vars
  PROVE  MirrorsOK'
<1>1. ASSUME NEW c \in Callers, Cache(c) PROVE MirrorsOK'
  <2>1. CASE UNCHANGED <<byKey, byId>>
    BY <2>1 DEF ReadInv, MirrorsOK, Mirrors
  <2>2. ASSUME NEW k, k \in DOMAIN call[c].got, NEW id, id = call[c].got[k],
               byKey' = [byKey EXCEPT ![Home[c]] = Extend(@, k, id)],
               byId' = [byId EXCEPT ![Home[c]] = Extend(@, id, k)]
        PROVE  MirrorsOK'
    <3>1. call[c] # Idle /\ call[c].pc = "cache"
      BY <1>1, IdlePc DEF Cache
    <3>2. k \in DOMAIN table /\ id = table[k]
      BY <2>2, <3>1, CallFacts DEF ReadInv, Good, Open
    <3>3. ASSUME NEW i \in Instances, i = Home[c] PROVE Mirrors(byId'[i], byKey'[i])
      <4>1. byKey'[i] = Extend(byKey[i], k, id) /\ byId'[i] = Extend(byId[i], id, k)
        BY <2>2, <3>3 DEF ReadInv, DictInv, CachesOK
      <4>2. ASSUME NEW j \in DOMAIN byKey[i], byKey[i][j] = id PROVE j = k
        BY <3>2, <4>2 DEF ReadInv, DictInv, TableOK, CachesOK, CacheAgrees
      <4>3. QED
        BY <4>1, <4>2 DEF Extend, Mirrors, ReadInv, MirrorsOK
    <3>4. ASSUME NEW i \in Instances, i # Home[c] PROVE Mirrors(byId'[i], byKey'[i])
      <4>1. byKey'[i] = byKey[i] /\ byId'[i] = byId[i]
        BY <2>2, <3>4 DEF ReadInv, DictInv, CachesOK
      <4>2. QED
        BY <4>1 DEF ReadInv, MirrorsOK
    <3>5. QED
      BY <3>3, <3>4 DEF MirrorsOK
  <2>3. QED
    BY <1>1, <2>1, <2>2 DEF Cache
<1>2. ASSUME NEW j \in Instances, Restart(j) PROVE MirrorsOK'
  <2>1. Mirrors(Inverted(table), table)
    BY DEF Mirrors, Inverted, ReadInv, DictInv, TableOK
  <2>2. ASSUME NEW i \in Instances PROVE Mirrors(byId'[i], byKey'[i])
    <3>1. /\ byKey'[i] = IF i = j THEN table ELSE byKey[i]
          /\ byId'[i] = IF i = j THEN Inverted(table) ELSE byId[i]
      BY <1>2 DEF Restart, ReadInv, DictInv, CachesOK
    <3>2. QED
      BY <2>1, <3>1 DEF ReadInv, MirrorsOK
  <2>3. QED
    BY <2>2 DEF MirrorsOK
<1>3. ASSUME NEW c \in Callers,
             \/ Begin(c) \/ Look(c) \/ Insert(c) \/ Exhausted(c) \/ Waited(c) \/ AbortDeadlock(c)
             \/ Commit(c) \/ WriteRow(c) \/ Return(c)
             \/ StatementFails(c) \/ CommitUnacknowledged(c) \/ Abandon(c)
      PROVE  UNCHANGED <<byKey, byId>>
  BY <1>3 DEF Begin, Look, Insert, Exhausted, Waited, AbortDeadlock, Commit, WriteRow, Return,
              StatementFails, CommitUnacknowledged, Abandon
<1>4. ASSUME UNCHANGED vars PROVE UNCHANGED <<byKey, byId>>
  BY <1>4 DEF vars
<1>5. ASSUME UNCHANGED <<byKey, byId>> PROVE MirrorsOK'
  BY <1>5 DEF ReadInv, MirrorsOK
<1>6. QED
  BY <1>1, <1>2, <1>3, <1>4, <1>5 DEF Next, Own

\* A stored row stays one as ids are added.
LEMMA StoredStays ==
  ASSUME NEW f, NEW g, NEW w, Stored(f, w),
         \A k \in DOMAIN f : k \in DOMAIN g /\ g[k] = f[k]
  PROVE  Stored(g, w)
<1>1. w.object.kind \in Kinds
  BY DictAssumption DEF Stored, IsObject
<1>2. Payload(f, w.object) = Payload(g, w.object)
  BY <1>1, SamePayload DEF Stored
<1>3. QED
  BY <1>2 DEF Stored

LEMMA RowsSafe ==
  ASSUME ReadInv, [Next]_vars, DictInv'
  PROVE  RowsOK'
<1>1. ASSUME NEW w, Stored(table, w) PROVE Stored(table', w)
  BY <1>1, TableGrows, StoredStays DEF ReadInv
<1>2. ASSUME NEW i \in Instances, NEW w, Stored(byKey[i], w) PROVE Stored(byKey'[i], w)
  <2>1. ASSUME NEW k \in DOMAIN byKey[i] PROVE k \in DOMAIN byKey'[i] /\ byKey'[i][k] = byKey[i][k]
    <3>1. k \in DOMAIN byKey'[i]
      BY CachesGrow DEF ReadInv
    <3>2. k \in DOMAIN table /\ byKey[i][k] = table[k]
      BY DEF ReadInv, DictInv, CachesOK, CacheAgrees
    <3>3. byKey'[i][k] = table'[k]
      BY <3>1 DEF DictInv, CachesOK, CacheAgrees
    <3>4. QED
      BY <3>1, <3>2, <3>3, TableGrows DEF ReadInv
  <2>2. QED
    BY <1>2, <2>1, StoredStays
<1>3. CASE UNCHANGED <<rows, mine>>
  BY <1>1, <1>2, <1>3 DEF ReadInv, RowsOK
<1>4. ASSUME NEW c \in Callers, WriteRow(c) PROVE RowsOK'
  <2> DEFINE s == call[c]
             h == Home[c]
             written == [object |-> s.object, row |-> Payload(byKey[h], s.object)]
  <2>1. /\ s # Idle /\ s.pc = "write" /\ rows' = rows \cup {written}
        /\ mine' = [mine EXCEPT ![h] = @ \cup {written}]
        /\ byKey' = byKey /\ table' = table
    BY <1>4, IdlePc DEF WriteRow
  <2>2. s.object \in Objects /\ Entries(s.object) \subseteq DOMAIN byKey[h]
    BY <2>1 DEF ReadInv, PreloadOK, Preloaded
  <2>3. Stored(byKey[h], written)
    BY <2>2 DEF Stored
  <2>4. Stored(table, written)
    <3>1. h \in Instances
      BY DictAssumption
    <3>2. \A k \in DOMAIN byKey[h] : k \in DOMAIN table /\ table[k] = byKey[h][k]
      BY <3>1 DEF ReadInv, DictInv, CachesOK, CacheAgrees
    <3> HIDE DEF written, h
    <3>3. QED
      BY <2>3, <3>2, StoredStays
  <2> HIDE DEF written
  <2>5. mine' = [i \in Instances |-> IF i = h THEN mine[i] \cup {written} ELSE mine[i]]
    BY <2>1 DEF ReadInv, RowsOK
  <2>6. ASSUME NEW w \in rows' PROVE Stored(table', w)
    BY <2>1, <2>4 DEF ReadInv, RowsOK
  <2>7. ASSUME NEW i \in Instances, NEW w \in mine'[i] PROVE Stored(byKey'[i], w)
    <3>1. mine'[i] = IF i = h THEN mine[i] \cup {written} ELSE mine[i]
      BY <2>5
    <3>2. w \in mine[i] \/ (i = h /\ w = written)
      BY <2>7, <3>1
    <3>3. CASE w \in mine[i]
      BY <2>1, <3>3 DEF ReadInv, RowsOK
    <3>4. CASE i = h /\ w = written
      BY <2>1, <2>3, <3>4
    <3>5. QED
      BY <3>2, <3>3, <3>4
  <2>8. mine' = [i \in Instances |-> mine'[i]]
    BY <2>5
  <2>9. QED
    BY <2>6, <2>7, <2>8 DEF RowsOK
<1>5. ASSUME NEW j \in Instances, Restart(j) PROVE RowsOK'
  <2>1. rows' = rows /\ table' = table /\ mine' = [mine EXCEPT ![j] = rows]
        /\ byKey' = [byKey EXCEPT ![j] = table]
    BY <1>5 DEF Restart
  <2>2. /\ mine' = [i \in Instances |-> IF i = j THEN rows ELSE mine[i]]
        /\ byKey' = [i \in Instances |-> IF i = j THEN table ELSE byKey[i]]
    BY <2>1 DEF ReadInv, RowsOK, DictInv, CachesOK
  <2>3. QED
    BY <2>1, <2>2 DEF ReadInv, RowsOK
<1>6. ASSUME NEW c \in Callers,
             \/ Begin(c) \/ Look(c) \/ Insert(c) \/ Exhausted(c) \/ Waited(c) \/ AbortDeadlock(c)
             \/ Commit(c) \/ Cache(c) \/ Return(c)
             \/ StatementFails(c) \/ CommitUnacknowledged(c) \/ Abandon(c)
      PROVE  UNCHANGED <<rows, mine>>
  BY <1>6 DEF Begin, Look, Insert, Exhausted, Waited, AbortDeadlock, Commit, Cache, Return,
              StatementFails, CommitUnacknowledged, Abandon
<1>7. ASSUME UNCHANGED vars PROVE UNCHANGED <<rows, mine>>
  BY <1>7 DEF vars
<1>8. QED
  BY <1>3, <1>4, <1>5, <1>6, <1>7 DEF Next, Own

LEMMA ReadInit == Init => ReadInv
<1> SUFFICES ASSUME Init PROVE ReadInv
  OBVIOUS
<1>1. DictInv
  BY InitSafe
<1>2. PreloadOK
  <2>1. load \in [Callers -> Seq(Objects)] /\ \A c \in Callers : call[c] = Idle
    BY DictAssumption DEF Init
  <2>2. QED
    BY <2>1 DEF PreloadOK
<1>3. MirrorsOK
  <2>1. \A i \in Instances : DOMAIN byKey[i] = {}
    BY DEF Init
  <2>2. QED
    BY <2>1 DEF MirrorsOK, Mirrors
<1>4. RowsOK
  BY DEF Init, RowsOK
<1>5. QED
  BY <1>1, <1>2, <1>3, <1>4 DEF ReadInv

THEOREM ReadInvariant == Spec => []ReadInv
<1>1. ReadInv /\ [Next]_vars => ReadInv'
  <2> SUFFICES ASSUME ReadInv, [Next]_vars PROVE ReadInv'
    OBVIOUS
  <2>1. DictInv'
    BY NextSafe DEF ReadInv
  <2>2. PreloadOK' /\ MirrorsOK' /\ RowsOK'
    BY <2>1, PreloadSafe, MirrorsSafe, RowsSafe
  <2>3. QED
    BY <2>1, <2>2 DEF ReadInv
<1>2. QED
  BY <1>1, ReadInit, PTL DEF Spec

\* The ids in a cache are ids of the sequence.
LEMMA CachedIds ==
  ASSUME DictInv, NEW i \in Instances
  PROVE  Ids(byKey[i])
<1>1. ASSUME NEW k \in DOMAIN byKey[i] PROVE byKey[i][k] \in 1 .. MaxId
  <2>1. k \in DOMAIN table /\ byKey[i][k] = table[k]
    BY DEF DictInv, CachesOK, CacheAgrees
  <2>2. QED
    BY <2>1, DictAssumption DEF DictInv, TableOK
<1>2. QED
  BY <1>1 DEF Ids

\* What the collectors interned up front is all that the payloads look up, for
\* every kind of object and whatever its strings are, while others insert the
\* same ones, fail or restart.
THEOREM PreloadTheorem == Spec => []PreloadCovers
<1>1. ASSUME ReadInv, NEW c \in Callers, call[c].pc = "write"
      PROVE  Complete(Payload(byKey[Home[c]], call[c].object))
  <2>1. call[c] # Idle /\ Home[c] \in Instances
    BY <1>1, IdlePc, DictAssumption
  <2>2. call[c].object \in Objects /\ Entries(call[c].object) \subseteq DOMAIN byKey[Home[c]]
    BY <1>1, <2>1 DEF ReadInv, PreloadOK, Preloaded
  <2>3. Ids(byKey[Home[c]]) /\ call[c].object.kind \in Kinds
    BY <1>1, <2>1, <2>2, CachedIds, DictAssumption DEF ReadInv, IsObject
  <2>4. QED
    BY <2>2, <2>3, CoveredComplete
<1>2. ReadInv => PreloadCovers
  BY <1>1 DEF PreloadCovers
<1>3. QED
  BY <1>2, ReadInvariant, PTL

\* A process reads every row it wrote, or found when it started, as it was
\* submitted: every field is written and resolved under one meaning, and no id
\* changes its string.
THEOREM ReadableTheorem == Spec => []OwnRowsReadable
<1>1. ASSUME ReadInv, NEW i \in Instances, NEW w \in mine[i]
      PROVE  Build(byId[i], w.row) = ReadBack(w.object)
  <2>1. /\ w.object \in Objects /\ Entries(w.object) \subseteq DOMAIN byKey[i]
        /\ w.row = Payload(byKey[i], w.object)
    BY <1>1 DEF ReadInv, RowsOK, Stored
  <2>2. IsObject(w.object)
    BY <2>1, DictAssumption
  <2>3. Ids(byKey[i]) /\ Mirrors(byId[i], byKey[i])
    BY <1>1, CachedIds DEF ReadInv, MirrorsOK
  <2>4. QED
    BY <2>1, <2>2, <2>3, CoveredReadBack
<1>2. ReadInv => OwnRowsReadable
  BY <1>1 DEF OwnRowsReadable
<1>3. QED
  BY <1>2, ReadInvariant, PTL
=============================================================================
