--------------------------- MODULE SubmitPipeline ---------------------------
(***************************************************************************)
(* POST /tweets/submit: a request of users, tweets and media is converted  *)
(* to rows and written by a fixed sequence of statements, each of them a   *)
(* transaction of its own (tweet_submit/prepare.rs, convert/, execute/).   *)
(* Requests run concurrently; any statement may fail, its answer may be    *)
(* lost after it took effect, and a request may end between two of them.   *)
(*                                                                         *)
(* A text is [tags, symbols, mentions, bad]: the sets of entities, and     *)
(* whether a range or an id in it is refused.  "at" is the time a version  *)
(* is recorded for: fetchedAt of the part, of its object, or the clock.    *)
(***************************************************************************)
EXTENDS TweetStore, Sequences, Functions

CONSTANTS
  Loads,       \* the inputs: [batches : sequence of requests, active, asked : BOOLEAN]
  Unparsable,  \* an id that is no number
  Interval,    \* ingest.stats_sample_interval_seconds
  MaxItems,    \* ingest.max_items_per_batch
  MaxFaults    \* bound on failed or unacknowledged statements and lost requests

\* The contract (tweet_submit/contract.rs), as far as the model reads it.
IsText(text) ==
  /\ DOMAIN text = {"tags", "symbols", "mentions", "bad"} /\ text.bad \in BOOLEAN
  /\ \A g \in text.symbols : DOMAIN g = {"symbol", "ticker"}

IsUser(u) ==
  /\ DOMAIN u = {"id", "registered", "categories", "profile", "stats"}
  /\ \A c \in u.categories : DOMAIN c = {"code", "name"}
  /\ u.profile # Null => u.profile.at \in Nat /\ IsText(u.profile.bio)
  /\ u.stats # Null => u.stats.at \in Nat /\ u.stats.bad \in BOOLEAN

IsTweet(w) ==
  /\ DOMAIN w = {"id", "author", "place", "legacy", "note", "bad", "edit", "policy",
                 "community", "stats", "media"}
  /\ w.author # Null /\ w.legacy # Null /\ IsText(w.legacy) /\ w.bad \in BOOLEAN
  /\ w.media \in Seq(Range(w.media))
  /\ w.note # Null => IsText(w.note)
  /\ w.place # Null => DOMAIN w.place = {"id", "name"}
  /\ w.edit # Null => w.edit.bad \in BOOLEAN
  /\ w.community # Null => IsText(w.community.text)
  /\ w.stats # Null => w.stats.at \in Nat /\ w.stats.bad \in BOOLEAN

IsMedium(m) ==
  /\ DOMAIN m = {"id", "type", "alt", "bad", "resource"}
  /\ m.type \in {"photo", "video", "animated_gif"} \ {Null} /\ m.bad \in BOOLEAN
  /\ m.resource # Null =>
       /\ m.resource.at \in Nat /\ m.resource.bad \in BOOLEAN
       /\ \A v \in Range(m.resource.variants) : DOMAIN v = {"type", "bitrate", "url"}

ASSUME SubmitAssumption ==
  /\ Interval \in Nat /\ MaxItems \in Nat /\ MaxFaults \in Nat
  /\ Null \notin BOOLEAN
  /\ \A l \in Loads : \A p \in DOMAIN l.batches :
       /\ \A k \in {"users", "tweets", "media"} :
            l.batches[p][k] \in Seq(Range(l.batches[p][k]))
       /\ \A u \in Range(l.batches[p].users) : IsUser(u)
       /\ \A w \in Range(l.batches[p].tweets) : IsTweet(w)
       /\ \A m \in Range(l.batches[p].media) : IsMedium(m)

VARIABLES
  load,    \* what this behaviour submits
  db,      \* the tables
  req,     \* the state of each request
  admin,   \* an administrator's request for a transfer task, and what it has read
  faults,  \* faults so far
  seen,    \* history: the version inputs stored or found unchanged
  untidy,  \* history: <<table, parent>> with late or overlapping versions
  lastSync \* history: the last committed relation sync of each tweet

Requests == DOMAIN load.batches

vars == <<load, db, req, admin, faults, seen, untidy, lastSync>>
history == <<seen, untidy, lastSync>>

-----------------------------------------------------------------------------
(* The request.                                                            *)

Item(b, x) == b[x[1]][x[2]]
Present(b) == UNION {{<<k, i>> : i \in DOMAIN b[k]} : k \in {"users", "tweets", "media"}}

\* collect_last_valid_i64_indices: of equal ids the last one counts.
Live(b, x) ==
  /\ Item(b, x).id # Unparsable
  /\ \A j \in DOMAIN b[x[1]] : b[x[1]][j].id = Item(b, x).id => j <= x[2]

LiveOf(b, kind) == {x \in Present(b) : x[1] = kind /\ Live(b, x)}
LiveTweets(b) == {x \in LiveOf(b, "tweets") : Item(b, x).author # Unparsable}

NonNull(S) == S \ {Null}
UserTexts(u) == IF u.profile = Null THEN {} ELSE {u.profile.bio}
NoteTexts(w) == IF w.note = Null THEN {} ELSE {w.note}
TweetTexts(w) == {w.legacy} \cup NoteTexts(w)
                   \cup (IF w.community = Null THEN {} ELSE {w.community.text})

Texts(b, x) == IF x[1] = "users" THEN UserTexts(Item(b, x))
               ELSE IF x[1] = "tweets" THEN TweetTexts(Item(b, x)) ELSE {}
CategoriesOf(b, x) == IF x[1] = "users" THEN Item(b, x).categories ELSE {}

\* resolve_submit_lookup_ids reads every item with readable ids, also one
\* that a later item shadows.
Readable(b) == {x \in Present(b) : /\ Item(b, x).id # Unparsable
                                   /\ x[1] = "tweets" => Item(b, x).author # Unparsable}

\* The first value that is there, if any.
Known(values) == IF NonNull(values) = {} THEN Null ELSE CHOOSE v \in NonNull(values) : TRUE

LookupRows(b, items, t) ==
  LET texts == UNION {Texts(b, x) : x \in items}
      categories == UNION {CategoriesOf(b, x) : x \in items}
      symbols == UNION {text.symbols : text \in texts}
  IN IF t = "user_category"
     THEN [c \in {g.code : g \in categories} |->
             [name |-> Known({g.name : g \in {h \in categories : h.code = c}})]]
     ELSE IF t = "hashtag"
     THEN [h \in UNION {text.tags : text \in texts} |-> [tag |-> h]]
     ELSE [s \in {g.symbol : g \in symbols} |->
             [ticker |-> Known({g.ticker : g \in {h \in symbols : h.symbol = s}}),
              name |-> Null]]

-----------------------------------------------------------------------------
(* Conversion: which parts of an item become rows.  ids are the keys the   *)
(* lookups resolved.                                                       *)

TextConverts(text, ids) ==
  /\ ~text.bad
  /\ text.tags \subseteq ids["hashtag"]
  /\ {s.symbol : s \in text.symbols} \subseteq ids["symbol"]

SnapshotConverts(u, ids) ==
  /\ TextConverts(u.profile.bio, ids)
  /\ {c.code : c \in u.categories} \subseteq ids["user_category"]

\* One refused part of a tweet refuses all of it but its author and place.
TweetConverts(w, ids) ==
  /\ ~w.bad
  /\ \A text \in TweetTexts(w) : TextConverts(text, ids)
  /\ w.edit # Null => ~w.edit.bad
  /\ w.stats # Null => ~w.stats.bad

UserSnapshotRow(u) == [bio |-> u.profile.bio, categories |-> {c.code : c \in u.categories}]
TweetRow(w) == [author_id |-> w.author, legacy_text |-> w.legacy, note_text |-> w.note,
                place_id |-> IF w.place = Null THEN Null ELSE w.place.id]
PlaceRow(place) == [name |-> place.name]
MediaResourceRow(m) == [media_url |-> m.resource.url, video |-> m.resource.variants]

\* dedupe_media_refs keeps the first position of a medium; the other
\* references come from the two texts, without duplicates.
MediaRefs(w) ==
  [k \in {<<w.id, w.media[i]>> : i \in DOMAIN w.media} |->
     CHOOSE i \in DOMAIN w.media : w.media[i] = k[2] /\ \A j \in 1..i - 1 : w.media[j] # k[2]]
TextRefs(w, Targets(_)) ==
  [k \in {<<w.id, g>> : g \in UNION {Targets(text) : text \in {w.legacy} \cup NoteTexts(w)}} |-> 0]
Mentions(text) == text.mentions
Tags(text) == text.tags
Symbols(text) == {s.symbol : s \in text.symbols}
RefsOf(w) == [tweet_media_ref |-> MediaRefs(w), tweet_mention_ref |-> TextRefs(w, Mentions),
              tweet_hashtag_ref |-> TextRefs(w, Tags), tweet_symbol_ref |-> TextRefs(w, Symbols)]

-----------------------------------------------------------------------------
(* PreparedSubmitBatch: for each table the rows and the items they are of. *)

Entry(x, key, row) == [item |-> x, key |-> key, row |-> row]
NoPlan == [t \in Tables \cup {"relations"} |-> {}]

UserPart(b, users, tweets, ids) ==
  LET u(x) == Item(b, x)
      profiled == {x \in users : u(x).profile # Null /\ SnapshotConverts(u(x), ids[x])}
      counted == {x \in users : u(x).stats # Null /\ ~u(x).stats.bad}
  IN [twitter_user |->
        {Entry(x, u(x).id, [registered_at |-> u(x).registered]) : x \in users}
          \cup {Entry(x, u(x).author, [registered_at |-> Null]) : x \in tweets},
      user_snapshot |->
        {Entry(x, <<u(x).id, u(x).profile.at>>, UserSnapshotRow(u(x))) : x \in profiled},
      user_stats |->
        {Entry(x, <<u(x).id, u(x).stats.at>>, [count |-> u(x).stats.count]) : x \in counted}]

MediaPart(b, media) ==
  LET m(x) == Item(b, x)
      resourced == {x \in media : m(x).resource # Null /\ ~m(x).resource.bad}
  IN [media |-> {Entry(x, m(x).id, [alt_text |-> m(x).alt, type |-> m(x).type]) : x \in {y \in media : ~m(y).bad}},
      media_resource |->
        {Entry(x, <<m(x).id, m(x).resource.at>>, MediaResourceRow(m(x))) : x \in resourced}]

TweetPart(b, tweets, converted) ==
  LET w(x) == Item(b, x)
      placed == {x \in tweets : w(x).place # Null /\ w(x).place.id # Null}
      having(part) == {x \in converted : w(x)[part] # Null}
  IN [tweet_place |-> {Entry(x, w(x).place.id, PlaceRow(w(x).place)) : x \in placed},
      tweet |-> {Entry(x, w(x).id, TweetRow(w(x))) : x \in converted},
      tweet_edit |-> {Entry(x, w(x).id, [version_ids |-> w(x).edit.versions]) : x \in having("edit")},
      tweet_policy |-> {Entry(x, w(x).id, [reply_policy_id |-> w(x).policy]) : x \in having("policy")},
      tweet_community_note |->
        {Entry(x, w(x).id, [title |-> w(x).community.title]) : x \in having("community")},
      tweet_stats |->
        {Entry(x, <<w(x).id, w(x).stats.at>>, [count |-> w(x).stats.count]) : x \in having("stats")},
      relations |-> {Entry(x, w(x).id, RefsOf(w(x))) : x \in converted}]

\* ids[x] are the lookup keys item x finds.
Plan(b, ids) ==
  LET tweets == LiveTweets(b)
      converted == {x \in tweets : TweetConverts(Item(b, x), ids[x])}
      parts == <<UserPart(b, LiveOf(b, "users"), tweets, ids), MediaPart(b, LiveOf(b, "media")),
                 TweetPart(b, tweets, converted)>>
  IN [t \in DOMAIN NoPlan |->
        IF \E i \in DOMAIN parts : t \in DOMAIN parts[i]
        THEN parts[CHOOSE i \in DOMAIN parts : t \in DOMAIN parts[i]][t] ELSE {}]

\* Of several entries with one key, a user's goes before an author's and an
\* earlier place before a later one.
Precedes(x, y) == IF x[1] = y[1] THEN x[2] < y[2] ELSE x[1] = "users"
Rows(entries) ==
  [k \in {e.key : e \in entries} |->
     (CHOOSE e \in entries : e.key = k /\ \A f \in entries :
        f.key = k /\ f # e => Precedes(e.item, f.item)).row]

-----------------------------------------------------------------------------
(* The results per item (ObjectResultBuilder).                             *)

Result(x, op, status, why) == [item |-> x, op |-> op, status |-> status, why |-> why]

\* prepare_submit_batch: the items that never reach a statement.
Refusals(b) ==
  {Result(x, "input", "fatal", "bad_id") : x \in {y \in Present(b) :
      \/ Item(b, y).id = Unparsable
      \/ y[1] = "tweets" /\ Live(b, y) /\ Item(b, y).author = Unparsable}}
  \cup {Result(x, "input", "skipped", "shadowed") : x \in {y \in Present(b) :
      Item(b, y).id # Unparsable /\ ~Live(b, y)}}

Missing(items, plan, t) == items \ {e.item : e \in plan[t]}
\* As Refused, without a word.
RefusedSilently(items, op) == {}

Refused(items, op) == {Result(x, op, "failed", "conversion") : x \in items}

ConversionFailures(b, plan) ==
  LET users == LiveOf(b, "users")
      media == LiveOf(b, "media")
  IN Refused(Missing({x \in users : Item(b, x).profile # Null}, plan, "user_snapshot"), "user_snapshot")
     \cup Refused(Missing({x \in users : Item(b, x).stats # Null}, plan, "user_stats"), "user_stats")
     \cup Refused(Missing(media, plan, "media"), "media")
     \cup Refused(Missing({x \in media : Item(b, x).resource # Null}, plan, "media_resource"), "media_resource")
     \cup Refused(Missing(LiveTweets(b), plan, "tweet"), "tweet")

\* finish
ObjectStatus(results, x) ==
  LET has(st) == \E r \in results : r.item = x /\ r.status = st
  IN IF has("failed") /\ (has("accepted") \/ has("skipped")) THEN "partial"
     ELSE IF has("failed") \/ has("fatal") THEN "failed"
     ELSE IF has("accepted") THEN "accepted" ELSE "skipped"

Accepted == {"inserted", "replaced", "replaced_filtered", "enqueued"}
OpName(e, t) == IF t = "twitter_user" /\ e.item[1] = "tweets" THEN "tweet_author" ELSE t

Reports(entries, t, verdict) ==
  {Result(e.item, OpName(e, t), IF verdict[e.key] \in Accepted THEN "accepted" ELSE "skipped",
          verdict[e.key]) : e \in entries}
Failures(entries, t) == {Result(e.item, OpName(e, t), "failed", "statement") : e \in entries}

-----------------------------------------------------------------------------
(* The order of the statements (execute_prepared_submit).                  *)

Steps == <<"user_category", "hashtag", "symbol", "convert", "dict_preload",
           "twitter_user", "user_snapshot", "user_stats", "media", "media_resource",
           "transfer_task", "tweet_place", "tweet", "tweet_edit", "tweet_policy",
           "tweet_community_note", "tweet_stats", "tweet_media_ref", "tweet_mention_ref",
           "tweet_hashtag_ref", "tweet_symbol_ref", "relations", "done">>

Position(step) == CHOOSE i \in DOMAIN Steps : Steps[i] = step

\* Every writer returns at once when it has no items.
HasWork(s, step) ==
  IF step \in LookupTables THEN DOMAIN LookupRows(s.batch, Readable(s.batch), step) # {}
  ELSE IF step \in {"convert", "dict_preload", "done"} THEN TRUE
  ELSE IF step = "transfer_task" THEN s.plan["media_resource"] # {}
  ELSE IF step \in RefTables THEN s.plan["relations"] # {}
  ELSE s.plan[step] # {}

After(s, step) ==
  Steps[CHOOSE i \in DOMAIN Steps :
     /\ i > Position(step) /\ HasWork(s, Steps[i])
     /\ \A j \in Position(step) + 1..i - 1 : ~HasWork(s, Steps[j])]

\* snapshot is what the running statement has read, Unread before it has.
\* The ids are Null when the lookups failed and each text looks up its own.
Unread == [unread |-> TRUE]
Started(b) ==
  LET s == [step |-> "", batch |-> b, snapshot |-> Unread, ids |-> [t \in LookupTables |-> {}],
            plan |-> NoPlan, decided |-> << >>, results |-> {}]
      first == IF HasWork(s, Steps[1]) THEN Steps[1] ELSE After(s, Steps[1])
  IN [s EXCEPT !.step = IF Cardinality(Present(b)) > MaxItems THEN "refused" ELSE first]

Init ==
  /\ load \in Loads
  /\ db = [t \in Tables |-> << >>]
  /\ req = [p \in Requests |-> Started(load.batches[p])]
  /\ admin = [step |-> IF load.asked THEN "read" ELSE "done"]
  /\ faults = 0
  /\ seen = {} /\ untidy = {} /\ lastSync = << >>

Advance(s) == [s EXCEPT !.step = After(s, s.step), !.snapshot = Unread]

\* ok: took effect.  failed: did not.  lost: did, and is reported failed.
Outcomes == {"ok", "failed", "lost"}
Suffer(outcome) ==
  /\ outcome # "ok" => faults < MaxFaults
  /\ faults' = IF outcome = "ok" THEN faults ELSE faults + 1
DbAfter(outcome, new) == db' = IF outcome = "failed" THEN db ELSE new

-----------------------------------------------------------------------------
(* Lookups and conversion.                                                 *)

ReadLookup(p) ==
  /\ req[p].step \in LookupTables /\ req[p].snapshot = Unread
  /\ req' = [req EXCEPT ![p].snapshot = [keys |-> DOMAIN db[req[p].step]]]
  /\ UNCHANGED <<load, db, admin, faults, history>>

CommitLookup(p, outcome) ==
  LET s == req[p]
      t == s.step
      rows == LookupRows(s.batch, Readable(s.batch), t)
  IN /\ t \in LookupTables /\ s.snapshot # Unread
     /\ Suffer(outcome)
     /\ DbAfter(outcome, [db EXCEPT ![t] = Upsert(@, rows, LookupFilled(t))])
     /\ req' = [req EXCEPT ![p] =
          IF outcome = "ok"
          THEN Advance([s EXCEPT !.ids[t] = Resolved(s.snapshot.keys, db[t], rows, LookupFilled(t))])
          ELSE [s EXCEPT !.step = "convert", !.ids = Null, !.snapshot = Unread]]
     /\ UNCHANGED <<load, admin, history>>

\* Without the ids of the batch every item looks up its own texts; failing
\* is the item whose statement fails.
OwnIds(b, failing) ==
  [x \in Present(b) |-> [t \in LookupTables |->
     IF x \in failing THEN {} ELSE DOMAIN LookupRows(b, {x}, t)]]
OwnLookups(b, failing) ==
  LET items == (LiveOf(b, "users") \cup LiveTweets(b)) \ failing
  IN [t \in Tables |-> IF t \in LookupTables
        THEN Upsert(db[t], LookupRows(b, items, t), LookupFilled(t)) ELSE db[t]]

Convert(p, failing) ==
  LET s == req[p]
      b == s.batch
      plan == Plan(b, IF s.ids = Null THEN OwnIds(b, failing) ELSE [x \in Present(b) |-> s.ids])
  IN /\ s.step = "convert"
     /\ failing = {} \/ s.ids = Null
     /\ failing \subseteq Present(b) /\ Cardinality(failing) <= 1
     /\ Suffer(IF failing = {} THEN "ok" ELSE "failed")
     /\ db' = IF s.ids = Null THEN OwnLookups(b, failing) ELSE db
     /\ req' = [req EXCEPT ![p] = Advance([s EXCEPT !.plan = plan,
                   !.results = Refusals(b) \cup ConversionFailures(b, plan)])]
     /\ UNCHANGED <<load, admin, history>>

\* preload_submit_batch_dicts: a failure fails every item with a row.
Preload(p, outcome) ==
  LET s == req[p]
      items == UNION {{e.item : e \in s.plan[t]} : t \in DOMAIN s.plan}
  IN /\ s.step = "dict_preload" /\ outcome # "lost"
     /\ Suffer(outcome)
     /\ req' = [req EXCEPT ![p] =
          IF outcome = "ok" THEN Advance(s)
          ELSE [s EXCEPT !.step = "done", !.results = @ \cup
                  {Result(x, "dict_preload", "failed", "statement") : x \in items}]]
     /\ UNCHANGED <<load, db, admin, history>>

-----------------------------------------------------------------------------
(* Statements whose snapshot decides no more than which parents exist: one *)
(* step.                                                                   *)

Write(t, rows) ==
  LET parents == DOMAIN db["tweet"]
  IN CASE t = "twitter_user" -> WriteTwitterUsers(db, rows)
       [] t = "media" -> WriteMedia(db, rows)
       [] t = "tweet_place" -> WriteTweetPlaces(db, rows)
       [] t = "tweet" -> WriteTweets(db, rows)
       [] t = "tweet_edit" -> WriteTweetEdits(db, rows, parents)
       [] t = "tweet_policy" -> WriteTweetPolicies(db, rows, parents)
       [] t = "tweet_community_note" -> WriteTweetCommunityNotes(db, rows, parents)

FilledColumns(t) ==
  CASE t = "twitter_user" -> {"registered_at"}
    [] t = "media" -> MediaFilled
    [] t = "tweet_place" -> TweetPlaceFilled
    [] t = "tweet" -> TweetFilled
    [] t = "tweet_edit" -> TweetEditFilled
    [] t = "tweet_policy" -> TweetPolicyFilled
    [] t = "tweet_community_note" -> TweetCommunityNoteFilled

ParentsOf(t, rows) ==
  IF t \in {"tweet_edit", "tweet_policy", "tweet_community_note"} THEN DOMAIN db["tweet"] ELSE DOMAIN rows

\* The foreign keys of tweet.tweet: one missing row fails the whole insert.
ForeignKeysHold(t, rows) ==
  t = "tweet" => \A k \in DOMAIN rows :
     /\ rows[k]["author_id"] \in DOMAIN db["twitter_user"]
     /\ rows[k]["place_id"] \in DOMAIN db["tweet_place"] \cup {Null}

WriteRows(p, outcome) ==
  LET s == req[p]
      t == s.step
      entries == s.plan[t]
      rows == Rows(entries)
  IN /\ t \in FilledTables
     /\ Suffer(outcome)
     /\ IF ForeignKeysHold(t, rows)
        THEN /\ DbAfter(outcome, Write(t, rows))
             /\ req' = [req EXCEPT ![p] = Advance([s EXCEPT !.results = @ \cup
                  IF outcome = "ok"
                  THEN Reports(entries, t, ChildStatus(db[t], rows, FilledColumns(t), ParentsOf(t, rows)))
                  ELSE Failures(entries, t)])]
        ELSE /\ outcome = "ok" /\ db' = db
             /\ req' = [req EXCEPT ![p] = Advance([s EXCEPT !.results = @ \cup Failures(entries, t)])]
     /\ UNCHANGED <<load, admin, history>>

-----------------------------------------------------------------------------
(* Versions: decided on the snapshot, appended with ON CONFLICT DO NOTHING. *)

Decide(t, rows) ==
  CASE t = "user_snapshot" -> DecideUserSnapshots(db, rows)
    [] t = "user_stats" -> DecideUserStats(db, rows, Interval)
    [] t = "media_resource" -> DecideMediaResources(db, rows)
    [] t = "tweet_stats" -> DecideTweetStats(db, rows, Interval)

DecideVersions(p) ==
  LET s == req[p]
  IN /\ s.step \in VersionTables /\ s.snapshot = Unread
     /\ req' = [req EXCEPT ![p].snapshot =
                  [decisions |-> Decide(s.step, Rows(s.plan[s.step])), seen |-> seen]]
     /\ UNCHANGED <<load, db, admin, faults, history>>

\* History: an input that came late, or while another was being decided.
Late(t, k, before) ==
  \E o \in seen : /\ o.table = t /\ o.key[1] = k[1]
                  /\ o.key[2] >= k[2] \/ o \notin before

Remember(t, rows, verdict, before) ==
  LET kept == {k \in DOMAIN rows : verdict[k] \in {"inserted", "unchanged"}}
  IN /\ seen' = seen \cup {[table |-> t, key |-> k, row |-> rows[k]] : k \in kept}
     /\ untidy' = untidy \cup {<<t, k[1]>> : k \in {j \in kept : Late(t, j, before)}}

AppendVersions(p, outcome) ==
  LET s == req[p]
      t == s.step
      rows == Rows(s.plan[t])
      decisions == s.snapshot.decisions
      verdict == AppendedStatus(db[t], decisions)
      written == [db EXCEPT ![t] = Appended(@, rows, decisions)]
  IN /\ t \in VersionTables /\ s.snapshot # Unread
     /\ Suffer(outcome)
     /\ DbAfter(outcome, IF t = "user_snapshot"
                         THEN [written EXCEPT !["index_queue"] =
                                 QueueSnapshots(db, decisions)["index_queue"]]
                         ELSE written)
     /\ req' = [req EXCEPT ![p] = Advance([s EXCEPT
          !.results = @ \cup IF outcome = "ok" THEN Reports(s.plan[t], t, verdict)
                             ELSE Failures(s.plan[t], t),
          !.decided = IF t = "media_resource" /\ outcome = "ok" THEN verdict ELSE @])]
     /\ IF outcome = "failed" THEN UNCHANGED <<seen, untidy>>
                              ELSE Remember(t, rows, verdict, s.snapshot.seen)
     /\ UNCHANGED <<load, admin, lastSync>>

-----------------------------------------------------------------------------
(* Transfer tasks (enqueue_prepared_media_transfers, transfer::enqueue_tasks). *)

Rate(v) == IF v.bitrate = Null THEN 0 ELSE v.bitrate
IsMp4(v) == v.type \in {"video/mp4", "VIDEO/MP4"}

\* max_by_key keeps the last of equal variants.
Best(variants) ==
  LET mp4 == {i \in DOMAIN variants : IsMp4(variants[i])}
  IN IF mp4 = {} THEN 1
     ELSE CHOOSE i \in mp4 : \A j \in mp4 :
            \/ Rate(variants[j]) < Rate(variants[i])
            \/ Rate(variants[j]) = Rate(variants[i]) /\ j <= i

\* select_source
SelectSource(m, row) ==
  IF m.type # "photo" /\ row["video"] # << >> THEN row["video"][Best(row["video"])].url
  ELSE row["media_url"]

\* The URL the statement takes a stored version to stand for: it tells
\* video/mp4 by its exact spelling, puts NULL bitrates last, and leaves the
\* order of equal variants open.
SqlFirst(v, o) ==
  LET exact(x) == x.type = "video/mp4"
  IN \/ exact(v) /\ ~exact(o)
     \/ exact(v) = exact(o) /\ v.bitrate # Null /\ (o.bitrate # Null => v.bitrate > o.bitrate)
SqlUrls(row) ==
  IF row["video"] = << >> THEN {row["media_url"]}
  ELSE {row["video"][i].url : i \in {j \in DOMAIN row["video"] :
          \A h \in DOMAIN row["video"] : ~SqlFirst(row["video"][h], row["video"][j])}}

\* resolved_source: the version asked for, or the latest older one of the
\* same URL.  lucky settles the open order.
SourceVersion(key, url, lucky) ==
  LET same == {k \in DOMAIN db["media_resource"] :
                 LET urls == SqlUrls(db["media_resource"][k])
                 IN url \in urls /\ (lucky \/ urls = {url})}
  IN IF key \in DOMAIN db["media_resource"] THEN {key}
     ELSE LatestAt([k \in same |-> 0], key[1], key[2])

\* As ShouldEnqueue, for new versions only.
ShouldEnqueueNew(verdict) == verdict = "inserted"

ShouldEnqueue(verdict) == verdict \in {"inserted", "unchanged"}

EnqueueTransfers(p, outcome, lucky) ==
  LET s == req[p]
      due == {e \in s.plan["media_resource"] :
                e.key \in DOMAIN s.decided /\ ShouldEnqueue(s.decided[e.key])}
      whole == {e \in due : e.item \in {f.item : f \in s.plan["media"]}}
      url(e) == SelectSource(Item(s.batch, e.item), e.row)
      tasks == IF load.active THEN {e \in whole : url(e) # Null} ELSE {}
      version(e) == SourceVersion(e.key, url(e), lucky)
      found == {e \in tasks : version(e) # {}}
      rows == [k \in UNION {version(e) : e \in found} |->
                 [source_url |-> url(CHOOSE e \in found : k \in version(e))]]
      verdict(e) == IF version(e) \subseteq DOMAIN db["transfer_task"] THEN "already" ELSE "enqueued"
      early == IF ~load.active
               THEN {Result(e.item, "media_transfer", "skipped", "disabled") : e \in due}
               ELSE {Result(e.item, "media_transfer", "failed", "missing_media") : e \in due \ whole}
                    \cup {Result(e.item, "media_transfer", "skipped", "no_source") : e \in whole \ tasks}
  IN /\ s.step = "transfer_task"
     /\ tasks = {} => outcome = "ok"
     /\ Suffer(outcome)
     /\ DbAfter(outcome, [db EXCEPT !["transfer_task"] = Upsert(@, rows, {})])
     /\ req' = [req EXCEPT ![p] = Advance([s EXCEPT !.results = @ \cup early \cup
          IF outcome # "ok" THEN Failures(tasks, "media_transfer")
          ELSE {Result(e.item, "media_transfer",
                       IF verdict(e) = "enqueued" THEN "accepted" ELSE "skipped", verdict(e)) : e \in found}
               \cup {Result(e.item, "media_transfer", "failed", "missing_source") : e \in tasks \ found}])]
     /\ UNCHANGED <<load, admin, history>>

\* create_media_transfer_task: an administrator asks for a task of the latest
\* version.  What is read may be older when it is written.
SqlSources(id, row) == IF db["media"][id]["type"] = "photo" THEN {row["media_url"]} ELSE SqlUrls(row)
LatestVersion(id) ==
  {k \in DOMAIN db["media_resource"] : /\ k[1] = id
     /\ \A j \in DOMAIN db["media_resource"] : j[1] = id => j[2] <= k[2]}

ReadSource ==
  /\ admin.step = "read"
  /\ \E id \in DOMAIN db["media"] : \E k \in LatestVersion(id) :
       \E url \in SqlSources(id, db["media_resource"][k]) :
         admin' = IF url = Null THEN [step |-> "done"]
                  ELSE [step |-> "write", key |-> k, row |-> [source_url |-> url]]
  /\ UNCHANGED <<load, db, req, faults, history>>

CreateTransferTask ==
  /\ admin.step = "write"
  /\ db' = [db EXCEPT !["transfer_task"] = Upsert(@, [k \in {admin.key} |-> admin.row], {})]
  /\ admin' = [step |-> "done"]
  /\ UNCHANGED <<load, req, faults, history>>

-----------------------------------------------------------------------------
(* sync_tweet_relations: four statements with a snapshot each, committed   *)
(* together.                                                               *)

RefsOfAll(entries, t) ==
  [k \in UNION {DOMAIN e.row[t] : e \in entries} |->
     (CHOOSE e \in entries : e.key = k[1]).row[t][k]]

PlanRefs(t, ids, refs) ==
  CASE t = "tweet_media_ref" -> PlanMediaRefs(db, ids, refs)
    [] t = "tweet_mention_ref" -> PlanMentionRefs(db, ids, refs)
    [] t = "tweet_hashtag_ref" -> PlanHashtagRefs(db, ids, refs)
    [] t = "tweet_symbol_ref" -> PlanSymbolRefs(db, ids, refs)

PlanRelations(p) ==
  LET s == req[p]
      t == s.step
      entries == s.plan["relations"]
      plan == PlanRefs(t, {e.key : e \in entries}, RefsOfAll(entries, t))
      read == IF s.snapshot = Unread
              THEN [plans |-> << >>, syncs |-> lastSync, media |-> DOMAIN db["media"]] ELSE s.snapshot
  IN /\ t \in RefTables
     /\ req' = [req EXCEPT ![p].step = After(s, t),
                  ![p].snapshot = [read EXCEPT !.plans =
                     [r \in DOMAIN @ \cup {t} |-> IF r = t THEN plan ELSE @[r]]]]
     /\ UNCHANGED <<load, db, admin, faults, history>>

\* No sync of the tweet was committed since the snapshot was read.
Undisturbed(snapshot, i) ==
  i \in DOMAIN lastSync =>
    i \in DOMAIN snapshot.syncs /\ lastSync[i] = snapshot.syncs[i]

\* History: what the tweet should refer to now, unless syncs overlapped.
SyncOf(p, i) ==
  LET s == req[p]
      present == \A t \in RefTables : s.snapshot.plans[t].status[i] # "missing_tweet"
  IN [by |-> p, refs |-> (CHOOSE e \in s.plan["relations"] : e.key = i).row,
      media |-> s.snapshot.media, alone |-> present /\ Undisturbed(s.snapshot, i)]

CommitRelations(p, outcome, insertFirst) ==
  LET s == req[p]
      plans == s.snapshot.plans
      entries == s.plan["relations"]
      clash == \E t \in RefTables : Clashes(db[t], plans[t], insertFirst) # {}
      synced == {e.key : e \in {f \in entries :
                   \E t \in RefTables : plans[t].status[f.key] # "missing_tweet"}}
      failed == UNION {Failures(entries, t) : t \in RefTables}
      reports == UNION {Reports(entries, t, plans[t].status) : t \in RefTables}
  IN /\ s.step = "relations"
     /\ clash => outcome = "ok"
     /\ Suffer(outcome)
     /\ DbAfter(IF clash THEN "failed" ELSE outcome,
                [t \in Tables |-> IF t \in RefTables THEN Synced(db[t], plans[t]) ELSE db[t]])
     /\ req' = [req EXCEPT ![p] = Advance([s EXCEPT !.results = @ \cup
                  IF clash \/ outcome # "ok" THEN failed ELSE reports])]
     /\ lastSync' = IF clash \/ outcome = "failed" THEN lastSync
                    ELSE [i \in DOMAIN lastSync \cup synced |->
                            IF i \in synced THEN SyncOf(p, i) ELSE lastSync[i]]
     /\ UNCHANGED <<load, admin, seen, untidy>>

\* The client goes away, or the process ends: the handler stops where it is.
Abandon(p) ==
  /\ req[p].step \notin {"done", "refused", "gone"}
  /\ Suffer("failed")
  /\ req' = [req EXCEPT ![p].step = "gone"]
  /\ UNCHANGED <<load, db, admin, history>>

Next ==
  \/ ReadSource \/ CreateTransferTask
  \/ \E p \in Requests :
      \/ ReadLookup(p)
      \/ \E o \in Outcomes : CommitLookup(p, o)
      \/ \E failing \in SUBSET Present(req[p].batch) : Convert(p, failing)
      \/ \E o \in Outcomes : Preload(p, o)
      \/ \E o \in Outcomes : WriteRows(p, o)
      \/ DecideVersions(p)
      \/ \E o \in Outcomes : AppendVersions(p, o)
      \/ \E o \in Outcomes, lucky \in BOOLEAN : EnqueueTransfers(p, o, lucky)
      \/ PlanRelations(p)
      \/ \E o \in Outcomes, insertFirst \in BOOLEAN : CommitRelations(p, o, insertFirst)
      \/ Abandon(p)

Spec == Init /\ [][Next]_vars

-----------------------------------------------------------------------------
(* Properties.                                                             *)

\* The stored version an input is read back as, when asked for its own time.
AsOf(t, key) == LatestAt(db[t], key[1], key[2])

\* What a response calls written or already there is in the store and, as
\* nothing is ever cleared, stays there: a row with every column the input
\* had, a version that gives the input back at its time.  A second place of
\* one id is answered with the first one's result, so only its row is claimed.
\* Of users and tweets the search outbox has a row, too.
StoredAs(t, e) ==
  IF t \in VersionTables
  THEN \E k \in DOMAIN db[t] : k[1] = e.key[1] /\ k[2] <= e.key[2] /\ db[t][k] = e.row
  ELSE /\ e.key \in DOMAIN db[t]
       /\ t # "tweet_place" =>
            \A c \in DOMAIN e.row : e.row[c] # Null => db[t][e.key][c] # Null
       /\ t = "twitter_user" => <<"user", e.key>> \in DOMAIN db["index_queue"]
       /\ t = "tweet" => <<"tweet", e.key>> \in DOMAIN db["index_queue"]
ReportedIsStored ==
  \A p \in Requests : \A t \in FilledTables \cup VersionTables : \A e \in req[p].plan[t] :
     (\E r \in req[p].results : /\ r.item = e.item /\ r.op = OpName(e, t)
                                /\ r.why \in {"inserted", "unchanged"})
       => StoredAs(t, e)

\* The history of a parent whose versions arrived in the order of their times
\* and one at a time is faithful: each input is what the store shows for its
\* time, two neighbours differ, and statistics keep their distance.
HistoryFaithful ==
  /\ \A o \in seen : <<o.table, o.key[1]>> \notin untidy =>
        \A k \in AsOf(o.table, o.key) : db[o.table][k] = o.row
  /\ \A t \in VersionTables : \A k, l \in DOMAIN db[t] :
        /\ k[1] = l[1] /\ k[2] < l[2] /\ <<t, k[1]>> \notin untidy
        /\ \A m \in DOMAIN db[t] : m[1] = k[1] => m[2] <= k[2] \/ l[2] <= m[2]
        => /\ db[t][k] # db[t][l]
           /\ t \in {"user_stats", "tweet_stats"} => l[2] - k[2] >= Interval

\* What the requests of each load say of one medium agrees: for one time they
\* choose one URL; a URL that is chosen for one version and preferred by the
\* statement for another is chosen for that, too; and the URL of what is called
\* a photo, where an administrator may ask for it, is one the statement prefers.
Submitted(l) == UNION {Range(l.batches[p].media) : p \in DOMAIN l.batches}
Versioned(l) == {m \in Submitted(l) : m.resource # Null}
Chosen(m) == SelectSource(m, MediaResourceRow(m))
Offered(m) == SqlUrls(MediaResourceRow(m))
SourcesAgree ==
  \A l \in Loads : \A m \in Submitted(l), n \in Versioned(l) : m.id = n.id =>
    /\ m \in Versioned(l) =>
         /\ m.resource.at = n.resource.at => Chosen(m) = Chosen(n)
         /\ Chosen(m) # Null /\ Chosen(m) \in Offered(n) => Chosen(m) = Chosen(n)
    /\ l.asked /\ m.type = "photo" => n.resource.url \in Offered(n)

\* A medium whose resource was stored or found stored has a transfer task of
\* the URL selected for it once its request is answered, unless the response
\* says that the enqueueing failed: what an earlier request left undone by a
\* failure, a later equal one makes up for.  Where an administrator asked for
\* the task first, its URL is the one the statement prefers.  This needs
\* SourcesAgree: a version that is stored already keeps the task it has.
TransferOwed ==
  \A p \in Requests : \A e \in req[p].plan["media_resource"] :
    LET m == Item(req[p].batch, e.item)
        url == SelectSource(m, e.row)
        says(op, whys) == \E r \in req[p].results :
                            r.item = e.item /\ r.op = op /\ r.why \in whys
    IN /\ req[p].step = "done" /\ load.active /\ url # Null
       /\ says("media_resource", {"inserted", "unchanged"})
       /\ ~says("media_transfer", {"statement", "missing_media", "missing_source"})
       => \E k \in DOMAIN db["transfer_task"] :
            /\ k[1] = e.key[1] /\ k[2] <= e.key[2]
            /\ db["transfer_task"][k]["source_url"] \in
                 {url} \cup (IF load.asked THEN SqlUrls(db["media_resource"][k]) ELSE {})

\* After a sync that overlapped no other sync of the tweet, the tweet refers
\* to exactly what its last conversion listed, less the media that the store
\* did not hold.
RelationsMatch ==
  \A i \in DOMAIN lastSync : lastSync[i].alone =>
    \A t \in RefTables :
      LET refs == lastSync[i].refs[t]
      IN OfTweet(db[t], i) =
           [k \in {k \in DOMAIN refs : t = "tweet_media_ref" => k[2] \in lastSync[i].media} |-> refs[k]]

\* An object answered as accepted or skipped has lost nothing silently: each
\* part of it was carried out or has a result that says why it was not.
PartsOf(b, x) ==
  LET o == Item(b, x)
  IN CASE x[1] = "users" -> {"twitter_user"} \cup (IF o.profile = Null THEN {} ELSE {"user_snapshot"})
                               \cup (IF o.stats = Null THEN {} ELSE {"user_stats"})
       [] x[1] = "media" -> {"media"} \cup (IF o.resource = Null THEN {} ELSE {"media_resource"})
       [] x[1] = "tweets" -> {"tweet_author", "tweet"} \cup RefTables
            \cup (IF o.place = Null \/ o.place.id = Null THEN {} ELSE {"tweet_place"})
            \cup (IF o.edit = Null THEN {} ELSE {"tweet_edit"})
            \cup (IF o.policy = Null THEN {} ELSE {"tweet_policy"})
            \cup (IF o.community = Null THEN {} ELSE {"tweet_community_note"})
            \cup (IF o.stats = Null THEN {} ELSE {"tweet_stats"})
NothingLostSilently ==
  \A p \in Requests : req[p].step = "done" =>
    \A x \in Present(req[p].batch) :
      LET status == ObjectStatus(req[p].results, x)
          of(x1) == {r \in req[p].results : r.item = x1}
      IN IF ~Live(req[p].batch, x) THEN status \in {"failed", "skipped"}
         ELSE status \in {"accepted", "skipped"} =>
                PartsOf(req[p].batch, x) \subseteq {r.op : r \in of(x)}

\* "Do not clear an old non-empty value": of a table of facts no write removes
\* a row or replaces a value that is there.
FactsKept ==
  \A t \in FactTables : \A k \in DOMAIN db[t] :
    /\ k \in DOMAIN db'[t]
    /\ \A c \in DOMAIN db[t][k] : db[t][k][c] # Null => db'[t][k][c] = db[t][k][c]
FactsAreKept == [][FactsKept]_vars
=============================================================================
