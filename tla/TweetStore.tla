----------------------------- MODULE TweetStore -----------------------------
(***************************************************************************)
(* The SQL functions that write schema tweet (migrations 050, 040 and 090, *)
(* each in the version in force) as operators on tables.  A table is a     *)
(* function from keys to rows, a row a function from column names to       *)
(* values, Null standing for NULL and for an empty array.                  *)
(*                                                                         *)
(* A statement of PostgreSQL at READ COMMITTED reads one snapshot, and its *)
(* ON CONFLICT clause looks at the row as it is when the row lock is held. *)
(* The operators keep the two apart: Decide* and Plan* take the snapshot,  *)
(* Write*, Appended and Synced the tables at the moment of the write.      *)
(*                                                                         *)
(* An input is keyed like its table: DISTINCT ON leaves one row per key,   *)
(* and the callers pass one row per key anyway.                            *)
(***************************************************************************)
EXTENDS Integers, FiniteSets

CONSTANT Null

RefTables == {"tweet_media_ref", "tweet_mention_ref",
              "tweet_hashtag_ref", "tweet_symbol_ref"}
VersionTables == {"user_snapshot", "user_stats", "media_resource", "tweet_stats"}
LookupTables == {"user_category", "hashtag", "symbol"}
FilledTables == {"twitter_user", "media", "tweet_place", "tweet", "tweet_edit",
                 "tweet_policy", "tweet_community_note"}

\* The tables whose rows a write never deletes and whose columns it never
\* replaces.  search.index_queue is not one: a refresh resets its rows.
FactTables == VersionTables \cup LookupTables \cup FilledTables \cup {"transfer_task"}
Tables == FactTables \cup RefTables \cup {"index_queue"}

-----------------------------------------------------------------------------
(* INSERT ... ON CONFLICT DO UPDATE SET c = COALESCE(table.c, EXCLUDED.c)   *)

\* As Filled, with the columns the other way round.
FilledByNew(old, new, cols) ==
  [c \in DOMAIN old |-> IF c \in cols /\ new[c] # Null THEN new[c] ELSE old[c]]

Filled(old, new, cols) ==
  [c \in DOMAIN old |-> IF c \in cols /\ old[c] = Null THEN new[c] ELSE old[c]]

Upsert(table, rows, cols) ==
  [k \in DOMAIN table \cup DOMAIN rows |->
     IF k \notin DOMAIN rows THEN table[k]
     ELSE IF k \notin DOMAIN table THEN rows[k]
     ELSE Filled(table[k], rows[k], cols)]

\* The keys RETURNING yields: the rows inserted, and those the WHERE clause
\* of DO UPDATE lets through because a column is filled.
Changed(table, rows, cols) ==
  {k \in DOMAIN rows : k \in DOMAIN table => Filled(table[k], rows[k], cols) # table[k]}

\* search.enqueue_targets with refresh: the target is pending again.
EnqueueTargets(queue, kind, ids) ==
  [k \in DOMAIN queue \cup {<<kind, i>> : i \in ids} |-> [status |-> "pending"]]

-----------------------------------------------------------------------------
(* Lookup tables: the ids a statement returns are those it inserted or     *)
(* updated and those its snapshot held.  A row that another transaction    *)
(* inserts in between is in neither set.                                   *)

UserCategoryFilled == {"name"}
HashtagFilled == {}
SymbolFilled == {"ticker", "name"}

LookupFilled(t) ==
  CASE t = "user_category" -> UserCategoryFilled
    [] t = "hashtag" -> HashtagFilled
    [] t = "symbol" -> SymbolFilled

Resolved(snapshot, table, rows, cols) ==
  (DOMAIN rows \cap snapshot) \cup Changed(table, rows, cols)

-----------------------------------------------------------------------------
(* Rows keyed by their own id, filled column by column.                    *)

WriteTwitterUsers(db, rows) ==
  [db EXCEPT !["twitter_user"] = Upsert(@, rows, {"registered_at"}),
             !["index_queue"] = EnqueueTargets(@, "user",
                 Changed(db["twitter_user"], rows, {"registered_at"}))]

TweetPlaceFilled == {"name", "full_name", "country_id", "country_code_id",
                     "kind_id", "boundary"}
WriteTweetPlaces(db, rows) ==
  [db EXCEPT !["tweet_place"] = Upsert(@, rows, TweetPlaceFilled)]

\* published_at, author_id, legacy_text and conversation_id are not filled:
\* they are NOT NULL and keep their first value.
TweetFilled == {"source_id", "place_id", "note_id", "note_text", "language_id",
                "reply_to_tweet_id", "reply_to_user_id", "quote_tweet_id",
                "quote_permalink", "repost_id"}
WriteTweets(db, rows) ==
  [db EXCEPT !["tweet"] = Upsert(@, rows, TweetFilled),
             !["index_queue"] = EnqueueTargets(@, "tweet",
                 Changed(db["tweet"], rows, TweetFilled))]

MediaFilled == {"alt_text", "grok_post_id", "geometry", "size_variants",
                "tagged_users", "sensitivity_warning_ids", "origin_tweet_id",
                "origin_user_id", "details"}
WriteMedia(db, rows) == [db EXCEPT !["media"] = Upsert(@, rows, MediaFilled)]

-----------------------------------------------------------------------------
(* Rows that hang on a tweet: those whose tweet is missing are left out.   *)

OfParents(rows, parents) == [k \in DOMAIN rows \cap parents |-> rows[k]]

\* As ChildStatus, blind to the parents.
ChildStatusOfRows(table, rows, cols, parents) ==
  [k \in DOMAIN rows |-> IF k \in Changed(table, rows, cols) THEN "inserted" ELSE "unchanged"]

ChildStatus(table, rows, cols, parents) ==
  [k \in DOMAIN rows |->
     IF k \notin parents THEN "missing_parent"
     ELSE IF k \in Changed(table, rows, cols) THEN "inserted" ELSE "unchanged"]

TweetEditFilled == {"version_ids", "editable_until", "remaining_edits"}
WriteTweetEdits(db, rows, parents) ==
  [db EXCEPT !["tweet_edit"] = Upsert(@, OfParents(rows, parents), TweetEditFilled)]

TweetPolicyFilled == {"reply_policy_id", "followers_only", "is_possibly_sensitive",
                      "available_action_ids", "is_media_visibility_restricted",
                      "paid_promotion"}
WriteTweetPolicies(db, rows, parents) ==
  [db EXCEPT !["tweet_policy"] = Upsert(@, OfParents(rows, parents), TweetPolicyFilled)]

TweetCommunityNoteFilled == {"note_id", "title", "short_title", "subtitle",
                             "footer", "destination_url"}
WriteTweetCommunityNotes(db, rows, parents) ==
  [db EXCEPT !["tweet_community_note"] =
     Upsert(@, OfParents(rows, parents), TweetCommunityNoteFilled)]

-----------------------------------------------------------------------------
(* Versions: key <<parent, recorded_at>>, appended if they differ from the *)
(* latest version that is not younger.                                     *)

\* As LatestAt, in ascending order.
EarliestAt(table, parent, at) ==
  {k \in DOMAIN table :
     /\ k[1] = parent /\ k[2] <= at
     /\ \A j \in DOMAIN table : j[1] = parent /\ j[2] <= at => k[2] <= j[2]}

\* ORDER BY recorded_at DESC LIMIT 1: no key, or one.
LatestAt(table, parent, at) ==
  {k \in DOMAIN table :
     /\ k[1] = parent /\ k[2] <= at
     /\ \A j \in DOMAIN table : j[1] = parent /\ j[2] <= at => j[2] <= k[2]}

Decision(table, parents, k, row, interval) ==
  LET latest == LatestAt(table, k[1], k[2])
  IN IF k[1] \notin parents THEN "missing_parent"
     ELSE IF \E l \in latest : table[l] = row THEN "unchanged"
     ELSE IF \E l \in latest : k[2] - l[2] < interval THEN "interval"
     ELSE "candidate"

Decisions(table, parents, rows, interval) ==
  [k \in DOMAIN rows |-> Decision(table, parents, k, rows[k], interval)]

\* Snapshots and resources know no interval.
DecideUserSnapshots(db, rows) ==
  Decisions(db["user_snapshot"], DOMAIN db["twitter_user"], rows, 0)
DecideUserStats(db, rows, interval) ==
  Decisions(db["user_stats"], DOMAIN db["twitter_user"], rows, interval)
DecideMediaResources(db, rows) ==
  Decisions(db["media_resource"], DOMAIN db["media"], rows, 0)
DecideTweetStats(db, rows, interval) ==
  Decisions(db["tweet_stats"], DOMAIN db["tweet"], rows, interval)

Candidates(decisions) == {k \in DOMAIN decisions : decisions[k] = "candidate"}

\* ON CONFLICT (parent, recorded_at) DO NOTHING
Appended(table, rows, decisions) ==
  [k \in DOMAIN table \cup Candidates(decisions) |->
     IF k \in DOMAIN table THEN table[k] ELSE rows[k]]

AppendedStatus(table, decisions) ==
  [k \in DOMAIN decisions |->
     IF decisions[k] # "candidate" THEN decisions[k]
     ELSE IF k \in DOMAIN table THEN "duplicate" ELSE "inserted"]

\* append_user_snapshots_if_changed also queues the users it inserted for.
QueueSnapshots(db, decisions) ==
  [db EXCEPT !["index_queue"] = EnqueueTargets(@, "user",
     {k[1] : k \in Candidates(decisions) \ DOMAIN db["user_snapshot"]})]

-----------------------------------------------------------------------------
(* The references of a tweet: key <<tweet, target>>.  A plan is what one   *)
(* statement derives from its snapshot; deleted and inserted are the two   *)
(* data-modifying parts of its WITH list.                                  *)

EffectiveRefs(db, refs) ==
  [k \in {k \in DOMAIN refs : k[1] \in DOMAIN db["tweet"]} |-> refs[k]]

OfTweet(table, i) == [k \in {k \in DOMAIN table : k[1] = i} |-> table[k]]

SyncPlan(db, t, ids, refs, desired) ==
  LET changed == {i \in ids \cap DOMAIN db["tweet"] : OfTweet(desired, i) # OfTweet(db[t], i)}
      filtered(i) == OfTweet(desired, i) # OfTweet(refs, i)
  IN [deleted  |-> {k \in DOMAIN db[t] : k[1] \in changed},
      inserted |-> [k \in {k \in DOMAIN desired : k[1] \in changed} |-> desired[k]],
      status   |-> [i \in ids |->
         IF i \notin DOMAIN db["tweet"] THEN "missing_tweet"
         ELSE IF i \in changed
              THEN IF filtered(i) THEN "replaced_filtered" ELSE "replaced"
              ELSE IF filtered(i) THEN "unchanged_filtered" ELSE "unchanged"]]

\* References to media the store does not hold are filtered out; the targets
\* of the other references are not looked at.
PlanMediaRefs(db, ids, refs) ==
  LET effective == EffectiveRefs(db, refs)
  IN SyncPlan(db, "tweet_media_ref", ids, refs,
              [k \in {k \in DOMAIN effective : k[2] \in DOMAIN db["media"]} |-> effective[k]])
PlanMentionRefs(db, ids, refs) ==
  SyncPlan(db, "tweet_mention_ref", ids, refs, EffectiveRefs(db, refs))
PlanHashtagRefs(db, ids, refs) ==
  SyncPlan(db, "tweet_hashtag_ref", ids, refs, EffectiveRefs(db, refs))
PlanSymbolRefs(db, ids, refs) ==
  SyncPlan(db, "tweet_symbol_ref", ids, refs, EffectiveRefs(db, refs))

\* The order of the two parts is unspecified: an insert that runs before the
\* delete meets the rows about to go.
Clashes(table, plan, insertFirst) ==
  DOMAIN plan.inserted \cap (DOMAIN table \ (IF insertFirst THEN {} ELSE plan.deleted))

\* As Synced, without the deletion.
SyncedKeeping(table, plan) ==
  [k \in DOMAIN table \cup DOMAIN plan.inserted |->
     IF k \in DOMAIN plan.inserted THEN plan.inserted[k] ELSE table[k]]

Synced(table, plan) ==
  [k \in (DOMAIN table \ plan.deleted) \cup DOMAIN plan.inserted |->
     IF k \in DOMAIN plan.inserted THEN plan.inserted[k] ELSE table[k]]
=============================================================================
