---------------------------- MODULE ListHandlers ----------------------------
(***************************************************************************)
(* The paged lists of the internal API, one operator per handler.  A list  *)
(* is what its handler makes of a request:                                 *)
(*                                                                         *)
(*   key      the column that orders it, the id breaking ties: "created"   *)
(*            and "updated" are the times of the transaction that inserted *)
(*            and last updated the row, "given" is a time the row carries  *)
(*            and never changes, "order" a position that is rewritten;     *)
(*            "index" is the order of the hits of the search index;        *)
(*   rising   the order is ascending;                                      *)
(*   used     the filters (the sort among them) that shape the answer;     *)
(*   checked  those compared with the ones the cursor carries;             *)
(*   names    the filter by author names, which each request resolves to   *)
(*            ids through the index of users;                              *)
(*   writes   what happens to the rows besides their insertion: "touch"    *)
(*            sets updated_at and may change what the filters look at,     *)
(*            "refile" changes that without setting updated_at, "move"     *)
(*            rewrites the position, "delete" removes the row.             *)
(*                                                                         *)
(* Capabilities are left out: every list first asks the session for one.   *)
(***************************************************************************)

\* A list of the database's rows, read page by page from the row after the
\* cursor's.
Keyset(key, filters, writes) ==
  [key |-> key, rising |-> FALSE, used |-> filters, checked |-> filters,
   names |-> FALSE, writes |-> writes]

\* A list of an index's hits, read page by page by offset.
Hits(filters) == Keyset("index", filters, {})

-----------------------------------------------------------------------------
(* Version 2 of the API (internal_api/v2).                                 *)

\* TweetListSort: the column behind each accepted sort.
SortColumn == [publishedAt |-> "given", createdAt |-> "created", updatedAt |-> "updated"]

\* As ListTweets, but a cursor goes with any sort.
ListTweetsAnySort(sort) ==
  [Keyset(SortColumn[sort], {"q", "authorId", "relation", "sort"}, {"touch"})
     EXCEPT !.checked = @ \ {"sort"}]

ListTweets(sort) ==
  Keyset(SortColumn[sort], {"q", "authorId", "relation", "sort"}, {"touch"})

\* The order of the media is that of the tweet's references, which every
\* submission of the tweet writes anew.
ListTweetMedia ==
  [Keyset("order", {"tweetId"}, {"move", "delete"}) EXCEPT !.rising = TRUE]

\* tweet_query_spec_from_search_query and execute_tweet_query: author names
\* become ids before the comparison of the ids.
SearchTweets ==
  [Hits({"q", "tweetIds", "authorIds", "authorUserNames", "relation", "sort"})
     EXCEPT !.names = TRUE]

\* The same with the user's id as the only author.
ListTwitterUserTweets == Hits({"q", "authorIds", "relation", "sort"})

SearchTwitterUsers == Hits({"userIds", "userNamePrefix", "displayNamePrefix"})

ListTwitterUsers == Keyset("updated", {"q"}, {"touch"})

ListTwitterUserSnapshots == Keyset("given", {"userId"}, {})

ListTwitterUserStats == Keyset("given", {"userId"}, {})

\* The status of the transfer is another table's.
ListMedia == Keyset("updated", {"q", "mediaType", "transferStatus"}, {"touch", "refile"})

ListMediaResources == Keyset("given", {"mediaId"}, {})

ListMediaTweets == Keyset("given", {"mediaId"}, {"delete"})

ListMediaTransferTasks == Keyset("updated", {"mediaId"}, {"touch"})

ListTransferTasks == Keyset("updated", {"q", "status"}, {"touch"})

ListStorageObjects == Keyset("created", {"q"}, {})

ListStorageObjectTasks == Keyset("updated", {"objectId"}, {"touch"})

ListIndexTasks == Keyset("updated", {"q", "status", "targetKind"}, {"touch"})

ListEvents == Keyset("created", {"actor", "resourceType", "resourceId", "eventType"}, {})

ListUsers == Keyset("created", {"q", "status"}, {"touch"})

ListUserSessions == Keyset("created", {"userId"}, {"delete"})

ListUserSsoAuthorizations == Keyset("created", {"userId"}, {"touch"})

-----------------------------------------------------------------------------
(* Version 1 (admin/v1.rs).  Tweets and users are searched when there is a *)
(* query text; the sort counts only then.                                  *)

AdminListUsers == Keyset("created", {"q", "status", "role"}, {"touch"})

AdminListTwitterUsers == Keyset("updated", {"q"}, {"touch"})

AdminListTwitterUsersSearch == Hits({"q", "sort"})

AdminListTweets == Keyset("given", {"q", "authorId", "relation"}, {"touch"})

AdminListTweetsSearch == Hits({"q", "sort", "authorId", "relation"})

AdminListMedia == Keyset("updated", {"q", "mediaType", "transferStatus"}, {"touch", "refile"})

AdminListStorageObjects == Keyset("created", {"q"}, {})

AdminListTransferTasks == Keyset("updated", {"q", "status"}, {"touch"})

-----------------------------------------------------------------------------
AllLists ==
  {ListTweets(sort) : sort \in DOMAIN SortColumn}
    \cup {ListTweetMedia, SearchTweets, ListTwitterUserTweets, SearchTwitterUsers,
          ListTwitterUsers, ListTwitterUserSnapshots, ListTwitterUserStats, ListMedia,
          ListMediaResources, ListMediaTweets, ListMediaTransferTasks, ListTransferTasks,
          ListStorageObjects, ListStorageObjectTasks, ListIndexTasks, ListEvents,
          ListUsers, ListUserSessions, ListUserSsoAuthorizations}
    \cup {AdminListUsers, AdminListTwitterUsers, AdminListTwitterUsersSearch,
          AdminListTweets, AdminListTweetsSearch, AdminListMedia,
          AdminListStorageObjects, AdminListTransferTasks}
=============================================================================
