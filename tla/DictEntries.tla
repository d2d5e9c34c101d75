---------------------------- MODULE DictEntries -----------------------------
(***************************************************************************)
(* Which strings of an object go through tweet.string_dict, and under      *)
(* which meaning.  Three places of the program say it independently:       *)
(*   - the collectors, what a request interns up front (dicts.rs);         *)
(*   - the payloads, what is written as an id (payloads.rs);               *)
(*   - the builders, what an id is resolved to (tweet_query/build/).       *)
(*                                                                         *)
(* An object is a record with its kind and the fields that hold such       *)
(* strings; lists of strings are sets of them, texts the set of the style  *)
(* names in them.  byKey and byId are the two maps of a cache.             *)
(***************************************************************************)
EXTENDS Naturals, FiniteSets

CONSTANTS
  Null,     \* no string, no id
  Trim(_)   \* normalize_value: the string without blanks around it, or Null

\* An id the cache lacks; ids begin at 1.
Unknown == 0

ASSUME NullAssumption == Null \notin Nat /\ Trim(Null) = Null

Kinds == {"user_snapshot", "tweet_place", "tweet", "tweet_policy", "tweet_community_note",
          "media", "media_resource"}

Keys(meaning, strings) == {<<meaning, Trim(v)>> : v \in {s \in strings : Trim(s) # Null}}
One(v) == {v} \ {Null}
Lists == {"bio", "legacy_text", "note_text", "subtitle", "footer", "available_actions",
          "tag_kinds", "sensitivity_warnings", "content_types"}
TextOf(styles) == IF styles = Null THEN {} ELSE styles

FieldsOf(kind) ==
  {"kind"} \cup
  CASE kind = "user_snapshot" -> {"avatar_shape", "bio", "verified_type", "relation",
                                  "parody_label", "professional_type"}
    [] kind = "tweet_place" -> {"country", "country_code", "place_kind"}
    [] kind = "tweet" -> {"source", "language", "legacy_text", "note_text"}
    [] kind = "tweet_policy" -> {"reply_policy", "available_actions"}
    [] kind = "tweet_community_note" -> {"subtitle", "footer"}
    [] kind = "media" -> {"large", "medium", "small", "thumb", "tag_kinds", "sensitivity_warnings"}
    [] kind = "media_resource" -> {"availability", "content_types"}

\* A text may be missing, a list of strings may only be empty.
IsObject(o) ==
  /\ o.kind \in Kinds /\ DOMAIN o = FieldsOf(o.kind)
  /\ \A f \in DOMAIN o \cap {"available_actions", "tag_kinds", "sensitivity_warnings",
                             "content_types"} : o[f] # Null

-----------------------------------------------------------------------------
(* Collectors.                                                             *)

TextEntries(styles) == Keys("tweet_text_style_name", TextOf(styles))

UserSnapshotEntries(o) ==
  Keys("tweet_user_avatar_shape", One(o.avatar_shape)) \cup TextEntries(o.bio)
  \cup Keys("tweet_user_verification_type", One(o.verified_type))
  \cup Keys("tweet_user_disclosure_relation", One(o.relation))
  \cup Keys("tweet_user_parody_label", One(o.parody_label))
  \cup Keys("tweet_user_professional_type", One(o.professional_type))

TweetPlaceEntries(o) ==
  Keys("tweet_country_name", One(o.country)) \cup Keys("tweet_country_code", One(o.country_code))
  \cup Keys("tweet_place_kind", One(o.place_kind))

TweetEntries(o) ==
  Keys("tweet_source", One(o.source)) \cup Keys("tweet_language_code", One(o.language))
  \cup TextEntries(o.legacy_text) \cup TextEntries(o.note_text)

TweetPolicyEntries(o) ==
  Keys("tweet_reply_policy_code", One(o.reply_policy))
  \cup Keys("tweet_action_code", o.available_actions)

CommunityNoteEntries(o) == TextEntries(o.subtitle) \cup TextEntries(o.footer)

\* Mutant: the size named thumb is left to a statement of its own.
MediaEntriesNoThumb(o) ==
  Keys("tweet_media_resize_mode", One(o.large) \cup One(o.medium) \cup One(o.small))
  \cup Keys("tweet_media_tag_kind", o.tag_kinds)
  \cup Keys("tweet_media_sensitivity_code", o.sensitivity_warnings)
MediaEntries(o) ==
  Keys("tweet_media_resize_mode", One(o.large) \cup One(o.medium) \cup One(o.small) \cup One(o.thumb))
  \cup Keys("tweet_media_tag_kind", o.tag_kinds)
  \cup Keys("tweet_media_sensitivity_code", o.sensitivity_warnings)

MediaResourceEntries(o) ==
  Keys("tweet_media_availability_status", One(o.availability))
  \cup Keys("tweet_video_content_type", o.content_types)

Entries(o) ==
  CASE o.kind = "user_snapshot" -> UserSnapshotEntries(o)
    [] o.kind = "tweet_place" -> TweetPlaceEntries(o)
    [] o.kind = "tweet" -> TweetEntries(o)
    [] o.kind = "tweet_policy" -> TweetPolicyEntries(o)
    [] o.kind = "tweet_community_note" -> CommunityNoteEntries(o)
    [] o.kind = "media" -> MediaEntries(o)
    [] o.kind = "media_resource" -> MediaResourceEntries(o)

-----------------------------------------------------------------------------
(* Payloads.  A string the cache lacks needs a statement of its own, which *)
(* the value Unknown stands for.                                           *)

EnsureId(byKey, meaning, v) ==
  IF v = Null \/ Trim(v) = Null THEN Null
  ELSE IF <<meaning, Trim(v)>> \in DOMAIN byKey THEN byKey[<<meaning, Trim(v)>>] ELSE Unknown
EnsureIds(byKey, meaning, strings) ==
  {EnsureId(byKey, meaning, v) : v \in {s \in strings : Trim(s) # Null}}

TextPayload(c, styles) ==
  IF styles = Null THEN Null ELSE EnsureIds(c, "tweet_text_style_name", styles)

UserSnapshotPayload(c, o) ==
  [kind |-> o.kind,
   avatar_shape |-> EnsureId(c, "tweet_user_avatar_shape", o.avatar_shape),
   bio |-> TextPayload(c, o.bio),
   verified_type |-> EnsureId(c, "tweet_user_verification_type", o.verified_type),
   relation |-> EnsureId(c, "tweet_user_disclosure_relation", o.relation),
   parody_label |-> EnsureId(c, "tweet_user_parody_label", o.parody_label),
   professional_type |-> EnsureId(c, "tweet_user_professional_type", o.professional_type)]

\* Mutant: the country is interned as a name and written as a code.
TweetPlacePayloadSwapped(c, o) ==
  [kind |-> o.kind,
   country |-> EnsureId(c, "tweet_country_code", o.country_code),
   country_code |-> EnsureId(c, "tweet_country_name", o.country),
   place_kind |-> EnsureId(c, "tweet_place_kind", o.place_kind)]
TweetPlacePayload(c, o) ==
  [kind |-> o.kind,
   country |-> EnsureId(c, "tweet_country_name", o.country),
   country_code |-> EnsureId(c, "tweet_country_code", o.country_code),
   place_kind |-> EnsureId(c, "tweet_place_kind", o.place_kind)]

TweetPayload(c, o) ==
  [kind |-> o.kind,
   source |-> EnsureId(c, "tweet_source", o.source),
   language |-> EnsureId(c, "tweet_language_code", o.language),
   legacy_text |-> TextPayload(c, o.legacy_text), note_text |-> TextPayload(c, o.note_text)]

TweetPolicyPayload(c, o) ==
  [kind |-> o.kind,
   reply_policy |-> EnsureId(c, "tweet_reply_policy_code", o.reply_policy),
   available_actions |-> EnsureIds(c, "tweet_action_code", o.available_actions)]

CommunityNotePayload(c, o) ==
  [kind |-> o.kind, subtitle |-> TextPayload(c, o.subtitle), footer |-> TextPayload(c, o.footer)]

SizeVariantPayload(c, resize_mode) == EnsureId(c, "tweet_media_resize_mode", resize_mode)
MediaPayload(c, o) ==
  [kind |-> o.kind,
   large |-> SizeVariantPayload(c, o.large), medium |-> SizeVariantPayload(c, o.medium),
   small |-> SizeVariantPayload(c, o.small), thumb |-> SizeVariantPayload(c, o.thumb),
   tag_kinds |-> EnsureIds(c, "tweet_media_tag_kind", o.tag_kinds),
   sensitivity_warnings |->
     EnsureIds(c, "tweet_media_sensitivity_code", o.sensitivity_warnings)]

MediaResourcePayload(c, o) ==
  [kind |-> o.kind,
   availability |-> EnsureId(c, "tweet_media_availability_status", o.availability),
   content_types |-> EnsureIds(c, "tweet_video_content_type", o.content_types)]

Payload(c, o) ==
  CASE o.kind = "user_snapshot" -> UserSnapshotPayload(c, o)
    [] o.kind = "tweet_place" -> TweetPlacePayload(c, o)
    [] o.kind = "tweet" -> TweetPayload(c, o)
    [] o.kind = "tweet_policy" -> TweetPolicyPayload(c, o)
    [] o.kind = "tweet_community_note" -> CommunityNotePayload(c, o)
    [] o.kind = "media" -> MediaPayload(c, o)
    [] o.kind = "media_resource" -> MediaResourcePayload(c, o)

\* Every string of the object had its id in the cache.
Complete(row) ==
  \A f \in DOMAIN row \ {"kind"} :
    IF f \in Lists THEN row[f] = Null \/ Unknown \notin row[f] ELSE row[f] # Unknown

-----------------------------------------------------------------------------
(* Builders.  Unreadable stands for the error that fails the whole object. *)

Unreadable == "missing entry or other meaning"

Resolve(byId, meaning, id) ==
  IF id = Null THEN Null
  ELSE IF id \in DOMAIN byId /\ byId[id][1] = meaning THEN byId[id][2] ELSE Unreadable
ResolveList(byId, meaning, ids) == {Resolve(byId, meaning, id) : id \in ids}
BuildText(d, ids) == IF ids = Null THEN Null ELSE ResolveList(d, "tweet_text_style_name", ids)

BuildUserSnapshot(d, r) ==
  [kind |-> r.kind,
   avatar_shape |-> Resolve(d, "tweet_user_avatar_shape", r.avatar_shape),
   bio |-> BuildText(d, r.bio),
   verified_type |-> Resolve(d, "tweet_user_verification_type", r.verified_type),
   relation |-> Resolve(d, "tweet_user_disclosure_relation", r.relation),
   parody_label |-> Resolve(d, "tweet_user_parody_label", r.parody_label),
   professional_type |-> Resolve(d, "tweet_user_professional_type", r.professional_type)]

BuildTweetPlace(d, r) ==
  [kind |-> r.kind,
   country |-> Resolve(d, "tweet_country_name", r.country),
   country_code |-> Resolve(d, "tweet_country_code", r.country_code),
   place_kind |-> Resolve(d, "tweet_place_kind", r.place_kind)]

BuildTweet(d, r) ==
  [kind |-> r.kind,
   source |-> Resolve(d, "tweet_source", r.source),
   language |-> Resolve(d, "tweet_language_code", r.language),
   legacy_text |-> BuildText(d, r.legacy_text), note_text |-> BuildText(d, r.note_text)]

BuildTweetPolicy(d, r) ==
  [kind |-> r.kind,
   reply_policy |-> Resolve(d, "tweet_reply_policy_code", r.reply_policy),
   available_actions |-> ResolveList(d, "tweet_action_code", r.available_actions)]

BuildCommunityNote(d, r) ==
  [kind |-> r.kind, subtitle |-> BuildText(d, r.subtitle), footer |-> BuildText(d, r.footer)]

BuildMediaVariant(d, id) == Resolve(d, "tweet_media_resize_mode", id)
BuildMedia(d, r) ==
  [kind |-> r.kind,
   large |-> BuildMediaVariant(d, r.large), medium |-> BuildMediaVariant(d, r.medium),
   small |-> BuildMediaVariant(d, r.small), thumb |-> BuildMediaVariant(d, r.thumb),
   tag_kinds |-> ResolveList(d, "tweet_media_tag_kind", r.tag_kinds),
   sensitivity_warnings |->
     ResolveList(d, "tweet_media_sensitivity_code", r.sensitivity_warnings)]

BuildMediaResource(d, r) ==
  [kind |-> r.kind,
   availability |-> Resolve(d, "tweet_media_availability_status", r.availability),
   content_types |-> ResolveList(d, "tweet_video_content_type", r.content_types)]

Build(d, r) ==
  CASE r.kind = "user_snapshot" -> BuildUserSnapshot(d, r)
    [] r.kind = "tweet_place" -> BuildTweetPlace(d, r)
    [] r.kind = "tweet" -> BuildTweet(d, r)
    [] r.kind = "tweet_policy" -> BuildTweetPolicy(d, r)
    [] r.kind = "tweet_community_note" -> BuildCommunityNote(d, r)
    [] r.kind = "media" -> BuildMedia(d, r)
    [] r.kind = "media_resource" -> BuildMediaResource(d, r)

-----------------------------------------------------------------------------
\* What an object is read back as: its strings trimmed, blank ones gone.
Trimmed(v) == IF v = Null THEN Null ELSE Trim(v)
TrimmedAll(strings) == {Trim(v) : v \in strings} \ {Null}
ReadBack(o) ==
  [f \in DOMAIN o |->
     IF f = "kind" THEN o.kind
     ELSE IF f \in Lists THEN IF o[f] = Null THEN Null ELSE TrimmedAll(o[f])
     ELSE Trimmed(o[f])]
=============================================================================
