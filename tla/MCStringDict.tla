----------------------------- MODULE MCStringDict -----------------------------
(* Objects for StringDict: between them they fill every field with a       *)
(* string, share strings between fields and meanings, and hold blanks.     *)
EXTENDS StringDict

McCallers == {1, 2, 3}
McInstances == {"A", "B"}
\* Two requests in one process, one in another.
McHome == [c \in McCallers |-> IF c = 3 THEN "B" ELSE "A"]
McTrim(v) == CASE v = " x" -> "x" [] v = " " -> Null [] OTHER -> v

User == [kind |-> "user_snapshot", avatar_shape |-> Null, bio |-> Null, verified_type |-> Null,
         relation |-> Null, parody_label |-> Null, professional_type |-> Null]
Place == [kind |-> "tweet_place", country |-> "x", country_code |-> "y", place_kind |-> Null]
Tweet == [kind |-> "tweet", source |-> " x", language |-> "y", legacy_text |-> {}, note_text |-> Null]
Mixed == [Tweet EXCEPT !.source = "x", !.language = Null]
Texts == [Tweet EXCEPT !.source = Null, !.language = Null, !.legacy_text = {"x", " x", " "}, !.note_text = {"y"}]
Policy == [kind |-> "tweet_policy", reply_policy |-> "x", available_actions |-> {"x", " "}]
Note == [kind |-> "tweet_community_note", subtitle |-> {"x"}, footer |-> {"y"}]
Medium == [kind |-> "media", large |-> "x", medium |-> "y", small |-> Null, thumb |-> Null,
           tag_kinds |-> {}, sensitivity_warnings |-> {}]
Resource == [kind |-> "media_resource", availability |-> "x", content_types |-> {"x", "y"}]
Small == [Medium EXCEPT !.large = Null, !.medium = Null, !.small = "x", !.thumb = "y"]
Tagged == [Medium EXCEPT !.large = " ", !.medium = Null, !.tag_kinds = {"x"}, !.sensitivity_warnings = {"x"}]

Load(a, b, c) == [i \in McCallers |-> CASE i = 1 -> a [] i = 2 -> b [] i = 3 -> c]

One3(a) == Load(a, <<>>, <<>>)

\* Requests that meet, then requests that fill one kind of object each.
McLoads ==
  { Load(<<Tweet>>, <<Tweet>>, <<Mixed>>),
    Load(<<Tweet, Place>>, <<>>, <<Tweet>>),
    Load(<<Texts>>, <<Note>>, <<>>),
    Load(<<Policy>>, <<>>, <<Policy, Policy>>),
    Load(<<Medium>>, <<Small>>, <<>>),
    One3(<<Resource, Tagged>>),
    One3(<<[User EXCEPT !.avatar_shape = "x", !.bio = {"x"}],
           [User EXCEPT !.verified_type = " x", !.relation = "y"]>>),
    One3(<<[User EXCEPT !.parody_label = "x", !.professional_type = "x"]>>),
    One3(<<[Place EXCEPT !.place_kind = "x"]>>) }
=============================================================================
