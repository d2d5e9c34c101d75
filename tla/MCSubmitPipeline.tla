-------------------------- MODULE MCSubmitPipeline --------------------------
(* Requests for SubmitPipeline: each load aims at one kind of meeting.     *)
EXTENDS SubmitPipeline

Text(tags, mentions) == [tags |-> tags, symbols |-> {}, mentions |-> mentions, bad |-> FALSE]
Plain == Text({}, {})
Ticked(tags, ticker) ==
  [Text(tags, {}) EXCEPT !.symbols = {[symbol |-> "s", ticker |-> ticker]}]

User == [id |-> "u", registered |-> Null, categories |-> {}, profile |-> Null, stats |-> Null]
Tweet == [id |-> "w", author |-> "u", place |-> Null, legacy |-> Plain, note |-> Null, bad |-> FALSE,
          edit |-> Null, policy |-> Null, community |-> Null, stats |-> Null, media |-> << >>]
Medium == [id |-> "m", type |-> "video", alt |-> Null, bad |-> FALSE, resource |-> Null]

Batch(users, tweets, media) == [users |-> users, tweets |-> tweets, media |-> media]
Load(batches) == [batches |-> batches, active |-> TRUE, asked |-> FALSE]

Seen(at, tags, count) ==
  [User EXCEPT !.profile = [at |-> at, bio |-> Text(tags, {})],
               !.stats = [at |-> at, count |-> count, bad |-> FALSE]]
\* Versions of one user at the times 1, 2, 4, in every order: the profile
\* changes back, the statistics stay at their second value.
Versions == Load(<<Batch(<<[User EXCEPT !.profile = [at |-> 1, bio |-> Plain],
                                        !.stats = [at |-> 1, count |-> 1, bad |-> FALSE]]>>, << >>, << >>),
                   Batch(<<[User EXCEPT !.profile = [at |-> 2, bio |-> Text({}, {"u"})],
                                        !.stats = [at |-> 2, count |-> 2, bad |-> FALSE],
                                        !.registered = 1]>>, << >>, << >>),
                   Batch(<<[User EXCEPT !.profile = [at |-> 4, bio |-> Plain],
                                        !.stats = [at |-> 4, count |-> 2, bad |-> FALSE]]>>, << >>, << >>)>>)

\* Two states of one tweet with references that overlap, and a medium.
Referring == Load(<<
  Batch(<< >>, <<[Tweet EXCEPT !.media = <<"m", "n">>, !.legacy = Text({}, {"u"})]>>, << >>),
  Batch(<< >>, <<[Tweet EXCEPT !.media = <<"n", "m", "n">>, !.note = Text({}, {"u", "v"})]>>, << >>),
  Batch(<< >>, << >>, <<Medium>>)>>)

\* One tweet stored twice, the second time with other references; other
\* tweets of the request share its statements.
Resubmitted == Load(<<
  Batch(<< >>, <<[Tweet EXCEPT !.legacy = Text({"h"}, {"u"})]>>, << >>),
  Batch(<< >>, <<[Tweet EXCEPT !.legacy = Text({"h", "g"}, {})], [Tweet EXCEPT !.id = "x", !.author = "v"]>>, << >>)>>)

Variant(type, bitrate, url) == [type |-> type, bitrate |-> bitrate, url |-> url]
Resource(at, url, variants) == [at |-> at, url |-> url, variants |-> variants, bad |-> FALSE]
Film(at, variants) == Batch(<< >>, << >>, <<[Medium EXCEPT !.resource = Resource(at, "thumb", variants)]>>)
Mixed == <<Variant("VIDEO/MP4", 2, "a"), Variant("video/mp4", Null, "b")>>
\* One resource seen three times; the URL differs between program and SQL in
\* the second load.
Filmed == Load(<<Film(1, <<Variant("video/mp4", 1, "a"), Variant("video/mp4", 1, "b")>>),
                 Film(2, <<Variant("video/mp4", 1, "a"), Variant("video/mp4", 1, "b")>>),
                 Film(3, <<Variant("text/plain", Null, "c")>>)>>)
FilmedMixed == [Load(<<Film(1, Mixed), Film(2, Mixed)>>) EXCEPT !.asked = TRUE]
Photo(at) == Batch(<< >>, << >>, <<[Medium EXCEPT !.type = "photo", !.alt = at,
                                     !.resource = Resource(at, "p", << >>)],
                                   [Medium EXCEPT !.id = "n", !.bad = TRUE, !.resource = Resource(at, Null, << >>)]>>)
Pictures == [Load(<<Photo(1), Photo(2)>>) EXCEPT !.asked = TRUE]
NoTransfer == [Load(<<Photo(1)>>) EXCEPT !.active = FALSE]

\* The same new names looked up by two requests at once.
Naming == Load(<<
  Batch(<<[User EXCEPT !.categories = {[code |-> 1, name |-> Null]},
                       !.profile = [at |-> 1, bio |-> Text({"h"}, {})]]>>, << >>, << >>),
  Batch(<<[User EXCEPT !.categories = {[code |-> 1, name |-> "c"]},
                       !.profile = [at |-> 1, bio |-> Ticked({"h"}, "t")]]>>,
        <<[Tweet EXCEPT !.legacy = Ticked({"h"}, Null)]>>, << >>)>>)

Whole == [Tweet EXCEPT !.place = [id |-> "p", name |-> Null], !.edit = [versions |-> {"w"}, bad |-> FALSE],
            !.policy = "r", !.community = [title |-> "t", text |-> Plain],
            !.stats = [at |-> 1, count |-> 1, bad |-> FALSE]]
\* Every part of a tweet, from two requests.
Complete == Load(<<Batch(<<[User EXCEPT !.registered = 1]>>, <<Whole>>, << >>),
                   Batch(<< >>, <<[Whole EXCEPT !.place.name = "n", !.stats.at = 2, !.stats.count = 2],
                                  [Whole EXCEPT !.id = "x", !.community = Null]>>, << >>)>>)

\* What is refused: unreadable ids, shadowed items, bad parts, too many.
Broken == Load(<<
  Batch(<<[User EXCEPT !.id = Unparsable], Seen(1, {}, 1),
          [User EXCEPT !.profile = [at |-> 1, bio |-> [Plain EXCEPT !.bad = TRUE]],
                       !.stats = [at |-> 1, count |-> 0, bad |-> TRUE]]>>, << >>, << >>),
  Batch(<< >>, <<[Tweet EXCEPT !.author = Unparsable], [Tweet EXCEPT !.id = Unparsable],
                 [Tweet EXCEPT !.id = "x", !.bad = TRUE, !.place = [id |-> Null, name |-> Null]]>>, << >>),
  Batch(<< >>, << >>, <<Medium, Medium, Medium, [Medium EXCEPT !.resource = [Resource(1, Null, << >>) EXCEPT !.bad = TRUE]]>>)>>)

McLoads == {Versions, Referring, Resubmitted, Filmed, FilmedMixed, Pictures, NoTransfer,
            Naming, Complete, Broken}

\* What the transfers are proved under holds of the loads.
ASSUME SourcesAgree
=============================================================================
