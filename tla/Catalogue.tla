----------------------------- MODULE Catalogue -----------------------------
(***************************************************************************)
(* What the pages about an anime read through the Rust core: lists and     *)
(* threads of Bangumi, rankings and timetables.                            *)
(*   api/bangumi/*.rs, api/ranking.rs, api/crawler/schedule_api.rs         *)
(*   lib/ui/pages/bangumi_details/bangumi_details_controller.dart  pages   *)
(*                                                                         *)
(* A fetch tries one or two routes, by the request mode.  A row is what    *)
(* the parsers look at: whether it has an id, fits the kind asked for, has *)
(* a name and a text, its moderation state, and the rows under it.         *)
(***************************************************************************)
EXTENDS Lists, SequencesExt

CONSTANTS PageSize,  \* rows of a page
          MaxPages,  \* max_pages of the loop over episodes
          MaxReads,  \* bound on the calls
          Content    \* for each thing to read, what Bangumi may hold of it

ASSUME CatalogueAssumption == PageSize \in Nat \ {0} /\ MaxPages \in Nat \ {0}

VARIABLES
  mode,      \* bangumi_request_mode
  tab,       \* what is read in this behaviour
  content,   \* the rows Bangumi holds of it
  totalled,  \* Bangumi tells totals
  fetch,     \* the call under way
  pager,     \* what Dart shows of it
  hurt,      \* history: a request has failed
  reads      \* history: the number of calls

catalogueVars == <<mode, tab, content, totalled, fetch, pager, hurt, reads>>

Mode == {"legacy", "hybrid", "modern"}
Untold == -1  \* no total

-----------------------------------------------------------------------------
(* Threads.                                                                *)
Viewable(state) == state \notin {1, 2, 5, 6, 7}
Gated(post) == IF Viewable(post.state) THEN post ELSE [post EXCEPT !.text = ""]

(* Replies to replies are not part of the answer.                          *)
ReplyBase(post) == [Gated(post) EXCEPT !.sub = <<>>]
Post(post) == [Gated(post) EXCEPT
                 !.sub = [i \in DOMAIN post.sub |-> ReplyBase(post.sub[i])]]

(* On the web page a post is there with a name and a text, or not at all;  *)
(* external: what may not be seen is left out by the site.                 *)
WebPost(post) == post.named /\ Gated(post).text # ""
HtmlPosts(posts) ==
  LET kept == Filtered(posts, WebPost)
  IN [i \in DOMAIN kept |->
        [kept[i] EXCEPT !.state = 0, !.sub = Filtered(@, WebPost)]]

\* Mutant: the opening post is shown whatever its state.
OpeningUngated(topic) ==
  IF topic.text = "" /\ topic.sub # <<>>
    THEN [Head(topic.sub) EXCEPT !.sub = <<>>, !.state = 0]
    ELSE [topic EXCEPT !.state = 0, !.sub = <<>>]

(* A body of the topic itself only yields to a deletion; else the first    *)
(* reply is the opening post, under its own state.                         *)
Opening(topic) ==
  IF topic.text = "" /\ topic.sub # <<>>
    THEN [Head(topic.sub) EXCEPT !.sub = <<>>]
    ELSE [topic EXCEPT !.state = IF topic.state \in {6, 7} THEN 6 ELSE 0,
                       !.sub = <<>>]

Discussion(topic) ==
  LET rest == IF topic.text = "" /\ topic.sub # <<>> THEN Tail(topic.sub)
                                                     ELSE topic.sub
  IN <<Gated(Opening(topic))>> \o [i \in DOMAIN rest |-> Post(rest[i])]

-----------------------------------------------------------------------------
(* Which rows of an answer are kept.                                       *)
NextComment(row) == row.text # ""
HtmlComment(row) == row.named /\ row.text # ""
Listable(row) == row.fits /\ row.state \notin {6, 7}
Identified(row) == row.id # 0
Episode(row) == row.fits /\ row.id # 0
AnimeOf(row) == row.fits /\ row.id # 0
Related(row) == row.fits /\ row.id # 0
Titled(row) == row.id # 0 /\ row.text # ""

Scheduled(row) == row.text # ""

(* A ranking and a timetable show an anime once: it is known by its id at  *)
(* Bangumi, and in a timetable, where it may lack one, by its titles or    *)
(* its id at Mikan, for which the text stands.                             *)
KnownBy(row) == IF row.id # 0 THEN <<row.id, "">> ELSE <<0, row.text>>
Once(rows) == FoldLeft(LAMBDA done, row :
                IF \E i \in DOMAIN done : KnownBy(done[i]) = KnownBy(row)
                  THEN done ELSE Append(done, row), <<>>, rows)

(* Of the web page of a ranking, a search or a tag.                        *)
BrowserRow(row) == row.text # "" /\ row.id > 0
BrowserList(rows) == Once(Filtered(rows, BrowserRow))

(* The quarters of the archive, each under the title it has first, the     *)
(* latest first; what is no quarter is left out.                           *)
IsQuarter(row) == row.fits /\ row.id # 0
Quarters(rows) == SortSeq(Once(Filtered(rows, IsQuarter)),
                          LAMBDA a, b : a.id > b.id)

(* Subjects of a character by id, the latest first, the last of an id.     *)
Appearances(rows) ==
  LET last == {i \in DOMAIN rows : /\ AnimeOf(rows[i])
                 /\ \A j \in (i + 1)..Len(rows) : rows[j].id # rows[i].id}
  IN SetToSortSeq({[rows[i] EXCEPT !.sub = Filtered(@, Identified)] :
                     i \in last}, LAMBDA a, b : a.id > b.id)

Kept(way, rows) ==
  CASE way = "comments" -> Filtered(rows, NextComment)
    [] way = "htmlComments" -> Filtered(rows, HtmlComment)
    [] way = "topics" -> Filtered(rows, Listable)
    [] way = "people" -> Filtered(rows, Identified)
    [] way = "episodes" -> Filtered(rows, Episode)
    [] way = "anime" -> Filtered(rows, AnimeOf)
    [] way = "related" -> Filtered(rows, Related)
    [] way = "posts" -> [i \in DOMAIN rows |-> Post(rows[i])]
    [] way = "htmlPosts" -> HtmlPosts(rows)
    [] way = "topic" -> Discussion(Head(rows))
    [] way = "subjects" -> Once(Filtered(rows, Titled))
    [] way = "timetable" -> Once(Filtered(rows, Scheduled))
    [] way = "browser" -> BrowserList(rows)
    [] way = "quarters" -> Quarters(rows)
    [] way = "appearances" -> Appearances(rows)
    [] OTHER -> rows

-----------------------------------------------------------------------------
(* Routes: where a request goes, how its rows are kept, and whether it     *)
(* ends the call with what there is when the answer is 404 or 400 (gone),  *)
(* another failing status (refused), or none that parses (lost).           *)
Strict(at, way) == [at |-> at, way |-> way, gone |-> FALSE, refused |-> FALSE,
                    lost |-> FALSE, loop |-> "once"]
Gentle(at, way) == [Strict(at, way) EXCEPT !.gone = TRUE]
Lenient(at, way) == [Gentle(at, way) EXCEPT !.refused = TRUE]

CommentsLegacy == Lenient("html", "htmlComments")
CommentsNext == Gentle("p1", "comments")
EpisodeCommentsLegacy == Lenient("html", "htmlPosts")
EpisodeCommentsNext == Gentle("p1", "posts")
TopicsNext == Gentle("p1", "topics")
TopicNext == Strict("p1", "topic")
ReviewsNext == Gentle("p1", "people")
BlogNext == Strict("p1", "whole")
BlogComments == Gentle("p1", "posts")
EpisodesRest == [Lenient("rest", "episodes") EXCEPT !.loop = "full"]
EpisodesNext == [Strict("p1", "episodes") EXCEPT !.loop = "full"]
CharactersRest == Lenient("rest", "people")
CharactersNext == [Strict("p1", "people") EXCEPT !.loop = "counted"]
Relations == Lenient("rest", "related")
Persons == Lenient("rest", "people")
SearchPeople == Strict("p1", "people")
CharacterDetails == Strict("rest", "whole")
CharacterSubjects == [Lenient("rest", "appearances") EXCEPT !.lost = TRUE]
CharacterComments == Gentle("p1", "posts")
PersonDetails == Strict("rest", "whole")
PersonSubjects == Lenient("rest", "anime")
PersonCharacters == Lenient("rest", "anime")
PersonComments == Gentle("p1", "posts")
RankingHtml == Strict("html", "browser")
SubjectHtml == Strict("html", "browser")
TagHtml == Strict("html", "browser")
TrendingNext == Strict("p1", "subjects")
SubjectsV0 == Strict("rest", "subjects")
LightRest == Strict("rest", "whole")
LightGraphql == Strict("graphql", "whole")
LightNext == Strict("p1", "whole")
ArchiveApi == Strict("bgmlist", "quarters")
ArchiveHtml == Strict("html", "quarters")
ScheduleApi == Strict("bgmlist", "timetable")
ScheduleHtml == Strict("html", "timetable")
OfflineTimetable == Strict("file", "timetable")

-----------------------------------------------------------------------------
(* Which routes a call tries, in each mode.                                *)
Either(legacy, hybrid, modern) ==
  [legacy |-> legacy, hybrid |-> hybrid, modern |-> modern]
Always(route) == Either(<<route>>, <<route>>, <<route>>)

Comments == Either(<<CommentsLegacy>>, <<CommentsNext, CommentsLegacy>>,
                   <<CommentsNext>>)
EpisodeComments ==
  Either(<<EpisodeCommentsLegacy>>,
         <<EpisodeCommentsNext, EpisodeCommentsLegacy>>,
         <<EpisodeCommentsNext>>)
Episodes == Either(<<EpisodesRest>>, <<EpisodesRest>>, <<EpisodesNext>>)
Characters == Either(<<CharactersRest>>, <<CharactersRest>>,
                     <<CharactersNext>>)
Trends == Either(<<RankingHtml>>, <<TrendingNext>>, <<TrendingNext>>)
Browser == Either(<<RankingHtml>>, <<SubjectsV0>>, <<SubjectsV0>>)
SubjectSearch == Either(<<SubjectHtml>>, <<SubjectsV0>>, <<SubjectsV0>>)
TagSearch == Either(<<TagHtml>>, <<SubjectsV0>>, <<SubjectsV0>>)
LightDetails == Either(<<LightRest>>, <<LightGraphql, LightRest>>,
                       <<LightGraphql, LightNext>>)
Archive == Either(<<ArchiveHtml>>, <<ArchiveApi>>, <<ArchiveApi>>)
Timetable == Either(<<ScheduleHtml>>, <<ScheduleApi, OfflineTimetable>>,
                    <<ScheduleApi, OfflineTimetable>>)
TimetableOnline == Either(<<ScheduleHtml>>, <<ScheduleApi>>, <<ScheduleApi>>)

Reads ==
  [comments |-> Comments, episodeComments |-> EpisodeComments,
   topics |-> Always(TopicsNext), topic |-> Always(TopicNext),
   reviews |-> Always(ReviewsNext), blog |-> Always(BlogNext),
   blogComments |-> Always(BlogComments), episodes |-> Episodes,
   characters |-> Characters, relations |-> Always(Relations),
   persons |-> Always(Persons), search |-> Always(SearchPeople),
   character |-> Always(CharacterDetails),
   appearances |-> Always(CharacterSubjects),
   characterComments |-> Always(CharacterComments),
   person |-> Always(PersonDetails), works |-> Always(PersonSubjects),
   roles |-> Always(PersonCharacters),
   personComments |-> Always(PersonComments), trends |-> Trends,
   browser |-> Browser, subjectSearch |-> SubjectSearch,
   tagSearch |-> TagSearch, light |-> LightDetails, archive |-> Archive,
   timetable |-> Timetable, timetableOnline |-> TimetableOnline]

Paged == {"comments", "reviews", "topics"}

(* External: Bangumi holds rows; under the posts of a thread there are     *)
(* replies and replies to these.  A comment is somebody's, a topic is one. *)
RowsOver(S) == [id : Nat, fits : BOOLEAN, state : Nat, named : BOOLEAN,
                text : STRING, sub : Seq(S)]
BangumiRow == RowsOver(RowsOver(RowsOver({})))

ASSUME ContentAssumption ==
  /\ \A t \in DOMAIN Reads : Content[t] \subseteq Seq(BangumiRow)
  /\ \A rows \in Content["comments"] : \A i \in DOMAIN rows : rows[i].named
  /\ \A rows \in Content["topic"] : rows # <<>>

-----------------------------------------------------------------------------
NoFetch == [routes |-> <<>>, page |-> 0, got |-> <<>>, count |-> 0,
            total |-> Untold, turn |-> 1]
NoPager == [page |-> 0, shown |-> <<>>, fetched |-> 0, total |-> Untold,
            more |-> FALSE, failed |-> FALSE]

CatalogueInit ==
  /\ mode \in Mode /\ tab \in DOMAIN Reads
  /\ content \in Content[tab] /\ totalled \in BOOLEAN
  /\ fetch = NoFetch /\ pager = NoPager /\ hurt = FALSE /\ reads = 0

SetMode ==
  /\ mode' \in Mode \ {mode}
  /\ UNCHANGED <<tab, content, totalled, fetch, pager, hurt, reads>>

(* The mode is read when a call begins.                                    *)
Begun(page) ==
  /\ fetch = NoFetch /\ reads < MaxReads
  /\ reads' = reads + 1
  /\ fetch' = [NoFetch EXCEPT !.routes = Reads[tab][mode], !.page = page]
  /\ UNCHANGED <<mode, tab, content, totalled, pager, hurt>>

OpenTab == pager.page = 0 /\ Begun(1)
LoadMore == pager.more /\ Begun(pager.page + 1)

-----------------------------------------------------------------------------
(* What a request is answered with: a page by number, a page from an       *)
(* offset, or all there is.                                                *)
Slice(from) ==
  SubSeq(content, from + 1, IF from + PageSize < Len(content)
                              THEN from + PageSize ELSE Len(content))

\* Mutant: the loops go on from the rows kept.
ServedFromKept(route) ==
  CASE route.loop # "once" -> Slice(Len(fetch.got))
    [] tab \in Paged -> Slice((fetch.page - 1) * PageSize)
    [] OTHER -> content

Served(route) ==
  CASE route.loop # "once" -> Slice(fetch.count)
    [] tab \in Paged -> Slice((fetch.page - 1) * PageSize)
    [] OTHER -> content

Total(route) == IF totalled /\ route.at # "html" THEN Len(content) ELSE Untold

(* The loop over episodes ends on a short page and after MaxPages, the one *)
(* over characters on an empty page, both at the total.                    *)
GoesOn(route, served) ==
  LET told == Total(route) # Untold
      all == told /\ fetch.count + Len(served) >= Len(content)
  IN CASE route.loop = "full" -> Len(served) = PageSize /\ ~all
                                 /\ fetch.turn < MaxPages
       [] route.loop = "counted" -> served # <<>> /\ ~all
                                    /\ (told \/ Len(served) = PageSize)
       [] OTHER -> FALSE

(* A page of topics with nothing to show counts for what was fetched.      *)
HasMore(loaded, total) ==
  tab \in Paged /\ (IF total = Untold THEN loaded > 0 ELSE loaded < total)

\* Mutant: topics count what is shown.
LoadedAsShown(shown, fetched) == Len(shown)
Loaded(shown, fetched) == IF tab = "topics" THEN fetched ELSE Len(shown)

(* The answer reaches the page: rows, how many were fetched, the total.    *)
Shows(rows, count, total) ==
  LET known == IF total = Untold THEN pager.total ELSE total
      shown == pager.shown \o rows
      fetched == pager.fetched + count
  IN /\ fetch' = NoFetch
     /\ pager' = IF fetch.page > 1 /\ Loaded(rows, count) = 0
          THEN [pager EXCEPT !.total = known, !.more = FALSE]
          ELSE [page |-> fetch.page, shown |-> shown, fetched |-> fetched,
                total |-> known, failed |-> FALSE,
                more |-> HasMore(Loaded(shown, fetched), known)]

(* The next route, or an error: a first page shows nothing then, a later   *)
(* one may be tried again.                                                 *)
NextRoute ==
  IF Len(fetch.routes) > 1
    THEN /\ fetch' = [NoFetch EXCEPT !.routes = Tail(fetch.routes),
                                     !.page = fetch.page]
         /\ UNCHANGED pager
    ELSE /\ fetch' = NoFetch
         /\ pager' = IF fetch.page > 1 THEN pager
                     ELSE [NoPager EXCEPT !.page = 1, !.failed = TRUE]

(* An API that knows of no anime in a quarter gives way to the file.       *)
RouteAnswers ==
  /\ fetch.routes # <<>>
  /\ LET route == Head(fetch.routes)
         served == Served(route)
         got == fetch.got \o Kept(route.way, served)
         count == fetch.count + Len(served)
     IN CASE GoesOn(route, served) ->
               /\ fetch' = [fetch EXCEPT !.got = got, !.count = count,
                                         !.turn = @ + 1]
               /\ UNCHANGED pager
          [] ~GoesOn(route, served) /\ tab = "timetable" /\ got = <<>>
             /\ route.at = "bgmlist" -> NextRoute
          [] OTHER -> Shows(got, count, Total(route))
  /\ UNCHANGED <<mode, tab, content, totalled, hurt, reads>>

Fails(settles) ==
  /\ fetch.routes # <<>>
  /\ hurt' = TRUE
  /\ LET route == Head(fetch.routes)
     IN IF settles
          THEN Shows(fetch.got, fetch.count,
                    IF route.at = "p1" THEN 0 ELSE Untold)
          ELSE NextRoute
  /\ UNCHANGED <<mode, tab, content, totalled, reads>>

RouteGone == Fails(Head(fetch.routes).gone)
RouteRefused == Fails(Head(fetch.routes).refused)

(* No answer, or a body that does not parse.                               *)
RouteLost == Fails(Head(fetch.routes).lost)

(* The people of a character are asked for together with its subjects; if  *)
(* only they do not arrive the subjects are shown without.                 *)
PeopleLost ==
  /\ fetch.routes # <<>> /\ tab = "appearances"
  /\ hurt' = TRUE
  /\ LET rows == Kept("appearances", content)
     IN Shows([i \in DOMAIN rows |-> [rows[i] EXCEPT !.sub = <<>>]],
             Len(content), Untold)
  /\ UNCHANGED <<mode, tab, content, totalled, reads>>

-----------------------------------------------------------------------------
CatalogueCalls == SetMode \/ OpenTab \/ LoadMore
CatalogueSteps == RouteAnswers \/ RouteGone \/ RouteRefused \/ RouteLost
                  \/ PeopleLost

-----------------------------------------------------------------------------
(* The texts moderators leave: those of posts and replies they have not    *)
(* taken away, and of a topic unless it is deleted ("an admin-closed topic *)
(* still shows its body", fetch_topics.rs).                                *)
Standing(posts) ==
  {posts[i].text : i \in {k \in DOMAIN posts : Viewable(posts[k].state)}}
LeftIn(posts) ==
  Standing(posts) \cup UNION {Standing(posts[i].sub) : i \in DOMAIN posts}
Left ==
  IF tab = "topic"
    THEN LeftIn(Head(content).sub)
           \cup (IF Head(content).state \in {6, 7} THEN {}
                 ELSE {Head(content).text})
    ELSE LeftIn(content)

Readable(rows) ==
  UNION {{rows[i].text} \cup {rows[i].sub[j].text : j \in DOMAIN rows[i].sub} :
         i \in DOMAIN rows}

Threads == {"episodeComments", "topic", "blogComments", "characterComments",
            "personComments"}

(* No text is shown but one that moderators have left, on whichever route  *)
(* a thread arrives, as the opening post, a post or a reply.               *)
ModeratedStaysHidden ==
  tab \in Threads => Readable(pager.shown) \subseteq Left \cup {""}

InParts == Paged \cup {"episodes", "characters"}
Keeps(rows) ==
  CASE tab = "comments" -> Filtered(rows, NextComment)
    [] tab = "topics" -> Filtered(rows, Listable)
    [] tab = "episodes" -> Filtered(rows, Episode)
    [] OTHER -> Filtered(rows, Identified)

(* What is read in parts is put together without a gap and with nothing    *)
(* twice, though pages fail, are tried again, or come by another route     *)
(* after the mode was changed.                                             *)
PartsAddUp ==
  tab \in InParts =>
    pager.shown = Keeps(SubSeq(content, 1, pager.fetched))

(* Topics, episodes and characters are read to their end when no request   *)
(* fails, whatever moderation hides; episodes up to the limit of the loop. *)
ReadToTheEnd ==
  /\ tab \in {"topics", "episodes", "characters"}
  /\ ~hurt /\ pager.page > 0 /\ ~pager.more
  => \/ pager.fetched = Len(content)
     \/ tab = "episodes" /\ pager.fetched = MaxPages * PageSize
=============================================================================
