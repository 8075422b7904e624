-------------------------- MODULE EpisodeResources --------------------------
(***************************************************************************)
(* What is looked up for an anime or an episode elsewhere than at Bangumi: *)
(*   api/mikan.rs    the anime at Mikan, and the torrents of an episode    *)
(*   api/dmhy.rs     the torrents of an episode at Anime Garden            *)
(*   api/danmaku.rs  the comments of an episode at Dandanplay              *)
(*                                                                         *)
(* A name is a sequence of letters, the title of a torrent a sequence of   *)
(* tokens: numbers, and 0 for what is none.                                *)
(***************************************************************************)
EXTENDS Lists, SequencesExt

CONSTANTS Shelf,    \* what a search at Mikan finds: sequences of [id, name]
          Wanted,   \* names searched for
          Sought,   \* numbers of episodes that are asked for
          Listing,  \* first and more: pages of torrents [magnet, title];
                    \* what the button of each page in more asks for
          Guide,    \* the episodes of an anime: sequences of [id, number]
          Remarks   \* for each episode its comments [time, text]

Release == [magnet : Nat, title : Seq(Nat)]
Danmaku == [time : Int, text : STRING]

ASSUME ResourcesAssumption ==
  /\ Listing \subseteq [first : Seq(Release), more : Seq(Seq(Release)),
                        button : Seq(STRING)]
  /\ \A e \in DOMAIN Remarks : Remarks[e] \in Seq(Danmaku)
  /\ Guide \subseteq Seq([id : DOMAIN Remarks, number : Int])

VARIABLE hunt  \* the lookup under way or the last one

huntVars == <<hunt>>

NoListing == [first |-> <<>>, more |-> <<>>, button |-> <<>>]
NoHunt == [pc |-> "idle", name |-> <<>>, term |-> <<>>, shelf |-> <<>>,
           number |-> 0, position |-> 0, listing |-> NoListing,
           guide |-> <<>>, left |-> <<>>, arrived |-> {}, found |-> <<>>]
ResourcesInit == hunt = NoHunt

-----------------------------------------------------------------------------
(* search_mikan_anime: the distance of Levenshtein, row by row.            *)
Least(a, b) == IF a < b THEN a ELSE b

\* Mutant: the row is written over the one it is computed from.
NextRowInPlace(row, t, c) ==
  LET next[j \in 0..Len(t)] ==
        IF j = 0 THEN row[0] + 1
        ELSE Least(Least(row[j], next[j - 1]) + 1,
                   next[j - 1] + IF t[j] = c THEN 0 ELSE 1)
  IN next

NextRow(row, t, c) ==
  LET next[j \in 0..Len(t)] ==
        IF j = 0 THEN row[0] + 1
        ELSE Least(Least(row[j], next[j - 1]) + 1,
                   row[j - 1] + IF t[j] = c THEN 0 ELSE 1)
  IN next

Levenshtein(s, t) ==
  FoldLeft(LAMBDA row, c : NextRow(row, t, c), [j \in 0..Len(t) |-> j], s)
    [Len(t)]

Longer(s, t) == IF Len(s) > Len(t) THEN Len(s) ELSE Len(t)

(* 1 - distance / length, compared without a fraction.                     *)
MoreSimilar(name, a, b) ==
  Levenshtein(name, a) * Longer(name, b)
    < Levenshtein(name, b) * Longer(name, a)

Nearest(name, shelf) ==
  LET named == Filtered(shelf, LAMBDA h : h.id # 0 /\ h.name # <<>>)
      best == {i \in DOMAIN named :
                 /\ \A j \in DOMAIN named :
                      ~MoreSimilar(name, named[j].name, named[i].name)
                 /\ \A j \in 1..(i - 1) :
                      MoreSimilar(name, named[i].name, named[j].name)}
  IN IF named = <<>> THEN <<>> ELSE <<named[CHOOSE i \in best : TRUE]>>

(* What Mikan is asked for is the longest word, the last of those; what it *)
(* answers is compared with the whole name.  "-" stands for punctuation.   *)
Word(name, i, j) ==
  /\ i <= j /\ \A k \in i..j : name[k] # "-"
  /\ i = 1 \/ name[i - 1] = "-"
  /\ j = Len(name) \/ name[j + 1] = "-"
SearchTerm(name) ==
  LET words == {p \in (DOMAIN name) \X (DOMAIN name) :
                  Word(name, p[1], p[2])}
      long(p) == p[2] - p[1]
      best == {p \in words : \A q \in words :
                 \/ long(q) < long(p)
                 \/ (long(q) = long(p) /\ q[1] <= p[1])}
  IN IF words = {} THEN name
     ELSE LET p == CHOOSE p \in best : TRUE IN SubSeq(name, p[1], p[2])

SearchAnime(name, shelf) ==
  hunt' = [NoHunt EXCEPT !.pc = "anime", !.name = name,
                         !.term = SearchTerm(name), !.shelf = shelf]

AnimeAnswered ==
  /\ hunt.pc = "anime"
  /\ hunt' = [hunt EXCEPT !.pc = "animeDone",
                          !.found = Nearest(hunt.name, hunt.shelf)]

-----------------------------------------------------------------------------
(* The number of an episode is the last token of the title that can be one:*)
(* resolutions and formats cannot.                                         *)
CanBeEpisode == 1..999 \ {264, 265, 720}
EpisodeAt(title) == SelectLastInSeq(title, LAMBDA n : n \in CanBeEpisode)

Matching(rows, number) ==
  LET fits(r) == /\ r.magnet # 0
                 /\ EpisodeAt(r.title) # 0
                 /\ r.title[EpisodeAt(r.title)] = number
  IN Filtered(rows, fits)

(* The first of each magnet.                                               *)
Unseen(rows) ==
  FoldLeft(LAMBDA done, r : IF \E i \in DOMAIN done : done[i].magnet = r.magnet
                              THEN done ELSE Append(done, r), <<>>, rows)

GetResources(listing, number) ==
  hunt' = [NoHunt EXCEPT !.pc = "first", !.listing = listing,
                         !.number = number]

(* The rest of a group is behind a button; of two buttons that ask for the *)
(* same rest the first counts.                                             *)
MorePages(listing) ==
  Filtered([i \in DOMAIN listing.more |-> i],
            LAMBDA i : \A j \in 1..(i - 1) :
              listing.button[j] # listing.button[i])

FirstPage ==
  /\ hunt.pc = "first"
  /\ hunt' = [hunt EXCEPT
       !.pc = "more", !.left = MorePages(hunt.listing),
       !.found = Unseen(Matching(hunt.listing.first, hunt.number))]

\* Mutant: only what a page itself holds twice is left out.
MorePageAgain ==
  /\ hunt.pc = "more" /\ hunt.left # <<>>
  /\ hunt' = [hunt EXCEPT !.left = Tail(@),
       !.arrived = @ \cup {Head(hunt.left)},
       !.found = @ \o Unseen(Matching(hunt.listing.more[Head(hunt.left)],
                                      hunt.number))]

MorePage ==
  /\ hunt.pc = "more" /\ hunt.left # <<>>
  /\ hunt' = [hunt EXCEPT !.left = Tail(@),
       !.arrived = @ \cup {Head(hunt.left)},
       !.found = Unseen(@ \o Matching(hunt.listing.more[Head(hunt.left)],
                                      hunt.number))]
MorePageFails ==
  /\ hunt.pc = "more" /\ hunt.left # <<>>
  /\ hunt' = [hunt EXCEPT !.left = Tail(@)]
ResourcesRead ==
  /\ hunt.pc = "more" /\ hunt.left = <<>>
  /\ hunt' = [hunt EXCEPT !.pc = "resourcesDone"]

(* fetch_dmhy_resources: one feed.                                         *)
FetchDmhy(listing, number) ==
  hunt' = [NoHunt EXCEPT !.pc = "feed", !.number = number,
                         !.listing = [listing EXCEPT !.more = <<>>]]
FeedAnswered ==
  /\ hunt.pc = "feed"
  /\ hunt' = [hunt EXCEPT !.pc = "resourcesDone",
       !.found = Unseen(Matching(hunt.listing.first, hunt.number))]

-----------------------------------------------------------------------------
(* danmaku_get_by_title and danmaku_get_by_bangumi_id: the episode that    *)
(* has the number, or else the one at the position, if there is one.       *)
NumberedEpisode(guide, number) ==
  SelectInSeq(guide, LAMBDA e : e.number = number)

(* The relative episode counts from 1; below there is no position.         *)
Position(guide, relative) == IF relative \in DOMAIN guide THEN relative ELSE 0

EpisodeIndex(guide, number, relative) ==
  IF NumberedEpisode(guide, number) # 0 THEN NumberedEpisode(guide, number)
  ELSE Position(guide, relative)

(* Without a text or a time from 0 on a comment is left out.               *)
Legible(comment) == comment.time >= 0 /\ comment.text # ""

\* Mutant: the newer of two comments of one time is the first.
TimelyNewest(comments) ==
  LET good == Filtered(comments, Legible)
      at == Arranged(DOMAIN good, LAMBDA i, j :
              \/ good[i].time < good[j].time
              \/ good[i].time = good[j].time /\ i > j)
  IN [i \in DOMAIN at |-> good[at[i]]]

(* Sorted by time, those of one time as they came.                         *)
Timely(comments) ==
  LET good == Filtered(comments, Legible)
      at == Arranged(DOMAIN good, LAMBDA i, j :
              \/ good[i].time < good[j].time
              \/ good[i].time = good[j].time /\ i < j)
  IN [i \in DOMAIN at |-> good[at[i]]]

DanmakuCall(pc, guide, number, position) ==
  hunt' = [NoHunt EXCEPT !.pc = pc, !.guide = guide, !.number = number,
                         !.position = position]
GetByTitle(guide, number, position) ==
  DanmakuCall("title", guide, number, position)
GetByBangumiId(guide, number, position) ==
  DanmakuCall("subject", guide, number, position)

(* The anime of a title is the first that a search finds.                  *)
TitleFound == /\ hunt.pc = "title" /\ hunt' = [hunt EXCEPT !.pc = "guide"]
TitleUnknown ==
  /\ hunt.pc = "title" /\ hunt' = [hunt EXCEPT !.pc = "unknown"]

EpisodesOf(pc) ==
  /\ hunt.pc = pc
  /\ hunt' = [hunt EXCEPT !.pc =
       IF EpisodeIndex(hunt.guide, hunt.number, hunt.position) = 0
         THEN "danmakuDone" ELSE "comments"]
EpisodesAnswered == EpisodesOf("guide")
BangumiEpisodesAnswered == EpisodesOf("subject")

CommentsAnswered ==
  /\ hunt.pc = "comments"
  /\ LET e == EpisodeIndex(hunt.guide, hunt.number, hunt.position)
     IN hunt' = [hunt EXCEPT !.pc = "danmakuDone",
                             !.found = Timely(Remarks[hunt.guide[e].id])]

(* danmaku_match_anime: a file by its name and hash, whatever fits it.     *)
MatchFile(guide) == DanmakuCall("match", guide, 0, 0)
MatchAnswered ==
  /\ hunt.pc = "match"
  /\ hunt' = [hunt EXCEPT !.pc = "matched", !.found = hunt.guide]

(* No answer to a request a lookup cannot do without.                      *)
LookupFails ==
  /\ hunt.pc \in {"anime", "first", "feed", "title", "guide", "subject",
                 "comments", "match"}
  /\ hunt' = [NoHunt EXCEPT !.pc = "failed"]

-----------------------------------------------------------------------------
LookupCalls ==
  /\ hunt.pc = "idle"
  /\ \/ \E n \in Wanted, s \in Shelf : SearchAnime(n, s)
     \/ \E l \in Listing, n \in Sought : GetResources(l, n) \/ FetchDmhy(l, n)
     \/ \E g \in Guide, n \in Sought, r \in -1..2 :
          GetByTitle(g, n, r) \/ GetByBangumiId(g, n, r)
     \/ \E g \in Guide : MatchFile(g)
LookupSteps ==
  \/ AnimeAnswered
  \/ FirstPage \/ MorePage \/ MorePageFails \/ ResourcesRead \/ FeedAnswered
  \/ TitleFound \/ TitleUnknown \/ EpisodesAnswered
  \/ BangumiEpisodesAnswered \/ CommentsAnswered \/ MatchAnswered
  \/ LookupFails

-----------------------------------------------------------------------------
(* The distance of two names by what of them is left in common: a chain of *)
(* equal letters; between two of the chain as many changes as the longer   *)
(* of the gaps has letters.                                                *)
Distance(s, t) ==
  LET equal == {p \in (DOMAIN s) \X (DOMAIN t) : s[p[1]] = t[p[2]]}
      chains == {c \in SUBSET equal : \A p, q \in c :
                   p = q \/ (p[1] < q[1] /\ p[2] < q[2])
                         \/ (p[1] > q[1] /\ p[2] > q[2])}
      ends(c) == SetToSortSeq(c \cup {<<0, 0>>, <<Len(s) + 1, Len(t) + 1>>},
                              LAMBDA p, q : p[1] < q[1])
      gap(p, q) == LET a == q[1] - p[1] - 1
                       b == q[2] - p[2] - 1
                   IN IF a > b THEN a ELSE b
      cost(c) == FoldLeft(LAMBDA sum, i : sum + gap(ends(c)[i], ends(c)[i + 1]),
                          0, [i \in 1..(Cardinality(c) + 1) |-> i])
  IN CHOOSE n \in {cost(c) : c \in chains} :
       \A c \in chains : n <= cost(c)

(* The anime that is played from Mikan is the one whose name is nearest,   *)
(* the first of those that are equally near.                               *)
NearestTitle ==
  hunt.pc = "animeDone" =>
    LET named == {i \in DOMAIN hunt.shelf :
                    hunt.shelf[i].id # 0 /\ hunt.shelf[i].name # <<>>}
        far(i) == Distance(hunt.name, hunt.shelf[i].name)
        size(i) == Longer(hunt.name, hunt.shelf[i].name)
    IN IF named = {} THEN hunt.found = <<>>
       ELSE \E i \in named :
              /\ hunt.found = <<hunt.shelf[i]>>
              /\ \A j \in named : far(i) * size(j) <= far(j) * size(i)
              /\ \A j \in named : far(i) * size(j) = far(j) * size(i) => i <= j

(* What is offered for an episode is every torrent of it on the pages that *)
(* arrived, and each of them once, though groups are listed on two pages   *)
(* and pages are missing.                                                  *)
TitledFor(title, number) ==
  \E i \in DOMAIN title :
    /\ title[i] = number /\ number \in CanBeEpisode
    /\ \A j \in DOMAIN title : j > i => title[j] \notin CanBeEpisode
Arrived == ToSet(hunt.listing.first)
             \cup UNION {ToSet(hunt.listing.more[p]) : p \in hunt.arrived}
EachTorrentOnce ==
  hunt.pc = "resourcesDone" =>
    LET magnets == [i \in DOMAIN hunt.found |-> hunt.found[i].magnet]
    IN /\ IsInjective(magnets)
       /\ ToSet(magnets) =
            {r.magnet : r \in {q \in Arrived :
               TitledFor(q.title, hunt.number)}} \ {0}

(* Comments are of the episode asked for, wherever it stands among the     *)
(* others: every legible one once, and each comes after those of an        *)
(* earlier time or, at the same time, those that were before it.  None are *)
(* found only where no episode is meant or its comments are not legible.   *)
LegibleIn(comments) ==
  {j \in DOMAIN comments : comments[j].time >= 0 /\ comments[j].text # ""}
Retold(comments, found, place) ==
  /\ {place[k] : k \in DOMAIN found} = LegibleIn(comments)
  /\ \A k \in DOMAIN found : found[k] = comments[place[k]]
  /\ \A k, m \in DOMAIN found : k < m =>
       \/ found[k].time < found[m].time
       \/ found[k].time = found[m].time /\ place[k] < place[m]
Meant ==
  {i \in DOMAIN hunt.guide :
     IF \E j \in DOMAIN hunt.guide : hunt.guide[j].number = hunt.number
       THEN hunt.guide[i].number = hunt.number ELSE i = hunt.position}
CommentsInOrder ==
  hunt.pc = "danmakuDone" =>
    IF Meant = {} THEN hunt.found = <<>>
    ELSE \E i \in Meant :
           LET all == Remarks[hunt.guide[i].id]
           IN \E place \in [DOMAIN hunt.found -> LegibleIn(all)] :
                Retold(all, hunt.found, place)
=============================================================================
