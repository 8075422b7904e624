----------------------------- MODULE MCRustCore -----------------------------
(* Two calls at a time for each part; two sources, one of which may have   *)
(* any of five sites; three titles of one work and one of another.         *)
EXTENDS RustCore

CONSTANTS sa, sb  \* sources

MCDraft ==
  {[lists |-> "a", channelNames |-> "", nestedUrl |-> ""],
   [lists |-> "", videoUrl |-> "b"], [names |-> "a", image |-> "broken"],
   [episodes |-> "a", sortFromName |-> "broken"]}

Title(core, season, letters, marks) ==
  [letters |-> letters, words |-> <<>>, core |-> core, season |-> season,
   part |-> <<>>, marks |-> marks]
First == Title("a", <<>>, {"a", "b", "c"}, {})
Second == Title("a", <<2>>, {"a", "b", "c", "2"}, {})
Movie == Title("a", <<>>, {"a", "b", "c", "m"}, {"movie"})
Other == Title("b", <<>>, {"x", "y"}, {})

Hit(title, url) == [title |-> title, url |-> url]
Link(n, href) == [name |-> <<n>>, href |-> href]
Channel(n) == [captured |-> FALSE, text |-> n, name |-> n]

Empty == [names |-> <<>>, lists |-> <<>>, items |-> <<>>]
Good == [names |-> <<Channel("x"), Channel("y")>>, items |-> <<>>,
         lists |-> <<<<Link(1, "e1"), Link(2, "e2")>>, <<Link(1, "f1")>>>>]
Odd == [names |-> <<Channel("x"), Channel("x")>>,
        lists |-> <<<<Link(3, "e3"), Link(Unread, "")>>, <<Link(2, "f2")>>>>,
        items |-> <<Link(2, "g2"), Link(1, "g1")>>]

Site(format, results, p, q, r) ==
  [format |-> format, listed |-> TRUE, results |-> results,
   page |-> [p |-> p, q |-> q, r |-> r]]

MCWeb ==
  [one |-> Site("grouped", <<<<Hit(First, "p")>>, <<>>>>, Good, Empty, Empty),
   many |-> Site("grouped", <<<<Hit(First, "p"), Hit(First, "q"),
                                Hit(Movie, "r")>>, <<>>>>, Empty, Good, Good),
   aliased |-> Site("grouped", <<<<Hit(Other, "p")>>,
                                 <<Hit(Second, "q"), Hit(First, "p")>>>>,
                    Good, Empty, Good),
   plain |-> Site("plain", <<<<Hit(First, "p"), Hit(First, "q")>>, <<>>>>,
                  Odd, Good, Good),
   old |-> Site("old", <<<<Hit(First, "q"), Hit(First, "p")>>, <<>>>>,
                Good, Odd, Good),
   none |-> Site("grouped", <<<<>>, <<>>>>, Good, Odd, Good)]
MCSites == [s \in {sa, sb} |-> IF s = sb THEN {"one"}
                               ELSE DOMAIN MCWeb \ {"one"}]

MCQuery == <<Title("", <<>>, {}, {}), First, First,
             Title("a", <<2>>, {"a", "b", "2"}, {})>>
MCOverride == {NoOverride, [NoOverride EXCEPT !.skip = TRUE],
               [NoOverride EXCEPT !.search = TRUE, !.pin = "q"],
               [NoOverride EXCEPT !.pin = "q", !.html = TRUE]}
MCRequest == {[abs |-> 2, rel |-> 1], [abs |-> None, rel |-> 2]}

Row(id, state, text) == [id |-> id, fits |-> TRUE, state |-> state,
                         named |-> TRUE, text |-> text, sub |-> <<>>]
MCLists ==
  LET a == Row(1, 0, "a")
      other == [Row(2, 0, "b") EXCEPT !.fits = FALSE]
      none == Row(0, 1, "")
      b == Row(3, 1, "c")
      gone == Row(4, 6, "d")
      c == Row(5, 0, "e")
  IN {<<>>, <<a, other, none, b, c>>, <<a, b, c, gone>>,
      <<gone, other, gone, gone, c>>}
MCThreads ==
  LET hidden == Row(2, 6, "b")
      seen == Row(3, 0, "c")
      bare == [Row(4, 5, "d") EXCEPT !.sub = <<seen, hidden>>]
      anon == [Row(5, 0, "e") EXCEPT !.named = FALSE, !.sub = <<hidden>>]
  IN {<<bare, anon, seen>>,
      <<[seen EXCEPT !.sub = <<[hidden EXCEPT !.sub = <<seen>>]>>]>>}
MCTopics ==
  {<<[Row(1, s, t) EXCEPT !.sub = r]>> : s \in {0, 1, 6}, t \in {"", "a"},
     r \in {<<>>, <<Row(2, 7, "b"),
             [Row(3, 0, "c") EXCEPT !.sub = <<Row(4, 2, "d")>>]>>}}
MCTimetable ==
  LET a == Row(1, 0, "a")
      bare == Row(0, 0, "b")
  IN {<<a, bare, Row(2, 0, ""), bare, Row(0, 0, "c"), [a EXCEPT !.text = "d"]>>}
MCContent ==
  [t \in DOMAIN Reads |->
     CASE t \in {"episodeComments", "blogComments", "characterComments",
                 "personComments"} -> MCThreads
       [] t = "topic" -> MCTopics
       [] t \in {"timetable", "timetableOnline"} -> MCLists \cup MCTimetable
       [] OTHER -> MCLists]

(* Two entries of one anime, one that lacks less than the others, and one  *)
(* that is not known by a number.                                          *)
Anime(id, own) == [id |-> id, own |-> own, filled |-> {}]
MCQuarter ==
  {<<>>,
   <<Anime(1, {}), Anime(0, {"score"}), Anime(2, {"score"}), Anime(1, {}),
     Anime(3, {})>>}
MCOffered == [id \in 0..5 |-> IF id = 3 THEN {"rank"} ELSE {"score", "rank"}]
MCSeason ==
  {<<>>, <<<<Row(2, 0, "b"), Row(4, 0, "")>>,
           <<Row(4, 0, "d"), Row(0, 0, "e")>>,
           <<Row(5, 0, "f"), Row(4, 0, "g")>>>>}

(* Names of at most three letters; torrents on two pages, and two titles   *)
(* that could be taken for another episode.                                *)
MCNames == {<<"a">>, <<"a", "b">>, <<"b", "a">>, <<"a", "b", "c">>,
            <<"b", "c">>, <<"c", "a", "b">>, <<"a", "a", "c">>, <<>>}
MCShelf == {<<>>} \cup {<<[id |-> 1, name |-> m], [id |-> i, name |-> n]>> :
                          i \in {0, 2}, m \in MCNames, n \in MCNames}
MCWanted == {<<"a", "b", "c">>, <<"b", "a">>, <<"a", "-", "b">>, <<>>}

Offer(magnet, title) == [magnet |-> magnet, title |-> title]
MCListing ==
  {[first |-> <<Offer(1, <<0, 2, 1, 1080>>), Offer(1, <<1, 0>>),
                Offer(2, <<2, 720>>), Offer(0, <<1>>)>>,
    more |-> <<<<Offer(2, <<0, 2>>), Offer(3, <<1, 264>>)>>,
               <<Offer(3, <<1>>), Offer(4, <<2, 1>>), Offer(5, <<0>>)>>,
               <<Offer(2, <<0, 2>>), Offer(3, <<1, 264>>)>>>>,
    button |-> <<"x", "y", "x">>]}

Named(id, number) == [id |-> id, number |-> number]
MCGuide == {<<>>, <<Named(1, 1), Named(2, 3)>>, <<Named(1, 3), Named(2, 1)>>}
Remark(time, text) == [time |-> time, text |-> text]
MCRemarks ==
  [e \in {1, 2} |-> IF e = 1 THEN <<Remark(0, "a")>>
     ELSE <<Remark(2, "a"), Remark(1, "b"), Remark(2, "c"), Remark(-1, "d"),
            Remark(0, "")>>]

MCWritten == {0, 1, 2, 12, 13, 9998, 9999, 10000}

MCCharset == <<"1", "7", "z">>
MCAlike == [c \in {"z"} |-> "7"]
MCImage == [1..4 -> {<<0, 1, 2, 3, 4>>, <<1, 3, 0, 2, 4>>, <<3, 2, 1, 0, 4>>,
                     <<4, 0, 1, 2, 3>>}]
MCLimits == {[chars |-> {"1", "7"}, length |-> 2, map |-> TRUE],
             [chars |-> {"1", "7"}, length |-> 4, map |-> FALSE],
             [chars |-> {}, length |-> 4, map |-> FALSE]}
=============================================================================
