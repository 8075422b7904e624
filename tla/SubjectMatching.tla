-------------------------- MODULE SubjectMatching --------------------------
(***************************************************************************)
(* What a scraped page is turned into:                                     *)
(*   api/generic_scraper/matching.rs       titles, scores, episode numbers *)
(*   api/generic_scraper/episode_table.rs  the table of a detail page      *)
(*                                                                         *)
(* Pages are what the selectors of a source find in them.  Text is a set   *)
(* of letters where it is compared by letters, a sequence of numerals      *)
(* where it is read as a number; "" is what trims to nothing.              *)
(***************************************************************************)
EXTENDS Lists, SequencesExt

None == -2       \* no number, season, part or channel
Ten == 10        \* the numerals are 0..9 and these
Hundred == 100
Unread == -1     \* a character that is no numeral
Threshold == 36  \* MATCH_THRESHOLD
MaxRetries == 5  \* MAX_SUBJECT_DETAIL_RETRIES

-----------------------------------------------------------------------------
(* Numbers.                                                                *)

(* parse_chinese_number: a digit waits for the unit that multiplies it.    *)
ReadNumeral(acc, n) ==
  CASE n = Ten -> [sum |-> acc.sum + (IF acc.digit = 0 THEN 10
                                                       ELSE 10 * acc.digit),
                   digit |-> 0, ten |-> TRUE]
    [] n = Hundred -> [acc EXCEPT !.sum = @ + 100 * acc.digit, !.digit = 0]
    [] n \in 0..9 -> [acc EXCEPT !.digit = n]
    [] OTHER -> acc

ChineseNumber(text) ==
  LET end == FoldLeft(ReadNumeral, [sum |-> 0, digit |-> 0, ten |-> FALSE],
                      text)
  IN IF end.sum + end.digit > 0 \/ end.ten THEN end.sum + end.digit ELSE None

(* The number in the name of an episode, as the patterns capture it.       *)
EpisodeNumber(name) ==
  IF \A i \in DOMAIN name : name[i] = Unread THEN None ELSE ChineseNumber(name)

-----------------------------------------------------------------------------
(* Titles.  A title is what the expressions find in it: its letters, its   *)
(* words once punctuation and season marks are gone, the season and part   *)
(* it names, its marks of a kind of work, and what is left of it.          *)

(* build_search_candidates: each name that is one once, in order.          *)
Aliases(names) ==
  LET first == {i \in DOMAIN names :
                  /\ names[i].letters # {}
                  /\ \A j \in 1..(i - 1) : names[j] # names[i]}
  IN Sublist(names, first)

(* extract_core_name: the first word of three letters, else the longest.   *)
CoreName(title) ==
  LET words == title.words
      long == {i \in DOMAIN words : Len(words[i]) >= 3}
      longest == {i \in DOMAIN words :
                    \A j \in DOMAIN words : Len(words[j]) <= Len(words[i])}
  IN IF long # {} THEN ToSet(words[CHOOSE i \in long :
                                      \A j \in long : i <= j])
     ELSE IF longest # {} THEN ToSet(words[CHOOSE i \in longest :
                                             \A j \in longest : j <= i])
     ELSE title.letters

(* calculate_match_score: 70 per cent likeness to the whole name, 30 to    *)
(* its core, cut to an integer.                                            *)
MatchScore(title, full, core) ==
  LET shared(a) == Cardinality(title \cap a)
      joined(a) == IF title \cup a = {} THEN 1 ELSE Cardinality(title \cup a)
  IN (70 * shared(full) * joined(core) + 30 * shared(core) * joined(full))
       \div (joined(full) * joined(core))

Variant(title) ==
  CASE "live" \in title.marks -> "live"
    [] "movie" \in title.marks -> "movie"
    [] "ova" \in title.marks -> "ova"
    [] "special" \in title.marks -> "special"
    [] OTHER -> "normal"

SubjectNumber(text) == ChineseNumber(text)

Identity(title) == [core |-> title.core, season |-> SubjectNumber(title.season),
                    part |-> SubjectNumber(title.part),
                    variant |-> Variant(title)]

\* Mutant: any title of the same work will do.
SameWork(query, best, candidate) ==
  best.core # "" /\ candidate.core = best.core

(* is_semantically_compatible_subject.                                     *)
Expected(asked, best) == IF asked # None THEN asked ELSE best
Compatible(query, best, candidate) ==
  /\ best.core # "" /\ candidate.core = best.core
  /\ candidate.season = Expected(query.season, best.season)
  /\ candidate.part = Expected(query.part, best.part)
  /\ candidate.variant = IF query.variant = "normal" THEN best.variant
                                                     ELSE query.variant

Retries(query, ranked) ==
  IF ranked = <<>> THEN ranked
  ELSE Filtered(ranked, LAMBDA hit :
         \/ hit.url = Head(ranked).url
         \/ Compatible(Identity(query), Identity(Head(ranked).title),
                       Identity(hit.title)))

(* select_best_subject_candidate: links above the threshold by score, the  *)
(* first of a score first, each address once, and of them the retries.     *)
Score(query, hit) == MatchScore(hit.title.letters, query.letters,
                                CoreName(query))

Ranked(query, hits) ==
  LET kept == {i \in DOMAIN hits : hits[i].url # ""
                                   /\ Score(query, hits[i]) >= Threshold}
      before(i, j) == \/ Score(query, hits[i]) > Score(query, hits[j])
                      \/ Score(query, hits[i]) = Score(query, hits[j]) /\ i < j
      once == {i \in kept : \A j \in kept :
                 before(j, i) => hits[j].url # hits[i].url}
      order == Arranged(once, before)
  IN Retries(query, [k \in DOMAIN order |-> hits[order[k]]])

RetryLimit(n) == IF n < MaxRetries THEN n ELSE MaxRetries

-----------------------------------------------------------------------------
(* Detail pages: [names, lists, items], what the selectors find in them.   *)
(* A link is [name, href]; its address on the page is the pair of both.    *)
Absolute(base, href) == <<base, href>>

(* extract_channel_name: what the pattern captures, else the text.         *)
ChannelName(header) == IF header.captured THEN header.name ELSE header.text

(* The links of one list, by number as the last link of a number has it:   *)
(* the absolute number, the relative one, else the first.                  *)
SelectByNumber(links, abs, rel) ==
  LET at(n) == {i \in DOMAIN links : EpisodeNumber(links[i].name) = n}
      latest(n) == links[CHOOSE i \in at(n) : \A j \in at(n) : j <= i].href
  IN IF links = <<>> THEN ""
     ELSE IF abs # None /\ at(abs) # {} THEN latest(abs)
     ELSE IF rel # None /\ at(rel) # {} THEN latest(rel)
     ELSE Head(links).href

FirstList(page) == IF page.lists = <<>> THEN <<>> ELSE Head(page.lists)

(* A search shows one number of a page at once, by the format of the       *)
(* source: "grouped", "plain", or "old" for one that names neither.        *)
LiveHref(format, page, abs, rel) ==
  SelectByNumber(IF format = "plain" THEN page.items ELSE FirstList(page),
                 abs, rel)

(* What search_single_source and search_and_play_sources show: the lists,  *)
(* if the source has selectors for them, whatever its format.              *)
PlayHref(listed, page, abs, rel) ==
  SelectByNumber(IF listed THEN FirstList(page) ELSE page.items, abs, rel)

LivePick(format, url, page, abs, rel) ==
  LET href == LiveHref(format, page, abs, rel)
  IN IF href = "" THEN <<>> ELSE Absolute(url, href)

(* parse_episode_table_from_detail: channels of one name are merged; lists *)
(* without a name get one; links without an address are left out.          *)
HeaderName(header) == IF ChannelName(header) = "" THEN "numbered"
                                                  ELSE ChannelName(header)

TableIndex(page, i) ==
  LET named == [k \in DOMAIN page.names |->
                  <<HeaderName(page.names[k]),
                    IF ChannelName(page.names[k]) = "" THEN k ELSE 0>>]
      first(k) == CHOOSE j \in 1..k : /\ named[j] = named[k]
                                      /\ \A l \in 1..(j - 1) :
                                           named[l] # named[k]
  IN IF i \in DOMAIN named
       THEN Cardinality({named[j] : j \in 1..(first(i) - 1)})
       ELSE i - 1

RowsOf(url, links, channel) ==
  LET row == [i \in DOMAIN links |->
                [number |-> EpisodeNumber(links[i].name), channel |-> channel,
                 href |-> links[i].href, url |-> Absolute(url, links[i].href)]]
  IN Filtered(row, LAMBDA r : r.href # "")

Table(format, url, page) ==
  CASE format = "grouped" ->
         FlattenSeq([i \in DOMAIN page.lists |->
                       RowsOf(url, page.lists[i], TableIndex(page, i))])
    [] format = "plain" -> RowsOf(url, page.items, 0)
    [] OTHER -> RowsOf(url, FirstList(page), 0)

(* select_episode_from_table: by number in the channel, by number, by      *)
(* position in the channel, the first.                                     *)
InChannel(rows, channel) ==
  LET own == Filtered(rows, LAMBDA r : r.channel = channel)
  IN IF own = <<>> THEN rows ELSE own

Numbered(rows, n) == Filtered(rows, LAMBDA r : n # None /\ r.number = n)

\* Mutant: the position is taken in the table, not in the channel.
SelectFromRows(rows, channel, abs, rel) ==
  IF rows = <<>> THEN <<>>
  ELSE IF Numbered(rows, abs) # <<>> THEN Head(Numbered(rows, abs)).url
  ELSE IF rel + 1 \in DOMAIN rows THEN rows[rel + 1].url
  ELSE Head(rows).url

SelectFromTable(rows, channel, abs, rel) ==
  LET own == InChannel(rows, channel)
  IN IF rows = <<>> THEN <<>>
     ELSE IF Numbered(own, abs) # <<>> THEN Head(Numbered(own, abs)).url
     ELSE IF Numbered(rows, abs) # <<>> THEN Head(Numbered(rows, abs)).url
     ELSE IF rel \in DOMAIN own THEN own[rel].url
     ELSE Head(own).url

(* The choice get_episode_play_url makes in a table it has just read.      *)
PickFromSearch(rows, channel, number) ==
  LET own == Filtered(rows, LAMBDA r : r.channel = channel)
      named == IF number = None THEN own
               ELSE Numbered(own, number) \o Numbered(rows, number)
  IN IF named = <<>> THEN <<>> ELSE Head(named).url
=============================================================================
