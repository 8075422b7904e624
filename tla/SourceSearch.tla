---------------------------- MODULE SourceSearch ----------------------------
(***************************************************************************)
(* Searches of the playback sources in the Rust core:                      *)
(*   api/generic_scraper/search_progress.rs  with a stream of progress     *)
(*   api/generic_scraper/search_channels.rs  with the table of channels    *)
(*   api/generic_scraper/search_play.rs      for play pages and videos     *)
(*                                                                         *)
(* A search starts a worker for each source, a limited number at a time    *)
(* (buffer_unordered).  A step of a worker is what it does between two     *)
(* requests.  A site does not change while it is searched: what a request  *)
(* meets is the page of the site or an error.                              *)
(***************************************************************************)
EXTENDS SubjectMatching

CONSTANTS Source,       \* the enabled sources
          Override,     \* what Dart may give a search, see NoOverride
          Web,          \* sites, by name: selectors, results and pages
          Sites,        \* for each source, the sites it may lead to
          Query,        \* what the user asks for: a name and its aliases
          Request,      \* episodes asked for: [abs, rel], None for neither
          MaxSearches   \* bound: searches in a behaviour

ASSUME SearchAssumption ==
  /\ MaxSearches \in Nat
  /\ \A s \in Source : Sites[s] \subseteq DOMAIN Web
  /\ \A r \in Request : {r.abs, r.rel} \subseteq {None} \cup Nat

(* A search is for a name; a title is finite; results and pages are lists, *)
(* and a result leads to a page of its site or nowhere.                    *)
AList(s) == s \in Seq(ToSet(s))
Worded(title) == /\ IsFiniteSet(title.letters) /\ AList(title.words)
                 /\ \A i \in DOMAIN title.words : AList(title.words[i])
Searchable ==
  /\ AList(Query) /\ \E i \in DOMAIN Query : Query[i].letters # {}
  /\ \A i \in DOMAIN Query : Worded(Query[i])
  /\ \A n \in DOMAIN Web :
       /\ \A a \in DOMAIN Aliases(Query) :
            /\ AList(Web[n].results[a])
            /\ \A h \in ToSet(Web[n].results[a]) :
                 h.url \in {""} \cup DOMAIN Web[n].page /\ Worded(h.title)
       /\ \A page \in Range(Web[n].page) :
            /\ AList(page.items) /\ AList(page.lists)
            /\ \A i \in DOMAIN page.lists : AList(page.lists[i])
ASSUME WebAssumption == Searchable

VARIABLES
  site,      \* the site of each source
  limit,     \* max_concurrent_searches, 0 for no limit
  tables,    \* online_episode_cache: the detail page saved for each source
  kind,      \* the search under way
  request,   \* the episode the searches of a behaviour ask for
  open,      \* Dart still listens to the stream
  worker,    \* the locals of each worker
  searches

searchVars == <<site, limit, tables, kind, request, open, worker, searches>>

Kind == {"progress", "channels", "play", "first", "episode"}

(* skip, pin, html: skip_search_error, detail_page_url, detail_page_html   *)
(* of the run-time override of the source.                                 *)
NoOverride == [skip |-> FALSE, search |-> FALSE, pin |-> "", html |-> FALSE]
Out == [pc |-> "out", alias |-> 0, answered |-> FALSE, ranked |-> <<>>,
        try |-> 0, lost |-> {}, override |-> NoOverride, events |-> <<>>,
        end |-> "none", url |-> <<>>, cached |-> FALSE]

SearchInit ==
  /\ site \in [Source -> UNION {Sites[s] : s \in Source}]
  /\ \A s \in Source : site[s] \in Sites[s]
  /\ limit \in 0..1
  /\ tables = [s \in Source |-> ""]
  /\ kind = "none" /\ request \in Request /\ open = FALSE
  /\ worker = [s \in Source |-> Out]
  /\ searches = 0

-----------------------------------------------------------------------------
(* What the pure functions make of each site, once for all.                *)

(* What the sites are asked for.                                           *)
Asked == Aliases(Query)

(* The first title that contains the name, for generic_search_and_play.    *)
Hits(n, k, a) ==
  LET hits == Web[n].results[a]
      named == Filtered(hits, LAMBDA h : h.title.core = Asked[a].core)
  IN IF k # "first" THEN Ranked(Asked[a], hits)
     ELSE IF named = <<>> THEN named ELSE <<Head(named)>>

Candidates ==
  [n \in DOMAIN Web |-> [k \in Kind |-> [a \in DOMAIN Asked |->
     [i \in DOMAIN Hits(n, k, a) |-> Hits(n, k, a)[i].url]]]]

RowsIn(n, url) == Table(Web[n].format, url, Web[n].page[url])
Tables == [n \in DOMAIN Web |->
             [url \in DOMAIN Web[n].page |-> RowsIn(n, url)]]

(* The play page that is found on the page of a candidate.                 *)
PlayIn(n, url, k, r) ==
  LET page == Web[n].page[url]
      rows == Tables[n][url]
      play == PlayHref(Web[n].listed, page, r.abs, r.rel)
  IN CASE k = "progress" -> LivePick(Web[n].format, url, page, r.abs, r.rel)
       [] k = "episode" -> PickFromSearch(rows, 0, r.abs)
       [] k = "channels" -> IF rows = <<>> THEN <<>> ELSE Head(rows).url
       [] OTHER -> IF play = "" THEN <<>> ELSE Absolute(url, play)
Plays == [n \in DOMAIN Web |-> [url \in DOMAIN Web[n].page |->
            [k \in Kind |-> [r \in Request |-> PlayIn(n, url, k, r)]]]]

Rows(s, url) == Tables[site[s]][url]
Found(s, url) == Plays[site[s]][url][kind][request]
Playable(s, url) ==
  (IF kind = "episode" THEN Rows(s, url) ELSE Found(s, url)) # <<>>

-----------------------------------------------------------------------------
Running == {s \in Source : worker[s].pc \notin {"out", "waiting", "done"}}
Over == \A s \in Source : worker[s].pc \in {"out", "done"}
\* Mutant: one worker too many.
RoomForOneMore == limit = 0 \/ Cardinality(Running) <= limit
Room == limit = 0 \/ Cardinality(Running) < limit

(* A worker whose event the sink refuses returns.                          *)
Emits(w, steps) == IF kind = "progress"
                     THEN [w EXCEPT !.events = @ \o steps] ELSE w
Refused == kind = "progress" /\ ~open
Ended(w, end, url) == [w EXCEPT !.pc = "done", !.end = end, !.url = url]
Becomes(s, w) == worker' = [worker EXCEPT ![s] = w]

(* forward_search_*_results stops at the first result that is refused, and *)
(* the stream is dropped with the workers in it.                           *)
Delivers(s, w) ==
  worker' = IF kind \in {"channels", "play"} /\ ~open /\ w.end = "ok"
              THEN [r \in Source |->
                      IF worker[r].pc = "done" THEN worker[r]
                      ELSE Ended(worker[r], "dropped", <<>>)]
              ELSE [worker EXCEPT ![s] = w]

-----------------------------------------------------------------------------
(* generic_search_with_progress_runtime on the sources it is asked for.    *)
Listen(k, targets, overrides) ==
  /\ kind = "none" /\ searches < MaxSearches /\ searches' = searches + 1
  /\ kind' = k /\ open' = TRUE
  /\ worker' = [s \in Source |->
       IF s \in targets THEN [Out EXCEPT !.pc = "waiting",
                                         !.override = overrides[s]]
       ELSE Out]
  /\ UNCHANGED <<site, limit, tables, request>>

ListenWith(targets) ==
  \E s \in Source :
    \E o \in {v \in Override : v.pin \in {""} \cup DOMAIN Web[site[s]].page} :
      Listen("progress", targets,
             [r \in Source |-> IF r = s THEN o ELSE NoOverride])

SearchProgress == \E targets \in SUBSET Source \ {{}} : ListenWith(targets)

(* debug_search_with_local_json: of a file that Dart names, the sources    *)
(* that have some text in their name; without one it is an error.          *)
DebugSearch ==
  \E named \in SUBSET Source : named # {} /\ ListenWith(named)

SearchChannels == Listen("channels", Source, [s \in Source |-> NoOverride])
SearchPlay == Listen("play", Source, [s \in Source |-> NoOverride])

(* generic_search_and_play tries one source after the other.               *)
SearchFirst == Listen("first", Source, [s \in Source |-> NoOverride])

(* get_episode_play_url, for one source, absolute number only.             *)
EpisodeUrl == \E s \in Source :
                Listen("episode", {s}, [r \in Source |-> NoOverride])

CloseSink ==
  /\ kind \in {"progress", "channels", "play"} /\ open /\ ~Over
  /\ open' = FALSE
  /\ UNCHANGED <<site, limit, tables, kind, request, worker, searches>>

(* The stream of the search is drained.                                    *)
Drained ==
  /\ kind # "none" /\ Over
  /\ kind' = "none" /\ open' = FALSE
  /\ worker' = [s \in Source |-> Out]
  /\ UNCHANGED <<site, limit, tables, request, searches>>

(* A table outlives a day, or the source is edited: its key is not found.  *)
Expire(s) ==
  /\ tables[s] # "" /\ kind = "none"
  /\ tables' = [tables EXCEPT ![s] = ""]
  /\ UNCHANGED <<site, limit, kind, request, open, worker, searches>>

-----------------------------------------------------------------------------
(* A worker begins: a skipped source fails at once, a table that is saved  *)
(* answers at once, else the first request goes out.                       *)
Chosen(s) ==
  IF tables[s] = "" THEN <<>>
  ELSE SelectFromTable(Rows(s, tables[s]), 0, request.abs,
                       IF kind = "episode" THEN request.abs ELSE request.rel)

MayUseTable(s) ==
  \/ kind = "progress" /\ ~worker[s].override.html
  \/ kind = "episode"

Begin(s) ==
  /\ worker[s].pc = "waiting"
  /\ IF kind = "first"
       THEN \A r \in Source : worker[r].pc \in {"waiting", "done"}
       ELSE Room
  /\ \E cached \in {IF MayUseTable(s) THEN Chosen(s) ELSE <<>>} :
     LET w == worker[s]
         first == [Emits(w, <<"Searching">>) EXCEPT !.pc = "search",
                                                    !.alias = 1]
     IN CASE Refused -> Becomes(s, Ended(w, "closed", <<>>))
          [] kind = "progress" /\ w.override.skip ->
               Becomes(s, Ended(Emits(first, <<"Failed">>), "skipped", <<>>))
          [] ~Refused /\ ~w.override.skip /\ cached # <<>> ->
               Becomes(s, Ended([Emits(first,
                 <<"FetchingEpisodes", "ExtractingVideo", "Success">>)
                   EXCEPT !.cached = TRUE], "ok", cached))
          [] OTHER -> Becomes(s, first)
  /\ UNCHANGED <<site, limit, tables, kind, request, open, searches>>

(* The candidates, and the page to begin with when the WebView named one.  *)
Pinned(w) ==
  IF w.override.pin = "" THEN w.ranked
  ELSE <<w.override.pin>> \o Filtered(w.ranked,
                                       LAMBDA u : u # w.override.pin)

(* The aliases are used up, or one of them has candidates.                 *)
Tries(w) ==
  LET all == [w EXCEPT !.ranked = Pinned(w), !.pc = "detail", !.try = 1]
  IN CASE Pinned(w) = <<>> ->
            Ended(Emits(w, IF Refused THEN <<>> ELSE <<"Failed">>),
                  IF kind = "progress" /\ ~w.answered THEN "network"
                  ELSE "unmatched", <<>>)
       [] Pinned(w) # <<>> /\ Refused -> Ended(w, "closed", <<>>)
       [] OTHER -> Emits(all, <<"FetchingDetail">>)

SearchAnswered(s) ==
  /\ worker[s].pc = "search"
  /\ \E ranked \in {Candidates[site[s]][kind][worker[s].alias]} :
     LET w == [worker[s] EXCEPT !.answered = TRUE, !.ranked = ranked]
     IN IF ranked = <<>> /\ w.alias < Len(Asked)
          THEN Becomes(s, [w EXCEPT !.alias = @ + 1])
          ELSE Becomes(s, Tries(w))
  /\ UNCHANGED <<site, limit, tables, kind, request, open, searches>>

(* Only a search with progress goes on to the next alias.                  *)
SearchFailed(s) ==
  /\ worker[s].pc = "search"
  /\ ~(worker[s].override.search /\ worker[s].alias = 1)
  /\ LET w == worker[s]
     IN CASE kind # "progress" -> Becomes(s, Ended(w, "network", <<>>))
          [] kind = "progress" /\ w.alias < Len(Asked) ->
               Becomes(s, [w EXCEPT !.alias = @ + 1])
          [] OTHER -> Becomes(s, Tries(w))
  /\ UNCHANGED <<site, limit, tables, kind, request, open, searches>>

-----------------------------------------------------------------------------
(* The next candidate, if the limit on candidates leaves one.              *)
NextTry(w) ==
  CASE kind = "first" \/ w.try = RetryLimit(Len(w.ranked)) ->
         Ended(Emits(w, IF Refused THEN <<>> ELSE <<"Failed">>),
               "unplayable", <<>>)
    [] kind # "first" /\ w.try # RetryLimit(Len(w.ranked)) /\ Refused ->
         Ended(w, "closed", <<>>)
    [] OTHER -> Emits([w EXCEPT !.try = @ + 1], <<"FetchingDetail">>)

DetailFailed(s) ==
  /\ worker[s].pc = "detail"
  /\ ~(worker[s].override.html /\ worker[s].try = 1)
  /\ Becomes(s, NextTry([worker[s] EXCEPT !.lost = @ \cup {worker[s].try}]))
  /\ UNCHANGED <<site, limit, tables, kind, request, open, searches>>

DetailAnswered(s) ==
  /\ worker[s].pc = "detail"
  /\ \E url \in {worker[s].ranked[worker[s].try]} :
     \E play \in {Found(s, url)}, rows \in {Rows(s, url)} :
     LET w == worker[s]
         seen == Emits(w, <<"FetchingEpisodes">>)
         shown == Emits(seen, <<"ExtractingVideo", "Success">>)
     IN IF Refused
          THEN Becomes(s, Ended(w, "closed", <<>>)) /\ UNCHANGED tables
          ELSE IF (IF kind = "episode" THEN rows ELSE play) = <<>>
          THEN Becomes(s, NextTry(seen)) /\ UNCHANGED tables
          ELSE /\ tables' = IF kind \in {"progress", "channels", "episode"}
                                /\ rows # <<>>
                              THEN [tables EXCEPT ![s] = url] ELSE tables
               /\ CASE kind = "first" ->
                         Becomes(s, [w EXCEPT !.pc = "video", !.url = play])
                    [] kind = "episode" /\ play = <<>> ->
                         Becomes(s, Ended(w, "unplayable", <<>>))
                    [] OTHER -> Delivers(s, Ended(shown, "ok", play))
  /\ UNCHANGED <<site, limit, kind, request, open, searches>>

(* search_and_play_sources fetches the play page, the page nested in it if *)
(* there is one, and looks for the video.  A source that has none gives    *)
(* way to the next; a body that breaks off ends the search for all.        *)
VideoFound(s) ==
  /\ worker[s].pc = "video"
  /\ worker' = [r \in Source |->
       IF r = s THEN Ended(worker[s], "ok", worker[s].url)
       ELSE IF worker[r].pc = "waiting" THEN Out ELSE worker[r]]
  /\ UNCHANGED <<site, limit, tables, kind, request, open, searches>>

VideoMissing(s) ==
  /\ worker[s].pc = "video"
  /\ Becomes(s, Ended(worker[s], "unplayable", <<>>))
  /\ UNCHANGED <<site, limit, tables, kind, request, open, searches>>

BodyBreaks(s) ==
  /\ kind = "first" /\ worker[s].pc \in {"search", "detail", "video"}
  /\ worker' = [r \in Source |-> IF worker[r].pc = "done" THEN worker[r]
                                 ELSE Ended(worker[r], "network", <<>>)]
  /\ UNCHANGED <<site, limit, tables, kind, request, open, searches>>

-----------------------------------------------------------------------------
SearchCalls == \/ SearchProgress \/ DebugSearch \/ SearchChannels
               \/ SearchPlay \/ SearchFirst \/ EpisodeUrl \/ CloseSink
               \/ \E s \in Source : Expire(s)
SearchSteps(s) ==
  \/ Begin(s) \/ SearchAnswered(s) \/ SearchFailed(s) \/ DetailFailed(s)
  \/ DetailAnswered(s) \/ VideoFound(s) \/ VideoMissing(s) \/ BodyBreaks(s)

-----------------------------------------------------------------------------
Terminal == {"Success", "Failed"}
Ends(w) == {i \in DOMAIN w.events : w.events[i] \in Terminal}

(* Once a search with progress is over, each source it was asked for has   *)
(* told so once, last of all it told, if Dart was listening to the end;    *)
(* and no more than the limit were ever searched at once.                  *)
EverySourceSettled ==
  /\ limit # 0 => Cardinality(Running) <= limit
  /\ kind = "progress" => \A s \in Source :
       LET w == worker[s] IN
       /\ Ends(w) \subseteq {Len(w.events)}
       /\ w.pc = "done" /\ open => Ends(w) # {}
       /\ w.end = "ok" <=> Ends(w) # {} /\ w.events[Len(w.events)] = "Success"

(* A play page found live is on the first candidate, in order of rank,     *)
(* whose page arrived and holds an episode.  The candidate is the one of   *)
(* the best title, or of its work, in the season, the part and the kind    *)
(* that are asked for, else in those of the best; or the WebView named it. *)
(* A search gives up for the network only when no alias was answered.      *)
BestCandidateServed ==
  \A s \in Source :
    LET w == worker[s]
        query == Identity(Asked[w.alias])
        title(u) == {Identity(h.title) : h \in
                       {g \in ToSet(Web[site[s]].results[w.alias]) : g.url = u}}
        best == w.ranked[IF w.override.pin = "" THEN 1 ELSE 2]
    IN /\ w.end = "ok" /\ ~w.cached => \A i \in 1..(w.try - 1) :
            i \in w.lost \/ ~Playable(s, w.ranked[i])
       /\ w.end = "ok" /\ ~w.cached /\ kind # "first"
            /\ w.ranked[w.try] # w.override.pin
          => \E t \in title(w.ranked[w.try]), b \in title(best) :
               \/ t = b
               \/ /\ t.core = b.core
                  /\ t.season = Expected(query.season, b.season)
                  /\ t.part = Expected(query.part, b.part)
                  /\ t.variant = IF query.variant = "normal" THEN b.variant
                                                          ELSE query.variant
       /\ w.end = "unplayable" /\ kind = "progress" =>
            \A i \in 1..RetryLimit(Len(w.ranked)) :
              i \in w.lost \/ ~Playable(s, w.ranked[i])
       /\ w.end = "network" /\ kind = "progress" => ~w.answered

(* An answer from a saved table is the play page a search of the site      *)
(* would show, when the first list of the page counts its episodes from    *)
(* one, each has a link, and the number asked for is in it.  (A position   *)
(* behind that list goes on in the lists that share its channel, but only  *)
(* in the table.)                                                          *)
WellNumbered(links, n) ==
  /\ \A i \in DOMAIN links : EpisodeNumber(links[i].name) = i
                             /\ links[i].href # ""
  /\ n # None => n \in DOMAIN links

CachedAnswerIsLive ==
  \A s \in Source :
    LET w == worker[s]
        page == Web[site[s]].page[tables[s]]
        format == Web[site[s]].format
        links == IF format = "plain" THEN page.items ELSE FirstList(page)
    IN w.cached /\ kind = "progress" /\ tables[s] # ""
       /\ links # <<>> /\ WellNumbered(links, request.abs)
       /\ \/ request.abs # None
          \/ request.rel \in {None} \cup DOMAIN links
          \/ Len(InChannel(Rows(s, tables[s]), 0)) = Len(links)
       => w.url = LivePick(format, tables[s], page,
                           request.abs, request.rel)
=============================================================================
