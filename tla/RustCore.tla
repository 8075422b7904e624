------------------------------ MODULE RustCore ------------------------------
(***************************************************************************)
(* The Rust core as Dart calls it: the offline data, the playback sources, *)
(* the searches, the requests to Bangumi, what is read by them, torrents,  *)
(* lookups elsewhere and captchas, in one process.  The parts share no     *)
(* state they write, so a behaviour is one in which calls of one part,     *)
(* work, are under way; the others rest.  Each part has the properties of  *)
(* its module, and together they have the one below.                       *)
(***************************************************************************)
EXTENDS BangumiData, SourceStore, SourceSearch, BangumiNetwork,
        SubjectDetails, TorrentEngine, EpisodeResources, CaptchaReading,
        AirDates

VARIABLE work

parts == <<dataVars, sourceVars, searchVars, netVars, catalogueVars,
           detailVars, engineVars, huntVars, ocrVars, airVars>>
coreVars == <<work, parts>>

(* The requests to Bangumi are taken twice: what they ask for, without     *)
(* ECH, and how a key comes to a client, whatever they ask for.  The       *)
(* marker of a failed download is one that a call of the behaviour left.   *)
Work == {"data", "sources", "searches", "account", "keys",
         "catalogue", "details", "torrents", "lookups", "captchas", "years"}

DataAtRest == file = 0
SourcesAtRest == disk = Missing
SearchAtRest ==
  /\ site = [s \in Source |-> CHOOSE p \in Sites[s] : TRUE]
  /\ limit = 0 /\ request = CHOOSE r \in Request : TRUE
CatalogueAtRest == /\ tab = "blog" /\ totalled
                   /\ content = CHOOSE c \in Content[tab] : TRUE
NetworkAtRest == ~proxied /\ ~ech /\ token = Vacant /\ ~collected

CoreInit ==
  /\ work \in Work
  /\ DataInit /\ ~marker /\ (work # "data" => DataAtRest)
  /\ SourceInit /\ (work # "sources" => SourcesAtRest)
  /\ SearchInit /\ (work # "searches" => SearchAtRest)
  /\ NetworkInit
  /\ CASE work = "account" -> ~ech
       [] work = "keys" -> ech /\ ~proxied /\ token = Vacant /\ ~collected
       [] OTHER -> NetworkAtRest
  /\ CatalogueInit /\ (work # "catalogue" => CatalogueAtRest)
  /\ work \notin {"catalogue", "details"} => mode = "hybrid"
  /\ DetailsInit /\ EngineInit /\ ResourcesInit /\ CaptchaInit /\ AirInit

-----------------------------------------------------------------------------
Only(some) ==
  /\ work \in some /\ UNCHANGED work
  /\ some # {"data"} => UNCHANGED dataVars
  /\ some # {"sources"} => UNCHANGED sourceVars
  /\ some # {"searches"} => UNCHANGED searchVars
  /\ some \cap {"account", "keys"} = {} => UNCHANGED netVars
  /\ some # {"catalogue"} => UNCHANGED catalogueVars
  /\ some # {"details"} => UNCHANGED detailVars
  /\ some # {"torrents"} => UNCHANGED engineVars
  /\ some # {"lookups"} => UNCHANGED huntVars
  /\ some # {"captchas"} => UNCHANGED ocrVars
  /\ some # {"years"} => UNCHANGED airVars

(* Callers are alike, so the one that calls next is any that may.          *)
OneOf(S) == IF S = {} THEN {} ELSE {CHOOSE x \in S : TRUE}
NextCaller == OneOf({c \in Caller : task[c].pc = "idle"})
NextEditor == OneOf({e \in Editor : editor[e].pc = "idle"})
NextClient == OneOf({c \in Client : Ready(c)})

(* What Dart, the clock and the user do.                                   *)
CoreCalls ==
  \/ Only({"data"}) /\ \E c \in NextCaller : Calls(c)
  \/ /\ Only({"sources"})
     /\ (\E e \in NextEditor : EditorCalls(e)) \/ Tick \/ Restart
  \/ Only({"searches"}) /\ SearchCalls
  \/ /\ Only({"account"})
     /\ \/ SetReverseProxy \/ SetAccessToken \/ ClearAccessToken
        \/ \E c \in NextClient : AccountCalls(c)
  \/ /\ Only({"keys"})
     /\ \/ SetUseEch \/ EndpointsChange \/ KeyExpires \/ BackoffEnds
        \/ \E c \in NextClient : Profile(c) \/ RefreshKey(c)
  \/ Only({"catalogue"}) /\ CatalogueCalls
  \/ Only({"details"}) /\ DetailCalls
  \/ Only({"torrents"}) /\ EngineCalls
  \/ Only({"lookups"}) /\ LookupCalls
  \/ Only({"captchas"}) /\ CaptchaCalls
  \/ Only({"years"}) /\ Limit

(* What the runtime does for calls that are under way.                     *)
DataSteps == \E t \in Task : Steps(t)
SourceSteps == \E e \in Editor : EditorSteps(e)
SourceSearchSteps == Drained \/ \E s \in Source : SearchSteps(s)
RequestSteps == \E c \in Client : NetworkSteps(c)

CoreSteps ==
  \/ Only({"data"}) /\ DataSteps
  \/ Only({"sources"}) /\ SourceSteps
  \/ Only({"searches"}) /\ SourceSearchSteps
  \/ Only({"account", "keys"}) /\ RequestSteps
  \/ Only({"catalogue"}) /\ CatalogueSteps
  \/ Only({"details"}) /\ DetailSteps
  \/ Only({"torrents"}) /\ EngineSteps
  \/ Only({"lookups"}) /\ LookupSteps

CoreNext == CoreCalls \/ CoreSteps

(* The same steps and what they change, for the fairness below: the rest   *)
(* of the state is left alone by every step that CoreNext allows.          *)
Going ==
  /\ UNCHANGED work
  /\ \/ work = "data" /\ DataSteps
     \/ work = "sources" /\ SourceSteps
     \/ work = "searches" /\ SourceSearchSteps
     \/ work \in {"account", "keys"} /\ RequestSteps
     \/ work = "catalogue" /\ CatalogueSteps
     \/ work = "details" /\ DetailSteps
     \/ work = "torrents" /\ EngineSteps
     \/ work = "lookups" /\ LookupSteps
active ==
  CASE work = "data" -> dataVars [] work = "sources" -> sourceVars
    [] work = "searches" -> searchVars
    [] work \in {"account", "keys"} -> netVars
    [] work = "catalogue" -> catalogueVars [] work = "details" -> detailVars
    [] work = "torrents" -> engineVars [] work = "lookups" -> huntVars
    [] OTHER -> work

(* The runtime goes on with some task as long as one can go on; requests   *)
(* end by an answer or a time-out.                                         *)
CoreSpec == CoreInit /\ [][CoreNext]_coreVars /\ WF_active(Going)

-----------------------------------------------------------------------------
(* Nothing is under way, and nothing is held.                              *)
AllQuiet ==
  /\ \A t \in Task : task[t].pc = "idle"
  /\ downloader = Nobody /\ builder = Nobody
  /\ \A e \in Editor : editor[e].pc = "idle"
  /\ mutex = Free
  /\ kind = "none"
  /\ \A c \in Client : asker[c].pc \in {"idle", "done"}
  /\ writer = Vacant
  /\ fetch = NoFetch
  /\ job.pc \in {"idle", "done"}
  /\ guard = Unheld /\ \A v \in Viewer : viewer[v].pc = "idle"
  /\ hunt.pc \in {"idle", "failed", "animeDone", "resourcesDone",
                   "danmakuDone", "unknown", "matched"}

(* Every call returns: Dart makes finitely many, and then the permits, the *)
(* mutex and the lock of the client come back, whoever failed while he     *)
(* held one, and no call goes round in a load, a retry or a fallback.      *)
EveryCallReturns == <>[]AllQuiet
=============================================================================
