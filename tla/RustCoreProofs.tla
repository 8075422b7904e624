--------------------------- MODULE RustCoreProofs ---------------------------
(***************************************************************************)
(* The parts keep their invariants in the composition: a behaviour of the  *)
(* core is one of each part, the others of which rest.                     *)
(***************************************************************************)
EXTENDS RustCore, BangumiProofs, CorePartsProofs

(* Who calls next is one of those who may.                                 *)
LEMMA OneOfThem == \A S : OneOf(S) \subseteq S
BY DEF OneOf

(* So the next caller is one of the callers, and likewise for the others.  *)
LEMMA NextCallers ==
  /\ NextCaller \subseteq Caller /\ NextClient \subseteq Client
  /\ NextEditor \subseteq Editor
BY OneOfThem DEF NextCaller, NextClient, NextEditor

(* A step of the core is one of the offline data, or leaves them alone.    *)
LEMMA CoreStepOfData == [CoreNext]_coreVars => [DataNext]_dataVars
<1> SUFFICES ASSUME [CoreNext]_coreVars PROVE [DataNext]_dataVars
  OBVIOUS
<1>1. CASE UNCHANGED coreVars
  BY <1>1 DEF coreVars, parts
<1>2. ASSUME NEW some, some # {"data"}, Only(some)
      PROVE  UNCHANGED dataVars
  BY <1>2 DEF Only
<1>3. CASE CoreCalls
  <2>1. ASSUME NEW c \in NextCaller, Calls(c) PROVE DataNext
    <3>1. c \in Caller
      BY NextCallers
    <3>2. QED
      BY <2>1, <3>1, Zenon DEF DataNext
  <2>2. QED
    BY <1>2, <1>3, <2>1 DEF CoreCalls
<1>4. CASE CoreSteps
  BY <1>2, <1>4 DEF CoreSteps, DataSteps, DataNext
<1>5. QED
  BY <1>1, <1>3, <1>4 DEF CoreNext

(* A step of the core is one of the requests, or leaves them alone.        *)
LEMMA CoreStepOfRequests == [CoreNext]_coreVars => [NetworkNext]_netVars
<1> SUFFICES ASSUME [CoreNext]_coreVars PROVE [NetworkNext]_netVars
  OBVIOUS
<1>1. CASE UNCHANGED coreVars
  BY <1>1 DEF coreVars, parts
<1>2. ASSUME NEW some, some \cap {"account", "keys"} = {}, Only(some)
      PROVE  UNCHANGED netVars
  BY <1>2 DEF Only
<1>3. CASE CoreCalls
  <2>1. ASSUME NEW c \in NextClient,
               AccountCalls(c) \/ Profile(c) \/ RefreshKey(c)
        PROVE  NetworkNext
    BY <2>1, NextCallers DEF NetworkNext, AccountCalls
  <2>2. QED
    BY <1>2, <1>3, <2>1 DEF CoreCalls, NetworkNext
<1>4. CASE CoreSteps
  BY <1>2, <1>4 DEF CoreSteps, RequestSteps, NetworkNext
<1>5. QED
  BY <1>1, <1>3, <1>4 DEF CoreNext

(* A step of the core is one of the playback sources, or leaves them alone.*)
LEMMA CoreStepOfSources == [CoreNext]_coreVars => [StoreNext]_sourceVars
<1> SUFFICES ASSUME [CoreNext]_coreVars PROVE [StoreNext]_sourceVars
  OBVIOUS
<1>1. CASE UNCHANGED coreVars
  BY <1>1 DEF coreVars, parts
<1>2. ASSUME NEW some, some # {"sources"}, Only(some)
      PROVE  UNCHANGED sourceVars
  BY <1>2 DEF Only
<1>3. CASE CoreCalls
  BY <1>2, <1>3, NextCallers DEF CoreCalls, StoreNext, SourceCalls
<1>4. CASE CoreSteps
  BY <1>2, <1>4 DEF CoreSteps, SourceSteps, StoreNext
<1>5. QED
  BY <1>1, <1>3, <1>4 DEF CoreNext

(* A step of the core is one of the searches, or leaves them alone.        *)
LEMMA CoreStepOfSearches == [CoreNext]_coreVars => [SearchNext]_searchVars
<1> SUFFICES ASSUME [CoreNext]_coreVars PROVE [SearchNext]_searchVars
  OBVIOUS
<1>1. CASE UNCHANGED coreVars
  BY <1>1 DEF coreVars, parts
<1>2. ASSUME NEW some, some # {"searches"}, Only(some)
      PROVE  UNCHANGED searchVars
  BY <1>2 DEF Only
<1>3. CASE CoreCalls
  BY <1>2, <1>3 DEF CoreCalls, SearchNext
<1>4. CASE CoreSteps
  BY <1>2, <1>4 DEF CoreSteps, SourceSearchSteps, SearchNext
<1>5. QED
  BY <1>1, <1>3, <1>4 DEF CoreNext

(* A step of the core is one of the lists and threads, of the details of a *)
(* timetable, of the torrent engine or of the dates, or leaves them alone. *)
LEMMA CoreStepOfTheRest ==
  [CoreNext]_coreVars => /\ [CatalogueNext]_catalogueVars
                         /\ [DetailsNext]_detailVars
                         /\ [EngineNext]_engineVars
                         /\ Limit \/ UNCHANGED airVars
<1> SUFFICES ASSUME [CoreNext]_coreVars
             PROVE  /\ [CatalogueNext]_catalogueVars
                    /\ [DetailsNext]_detailVars /\ [EngineNext]_engineVars
                    /\ Limit \/ UNCHANGED airVars
  OBVIOUS
<1>1. CASE UNCHANGED coreVars
  BY <1>1 DEF coreVars, parts
<1>2. ASSUME NEW some, Only(some)
      PROVE  /\ some # {"catalogue"} => UNCHANGED catalogueVars
             /\ some # {"details"} => UNCHANGED detailVars
             /\ some # {"torrents"} => UNCHANGED engineVars
             /\ some # {"years"} => UNCHANGED airVars
  BY <1>2 DEF Only
<1>3. CASE CoreCalls
  BY <1>2, <1>3 DEF CoreCalls, CatalogueNext, DetailsNext,
     EngineNext
<1>4. CASE CoreSteps
  BY <1>2, <1>4 DEF CoreSteps, CatalogueNext, DetailsNext,
     EngineNext
<1>5. QED
  BY <1>1, <1>3, <1>4 DEF CoreNext

(* The composition keeps what the offline data promise: neither the parsed *)
(* payload nor an index begun in calm outlives the file it was read from.  *)
THEOREM CoreKeepsData == CoreSpec => [](SlotIsFile /\ CalmIndexIsFile)
<1>1. CoreInit => DataInv
  BY InitHolds DEF CoreInit
<1>2. DataInv /\ [CoreNext]_coreVars => DataInv'
  BY CoreStepOfData, StepKeeps
<1>3. DataInv => SlotIsFile /\ CalmIndexIsFile
  BY DEF DataInv, IndexFollows, CalmIndexIsFile, Follows, Unannounced,
     Publishing
<1>4. QED
  BY <1>1, <1>2, <1>3, PTL DEF CoreSpec

(* The composition keeps what the requests promise: credentials stay off   *)
(* the mirrors, and a client of an old key is not taken for current.       *)
THEOREM CoreKeepsRequests ==
  CoreSpec => [](CredentialsStayHome /\ ClientHoldsKey)
<1>1. CoreInit => NetInv
  BY NetInitHolds DEF CoreInit
<1>2. NetInv /\ [CoreNext]_coreVars => NetInv'
  BY CoreStepOfRequests, NetStep
<1>3. NetInv => CredentialsStayHome /\ ClientHoldsKey
  BY DEF NetInv
<1>4. QED
  BY <1>1, <1>2, <1>3, PTL DEF CoreSpec

(* A retry in the core meets what an earlier attempt of its call did.      *)
THEOREM CoreMeetsEffects == CoreSpec => []RetryMeetsItsEffect
<1>1. CoreInit => NetInv /\ RetryInv
  BY NetInitHolds, RetryInitHolds DEF CoreInit
<1>2. NetInv /\ RetryInv /\ [CoreNext]_coreVars => (NetInv /\ RetryInv)'
  BY CoreStepOfRequests, NetStep, RetryStep
<1>3. NetInv /\ RetryInv => RetryMeetsItsEffect
  BY EffectFollows
<1>4. QED
  BY <1>1, <1>2, <1>3, PTL DEF CoreSpec

(* Once the last change of the file, the region or the switches is a       *)
(* time-to-live old, the list that searches take from memory is that of    *)
(* the file as it is. Until then a load that was under way when the change *)
(* was made may cover it up.                                               *)
THEOREM CoreListsSources == CoreSpec => []SettledListIsCurrent
<1>1. CoreInit => StoreInv
  BY StoreInitHolds DEF CoreInit
<1>2. StoreInv /\ [CoreNext]_coreVars => StoreInv'
  BY CoreStepOfSources, StoreStep
<1>3. StoreInv => SettledListIsCurrent
  BY SettledFollows
<1>4. QED
  BY <1>1, <1>2, <1>3, PTL DEF CoreSpec

(* The user's own sources stay in the file through refreshes, renames,     *)
(* additions, failed writes and restarts, as long as no two calls write it *)
(* at once, and are never there with an expression that does not compile.  *)
THEOREM CoreKeepsManuals == CoreSpec => []ManualsSurvive
<1>1. CoreInit => StoreInv /\ ManualInv
  BY StoreInitHolds, ManualInitHolds DEF CoreInit
<1>2. StoreInv /\ ManualInv /\ [CoreNext]_coreVars
        => (StoreInv /\ ManualInv)'
  BY CoreStepOfSources, StoreStep, ManualStep
<1>3. StoreInv /\ ManualInv => ManualsSurvive
  BY ManualFollows
<1>4. QED
  BY <1>1, <1>2, <1>3, PTL DEF CoreSpec

(* Each source of a search with progress is told the end of once, as its   *)
(* last word, if Dart listens to the end; and no more of them are searched *)
(* at once than is allowed.                                                *)
THEOREM CoreSettlesSources == CoreSpec => []EverySourceSettled
<1>1. CoreInit => WorkersInv
  BY SearchInitHolds DEF CoreInit
<1>2. WorkersInv /\ [CoreNext]_coreVars => WorkersInv'
  BY CoreStepOfSearches, SearchStep
<1>3. WorkersInv => EverySourceSettled
  BY SettledAtTheEnd
<1>4. QED
  BY <1>1, <1>2, <1>3, PTL DEF CoreSpec

(* What a search is sure of while it goes on holds of the core.            *)
LEMMA CoreKeepsSeekers == CoreSpec => []SeekInv
<1>1. CoreInit => SeekInv
  BY SeekInitHolds DEF CoreInit
<1>2. SeekInv /\ [CoreNext]_coreVars => SeekInv'
  BY CoreStepOfSearches, SeekStep
<1>3. QED
  BY <1>1, <1>2, PTL DEF CoreSpec

(* A play page found live is on the first candidate, in order of rank,     *)
(* whose page arrived and holds an episode, and the candidate is as good a *)
(* match as the best; a search gives up when there is none, and for the    *)
(* network only when no alias was answered.                                *)
THEOREM CoreServesBest == CoreSpec => []BestCandidateServed
<1>1. SeekInv => BestCandidateServed
  BY BestAtTheEnd
<1>2. QED
  BY <1>1, CoreKeepsSeekers, PTL

(* An answer from a saved table is the play page a search of the site      *)
(* would show, when the first list of the page counts its episodes.        *)
THEOREM CoreAnswersFromTables == CoreSpec => []CachedAnswerIsLive
<1>1. SeekInv => CachedAnswerIsLive
  BY CachedAtTheEnd
<1>2. QED
  BY <1>1, CoreKeepsSeekers, PTL

(* The invariant of what is read in parts holds of the core, however often *)
(* the mode is changed.                                                    *)
LEMMA CoreKeepsCatalogue == CoreSpec => []CatalogueInv
<1>1. CoreInit => CatalogueInv
  BY CatalogueInitHolds DEF CoreInit
<1>2. CatalogueInv /\ [CoreNext]_coreVars => CatalogueInv'
  BY CoreStepOfTheRest, CatalogueStep
<1>3. QED
  BY <1>1, <1>2, PTL DEF CoreSpec

(* What the routes of a list fetch in parts is put together without a gap  *)
(* or a repetition, by whichever routes the parts came.                    *)
THEOREM CorePutsTogether == CoreSpec => []PartsAddUp
<1>1. CatalogueInv => PartsAddUp
  BY CatalogueFollows
<1>2. QED
  BY <1>1, CoreKeepsCatalogue, PTL

(* A page that says there is no more shows the list to its end.            *)
THEOREM CoreReadsToTheEnd == CoreSpec => []ReadToTheEnd
<1>1. CatalogueInv => ReadToTheEnd
  BY CatalogueFollows
<1>2. QED
  BY <1>1, CoreKeepsCatalogue, PTL

(* No thread shows a text that moderators have taken away, on any of the   *)
(* four routes threads arrive by.                                          *)
THEOREM CoreHidesModerated == CoreSpec => []ModeratedStaysHidden
<1>1. CatalogueInv => ModeratedStaysHidden
  BY CatalogueFollows
<1>2. QED
  BY <1>1, CoreKeepsCatalogue, PTL

(* The details that Bangumi answered with reach every entry of the         *)
(* timetable that is of their subject, and no entry loses its own.         *)
THEOREM CoreFillsDetails == CoreSpec => []DetailsReachEveryEntry
<1>1. CoreInit => DetailsInv
  BY DetailsReach DEF CoreInit
<1>2. DetailsInv /\ [CoreNext]_coreVars => DetailsInv'
  BY CoreStepOfTheRest, DetailsStep
<1>3. DetailsInv => DetailsReachEveryEntry
  BY DetailsReach
<1>4. QED
  BY <1>1, <1>2, <1>3, PTL DEF CoreSpec

(* What a quarter is completed with is new to it, there once, and all that *)
(* arrived with a title, though pages are missing.                         *)
THEOREM CoreCompletesQuarters == CoreSpec => []ExtrasAreNew
<1>1. CoreInit => DetailsInv /\ ExtrasInv
  BY DetailsReach, ExtrasStep DEF CoreInit
<1>2. DetailsInv /\ ExtrasInv /\ [CoreNext]_coreVars
        => DetailsInv' /\ ExtrasInv'
  BY CoreStepOfTheRest, DetailsStep, ExtrasStep
<1>3. ExtrasInv => ExtrasAreNew
  BY DEF ExtrasInv
<1>4. QED
  BY <1>1, <1>2, <1>3, PTL DEF CoreSpec

(* A stream that was answered is of a torrent the one engine manages,      *)
(* until somebody stops that very torrent.                                 *)
THEOREM CoreServesStreams == CoreSpec => []StreamIsServed
<1>1. CoreInit => EngineInv
  BY EngineInitHolds DEF CoreInit
<1>2. EngineInv /\ [CoreNext]_coreVars => EngineInv'
  BY CoreStepOfTheRest, EngineStep
<1>3. EngineInv => StreamIsServed
  BY EngineServes
<1>4. QED
  BY <1>1, <1>2, <1>3, PTL DEF CoreSpec

(* The interval that a ranking is asked for holds the months that were     *)
(* chosen and no other.                                                    *)
THEOREM CoreDatesAsChosen == CoreSpec => []DatesAsChosen
<1>1. CoreInit => DatesInv
  BY DatesKept DEF CoreInit
<1>2. DatesInv /\ [CoreNext]_coreVars => DatesInv'
  BY CoreStepOfTheRest, DatesKept
<1>3. DatesInv => DatesAsChosen
  BY DatesFollow
<1>4. QED
  BY <1>1, <1>2, <1>3, PTL DEF CoreSpec

(* A step of the core is one of the lookups, or leaves them alone.         *)
LEMMA CoreStepOfLookups == [CoreNext]_coreVars => [HuntNext]_huntVars
<1> SUFFICES ASSUME [CoreNext]_coreVars PROVE [HuntNext]_huntVars
  OBVIOUS
<1>1. CASE UNCHANGED coreVars
  BY <1>1 DEF coreVars, parts
<1>2. ASSUME NEW some, Only(some)
      PROVE  some # {"lookups"} => UNCHANGED huntVars
  BY <1>2 DEF Only
<1>3. CASE CoreCalls
  BY <1>2, <1>3 DEF CoreCalls, HuntNext
<1>4. CASE CoreSteps
  BY <1>2, <1>4 DEF CoreSteps, HuntNext
<1>5. QED
  BY <1>1, <1>3, <1>4 DEF CoreNext

(* The invariant of the lookups holds of the core.                         *)
LEMMA CoreKeepsHunt == CoreSpec => []HuntInv
<1>1. CoreInit => HuntInv
  BY HuntStep DEF CoreInit
<1>2. HuntInv /\ [CoreNext]_coreVars => HuntInv'
  BY CoreStepOfLookups, HuntStep
<1>3. QED
  BY <1>1, <1>2, PTL DEF CoreSpec

(* The torrents offered for an episode are those of the pages that arrived *)
(* whose title gives its number, each magnet once.                         *)
THEOREM CoreOffersTorrents == CoreSpec => []EachTorrentOnce
<1>1. HuntInv => EachTorrentOnce
  BY HuntFollows
<1>2. QED
  BY <1>1, CoreKeepsHunt, PTL

(* The comments of an episode are the legible ones that came, each as      *)
(* often as it came, in the order of their times.                          *)
THEOREM CoreOrdersComments == CoreSpec => []CommentsInOrder
<1>1. HuntInv => CommentsInOrder
  BY HuntFollows
<1>2. QED
  BY <1>1, CoreKeepsHunt, PTL

(* A step of the core is one of the reading of captchas, or leaves it.     *)
LEMMA CoreStepOfCaptchas == [CoreNext]_coreVars => [CaptchaCalls]_ocrVars
<1> SUFFICES ASSUME [CoreNext]_coreVars PROVE [CaptchaCalls]_ocrVars
  OBVIOUS
<1>1. CASE UNCHANGED coreVars
  BY <1>1 DEF coreVars, parts
<1>2. ASSUME NEW some, Only(some)
      PROVE  some # {"captchas"} => UNCHANGED ocrVars
  BY <1>2 DEF Only
<1>3. CASE CoreCalls
  BY <1>2, <1>3 DEF CoreCalls
<1>4. CASE CoreSteps
  BY <1>2, <1>4 DEF CoreSteps
<1>5. QED
  BY <1>1, <1>3, <1>4 DEF CoreNext

(* The text of a captcha has a character for each run of steps whose best  *)
(* class the source knows, up to the length that it asks for.              *)
THEOREM CoreReadsCaptchas == CoreSpec => []CaptchaAsDrawn
<1>1. CoreInit => CaptchaInv
  BY CaptchaInitHolds DEF CoreInit
<1>2. CaptchaInv /\ [CoreNext]_coreVars => CaptchaInv'
  BY CoreStepOfCaptchas, CaptchaStep
<1>3. CaptchaInv => CaptchaAsDrawn
  BY CaptchaFollows
<1>4. QED
  BY <1>1, <1>2, <1>3, PTL DEF CoreSpec
=============================================================================
