SPECIFICATION CoreSpec
CONSTANTS
  Caller = {c1, c2}
  Background = Background
  MaxCalls = 2
  MaxWrites = 2
  Nobody = Nobody
  Editor = {d1, d2}
  Name = {n1, n2}
  Restricted = {n1}
  Free = Free
  Draft <- MCDraft
  Ttl = 1
  MaxEdits = 2
  MaxClock = 1
  sa = sa
  sb = sb
  Source = {sa, sb}
  Web <- MCWeb
  Sites <- MCSites
  Query <- MCQuery
  Override <- MCOverride
  Request <- MCRequest
  MaxSearches = 2
  Client = {a1, a2}
  Endpoint = {p1}
  Vacant = Vacant
  MaxRequests = 2
  MaxKeys = 2
  MaxSwitches = 1
  PageSize = 2
  MaxPages = 2
  MaxReads = 4
  Content <- MCContent
  BatchSize = 2
  Quarter <- MCQuarter
  Offered <- MCOffered
  Season <- MCSeason
  Viewer = {v1, v2}
  Magnet = {m1}
  Unheld = Unheld
  MaxPlays = 4
  Shelf <- MCShelf
  Wanted <- MCWanted
  Sought = {1, 2}
  Listing <- MCListing
  Guide <- MCGuide
  Remarks <- MCRemarks
  Charset <- MCCharset
  Alike <- MCAlike
  Image <- MCImage
  Limits <- MCLimits
  LastYear = 9999
  Written <- MCWritten
INVARIANTS
  SlotIsFile CalmIndexIsFile
  SettledListIsCurrent ManualsSurvive
  EverySourceSettled BestCandidateServed CachedAnswerIsLive
  CredentialsStayHome ClientHoldsKey RetryMeetsItsEffect
  ModeratedStaysHidden PartsAddUp ReadToTheEnd
  DetailsReachEveryEntry ExtrasAreNew
  StreamIsServed NearestTitle EachTorrentOnce CommentsInOrder CaptchaAsDrawn
  DatesAsChosen
PROPERTIES
  EveryCallReturns
CHECK_DEADLOCK FALSE
