---------------------------- MODULE SourceStore ----------------------------
(***************************************************************************)
(* The playback sources of the Rust core:                                  *)
(*   api/generic_scraper/source_config.rs  the file, its edits and the     *)
(*                                         list searches run on            *)
(*   api/generic_scraper/region.rs         the region sources are hidden in*)
(*   api/config.rs                         the sources switched off        *)
(*                                                                         *)
(* A source is its name, its origin and, for one the user made, its        *)
(* expressions and a number that tells it from others (not in the code).   *)
(* Files are written with truncate and write, so another thread can read   *)
(* an empty file.                                                          *)
(***************************************************************************)
EXTENDS Lists, SequencesExt

CONSTANTS Editor,      \* calls from Dart that can be under way at once
          Name,        \* names of sources
          Restricted,  \* those hidden in the region of this machine
          Draft,       \* what the user may write for one, see Needed
          Free,        \* no task holds the mutex; no list in memory
          Ttl,         \* SOURCE_CONFIG_CACHE_TTL_MS, in ticks of the clock
          MaxEdits,    \* bound: calls begun
          MaxClock     \* bound: ticks

ASSUME SourceAssumption ==
  /\ Restricted \subseteq Name /\ IsFiniteSet(Name) /\ Free \notin Editor
  /\ Ttl \in Nat \ {0} /\ MaxEdits \in Nat /\ MaxClock \in Nat

VARIABLES
  disk,       \* playback_sources_cache.json
  refreshed,  \* playback_sources_meta.json records a refresh
  memory,     \* CACHED_SOURCE_CONFIG
  disabled,   \* RuntimeConfig.disabled_sources
  region,     \* CURRENT_REGION is known
  attempted,  \* REGION_DETECTION_ATTEMPTED
  mutex,      \* REGION_DETECTION_MUTEX
  editor,     \* the locals of each call
  clock, edits,
  changed,    \* history: when the file, a switch or the region last changed
  saved,      \* history: manual sources whose call succeeded
  overlapped  \* history: two calls wrote the file from overlapping reads,
              \* or the process died while writing

sourceVars == <<disk, refreshed, memory, disabled, region, attempted, mutex,
                editor, clock, edits, changed, saved, overlapped>>

Missing == [kind |-> "missing", list |-> <<>>]
Torn    == [kind |-> "torn", list |-> <<>>]
File(l) == [kind |-> "whole", list |-> l]

(* The expressions of a source, by name: selectors it cannot do without in *)
(* the formats it has, selectors it may leave empty, and patterns.  An     *)
(* expression is "", "broken" or one that compiles; the empty pattern does *)
(* and the empty selector does not.                                        *)
Needed == {"lists", "names", "links",
           "episodeLists", "episodesFromList", "episodes"}
Optional == {"channelNames", "linksFromList", "episodeLinks", "detect",
             "success", "image", "input", "submit", "refresh"}
Pattern == {"channelName", "sortFromName", "videoUrl", "nestedUrl"}

ASSUME DraftAssumption ==
  \A d \in Draft : DOMAIN d \subseteq Needed \cup Optional \cup Pattern

ValidSearch(draft) ==
  \A f \in (Needed \cup Pattern) \cap DOMAIN draft :
    draft[f] # "broken" /\ (f \in Needed => draft[f] # "")
ValidOptional(draft) ==
  \A f \in Optional \cap DOMAIN draft : draft[f] # "broken"

Valid(draft) == ValidSearch(draft) /\ ValidOptional(draft)

NoDraft == [videoUrl |-> ""]
Subscribed(n) ==
  [name |-> n, origin |-> "subscription", id |-> 0, draft |-> NoDraft]
Manual(n, id, draft) ==
  [name |-> n, origin |-> "manual", id |-> id, draft |-> draft]
IsManual(s) == s.origin = "manual"

Resting == [pc |-> "idle", op |-> "none", local |-> Missing, new |-> <<>>,
            now |-> 0, tries |-> 0, known |-> FALSE, id |-> 0]

(* After an upgrade the file may hold untagged sources and no metadata.    *)
SourceInit ==
  /\ \/ disk = Missing /\ refreshed = FALSE /\ saved = {}
     \/ \E n \in Name :
          /\ disk = File(<<Subscribed(n)>>) /\ refreshed \in BOOLEAN
          /\ saved = {}
     \/ \E n, m \in Name :
          /\ disk = File(<<Subscribed(n), Manual(m, 1, NoDraft)>>)
          /\ refreshed = TRUE
          /\ saved = {1} /\ n # m
  /\ memory = Free /\ disabled = {}
  /\ region = FALSE /\ attempted = FALSE /\ mutex = Free
  /\ editor = [e \in Editor |-> Resting]
  /\ clock = 0 /\ edits = 0 /\ changed = -1
  /\ overlapped = FALSE

-----------------------------------------------------------------------------
Move(e, where) == editor' = [editor EXCEPT ![e].pc = where]
Rest(e) == editor' = [editor EXCEPT ![e] = Resting]
Starts(e, op, where) ==
  /\ editor[e].pc = "idle" /\ edits < MaxEdits
  /\ edits' = edits + 1
  /\ editor' = [editor EXCEPT ![e] =
                  [Resting EXCEPT !.op = op, !.pc = where,
                     !.now = IF op = "search" THEN clock ELSE 0]]

Names(list) == {list[i].name : i \in DOMAIN list}
ManualIds(list) == {list[i].id : i \in DOMAIN list} \ {0}

(* filter_root_by_region and the switches.                                 *)
Shown(list, known) ==
  {n \in Names(list) : ~(known /\ n \in Restricted) /\ n \notin disabled}

\* Mutant: a manual source yields to the subscription's of the same name.
PreservedUnlessSubscribed(remote, local, legacy) ==
  Filtered(local, LAMBDA s :
    /\ IsManual(s) \/ legacy
    /\ s.name \notin Names(remote))

(* merge_subscription_with_manual.                                         *)
PreservedLocal(remote, local, legacy) ==
  Filtered(local, LAMBDA s :
    IsManual(s) \/ (legacy /\ s.name \notin Names(remote)))

Merged(remote, local, legacy) ==
  LET kept == PreservedLocal(remote, local, legacy)
      mine == Names(Filtered(kept, IsManual)) IN
  Filtered(remote, LAMBDA s : s.name \notin mine) \o kept

-----------------------------------------------------------------------------
(* load_enabled_sources, and get_playback_sources without the memory.      *)
ListInMemory == memory # Free /\ clock - memory.loadedAt < Ttl

(* A list still fresh is answered from memory, at once.                    *)
Search(e) ==
  /\ ~ListInMemory
  /\ Starts(e, "search", "read")
  /\ UNCHANGED <<disk, refreshed, memory, disabled, region, attempted, mutex,
                 clock, changed, saved, overlapped>>

List(e) ==
  /\ Starts(e, "list", "read")
  /\ UNCHANGED <<disk, refreshed, memory, disabled, region, attempted, mutex,
                 clock, changed, saved, overlapped>>

ReadList(e) ==
  /\ editor[e].pc = "read" /\ editor[e].op \in {"search", "list"}
  /\ IF disk.kind = "whole"
       THEN editor' = [editor EXCEPT ![e].local = disk, ![e].pc = "region"]
       ELSE Rest(e)
  /\ UNCHANGED <<disk, refreshed, memory, disabled, region, attempted, mutex,
                 clock, edits, changed, saved, overlapped>>

\* Mutant: the age of the list counts from the end of the load.
LoadedNow(e) == clock
LoadedAt(e) == editor[e].now

Show(e) ==
  /\ editor[e].pc = "filter"
  /\ memory' = IF editor[e].op = "search"
                 THEN [sources |-> Shown(editor[e].local.list,
                                         editor[e].known),
                       loadedAt |-> LoadedAt(e)]
                 ELSE memory
  /\ Rest(e)
  /\ UNCHANGED <<disk, refreshed, disabled, region, attempted, mutex, clock,
                 edits, changed, saved, overlapped>>

(* set_disabled_sources writes the switches, then drops the memory.        *)
Switch(e) ==
  /\ Starts(e, "switch", "invalidate")
  /\ \E n \in Name : disabled' = IF n \in disabled THEN disabled \ {n}
                                                   ELSE disabled \cup {n}
  /\ changed' = clock
  /\ UNCHANGED <<disk, refreshed, memory, region, attempted, mutex, clock,
                 saved, overlapped>>

Invalidate(e) ==
  /\ editor[e].pc = "invalidate"
  /\ memory' = Free
  /\ Rest(e)
  /\ UNCHANGED <<disk, refreshed, disabled, region, attempted, mutex, clock,
                 edits, changed, saved, overlapped>>

-----------------------------------------------------------------------------
(* detect_current_region and its variant with a retry.                     *)
AfterRegion(e) == IF editor[e].op = "preload" THEN "check" ELSE "filter"
Answered(e, known) ==
  editor' = [editor EXCEPT ![e].pc = AfterRegion(e), ![e].known = known]

ReadRegion(e) ==
  /\ editor[e].pc = "region"
  /\ IF region
       THEN Answered(e, TRUE)
       ELSE Move(e, IF editor[e].op = "preload" THEN "lock" ELSE "attempted")
  /\ UNCHANGED <<disk, refreshed, memory, disabled, region, attempted, mutex,
                 clock, edits, changed, saved, overlapped>>

ReadAttempted(e) ==
  /\ editor[e].pc = "attempted"
  /\ IF attempted THEN Answered(e, FALSE) ELSE Move(e, "lock")
  /\ UNCHANGED <<disk, refreshed, memory, disabled, region, attempted, mutex,
                 clock, edits, changed, saved, overlapped>>

LockRegion(e) ==
  /\ editor[e].pc = "lock" /\ mutex = Free
  /\ IF region \/ attempted
       THEN Answered(e, region) /\ UNCHANGED mutex
       ELSE mutex' = e /\ Move(e, "detect")
  /\ UNCHANGED <<disk, refreshed, memory, disabled, region, attempted, clock,
                 edits, changed, saved, overlapped>>

(* The first of the endpoints to name a country, or none of them.          *)
Detect(e) ==
  /\ editor[e].pc = "detect"
  /\ \/ region' = TRUE /\ changed' = clock /\ Move(e, "detected")
     \/ /\ UNCHANGED <<region, changed>>
        /\ IF editor[e].op = "preload" /\ editor[e].tries = 0
             THEN editor' = [editor EXCEPT ![e].tries = 1]
             ELSE Move(e, "detected")
  /\ UNCHANGED <<disk, refreshed, memory, disabled, attempted, mutex, clock,
                 edits, saved, overlapped>>

MarkAttempted(e) ==
  /\ editor[e].pc = "detected"
  /\ attempted' = TRUE /\ mutex' = Free
  /\ Answered(e, region)
  /\ UNCHANGED <<disk, refreshed, memory, disabled, region, clock, edits,
                 changed, saved, overlapped>>

-----------------------------------------------------------------------------
(* Writers: read, truncate, write, drop the memory.                        *)
Writing == {e \in Editor : editor[e].pc \in {"truncate", "write"}}

(* History: a call takes up the file while another is about to write it.   *)
TakesUp(e) == overlapped' = (overlapped \/ Writing \ {e} # {})

Preload(e) ==
  /\ Starts(e, "preload", "region")
  /\ UNCHANGED <<disk, refreshed, memory, disabled, region, attempted, mutex,
                 clock, changed, saved, overlapped>>

(* subscription_cache_needs_refresh: when none is recorded, or by the age  *)
(* of the last or its address.                                             *)
RefreshDue == IF refreshed THEN BOOLEAN ELSE {TRUE}

(* A file that does not parse ends the call.                               *)
CheckCache(e) ==
  /\ editor[e].pc = "check"
  /\ \E due \in RefreshDue :
       IF disk = Missing \/ (disk # Torn /\ due) THEN Move(e, "fetch")
                                               ELSE Rest(e)
  /\ UNCHANGED <<disk, refreshed, memory, disabled, region, attempted, mutex,
                 clock, edits, changed, saved, overlapped>>

Refetch(e) ==
  /\ Starts(e, "refresh", "fetch")
  /\ UNCHANGED <<disk, refreshed, memory, disabled, region, attempted, mutex,
                 clock, changed, saved, overlapped>>

FetchFails(e) ==
  /\ editor[e].pc = "fetch" /\ Rest(e)
  /\ UNCHANGED <<disk, refreshed, memory, disabled, region, attempted, mutex,
                 clock, edits, changed, saved, overlapped>>

(* The subscription arrives; a local file that does not parse is ignored.  *)
MergeFetched(e) ==
  /\ editor[e].pc = "fetch"
  /\ \E names \in SUBSET Name :
       LET remote == [i \in 1..Cardinality(names) |->
                        Subscribed(SetToSeq(names)[i])] IN
       editor' = [editor EXCEPT ![e].pc = "truncate",
                    ![e].new = Merged(remote, disk.list, ~refreshed)]
  /\ TakesUp(e)
  /\ UNCHANGED <<disk, refreshed, memory, disabled, region, attempted, mutex,
                 clock, edits, changed, saved>>

NewId == edits + 2
(* add_source_config: a file that cannot be used counts as an empty one.   *)
(* A name that is taken, and expressions that do not compile, are refused. *)
Add(e) ==
  /\ \E n \in Name \ Names(disk.list), d \in {x \in Draft : Valid(x)} :
       /\ editor[e].pc = "idle" /\ edits < MaxEdits /\ edits' = edits + 1
       /\ editor' = [editor EXCEPT ![e] =
            [Resting EXCEPT !.op = "add", !.pc = "truncate", !.id = NewId,
                            !.new = Append(disk.list, Manual(n, NewId, d))]]
  /\ TakesUp(e)
  /\ UNCHANGED <<disk, refreshed, memory, disabled, region, attempted, mutex,
                 clock, changed, saved>>

(* update_single_source_config: the first source of the name, if manual.   *)
FirstNamed(list, n) ==
  CHOOSE i \in DOMAIN list :
    list[i].name = n /\ \A j \in 1..(i - 1) : list[j].name # n

Edited(list, i, name, draft) ==
  [list EXCEPT ![i].name = name, ![i].draft = draft]

Update(e) ==
  /\ \E n \in Names(disk.list), new \in Name :
     \E i \in {FirstNamed(disk.list, n)} :
     \E d \in {disk.list[i].draft} \cup {x \in Draft : Valid(x)} :
       /\ IsManual(disk.list[i])
       /\ editor[e].pc = "idle" /\ edits < MaxEdits /\ edits' = edits + 1
       /\ editor' = [editor EXCEPT ![e] =
            [Resting EXCEPT !.op = "update", !.pc = "truncate",
                            !.new = Edited(disk.list, i, new, d)]]
  /\ TakesUp(e)
  /\ UNCHANGED <<disk, refreshed, memory, disabled, region, attempted, mutex,
                 clock, changed, saved>>

(* fs::write: truncate, then write over what others wrote meanwhile.       *)
Truncate(e) ==
  /\ editor[e].pc = "truncate"
  /\ disk' = Torn /\ changed' = clock
  /\ Move(e, "write")
  /\ UNCHANGED <<refreshed, memory, disabled, region, attempted, mutex, clock,
                 edits, saved, overlapped>>

WriteFile(e) ==
  /\ editor[e].pc = "write"
  /\ disk' \in {File(editor[e].new)} \cup (IF disk = Torn THEN {} ELSE {Torn})
  /\ changed' = clock
  /\ saved' = saved \cup ({editor[e].id} \ {0})
  /\ editor' = [editor EXCEPT ![e] =
       [Resting EXCEPT !.pc = IF editor[e].op \in {"refresh", "preload"}
                                THEN "meta" ELSE "invalidate"]]
  /\ UNCHANGED <<refreshed, memory, disabled, region, attempted, mutex, clock,
                 edits, overlapped>>

(* save_meta, whose failure is only logged.                                *)
SaveMeta(e) ==
  /\ editor[e].pc = "meta"
  /\ refreshed' \in {refreshed, TRUE}
  /\ Move(e, "invalidate")
  /\ UNCHANGED <<disk, memory, disabled, region, attempted, mutex, clock,
                 edits, changed, saved, overlapped>>

-----------------------------------------------------------------------------
Tick ==
  /\ clock < MaxClock /\ clock' = clock + 1
  /\ UNCHANGED <<disk, refreshed, memory, disabled, region, attempted, mutex,
                 editor, edits, changed, saved, overlapped>>

(* The process ends at any point and starts again.                         *)
Restart ==
  /\ edits < MaxEdits /\ edits' = edits + 1
  /\ memory' = Free /\ region' = FALSE /\ attempted' = FALSE /\ mutex' = Free
  /\ editor' = [e \in Editor |-> Resting]
  /\ overlapped' = (overlapped \/ \E e \in Editor : editor[e].pc = "write")
  /\ UNCHANGED <<disk, refreshed, disabled, clock, changed, saved>>

EditorCalls(e) == \/ Search(e) \/ List(e) \/ Switch(e) \/ Preload(e)
                  \/ Refetch(e) \/ Add(e) \/ Update(e)
EditorSteps(e) ==
  \/ ReadList(e) \/ Show(e) \/ Invalidate(e)
  \/ ReadRegion(e) \/ ReadAttempted(e) \/ LockRegion(e) \/ Detect(e)
  \/ MarkAttempted(e) \/ CheckCache(e) \/ FetchFails(e) \/ MergeFetched(e)
  \/ Truncate(e) \/ WriteFile(e) \/ SaveMeta(e)

-----------------------------------------------------------------------------
(* A load that read the old file, region or switches may put its list into *)
(* memory after a change has dropped the one there: the change is covered  *)
(* up, and searches do without it. But for one time-to-live at most (30    *)
(* seconds in the code), as the age of a list counts from the start of its *)
(* load: once the last change is that old, a list that searches still take *)
(* from memory shows it.                                                   *)
SettledListIsCurrent ==
  /\ ListInMemory
  /\ changed <= clock - Ttl
  => memory.sources = Shown(disk.list, region)

(* A manual source that was added stays in the file through every refresh, *)
(* rename and addition, failed metadata writes, restarts and name clashes  *)
(* with the subscription, as long as no two writers overlap; and what the  *)
(* user made is in the file only with expressions that compile, in every   *)
(* format they are for.                                                    *)
ManualsSurvive ==
  /\ ~overlapped /\ Writing = {} =>
       disk # Torn /\ saved \subseteq ManualIds(disk.list)
  /\ \A i \in DOMAIN disk.list : IsManual(disk.list[i]) =>
       \A f \in DOMAIN disk.list[i].draft :
         disk.list[i].draft[f] \notin {"broken"} \cup
                                     (IF f \in Needed THEN {""} ELSE {})
=============================================================================
