# Mikan Player: specifications

Mikan Player is a Flutter application (Dart under `src/lib`, a Rust core under
`src/rust`, a C++ torrent bridge under `src/native`) that searches for anime
episodes, plays them, and downloads them over HTTP, HLS and BitTorrent. This
directory holds TLA+ models of the parts of it whose correctness depends on the
order of events, the TLC configurations that check them, and proofs for TLAPS.
`PROJECT.json` names, for every definition, the lines it models.

The Dart part runs on one isolate: code between two `await`s is atomic, and
everything else (another handler, a timer, a late network answer) can happen at
an `await`. The Rust core runs on the threads of a tokio runtime: locks, atomics
and the steps between them interleave too. The models take this over literally.
An action is the code from one such point to the next, and a "program counter"
names the point at which a function is suspended.

## 1. Inventory

Paths are below `src/lib/services` unless they start with `src/`.

### Downloads (modelled)

| Part | State | Operations | Talks to | Hard about it |
|---|---|---|---|---|
| Slot queue, `download/download_queue.dart` | `_maxConcurrent`, `_holders`, `_queue` of waiters with a completer each | `acquire`, `release`, `transfer`, the `maxConcurrent` setter, `drain` | asks its owner, by callback, which tasks are eligible | the owner changes its answer before, between and after calls; FIFO order; lowering and raising the cap while tasks wait |
| HTTP pipeline, `download/download_http_pipeline.dart`, `http_download_job.dart`, `http_download_retry.dart` | per id: generation, chain of bodies, registered job; per body: its locals; the file | launch, wait for the previous body, acquire, request, byte loop, close, retry with backoff, leave | slot queue, file system, network, user operations | a body unwinds for several awaits after it was cancelled; the next one is already launched |
| HLS downloader, `download/m3u8_downloader.dart` | completed segments, byte checkpoint, the file | resolve the playlist, cut the file back, open, stream and close each segment | called by the pipeline with the same cancellation callbacks | two halves of a checkpoint, an interruption at every await, resume |
| Manager, `download_manager.dart`, `download/download_bt_session.dart`, `download_manager_settings.dart` | tasks, paused and removed ids, settings | start, pause, resume, remove, clear completed, set the number of slots | all of the above | user operations in the middle of any of the above |
| BitTorrent session, `download/download_bt_session.dart`, `bt_backend.dart`, `download_stats_poller.dart`, `bt_stream_restore_coordinator.dart` | info-hash and fallback ids, backend handles, metadata timers, statistics timer | start, pause, resume, remove, poll, restore streaming | slot queue (`transfer`), native backends | results of a backend call applied to a task that changed meanwhile |
| Persistence, `download/download_task_store.dart`, `download_file_cleanup.dart` | saved tasks | load, save, delete files | the manager | restart of the app in the middle of a download |

What makes them correct: at most `maxConcurrent` tasks transfer, and waiting
tasks are served in order and not forgotten; at any time one body writes the
file of a task, and what it writes continues what is there; a task the user
paused or removed stays so, whatever was in flight; a task shown as downloading
is being downloaded or will be.

### Bangumi synchronisation (outbox modelled, merge not)

| Part | State | Operations | Talks to | Hard about it |
|---|---|---|---|---|
| Outbox, `bangumi_sync_queue.dart` | durable rows per account, subject and operation; per account the drain in flight and whether it is to run again | enqueue of a status, metadata, create or delete; drain | Bangumi, token refresh | rows change while the request that sends them is under way; lost answers; unauthorised, not-found and transient errors take different ways out; work queued in the last moments of a drain |
| Edits, `bangumi_collection_cache.dart`, `favorites_manager.dart` | local favourites with owner and edit stamp | set status, save metadata, remove, confirm what was sent | outbox | several awaits between the local write, the row and the confirmation; the app may be killed at each |
| Account, `bangumi_auth_manager.dart` | tokens, session generation | login, logout, refresh | outbox, Rust core | a session that ends or changes in the middle of a drain |
| Merge, `bangumi_collection_sync_service.dart`, `bangumi_collection_merge.dart` (not modelled) | baselines of the favourites | full reconciliation of base, local and remote | all of the above | a plan computed from rows that are edited meanwhile |

Correct when the latest edits of each subject reach the account they were made
under and no other, are never overwritten by older ones, and nobody is told that
the outbox is done while it is not.

### Rust core (modelled)

Paths are below `src/rust/src/api`.

| Part | State | Operations | Talks to | Hard about it |
|---|---|---|---|---|
| Offline data, `crawler/bangumi_data_store.rs`, `sites_index.rs`, `parse_time.rs` | the file, the parsed payload, its generation, an index with the generation it was built under, two single-flight permits | refresh, warm-up, timetable from local data, lookup of sites, background build | download, file system | parses and builds that straddle a replacement; a permit that must come back; generation and slot change one after the other |
| Playback sources, `generic_scraper/source_config.rs`, `region.rs` | the file of sources, its metadata, a list in memory with its age, region, switches | load, refresh from the subscription, add, update, switch, detect the region, start-up | subscription, file system | read, change and write of the file without a lock; truncate and write; loads that finish after an invalidation |
| Searches, `generic_scraper/search_progress.rs`, `search_channels.rs`, `search_play.rs`, with `matching.rs`, `episode_table.rs` | a worker per source, a stream to Dart, saved tables of episodes | search with progress, with channels, for play pages, for the first video, a page for an episode | the sites | aliases, rankings and fallbacks with a request at each step that may fail; a listener that goes away |
| Requests to Bangumi, `network.rs`, `ech.rs`, `config.rs`, `bangumi/user.rs`, `auth.rs` | mirror, token, ECH key and its back-off, an epoch, the client built with a key | every call of the account; key refresh; changes of the settings | DNS over HTTPS, Bangumi | settings change while a request waits; key and client are published one after the other; retries after lost answers |
| Lists, threads, rankings, `bangumi/fetch_*.rs`, `search.rs`, `*_detail.rs`, `ranking.rs`, `crawler/schedule_api.rs` | request mode; in Dart what a page shows so far | one fetch per kind of list, by one or two routes | Bangumi | offsets that depend on what was kept; moderation on four routes; a mode that changes between pages |
| Details of a timetable, `crawler/fill_details.rs`, `bangumi_graphql.rs` | the entries, what is still missing | fill, complete a quarter | Bangumi | chunks that fail, several entries of one anime, pages in any order |
| Torrent engine, `simple.rs` | one engine with a session and a server, under a lock | start, stop, pause, resume | BitTorrent session (external) | the lock is held over the creation; ids that are looked up before they are used |
| Lookups, `mikan.rs`, `dmhy.rs`, `danmaku.rs` | none | nearest anime, torrents, comments of an episode | three sites | pages that fail or overlap; numbers against positions |
| Captchas, `captcha.rs` | the model, loaded once | recognise | external model | collapsing of repeated classes under limits |

Correct when what is cached follows what it was made from; when no credential
reaches a mirror; when a search ends once for each source and takes the right
page; when a list has neither gaps, repetitions nor moderated text; when a
stream that was answered is served; and when every call returns.

### Left out

See "Not modelled" at the end.

## 2. Structure

| Modules | What for |
|---|---|
| `DownloadQueue`, `DownloadQueueProofs` | the slot queue under an arbitrary owner; types and all its safety properties proved |
| `HttpTask`, `HttpDownload`, `HttpDownloadProofs` | the pipeline and the user operations, composed with the queue by INSTANCE; implements the queue specification and the promise to the user; all its safety properties proved |
| `HlsDownload`, `HlsDownloadProofs` | segments, checkpoint and resume of one HLS task; both invariants proved |
| `SyncQueue`, `SyncQueueProofs` | outbox, drain, edits, account switch; all three properties proved |
| `BangumiData` | offline data and its index; three theorems |
| `SourceStore` | playback sources and region |
| `SubjectMatching`, `SourceSearch` | what a page is turned into; the searches on top of it |
| `BangumiNetwork` | requests, key and client; all three invariants proved |
| `Catalogue`, `SubjectDetails`, `AirDates` | lists and threads; details of a timetable; years of a ranking |
| `TorrentEngine`, `EpisodeResources`, `CaptchaReading` | the rest of the core |
| `Lists`, `ListLemmas` | filters and orders of lists by their indices, and what they keep |
| `BangumiProofs` | the theorems about `BangumiData` and `BangumiNetwork`, the invariants of `Catalogue` |
| `CorePartsProofs` | invariants of the torrent engine, the details, the dates, the sources, the searches, the lookups and the captchas |
| `RustCore`, `MCRustCore`, `RustCoreProofs` | the parts of the core in one process; eighteen theorems about the whole |

No module declares a RECURSIVE operator, so that all of them can be proved
about. `PROJECT.json` lists the hazards each property is aimed at.

## 3. Modules

**`DownloadQueue`** models `DownloadQueue` of `download_queue.dart`.
`maxConcurrent`, `holders` and `queue` are its fields; `call` is the state of
each completer; `eligible` is the answer of the owner's callback. One action per
method. The manager always changes statuses first and calls the queue in the
same synchronous block, so each action evaluates the callback in the state the
owner leaves behind, `eligible'`. `DrainFrom` is the loop of `_drain`, stated as
"take the shortest prefix of the queue after which it is empty or the slots are
full", which needs no recursion.

**`HttpTask`** is what the downloads promise to the user, without runs,
generations or slots: the visible state of each task (absent, active, paused,
error, completed) and the chunks on disk. Nothing is written for a task that is
not active; a write adds the chunk that comes next or starts the file anew; only
an add, a resume or a retry makes a task active. Two things are up to the
servers, and the code checks neither to the end, so the promise names them: a
body may begin elsewhere than it was asked to, silently (its chunks are then
*astray*, written as 0) or with a Content-Range that says so (such a body starts
the file anew, at byte 0); and a body may end before the resource does (`short`).
A task completes with a mere part of the resource, every chunk at its place, only
if the server ended the body of its current run early. Adding and removing take
a while, so the promise has two more variables: `asked` counts the requests to add a task that are not met yet, and
`leaving` holds the tasks with a removal still to end. Both may take effect on a
task that was added again meanwhile, which the code permits: the second of two
adds under way finds the task there, also when it is completed, and stores a new
object for it; and a removal that ends late deletes the file of the new task.

**`HttpDownload`** models launch, chain, slot, byte loop, retry and the user
operations, per task and per run; a run is one call of `_downloadHttpFile`.
`tracked`, `pausedIds`, `removedIds`, `gen`, `chain`, `job` are the maps and
sets of the manager; `status` belongs to the task *objects*, because a run keeps
the object it was started with while the manager may hold a newer one for the
same id; `run` holds the locals of each call and the await it is at, `next` and
`known` being the chunk the body is at and whether the manager knows where that
is; `file` is the sequence of the numbers of the chunks written. An answer is
the whole resource or a 206, with or without a Content-Range, that begins after
any number of chunks (`Answer`), and its body ends wherever it likes
(`StreamEnds`): `Appends` is the code's test of the Content-Range, and a body
that fails it is written from byte 0, wherever it begins. It instantiates `DownloadQueue` with the
manager's own callback and calls its operations inside its actions. Two
refinements are checked: every step is a queue step (`KeepsQueueRules`) and a
step of the promise (`KeepsPromise`).

**`HlsDownload`** models `runM3u8Download` for one task whose bodies follow one
another (module `HttpDownload` shows that they do). Everything the manager can
do to a body reaches it through two callbacks and is the one event `Stop`.

**`SyncQueue`** models the outbox, the calls that fill it and the session.
`rows` is the queue table and `nextId` its key counter; `local` the favourites;
`session` the account whose token is in place. `call` holds the calls in
progress: an edit writes the local row, queues its operation in one transaction
(`Commit`, with the folding and superseding of `NewRow` and `Superseded`), marks
the drain dirty, joins it, and confirms the row if it is still the one it knows
(`Settle`); a catch-up is the drain of start-up, logout or a page. `drain` is,
per account, the coordinator and the pass in flight: the list it has read, the
answer it has got, what it has settled, whether it must run again, who waits.
`remote` is what Bangumi holds. `wanted` (what the queued edits add up to) and
`mixed` are history variables that no action reads.

**`BangumiData`** has one action per step of the download under its permit
(`DOWNLOAD_SINGLE_FLIGHT`), of the replacement (rename, raise the generation,
drop the payload, drop the index), of a load (read the slot, note the
generation, parse, install) and of a build of the index (take the permit, check
again, load, store). Payloads are numbered in the order they are written.
`raced` is a history field: the build began during a replacement.

**`SourceStore`** keeps the file (`disk`, possibly torn), the list in memory
with the time its load began, and per call from Dart the file it has read. A
source is its name, its origin and, when the user made it, its expressions,
which are empty, broken or good. `changed`, `saved` and `overlapped` are history.

**`SubjectMatching`** has the pure part of a search: numerals, aliases, scores,
the identity of a subject (work, season, part, variant), the ranking of
candidates, tables of episodes and the choice from them. **`SourceSearch`** has
the workers: an action per request that is answered or fails, for each of the
four kinds of search, with the limit on running workers, the stream to Dart and
the saved tables.

**`BangumiNetwork`**: a call is composed at once (host, mirror, token), ensures
a key, chooses a client, and is sent up to three times. The key's publication
and the raise of the epoch are two steps, and so are the check, the lock, the
build and the store of a client. `collected` is what Bangumi holds, so that a
write whose answer is lost can be told from one that never arrived.

**`Catalogue`** reads one kind of list in a behaviour, by the routes of the
request mode, and puts it together as the controller in Dart does (a timetable
keeps entries without an id of Bangumi, by their id at Mikan or their titles);
**`SubjectDetails`** extends it with the batch, the fallback and the completion
of a quarter. **`AirDates`**, **`TorrentEngine`**, **`EpisodeResources`** and
**`CaptchaReading`** model `ranking.rs:264-362`, `simple.rs`, the three sites
and `captcha.rs`.

**`RustCore`** composes them. The parts write no state in common (the request
mode is read only), so a behaviour has one kind of work and the others rest;
interleaving two parts would only multiply states. Callers are alike, so the
next caller is any that may call (`OneOf`): another choice gives the same
behaviour under renaming, and no property names a caller.

**`MCRustCore`**, **`MCDownloadQueue`**, **`MCHttpDownload`**, **`MCHlsDownload`**,
**`MCSyncQueue`** instantiate them.

## 4. Runs

| Run | Shows |
|---|---|
| `queue` | Under any owner: no step takes the holders above the cap, lowered caps included (`SlotCap`); a grant is backed by a slot and by eligibility at that moment (`GrantHoldsSlot`); FIFO order (`ServedInOrder`); a slot can stand idle beside a waiter only after a holder was dropped as ineligible (`IdleSlotOnlyByEviction`); everybody is answered while slots are released (`EveryCallAnswered`). |
| `http` | One URL over up to three launches with a retry, under any sequence of user operations: one body at a time (`OneBodyPerTask`), every chunk of the file at its place, unless a server silently began a body elsewhere or a body with another Content-Range started the file (`ChunksInPlace`), the promise holds (`KeepsPromise`), a pause is undone only by the user (`PauseSticks`), no body waits for ever for its predecessor (`ChainMoves`). |
| `http_pair` | Two tasks and one slot: the manager uses the queue only as the queue allows, and a first attempt transfers only with a slot. |
| `hls` | Three segments of two chunks, three stops or failures anywhere: count and checkpoint agree, completed means whole, and the download completes. |
| `sync` | One account, one subject, two calls at a time in any number: `DeliveredWhenEmpty`, whenever no row is left and no drain runs, Bangumi shows the last edits queued (edits during a request, lost answers, rejected tokens, logouts and restarts included); `RowsDoNotContradict`, one row per operation and a delete alone; `AttemptedBeforeReturn`, a drain answers its callers only after a request for every row edited before, unless the token was rejected. |
| `core` | The Rust core, one kind of work per behaviour. See the table below. |

| Properties of `core` | What they say |
|---|---|
| `SlotIsFile`, `CalmIndexIsFile` | the parsed payload is that of the file once nobody is between rename and drop; so is an index taken for current, if its build began in calm |
| `SettledListIsCurrent`, `ManualsSurvive` | a list in memory shows the last change once that is a time-to-live old; sources the user made survive all that is done to the file by one writer at a time, and never with expressions that do not compile |
| `EverySourceSettled`, `BestCandidateServed`, `CachedAnswerIsLive` | each source has one last word and the limit holds; the page taken is the first candidate that works and is of the right work and season; a saved table answers as the site would |
| `CredentialsStayHome`, `ClientHoldsKey`, `RetryMeetsItsEffect` | no token or secret goes to a mirror; a client taken for current holds the published key and addresses; a retry does not report its own effect as something missing |
| `ModeratedStaysHidden`, `PartsAddUp`, `ReadToTheEnd`, `DetailsReachEveryEntry`, `ExtrasAreNew`, `DatesAsChosen` | lists without moderated text, gaps or repetitions, read to their end; every entry of a timetable gets what arrived for it; a quarter is completed with new anime only; the months of a ranking are those chosen |
| `StreamIsServed` | a stream that was answered is of a torrent that is there and ready until that torrent is stopped |
| `NearestTitle`, `EachTorrentOnce`, `CommentsInOrder`, `CaptchaAsDrawn` | the lookups against definitions of their own: edit distance by common subsequences of positions, sets of torrents, order of comments, runs of classes |
| `EveryCallReturns` | in the end nothing is under way and nothing is held |

Six runs show that the code departs from what it says of itself:

| Run | Finding |
|---|---|
| `http_resume` | Pause and resume while the first body unwinds. A superseded body does not clear its job (`download_http_pipeline.dart:276`), the new body sees the cancelled flag and returns before its first request, and the task is shown as downloading with nothing running. |
| `http_add` | A URL removed and added again. Its id never leaves `_removedTaskIds` (line 211), so the body returns at once, and the task is shown as downloading with nothing running. |
| `http_retry` | While a failed attempt closes its sink the status is `error`, another task's `acquire` reconciles the slot away, and the automatic retry transfers without one, above the cap. |
| `hls_resume` | Resume in the middle of a segment opens the partial file with `FileMode.write`, which empties it, and `truncate(checkpoint)` extends it with zeros: finished segments become zeros (`m3u8_downloader.dart:152`). |
| `data_index` | A replacement of the offline data raises the generation and then drops the parsed payload (`bangumi_data_store.rs:282-290`); a build that begins in between takes the old payload and the new generation, and lookups answer from that index as current (`sites_index.rs:165`). |
| `sync_account` | A drain goes on after logout and login of another account and sends the rest of its rows with the new token (`bangumi_sync_queue.dart:552`), into the wrong collection. |

Each property of a passing run has a mutant in the same module (comment
`Mutant:`), a plausible slip in the code that breaks it.

### Bounds

| Bound | Value | Why it is enough |
|---|---|---|
| tasks of `queue` | 3, two slots | full slots plus a waiter, and a limit that moves both ways |
| `MCCall` | one call per task, one task with two | two calls of one task are how an answer could be given twice |
| `MaxRun` | 3 | a body, its successor, and one that replaces the successor while it waits |
| `MaxObj` | 1; 2 in `http_add` | with 2, one URL is removed and added again, or added by two calls that overlap. What `http` checks holds for any number, by the theorems; liveness with 2 exceeds what TLC does in minutes |
| `LeftAlone` | one of the two tasks | in `http_pair` the second task only competes for the slot |
| `MaxRetries` | 1 (code: 3) | one retry reaches every path of the retry loop; the counter is compared in one place |
| `Size` | 2 chunks; 1 with two tasks | empty, partial and whole file, and a body that begins behind the first chunk |
| `SlotChoices` | none in `http`, the one slot in `http_pair` | with one task the limit decides nothing; with two, setter and drain run beside everything else |
| `MaxAstray` | 1 | a body goes astray on an empty file or behind its first chunk; the later chunks of such a body are 0 wherever they go |
| `Segments`, `Chunks`, `MaxBreaks` | 3, 2, 3 | before, inside and after a segment, with finished ones in front of it, repeatedly |
| `Call` of `sync` | 2 | one drain with a caller that joins it or edits under it; calls are used again and again |
| `MaxId` | 2; 1 in `sync_account` | no edit begins once two rows were inserted, though one under way may still insert; edits that change a row in place before that, and edits without a session, are not limited, so a row is sent, changed under way, removed and created again |
| `Type`, `Meta` | 2, 1 | an edit that differs from the one under way; metadata present or not |

| `Caller`, `MaxCalls`, `MaxWrites` | 2, 2, 2 | a load or build of one call (or of the background task) under the replacement of the other. The invariant of the proofs was also checked with 3 calls and 3 payloads |
| `Editor`, `MaxEdits`, `Ttl`, `MaxClock` | 2, 2, 1, 1 | two calls that overlap in the file; a list that gets old once |
| `Source`, `Web`, `MaxSearches` | 2, six sites, 2 | a search that fills the tables and one that uses them; sites with no, one and many results, with channels, without, and with a first alias that leads elsewhere. One source may have any site but the plainest, the other one has that, so that two workers meet the limit |
| `Client`, `MaxRequests`, `MaxKeys`, `MaxSwitches` | 2, 2, 2, 1 | a request under a rotation or under a change of a setting, three attempts each |
| `PageSize`, `MaxPages`, `MaxReads` | 2, 2, 4 | lists of up to five rows: whole pages, a short one, one with nothing that is kept, one beyond the loop of episodes |
| `BatchSize`, `Quarter`, `Season` | 2, five entries, three pages | two chunks, two entries of one anime, one entry without an id |
| `Viewer`, `Magnet`, `MaxPlays` | 2, 1, 4 | start, stop and start again under a stop of the other caller |
| `Shelf`, `Listing`, `Guide`, `Remarks` | names of up to 3 letters, four pages | ties, names of different length, a group on two pages, an episode without a number |
| `Image`, `Charset` | 4 steps, 3 characters | repeated classes with and without a blank between |
| `Written`, `LastYear` | months 0, 1, 2, 12, 13, years around 9999 | the turn of a year, the last year, numbers that are neither |

The run `sync` treats calls and statuses as interchangeable (SYMMETRY), which is
sound because it checks no liveness.

The runs of downloads say CHECK_DEADLOCK FALSE: once all launches are used up
and every download has ended, nothing is left to do.

### Fairness

`HttpDownload`: weak fairness of every run's next step. Its awaits are storage,
timers, file closing and the network, and the last is assumed to answer,
deliver, end or fail at some time; the code sets no read timeout, so a server
that stays silent with an open connection is outside this assumption. It is
listed in `PROJECT.json` as a hazard that no property covers: such a task stays
downloading and keeps its slot until the user acts. User operations are not
fair. `HlsDownload`: a body gets on, and a stopped or failed one is started
again; stops and failures are finite in number. `DownloadQueue`: the
specification has no fairness; the liveness property itself assumes that, again
and again, a slot is released, which the `finally` block of the pipeline does.
`SyncQueue` has no liveness property and no fairness: nothing in the code starts
a drain again by itself once the rows are in backoff, so "every edit is
delivered in the end" depends on the user.

`RustCore`: weak fairness of the steps of calls that are under way, as a whole
(`Going`): the runtime polls some task as long as one can go on. Each such step
is a poll that a lock, a timer or an answer has made ready; requests have
time-outs (`network.rs:245-246`), and so each ends in an
answer or an error. Calls, the clock, changes of settings and the user are not
fair, and no property depends on which of several ready tasks goes first: the
number of steps is finite once no call is made. The one wait without a time-out,
for the metadata of a torrent that is managed already (`simple.rs:332`), is
taken to end, by the metadata or an error.

### Abstractions

Chunks stand for bytes and are written at once; the walk through the header
strategies is one request that succeeds or fails for good; a failure is
transient or permanent, as `http_download_retry.dart` classifies it; progress
figures, speed limit, notifications and logging are left out; writing a file
does not fail, and nobody else deletes it. Where a body begins and where it ends
is up to the server, as said above; the length that a header announces is left
out, since the code compares nothing with it. The user interface offers pause for
active tasks, and resume for paused and failed ones, and the models assume that.
BitTorrent tasks and a restart of the app are not in the models of downloads.

In `SyncQueue` the four metadata fields are one; the read of a favourite and the
write that follows are one step, and so are the read of the expected row and the
call of drain; instead of edit stamps, each call remembers for which subjects
the row is still the one it has read; backoff times are a choice of the next
pass among the rows that failed since their last edit. A request takes effect
before its answer or never: one that Bangumi applies after the app has gone on
is left out. `DeliveredWhenEmpty` says nothing about subjects for which a create
was queued across older rows (`mixed`): the code sends those rows later with
their older content, a hazard listed in `PROJECT.json`. The full reconciliation
and the background refresh, which rewrite local rows from remote ones, are not
modelled.

In the models of the core, a page or an answer is what its parser looks at: rows
with the fields that decide whether they are kept, titles as sets of letters with
a season and marks, torrents as a magnet and the numbers in the title. Markup,
selectors, texts, addresses other than hosts, and logging are left out. A site
or a list does not change while it is read. The requests to Bangumi are taken
twice, once without ECH for what they ask, once with it for how a key comes to a
client, since what is asked and how the key comes do not depend on each other.

## 5. Proofs

`DownloadQueueProofs` proves, for every finite set of tasks, every set of calls
and every limit:

- `TypeCorrect`: `TypeOK` is an invariant. It is inductive; the lemma
  `DrainTypes` handles the loop that five operations share.
- `HoldersBounded`: `SlotCap`. Not an invariant on states, because a lowered
  limit leaves older holders in place. The argument is that a drain stops at the
  first prefix that fills the slots, so the waiter it served last found fewer
  holders than the limit (`DrainCap`, with `AddOne`); `acquire` tests for a free
  slot first; all other steps only drop holders or rename one.
- `GrantsAreBacked`: `GrantHoldsSlot`, by the four paths that grant.
- `WaitersServedInOrder`: `ServedInOrder`. A drain serves a prefix of the queue
  it starts from, which is the queue or the queue with a newcomer at its end
  (`DrainServes`); no other step changes the queue.
- `SlotsIdleOnlyByEviction`: `IdleSlotOnlyByEviction`. After a drain nobody waits
  or no slot is free (`DrainFillsSlots`); any other step keeps queue and limit,
  so that an idle slot can only come from a holder it drops.

`HttpDownloadProofs` proves, for every finite set of tasks, any number of runs,
objects, retries and slots and a resource of any length:

- `OneBody`: `OneBodyPerTask`. "A body starts when its predecessor has ended" is
  not inductive, because a chain is more than two links long. The invariant says
  how a task's runs form one line (`LinedUp`): of any two that are under way one
  waits behind the other, where to wait behind a run means to be at a gate whose
  predecessor is under way and was launched no earlier (`Behind`), and the gate
  the manager has stored is that of the run launched last.
- `ChunksStayInPlace`: `ChunksInPlace`. A run appends without looking at the
  file again, so the invariant says of a working run that is still the newest of
  its task how the file fits the body (`Fits`): the next chunk goes to its place,
  or goes astray, or goes on with a body that started the file elsewhere; and
  that the task is not removed, and that its status is active, or paused with its
  id among the paused ones (`Current`). A matching 206 fits because the length
  of the file was read by this run and nobody else has written since
  (`AnswerFits`). Runs and objects are numbered in the order they are made
  (`MadeInOrder`), so a new one disturbs no other.
- `PausedUntilResumed`: `PauseSticks`, by the actions that write a status.
- `QueueRulesKept`: `KeepsQueueRules`, the refinement of `DownloadQueue`: each
  action changes statuses first and then ends with one operation of the queue,
  evaluated with the callback's new answers, or leaves queue and answers alone.
- `PromiseKept`: `KeepsPromise`, the refinement of `HttpTask` under the mapping
  `TaskState`, `adding`, `Leaving`, `file`, `CutShort`, one lemma per kind of
  step. It needs that a body which went to the end leaves no file that is a mere
  part of the resource (`WholeAtEnd`), and that a run on its way to a retry does
  not belong to a completed task (`NotOver`). A body that ended early is in
  `CutShort` from its end to its verdict, and only that verdict may then complete
  the task with a part (`ShortChanges`). The theorem does not say that the code
  guards against such servers; it says that nothing else leaves a partial file
  in a completed task.
- `FirstAttemptsHoldSlots`: `FirstAttemptHoldsSlot`. The queue drops holders
  that are not eligible, so the invariant (`SlotInv`) says of each first attempt
  from its grant to the end of its stream that it holds the slot, unless its task
  is no longer active or is about to be launched again (`Replaced`); the
  predicate `QueueKeeps` says which holders an operation of the queue may drop.

Of the promise, the proof showed an earlier form to be too narrow: it had no
`asked` and `leaving`, and held only as long as a URL was added once.

`HlsDownloadProofs` proves, for any number of segments, chunks and
interruptions:

- `CheckpointsAgree`: `CheckpointMatchesCount`, and `CompletedDownloadsAreFull`:
  `CompletedIsFull`. The invariant (`HlsInv`) follows a body along: what it has
  counted is the length of the file, at the head of the loop the checkpoint,
  inside a segment the checkpoint and what was delivered (`CountsAlong`); the
  file is never shorter than the checkpoint, except between the two halves of a
  truncation, which knows how long it was (`CheckpointIsThere`).
  What the file *contains* after a resume is another matter (run `hls_resume`);
  its length is right all the same.

`SyncQueueProofs` proves, for any accounts, subjects, calls and any number of
edits and failures:

- `RowsConsistent`: `RowsDoNotContradict`. The invariant needs only the columns
  of the rows besides (`Shaped`); rows are written by two operations, and each
  gets a lemma: an edit drops exactly the rows its own would clash with
  (`EnqueueKeepsRows`), a recorded failure keeps the columns that rows are told
  apart by (`BackedOffKeepsRows`).
- `DrainAttemptsEveryRow`: `AttemptedBeforeReturn`. Of a row that was not tried
  since its last edit the invariant (`PassInv`) says where it is (`Covered`):
  with a pass that is still to read its list, on the list of the one under way
  with its present payload, due for another pass, with an edit that has not yet
  told the drain, or left behind by a rejected token. A drain returns only when
  all but the last two are excluded.
- `EditsAreDelivered`: `DeliveredWhenEmpty`, where a drain only ever sends while
  its own account, or nobody, is logged in (`OwnToken`). The invariant
  (`QueueInv`) follows each field of what is wanted of a subject: it is queued in
  some row, or Bangumi has it and no request of the list under way takes it away
  (`Coming`); of a subject that is to be gone, only deletes are queued, and with
  none queued it is gone for good (`Gone`). That a later edit survives an older
  request under way rests on rows being deleted by id and payload together, on
  ids never given out twice (`RowsSound`), and on the tasks of a list being
  apart as the rows are (`TasksApart`), so that no two of them set one field.
  Without `OwnToken` the statement is false: a drain that goes on under the next
  user's token deletes rows that never reached their owner, the finding of run
  `sync_account`.
- `OneAccountDelivers`: with a single account `OwnToken` always holds, so the
  statement needs no hypothesis on behaviours.

All but the first rest on `SyncAssumption`: null is neither an account nor a
value of a field.

`BangumiProofs`, for any number of callers, calls and payloads of the offline
data:

- `DataTypes`: types.
- `SlotFollowsFile`: `SlotIsFile`. It is not inductive: whether an install may
  put a stale payload into the slot depends on what the loads have noted. The
  invariant adds that a load about to install under the present generation
  holds the file's payload, unless a rename has happened that no generation
  tells of yet (`InstallFollows`), and that no task has noted a generation that
  is still to come (`NotAhead`).
- `CalmIndexFollowsFile`: `CalmIndexIsFile`. The invariant adds the same for
  builds: one that holds the permit, began in calm and is still of the present
  generation meets no caller between the raise of the generation and the drop of
  the slot (`BuildCalm`), so what it has loaded is the file's (`BuildFollows`),
  and so is the index it has stored (`IndexFollows`). Without "began in calm"
  the statement is false; that is the run `data_index`.

and for any number of requests, keys and changes of settings:

- `TokenStaysHome`: `CredentialsStayHome`. Every operation with a credential is
  composed for a host that is no mirror (`HomeHosts`), in one step with the
  token it takes, and no later step changes either.
- `CurrentClientHoldsKey`: `ClientHoldsKey`. The invariant adds that epochs only
  grow (`EpochsNotAhead`) and that a build that may still be taken for current
  has the published key (`PinHoldsKey`). Nobody being between publication and
  the raise of the epoch is part of it: in that window the statement is false.

- `RetriesMeetTheirEffect`: `RetryMeetsItsEffect`. The invariant follows a call
  that is alone from its first attempt (`Told`): once an attempt was carried
  out, the account holds the subject exactly if the call does not delete, so the
  next attempt meets that. "Alone" survives because a call that has begun never
  looks unbegun again.

`ListLemmas` holds what the proofs about lists rest on. The library's induction
theorems take an operator as a parameter, so induction is done with a least
element instead: `LeastNat` and `Induct` speak of sets of numbers. Filters and
sorts are those of `Lists`, which name the indices that are taken: `GoesThrough`
and `OneWay` say that these are gone through in their order and that there is
only one way to do so, `SublistHolds` and `Among` that what is kept is what
passes, in its order, whatever the length of the list. `FoldExists` says that a
fold over numbers has its values at every step, `FoldSteps` that the fold of a
list is the last of the values its step makes one after the other: with the two,
a loop that gathers results is reasoned about as a finite list of its states.

`BangumiProofs` and `CorePartsProofs` hold the inductive invariants of the other
parts, `RustCoreProofs` the theorems. Every step of the composition is a
step of a part or leaves its variables alone (`CoreStepOfData`,
`CoreStepOfRequests`, `CoreStepOfSources`, `CoreStepOfSearches`,
`CoreStepOfLookups`, `CoreStepOfCaptchas`, `CoreStepOfTheRest`), so each invariant carries over:

- `CoreKeepsData`, `CoreKeepsRequests`, `CoreMeetsEffects`: the results above.
- `CoreListsSources`: `SettledListIsCurrent`. A load that was overtaken by a
  change may store what is no longer true, so nothing can be said of the list in
  memory by itself. What holds is about the time the load began: if that is
  after the last change of the file, a switch or the region, then the load has
  the file's sources once it has read them and the present region once it has
  read that, up to the filter (`LoadInv`); a list stored by it is current
  (`StoreInv`), and one that is not has outlived its time by the time the
  property speaks of it.
- `CoreKeepsManuals`: `ManualsSurvive`. The invariant is about the one call that
  may write: what it is about to write has every source that was saved, its own
  among them, and the file is torn only between its truncation and its write
  (`WriterInv`). A merge takes the names of the user's sources out of the
  subscription and nothing of the user's out of the local list (`MergeHolds`).
  When two writers overlap, or a restart cuts a write short, nothing is promised
  (`overlapped`).
- `CorePutsTogether`, `CoreReadsToTheEnd`, `CoreHidesModerated`: `PartsAddUp`,
  `ReadToTheEnd`, `ModeratedStaysHidden`. For the first two the invariant says
  of a fetch under way what it has read: the rows kept of the first so many,
  from an offset that is the count so far (`PartsKept`). Keeping the rows of two
  pages one after the other is keeping those of both (`SublistHead`, `Beyond`).
  For the third it says that whatever a route hands over is already moderated
  (`ThreadsInv`), by each of the four routes and both levels.
- `CoreSettlesSources`: `EverySourceSettled`. Until a worker of a search with
  progress ends it has told nothing final (`Quiet`); it ends with one final word
  that fits its outcome, or without one and only because the sink was closed
  (`SettledInv`). That sink never opens again during the search. The limit is
  kept because a worker begins only where there is room and nothing else makes
  one run (`WorkerBegins`, `WorkersMove`). Sites, selectors and queries stay
  arbitrary: what the pages hold does not matter here.
- `CoreServesBest`: `BestCandidateServed`. While a worker goes through its
  candidates, each one behind it was lost or held no episode (`Passed`), and the
  list it goes through is the one its alias gave, after the page the WebView
  named (`Trying`, `Fits`). That list is the best result and its kin, as good as
  each other: a sort by score puts the best first, whatever the scores
  (`RankedKin`, `CompatibleAsGood`), and taking the named page out of it leaves
  what is left as it was (`PinnedServe`). The season, the part and the kind
  of what is served are those asked for, and those of the best result where
  nothing is asked for.
- `CoreAnswersFromTables`: `CachedAnswerIsLive`. A saved table is of a page of
  its site (`SeekInv`), an answer from one is the choice from that table, and the
  table begins with the rows of the list that a search would look at
  (`TableBegins`), so its choice is that of the search (`SelectIs`, `LiveIs`).
  A position behind the end of that list is the exception, and why the property
  says "the number asked for is in it": lists that share a channel are one in the
  table, which goes on into the next where a search falls back to the first.
- `CoreOffersTorrents`: `EachTorrentOnce`. At every moment what has been found is
  what the pages that arrived offer (`Offers`, `TorrentsInv`), and rows of one
  page more go on from there (`OffersMore`): dropping known magnets is the same
  whether pages are taken one by one or together. The number of a row is its last
  token that can be a number (`NumberIs`).
- `CoreOrdersComments`: `CommentsInOrder`. Comments are asked for only when the
  guide has an episode to ask for, the one with the number or else the one at the
  place (`EpisodeIs`, `CommentsInv`), and none are found only where no episode is
  meant (`NoEpisodeIs`) or its comments are not legible. Sorting by time gives each legible comment
  one place, since of any two one comes first (`EarlierInARow`, `TimelyIs`).
- `CoreFillsDetails`: `DetailsReachEveryEntry`. Every entry is filled with what
  is known of its subject at every moment after the batch, not only at the end,
  and nothing is known before (`DetailsInv`), whatever the size of a chunk.
- `CoreCompletesQuarters`: `ExtrasAreNew`. The completion is one pass over the
  rows of all pages that arrived; after each row it has the titled subjects
  before it that the quarter lacks, each once (`NewUpTo`, `NewGoesOn`), and the
  rows of the pages joined are the rows of the pages (`FlattenIs`). Until then
  the pages that are there are what was fetched (`ExtrasInv`).
- `CoreReadsCaptchas`: `CaptchaAsDrawn`. After each step the decoding has a
  character for every run that has begun (`SpeltUpTo`, `SpelledOn`). A limited
  step has its best class among those the source knows, or the blank
  (`ArgMaxIs`), so the second filter finds nothing to replace or to drop
  (`ConstrainedIs`), and the length only cuts the end (`CutIs`).
- `CoreServesStreams`: `StreamIsServed`. Whoever creates the engine holds the
  lock while there is none, so there is one for good; a torrent goes only after
  a stop has looked it up, which is when its id enters `stops`; and what was
  ready once stays so (`EngineInv`, `ViewerInv`).
- `CoreDatesAsChosen`: `DatesAsChosen`, by the order of months (`MonthsInOrder`)
  for each form of a choice, over the turn of the year.

Assumptions. The theorems about the core rest on `DataAssumption`,
`NetworkAssumption`, `SourceAssumption` and `EngineAssumption` (the markers for
"nobody" are no callers, the bounds are numbers, the names of sources finitely
many), `DraftAssumption` (a source of a draft has the fields of a draft),
`SearchAssumption` and `WebAssumption` (a source has sites; a search is for some
name; results and lists of a page are lists, titles are finite, and a result
leads to a page of its site or nowhere),
`ContentAssumption` (rows of Bangumi are records, comments are somebody's, a
topic has an opening row), `ResourcesAssumption` (pages hold torrents, a guide
episodes that have comments, perhaps none), `AirDatesAssumption` (years are integers),
`DetailsAssumption` (chunks are not empty, the entries of a timetable come with
nothing filled in, and the pages of a search hold rows of Bangumi) and
`CaptchaAssumption` (every step of an image scores the blank, and a length that
a source asks for is a number). Those about the slot queue rest on
`TaskAssumption` (finitely many tasks), `CallAssumption` (a call belongs to a
task) and `MaxSlotsAssumption` (the settings clamp the limit to at least 1),
those about the downloads on `BoundsAssumption`, `HttpTaskAssumption` and
`HlsAssumption` (the same, and bounds that are numbers; a resource, a playlist
and a segment are not empty).

Everything else is only model-checked, on the instances above:

- Liveness (`EveryCallReturns`, `ChainMoves`, `EventuallyCompleted`,
  `EveryCallAnswered`): TLAPS does not reason about fairness and ENABLED.
- What the edit distance of `EpisodeResources` finds: `NearestTitle` compares
  results of a function that is recursive over the letters of both names.

## 6. Not modelled

- Players, tabs and web views in Dart (`source_request_gate.dart`,
  `webview_resource_coordinator.dart` and the schedulers above them,
  `playback_focus_coordinator.dart`, `workspace_lifecycle.dart`): state of their
  own, tied to widgets and platform views.
- The BitTorrent session in Dart, its native backends and the C++ bridge: they
  follow the events of external libraries. Its slot transfer is an operation of
  `DownloadQueue`. Saved tasks and a restart of the app during a download.
- The full reconciliation of collections and the background refresh in Dart,
  which rewrite local rows from remote ones.
- Playback history, subtitles, image and metadata caches: storage.
- Markup, HTML, JSON and XML parsing, generated bindings, headers and cookies in
  Rust: no state, and nothing a property depends on.
- The user interface, except for which operations it offers in which state.

