--------------------------- MODULE SubjectDetails ---------------------------
(***************************************************************************)
(* How the anime of a timetable get their details, and a quarter the anime *)
(* its timetable does not name:                                            *)
(*   api/crawler/fill_details.rs   fill_anime_details, fetch_extra_subjects*)
(*   api/bangumi_graphql.rs        the batch of details                    *)
(*                                                                         *)
(* An anime is its id (0 for none that is a number above 0), the fields it *)
(* comes with and those that were filled in.                               *)
(***************************************************************************)
EXTENDS Catalogue

CONSTANTS BatchSize,  \* BANGUMI_SUBJECT_GRAPHQL_BATCH_SIZE
          Quarter,    \* what the timetable has: sequences of anime
          Offered,    \* for each id, the fields Bangumi knows
          Season      \* the pages of a search of the quarter

(* A timetable comes with what its page says of each anime, and nothing    *)
(* filled in; a page of a search with rows of Bangumi.                     *)
ASSUME DetailsAssumption ==
  /\ BatchSize \in Nat \ {0}
  /\ \A animes \in Quarter : \A i \in DOMAIN animes :
       animes[i] \in [id : Nat, own : SUBSET STRING, filled : {{}}]
  /\ Season \subseteq Seq(Seq(BangumiRow))

VARIABLE job  \* the call under way or the last one

detailVars == <<job>>

Idling == [pc |-> "idle", modern |-> FALSE, animes |-> <<>>, left |-> <<>>,
           known |-> {}, pending |-> {}, pages |-> <<>>, arrived |-> {},
           extras |-> <<>>]
DetailsInit == job = Idling

-----------------------------------------------------------------------------
(* fill_anime_details.                                                     *)
Ids(animes) == {animes[i].id : i \in DOMAIN animes} \ {0}
DistinctIds(animes) ==
  LET ids == [i \in DOMAIN animes |-> animes[i].id]
  IN FoldLeft(LAMBDA done, id : IF id = 0 \/ Contains(done, id)
                                  THEN done ELSE Append(done, id), <<>>, ids)

(* apply_subject_details: only what is missing.                            *)
Applied(anime, ids) ==
  IF anime.id \in ids
    THEN [anime EXCEPT !.filled = @ \cup (Offered[anime.id] \ anime.own)]
    ELSE anime

\* Mutant: of the entries of one anime the first is filled in.
FillFirst(animes, ids) ==
  [i \in DOMAIN animes |->
     IF \E j \in 1..(i - 1) : animes[j].id = animes[i].id
       THEN animes[i] ELSE Applied(animes[i], ids)]

Fill(animes, ids) == [i \in DOMAIN animes |-> Applied(animes[i], ids)]

(* What the batch does not hold is asked for one by one, all at a time.    *)
Falls(w) ==
  [w EXCEPT !.animes = Fill(w.animes, w.known), !.left = <<>>,
            !.pending = Ids(w.animes) \ w.known, !.pc = "fallback"]

FillDetails ==
  /\ job.pc = "idle"
  /\ \E animes \in Quarter :
       LET w == [Idling EXCEPT !.pc = "batch", !.animes = animes,
                   !.left = DistinctIds(animes), !.modern = mode = "modern"]
       IN job' = IF mode = "legacy" \/ w.left = <<>> THEN Falls(w) ELSE w

Chunk == {job.left[i] : i \in DOMAIN job.left \cap 1..BatchSize}
AfterChunk(known) ==
  LET left == SubSeq(job.left, BatchSize + 1, Len(job.left))
      w == [job EXCEPT !.left = left, !.known = @ \cup known]
  IN job' = IF left = <<>> THEN Falls(w) ELSE w

(* A subject of the batch may be null.                                     *)
ChunkAnswered == job.pc = "batch" /\ \E some \in SUBSET Chunk : AfterChunk(some)

(* No answer, or one without data.                                         *)
ChunkFailed == job.pc = "batch" /\ AfterChunk({})

(* From p1, normalised, or from the REST API.                              *)
FallbackAnswered ==
  /\ job.pc = "fallback"
  /\ \E id \in job.pending :
       job' = [job EXCEPT !.pending = @ \ {id}, !.known = @ \cup {id},
                          !.animes = Fill(@, {id})]
FallbackFailed ==
  /\ job.pc = "fallback"
  /\ \E id \in job.pending : job' = [job EXCEPT !.pending = @ \ {id}]

-----------------------------------------------------------------------------
(* fetch_extra_subjects: the number of pages by a first request, then all  *)
(* pages at once, read in order.                                           *)
FetchExtra ==
  /\ job.pc = "idle"
  /\ \E animes \in Quarter, pages \in Season :
       job' = [Idling EXCEPT !.pc = "total", !.animes = animes,
                             !.pages = pages]

TotalAnswered ==
  /\ job.pc = "total"
  /\ job' = IF job.pages = <<>> THEN [job EXCEPT !.pc = "done"]
            ELSE [job EXCEPT !.pc = "pages", !.pending = DOMAIN job.pages]

(* No answer gives an empty list, a body that does not parse an error.     *)
TotalFailed == job.pc = "total" /\ job' = [job EXCEPT !.pc = "done"]

PageArrives ==
  /\ job.pc = "pages"
  /\ \E p \in job.pending :
       job' = [job EXCEPT !.pending = @ \ {p}, !.arrived = @ \cup {p}]
PageFails ==
  /\ job.pc = "pages"
  /\ \E p \in job.pending : job' = [job EXCEPT !.pending = @ \ {p}]

\* Mutant: an id counts as seen before the row is known to have a title.
NewRowMarksFirst(seen, out, row) ==
  IF row.id = 0 \/ row.id \in seen
    THEN [seen |-> seen, out |-> out]
    ELSE [seen |-> seen \cup {row.id},
          out |-> IF row.text = "" THEN out ELSE Append(out, row)]

(* A row that has an id and a title and has not been seen.                 *)
NewRow(seen, out, row) ==
  IF Titled(row) /\ row.id \notin seen
    THEN [seen |-> seen \cup {row.id}, out |-> Append(out, row)]
    ELSE [seen |-> seen, out |-> out]
NewRows(seen, rows) ==
  FoldLeft(LAMBDA acc, row : NewRow(acc.seen, acc.out, row),
           [seen |-> seen, out |-> <<>>], rows)

Merge ==
  /\ job.pc = "pages" /\ job.pending = {}
  /\ LET rows == FlattenSeq([p \in DOMAIN job.pages |->
                   IF p \in job.arrived THEN job.pages[p] ELSE <<>>])
     IN job' = [job EXCEPT !.pc = "done",
                           !.extras = NewRows(Ids(job.animes), rows).out]

Filled ==
  /\ job.pc = "fallback" /\ job.pending = {}
  /\ job' = [job EXCEPT !.pc = "done"]

-----------------------------------------------------------------------------
DetailCalls == FillDetails \/ FetchExtra
DetailSteps == \/ ChunkAnswered \/ ChunkFailed
               \/ FallbackAnswered \/ FallbackFailed \/ Filled
               \/ TotalAnswered \/ TotalFailed \/ PageArrives \/ PageFails
               \/ Merge

-----------------------------------------------------------------------------
(* Every entry of the timetable keeps its place and what it came with, and *)
(* has got what Bangumi knows of it if the batch or its own request        *)
(* brought it, whichever chunks and requests failed, and however many      *)
(* entries are of one anime.                                               *)
DetailsReachEveryEntry ==
  job.pc \in {"fallback", "done"} =>
    \A i \in DOMAIN job.animes :
      LET a == job.animes[i]
      IN a.filled = IF a.id \in job.known THEN Offered[a.id] \ a.own ELSE {}

(* What a quarter is completed with is new to the timetable, there once,   *)
(* and all of what arrived with a title, though pages are missing.         *)
ExtrasAreNew ==
  (job.pc = "done" /\ job.arrived # {}) =>
    LET extra == {job.extras[i].id : i \in DOMAIN job.extras}
        rows == UNION {ToSet(job.pages[p]) : p \in job.arrived}
    IN /\ IsInjective([i \in DOMAIN job.extras |-> job.extras[i].id])
       /\ extra = {r.id : r \in {q \in rows : Titled(q)}} \ Ids(job.animes)
=============================================================================
