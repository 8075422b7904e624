---------------------------- MODULE HlsDownload ----------------------------
(***************************************************************************)
(* The HLS body of lib/services/download/m3u8_downloader.dart: segments    *)
(* are appended to one file in playlist order, and a body that was stopped *)
(* or failed is started again from the task's checkpoint.                  *)
(*                                                                         *)
(* One task and its successive bodies; module HttpDownload shows that they *)
(* do not overlap.  What its manager does to a body - pause, removal, a    *)
(* newer launch - is one event here, Stop: isCancelled holds or            *)
(* isTaskStillTracked fails from then on.                                  *)
(***************************************************************************)
EXTENDS Integers, Sequences

CONSTANTS Segments,   \* segmentCount of the resolved playlist
          Chunks,     \* chunks per segment
          MaxBreaks   \* bound: stops and failures

ASSUME HlsAssumption ==
  Segments \in Nat \ {0} /\ Chunks \in Nat \ {0} /\ MaxBreaks \in Nat

Null == -1
Zero == 0      \* a zero-filled chunk; chunk k of the resource is k

VARIABLES
  pc,          \* the await of the body, or idle, or completed
  completed,   \* hlsCompletedSegmentCount, Null before the first body
  checkpoint,  \* hlsCheckpointBytes, in chunks
  file,        \* the local file
  segment,     \* segments before the one the loop is at
  received,    \* chunks counted by the body
  delivered,   \* chunks the open segment stream has delivered
  stop,        \* the manager has stopped this body
  broke,       \* the loop was left by break
  breaks       \* stops and failures so far

vars == <<pc, completed, checkpoint, file, segment, received, delivered, stop,
          broke, breaks>>

Init ==
  /\ pc = "idle" /\ completed = Null /\ checkpoint = Null
  /\ file = <<>> /\ segment = 0
  /\ received = 0 /\ delivered = 0
  /\ stop = FALSE /\ broke = FALSE /\ breaks = 0

-----------------------------------------------------------------------------
(* The loop head for segment s: after the last one, or once stopped, the   *)
(* sink is closed.                                                         *)
LoopHead(s, stopped) ==
  /\ segment' = s
  /\ broke' = (stopped /\ s < Segments)
  /\ pc' = IF stopped \/ s = Segments THEN "closing" ELSE "opening"

(* The counters are set and the sink is opened for appending at length n.  *)
StartsAt(s, n, kept) ==
  /\ completed' = s /\ received' = n
  /\ checkpoint' = IF kept = Null THEN n ELSE kept
  /\ LoopHead(s, stop)

StartIndex == IF completed = Null THEN 0 ELSE completed
CutTo ==
  IF checkpoint # Null THEN checkpoint
  ELSE IF StartIndex > 0 THEN Len(file) ELSE 0

\* Mutant: a new body inherits the cancellation of the previous one.
BeginStopped ==
  /\ pc = "idle"
  /\ pc' = "resolving" /\ broke' = FALSE
  /\ UNCHANGED <<completed, checkpoint, file, segment, received, delivered,
                 stop, breaks>>

Begin ==
  /\ pc = "idle"
  /\ pc' = "resolving" /\ stop' = FALSE /\ broke' = FALSE
  /\ UNCHANGED <<completed, checkpoint, file, segment, received, delivered, breaks>>

(* The playlist is there; a stopped body that is still tracked reads the   *)
(* file all the same, one that is not returns.                             *)
Resolved ==
  /\ pc = "resolving"
  /\ UNCHANGED <<delivered, stop, breaks>>
  /\ \/ /\ file = <<>>
        /\ StartsAt(0, 0, checkpoint) /\ UNCHANGED file
     \/ /\ file # <<>> /\ CutTo >= Len(file)
        /\ StartsAt(StartIndex, Len(file), Len(file)) /\ UNCHANGED file
     \/ /\ file # <<>> /\ CutTo < Len(file)
        /\ pc' = "cutting" /\ file' = <<>>    \* open(mode: FileMode.write)
        /\ received' = CutTo
        /\ UNCHANGED <<completed, checkpoint, segment, broke>>

NotTracked ==
  /\ pc = "resolving" /\ stop
  /\ pc' = "idle"
  /\ UNCHANGED <<completed, checkpoint, file, segment, received, delivered, stop,
                 broke, breaks>>

(* truncate(checkpoint) on the file that open has emptied.                 *)
Cut ==
  /\ pc = "cutting"
  /\ file' = [k \in 1..received |-> Zero]
  /\ StartsAt(StartIndex, received, received)
  /\ UNCHANGED <<delivered, stop, breaks>>

-----------------------------------------------------------------------------
SegmentOpens ==
  /\ pc = "opening"
  /\ pc' = IF stop THEN "closing" ELSE "streaming"
  /\ broke' = stop /\ delivered' = 0
  /\ UNCHANGED <<completed, checkpoint, file, segment, received, stop, breaks>>

Chunk ==
  /\ pc = "streaming" /\ delivered < Chunks
  /\ UNCHANGED <<completed, checkpoint, segment, stop, breaks>>
  /\ IF stop
       THEN /\ pc' = "leaving" /\ broke' = TRUE
            /\ UNCHANGED <<file, received, delivered>>
       ELSE /\ file' = Append(file, segment * Chunks + delivered + 1)
            /\ received' = received + 1 /\ delivered' = delivered + 1
            /\ UNCHANGED <<pc, broke>>

StreamEnds ==
  /\ pc = "streaming" /\ delivered = Chunks
  /\ pc' = "leaving"
  /\ UNCHANGED <<completed, checkpoint, file, segment, received, delivered, stop,
                 broke, breaks>>

\* Mutant: a segment left by break counts as finished.
SegmentLeftCounting ==
  /\ pc = "leaving"
  /\ completed' = segment + 1 /\ checkpoint' = received
  /\ IF broke THEN pc' = "closing" /\ UNCHANGED <<segment, broke>>
              ELSE LoopHead(segment + 1, stop)
  /\ UNCHANGED <<file, received, delivered, stop, breaks>>

(* handle.close has returned and the job is cleared.                       *)
SegmentLeft ==
  /\ pc = "leaving"
  /\ UNCHANGED <<file, received, delivered, stop, breaks>>
  /\ IF broke
       THEN pc' = "closing" /\ UNCHANGED <<completed, checkpoint, segment, broke>>
       ELSE /\ completed' = segment + 1 /\ checkpoint' = received
            /\ LoopHead(segment + 1, stop)

\* Mutant: leaving the loop means that it is through.
ClosedAnyway ==
  /\ pc = "closing"
  /\ pc' = "completed"
  /\ UNCHANGED <<completed, checkpoint, file, segment, received, delivered,
                 stop, broke, breaks>>

Closed ==
  /\ pc = "closing"
  /\ pc' = IF stop \/ broke THEN "idle" ELSE "completed"
  /\ UNCHANGED <<completed, checkpoint, file, segment, received, delivered, stop,
                 broke, breaks>>

(* An exception while the playlist or a segment is opened or read.         *)
Fails ==
  /\ pc \in {"resolving", "opening", "streaming"}
  /\ breaks < MaxBreaks /\ breaks' = breaks + 1
  /\ pc' = "idle"
  /\ UNCHANGED <<completed, checkpoint, file, segment, received, delivered, stop,
                 broke>>

Stop ==
  /\ pc \notin {"idle", "completed"} /\ ~stop
  /\ breaks < MaxBreaks /\ breaks' = breaks + 1
  /\ stop' = TRUE
  /\ UNCHANGED <<pc, completed, checkpoint, file, segment, received, delivered,
                 broke>>

Body ==
  \/ Begin \/ Resolved \/ NotTracked \/ Cut \/ SegmentOpens \/ Chunk
  \/ StreamEnds \/ SegmentLeft \/ Closed

Next == Body \/ Fails \/ Stop
Spec == Init /\ [][Next]_vars

(* Every body gets on, and a stopped or failed one is started again.       *)
FairSpec == Spec /\ WF_vars(Body)

-----------------------------------------------------------------------------
Whole == Segments * Chunks

(* The two halves of the checkpoint (lines 267-269) never drift apart,     *)
(* whatever segment a break or an exception left unfinished.               *)
CheckpointMatchesCount ==
  completed # Null => checkpoint = completed * Chunks

(* A completed task has all segments, also when its last body found        *)
(* nothing left to download.                                               *)
CompletedIsFull == pc = "completed" => Len(file) = Whole

(* "Truncate any incomplete final segment left by a mid-segment pause"     *)
(* (m3u8_downloader.dart:147): the finished segments stay as they are.     *)
(* Refuted: FileMode.write empties the file, and truncate(checkpoint) then *)
(* fills it with zeros.                                                    *)
FinishedSegmentsStay ==
  pc # "cutting" /\ completed # Null
    => \A k \in 1..Len(file) : k <= completed * Chunks => file[k] = k

(* With finitely many stops and failures the file gets whole.              *)
EventuallyCompleted == <>(pc = "completed")
=============================================================================
