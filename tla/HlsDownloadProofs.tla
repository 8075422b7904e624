------------------------- MODULE HlsDownloadProofs -------------------------
(***************************************************************************)
(* Proofs about HlsDownload, for playlists of any length and any number of *)
(* stops and failures: the two halves of the checkpoint agree, and what    *)
(* counts as completed is whole.                                           *)
(***************************************************************************)
EXTENDS HlsDownload, TLAPS

HlsTypes ==
  /\ pc \in {"idle", "resolving", "cutting", "opening", "streaming",
             "leaving", "closing", "completed"}
  /\ completed \in (0..Segments) \cup {Null}
  /\ checkpoint \in Nat \cup {Null}
  /\ file \in Seq(Int)
  /\ segment \in 0..Segments /\ received \in Nat /\ delivered \in 0..Chunks
  /\ stop \in BOOLEAN /\ broke \in BOOLEAN

(* Before the first body has begun to write there is nothing.              *)
NothingYet ==
  /\ completed = Null <=> checkpoint = Null
  /\ completed = Null => file = <<>>

(* The bytes that the checkpoint names are there, except between the two   *)
(* halves of a truncation, which knows how many they were.                 *)
CheckpointIsThere ==
  IF pc = "cutting"
    THEN completed # Null /\ received = checkpoint
    ELSE completed # Null => checkpoint <= Len(file)

(* A body in its loop counts what it appends from the end of the segments  *)
(* that are finished.                                                      *)
CountsAlong ==
  pc \in {"opening", "streaming", "leaving", "closing"} =>
    /\ completed = segment /\ received = Len(file)
    /\ pc = "opening" => segment < Segments /\ received = checkpoint
    /\ pc = "streaming" => segment < Segments /\ ~broke
                           /\ received = checkpoint + delivered
    /\ pc = "leaving" /\ ~broke => segment < Segments
                                   /\ received = checkpoint + Chunks
    /\ pc = "closing" /\ ~broke => segment = Segments
                                   /\ received = checkpoint

HlsInv == /\ HlsTypes /\ NothingYet /\ CheckpointMatchesCount
          /\ CheckpointIsThere /\ CountsAlong /\ CompletedIsFull

-----------------------------------------------------------------------------
(* Products of natural numbers are natural numbers.                        *)
LEMMA Products ==
  ASSUME NEW m \in Nat, NEW n \in Nat
  PROVE  m * n \in Nat /\ (m + 1) * n = m * n + n
OBVIOUS

(* At the loop head the file ends with the segments that are finished.     *)
LEMMA EntersLoop ==
  ASSUME HlsTypes, NEW s \in 0..Segments,
         completed' = s, checkpoint' = s * Chunks, received' = s * Chunks,
         file' \in Seq(Int), Len(file') = s * Chunks,
         LoopHead(s, stop), UNCHANGED <<delivered, stop>>
  PROVE  HlsInv'
<1>1. s * Chunks \in Nat
  BY Products, HlsAssumption
<1>2. /\ segment' = s /\ broke' = (stop /\ s < Segments)
      /\ pc' = IF stop \/ s = Segments THEN "closing" ELSE "opening"
  BY DEF LoopHead
<1>3. HlsTypes'
  BY <1>1, <1>2 DEF HlsTypes
<1>4. NothingYet' /\ CheckpointMatchesCount' /\ CheckpointIsThere'
  BY <1>1, <1>2 DEF NothingYet, CheckpointMatchesCount, CheckpointIsThere,
                    Null
<1>5. CASE stop
  <2>0. s = Segments \/ s < Segments
    BY HlsAssumption
  <2>1. pc' = "closing" /\ (~broke' => s = Segments)
    BY <1>2, <1>5, <2>0, Zenon
  <2>2. QED
    BY <1>2, <1>3, <1>4, <2>1 DEF HlsInv, CountsAlong, CompletedIsFull
<1>6. CASE ~stop
  BY <1>1, <1>2, <1>3, <1>4, <1>6, HlsAssumption
     DEF HlsInv, CountsAlong, CompletedIsFull, HlsTypes
<1>7. QED
  BY <1>5, <1>6

(* A body that reads its state goes on where the checkpoint says, or cuts  *)
(* the file down to it.                                                    *)
LEMMA ResolvedKeeps == ASSUME HlsInv, Resolved PROVE HlsInv'
<1> USE DEF HlsInv
<1>1. /\ completed \in (0..Segments) \cup {Null}
      /\ checkpoint \in Nat \cup {Null}
      /\ file \in Seq(Int) /\ Len(file) \in Nat
      /\ Null \notin Nat /\ Chunks \in Nat \ {0}
  BY HlsAssumption DEF HlsTypes, Null
<1>2. CASE file = <<>> /\ StartsAt(0, 0, checkpoint) /\ UNCHANGED file
  <2>1. checkpoint \in {Null, 0}
    BY <1>1, <1>2 DEF CheckpointIsThere, NothingYet, Resolved
  <2>2. checkpoint' = 0 /\ 0 * Chunks = 0 /\ Len(file) = 0
    BY <1>1, <1>2, <2>1 DEF StartsAt
  <2>3. QED
    BY <1>1, <1>2, <2>2, EntersLoop, HlsAssumption DEF Resolved, StartsAt
<1>3. ASSUME file # <<>>
      PROVE  /\ completed # Null /\ checkpoint # Null
             /\ StartIndex = completed /\ CutTo = checkpoint
             /\ checkpoint = completed * Chunks /\ checkpoint <= Len(file)
  BY <1>1, <1>3 DEF NothingYet, StartIndex, CutTo, CheckpointIsThere,
                    CheckpointMatchesCount, Resolved
<1>4. CASE /\ file # <<>> /\ CutTo >= Len(file)
           /\ StartsAt(StartIndex, Len(file), Len(file)) /\ UNCHANGED file
  <2>1. Len(file) = checkpoint
    BY <1>1, <1>3, <1>4
  <2>2. QED
    BY <1>1, <1>3, <1>4, <2>1, EntersLoop DEF Resolved, StartsAt
<1>5. CASE /\ file # <<>> /\ CutTo < Len(file)
           /\ pc' = "cutting" /\ file' = <<>>
           /\ received' = CutTo
           /\ UNCHANGED <<completed, checkpoint, segment, broke>>
  <2>1. HlsTypes'
    BY <1>1, <1>3, <1>5 DEF HlsTypes, Resolved
  <2>2. QED
    BY <1>1, <1>3, <1>5, <2>1
       DEF NothingYet, CheckpointMatchesCount, CheckpointIsThere, CountsAlong,
           CompletedIsFull
<1>6. QED
  BY <1>2, <1>4, <1>5 DEF Resolved

(* The truncated file is as long as the checkpoint says.                   *)
LEMMA CutKeeps == ASSUME HlsInv, Cut PROVE HlsInv'
<1> USE DEF HlsInv
<1>1. /\ completed \in 0..Segments /\ checkpoint = completed * Chunks
      /\ received = checkpoint /\ received \in Nat
      /\ StartIndex = completed /\ received # Null
  BY DEF Cut, CheckpointIsThere, CheckpointMatchesCount, HlsTypes, StartIndex,
         Null
<1>2. file' = [k \in 1..received |-> Zero] /\ StartsAt(StartIndex, received, received)
  BY DEF Cut
<1>3. file' \in Seq(Int) /\ Len(file') = received
  BY <1>1, <1>2 DEF Zero
<1>4. QED
  BY <1>1, <1>2, <1>3, EntersLoop DEF Cut, StartsAt

(* A finished segment moves both halves of the checkpoint to the end of    *)
(* the file, one that was left by break moves neither.                     *)
LEMMA SegmentLeftKeeps == ASSUME HlsInv, SegmentLeft PROVE HlsInv'
<1> USE DEF HlsInv
<1>1. /\ segment \in 0..Segments /\ completed = segment
      /\ checkpoint = segment * Chunks /\ received = Len(file)
      /\ segment # Null /\ Chunks \in Nat
  BY HlsAssumption DEF SegmentLeft, CountsAlong, HlsTypes,
                       CheckpointMatchesCount, Null
<1>2. CASE broke
  BY <1>1, <1>2 DEF SegmentLeft, HlsTypes, NothingYet, CountsAlong,
       CheckpointMatchesCount, CheckpointIsThere, CompletedIsFull
<1>3. CASE ~broke
  <2>1. /\ segment < Segments /\ received = checkpoint + Chunks
        /\ completed' = segment + 1 /\ checkpoint' = received
        /\ LoopHead(segment + 1, stop)
        /\ UNCHANGED <<file, received, delivered, stop>>
    BY <1>3 DEF SegmentLeft, CountsAlong
  <2>2. (segment + 1) * Chunks = received /\ segment + 1 \in 0..Segments
    BY <1>1, <2>1, Products, HlsAssumption
  <2>3. QED
    BY <1>1, <2>1, <2>2, EntersLoop DEF HlsTypes
<1>4. QED
  BY <1>2, <1>3 DEF HlsTypes

(* The other steps of a body, and what happens to it.                      *)
LEMMA OtherStepsKeep ==
  ASSUME HlsInv,
         \/ Begin \/ NotTracked \/ SegmentOpens \/ Chunk \/ StreamEnds
         \/ Closed \/ Fails \/ Stop
  PROVE  HlsInv'
<1> USE DEF HlsInv
<1>1. CASE Begin \/ NotTracked \/ Fails \/ Stop
  <2>1. HlsTypes'
    BY <1>1 DEF HlsTypes, Begin, NotTracked, Fails, Stop
  <2>2. NothingYet' /\ CheckpointMatchesCount' /\ CompletedIsFull'
    BY <1>1 DEF NothingYet, CheckpointMatchesCount, CompletedIsFull,
                Begin, NotTracked, Fails, Stop
  <2>3. CheckpointIsThere' /\ CountsAlong'
    BY <1>1 DEF CheckpointIsThere, CountsAlong, Begin, NotTracked, Fails, Stop
  <2>4. QED
    BY <2>1, <2>2, <2>3
<1>2. CASE SegmentOpens \/ StreamEnds \/ Closed
  <2>1. HlsTypes'
    BY <1>2, HlsAssumption DEF HlsTypes, SegmentOpens, StreamEnds, Closed
  <2>2. NothingYet' /\ CheckpointMatchesCount' /\ CheckpointIsThere'
    BY <1>2 DEF NothingYet, CheckpointMatchesCount, CheckpointIsThere,
                SegmentOpens, StreamEnds, Closed
  <2>3. CountsAlong'
    BY <1>2 DEF CountsAlong, SegmentOpens, StreamEnds, Closed, HlsTypes
  <2>4. CompletedIsFull'
    <3>1. pc' = "completed" => /\ pc = "closing" /\ ~broke
      BY <1>2 DEF SegmentOpens, StreamEnds, Closed
    <3>2. pc = "closing" => segment # Null
      BY DEF HlsTypes, Null
    <3>3. QED
      BY <1>2, <3>1, <3>2 DEF CompletedIsFull, CountsAlong, Whole,
           CheckpointMatchesCount, SegmentOpens, StreamEnds, Closed
  <2>5. QED
    BY <2>1, <2>2, <2>3, <2>4
<1>3. CASE Chunk
  <2>1. CASE stop
    BY <1>3, <2>1 DEF Chunk, HlsTypes, NothingYet, CheckpointMatchesCount,
         CheckpointIsThere, CountsAlong, CompletedIsFull
  <2>2. CASE ~stop
    <3> DEFINE x == segment * Chunks + delivered + 1
    <3>1. x \in Int
      BY Products, HlsAssumption DEF HlsTypes
    <3>2. file' = Append(file, x)
      BY <1>3, <2>2 DEF Chunk
    <3> HIDE DEF x
    <3>3. /\ file' \in Seq(Int) /\ Len(file') = Len(file) + 1
          /\ Len(file) \in Nat
      BY <3>1, <3>2 DEF HlsTypes
    <3>4. /\ received' = received + 1 /\ delivered' = delivered + 1
          /\ delivered < Chunks /\ pc = "streaming"
          /\ UNCHANGED <<pc, completed, checkpoint, segment, stop, broke>>
      BY <1>3, <2>2 DEF Chunk
    <3>5. HlsTypes'
      BY <3>3, <3>4, HlsAssumption DEF HlsTypes
    <3>6. NothingYet' /\ CheckpointMatchesCount' /\ CompletedIsFull'
      BY <3>4 DEF NothingYet, CheckpointMatchesCount, CompletedIsFull,
                  CountsAlong, HlsTypes, Null
    <3>7. CheckpointIsThere' /\ CountsAlong'
      BY <3>3, <3>4 DEF CheckpointIsThere, CountsAlong, HlsTypes, Null
    <3>8. QED
      BY <3>5, <3>6, <3>7
  <2>3. QED
    BY <2>1, <2>2 DEF HlsTypes
<1>4. QED
  BY <1>1, <1>2, <1>3

(* The strengthening of both properties is an invariant of the downloader. *)
LEMMA HlsInvariant == Spec => []HlsInv
<1>1. Init => HlsInv
  <2>1. Init => HlsTypes
    <3>1. /\ 0 \in 0..Segments /\ 0 \in 0..Chunks /\ <<>> \in Seq(Int)
          /\ 0 \in Nat
      BY HlsAssumption
    <3>2. QED
      BY <3>1, Zenon DEF Init, HlsTypes
  <2>2. QED
    BY <2>1 DEF Init, HlsInv, NothingYet, CheckpointMatchesCount,
         CheckpointIsThere, CountsAlong, CompletedIsFull
<1>2. HlsInv /\ [Next]_vars => HlsInv'
  <2> SUFFICES ASSUME HlsInv, [Next]_vars PROVE HlsInv'
    OBVIOUS
  <2>1. CASE UNCHANGED vars
    BY <2>1 DEF vars, HlsInv, HlsTypes, NothingYet, CheckpointMatchesCount,
         CheckpointIsThere, CountsAlong, CompletedIsFull
  <2>2. QED
    BY <2>1, ResolvedKeeps, CutKeeps, SegmentLeftKeeps, OtherStepsKeep
       DEF Next, Body
<1>3. QED
  BY <1>1, <1>2, PTL DEF Spec

(* What a stop, an exception or a resumed body leaves behind is always a   *)
(* number of finished segments and their length: the two fields of the     *)
(* checkpoint are never from different moments.                            *)
THEOREM CheckpointsAgree == Spec => []CheckpointMatchesCount
<1>1. HlsInv => CheckpointMatchesCount
  BY DEF HlsInv
<1>2. QED
  BY <1>1, HlsInvariant, PTL

(* A task is completed only with every segment in its file, also when the  *)
(* body that completes it found nothing left to do.                        *)
THEOREM CompletedDownloadsAreFull == Spec => []CompletedIsFull
<1>1. HlsInv => CompletedIsFull
  BY DEF HlsInv
<1>2. QED
  BY <1>1, HlsInvariant, PTL
=============================================================================
