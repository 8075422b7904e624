CONSTANTS
  Segments = 3
  Chunks = 2
  MaxBreaks = 3
SPECIFICATION FairSpec
INVARIANTS CheckpointMatchesCount CompletedIsFull
PROPERTIES EventuallyCompleted
CHECK_DEADLOCK FALSE
