CONSTANTS
  Segments = 3
  Chunks = 2
  MaxBreaks = 3
SPECIFICATION Spec
INVARIANT FinishedSegmentsStay
CHECK_DEADLOCK FALSE
