CONSTANTS
  Task = {t1}
  MaxRun = 3
  LeftAlone = {}
  MaxObj = 1
  MaxRetries = 1
  MaxSlots = 1
  SlotChoices = {}
  MaxAstray = 1
  Size = 2
SPECIFICATION FairSpec
INVARIANTS OneBodyPerTask ChunksInPlace
PROPERTIES KeepsPromise PauseSticks ChainMoves
CHECK_DEADLOCK FALSE
