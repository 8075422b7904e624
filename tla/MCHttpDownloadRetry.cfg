CONSTANTS
  Task = {t1, t2}
  MaxRun = 2
  LeftAlone = {t2}
  MaxObj = 1
  MaxRetries = 1
  MaxSlots = 1
  SlotChoices = {1}
  MaxAstray = 1
  Size = 1
SPECIFICATION Spec
INVARIANT RetryHoldsSlot
CHECK_DEADLOCK FALSE
