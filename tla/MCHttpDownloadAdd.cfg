CONSTANTS
  Task = {t1}
  MaxRun = 2
  LeftAlone = {}
  MaxObj = 2
  MaxRetries = 0
  MaxSlots = 1
  SlotChoices = {}
  MaxAstray = 1
  Size = 1
SPECIFICATION Spec
INVARIANT AddServes
CHECK_DEADLOCK FALSE
