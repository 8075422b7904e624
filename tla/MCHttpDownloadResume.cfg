CONSTANTS
  Task = {t1}
  MaxRun = 2
  LeftAlone = {}
  MaxObj = 1
  MaxRetries = 0
  MaxSlots = 1
  SlotChoices = {}
  MaxAstray = 1
  Size = 1
SPECIFICATION Spec
INVARIANT ResumeServes
CHECK_DEADLOCK FALSE
