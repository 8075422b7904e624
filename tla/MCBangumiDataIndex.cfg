SPECIFICATION DataSpec
CONSTANTS
  Caller = {c1, c2}
  Background = bg
  MaxCalls = 2
  MaxWrites = 2
  Nobody = Nobody
INVARIANT IndexFollowsFile
CHECK_DEADLOCK FALSE
