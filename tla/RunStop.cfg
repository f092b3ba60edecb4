SPECIFICATION FairSpec
CONSTANTS
  Run = {r1, r2}
  Instance = {i1, i2}
  StopCall = {s1}
  CheckMayFail = FALSE
  None = None
INVARIANTS
  StopNotLost
  NoStrayStop
PROPERTY
  StopTakesEffect
CHECK_DEADLOCK FALSE
