SPECIFICATION FairSpec
CONSTANTS
  Run = {r1, r2}
  t1 = t1
  Thread <- MCThread
  ThreadOf <- MCThreadOf
  Instance = {i1}
  MaxFrames = 1
  MaxUpsets = 1
  MaxAttempts = 2
  None = None
PROPERTIES
  EventuallyFinished
  EventuallyUnlocked
