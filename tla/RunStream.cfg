SPECIFICATION FairSpec
CONSTANTS
  MaxFrames = 4
  MaxKept = 2
  Batch = 2
  MaxFailures = 2
  MaxDrops = 3
  Stalls = FALSE
INVARIANTS
  NoGapNoRepeat
  WellEnded
  DoneIsWhole
  StoppedOnce
PROPERTY
  EventuallySettled
CHECK_DEADLOCK FALSE
