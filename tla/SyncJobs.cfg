SPECIFICATION FairSpec
CONSTANTS
  Worker = {w1, w2}
  MaxJobs = 2
  MaxRecords = 2
  MaxAttempts = 1
  MaxUpsets = 1
  Modes = {"overwrite", "append", "incremental"}
  None = None
CHECK_DEADLOCK FALSE
INVARIANTS
  OneWriter
  ZombieStops
  SucceededIsWhole
PROPERTY EventuallyEnded
