SPECIFICATION Spec
CONSTANTS
  Run = {r1, r2}
  t1 = t1
  Thread <- MCThread
  ThreadOf <- MCThreadOf
  Instance = {i1}
  MaxFrames = 1
  MaxUpsets = 2
  MaxAttempts = 2
  None = None
SYMMETRY Symmetry
INVARIANTS
  OneLiveRunPerThread
  RunningSetExact
  OrphanHasNoLease
  DrainedIsIdle
  LogContiguous
  LogEndsOnce
  EndTellsStatus
