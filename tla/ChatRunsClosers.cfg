SPECIFICATION Spec
CONSTANTS
  Run = {r1}
  t1 = t1
  Thread <- MCThread
  ThreadOf <- MCThreadOf
  Instance = {i1, i2}
  MaxFrames = 2
  MaxUpsets = 4
  MaxAttempts = 2
  None = None
SYMMETRY Symmetry
INVARIANTS
  CompletedIsWhole
PROPERTY
  ImplementsLifecycle
