SPECIFICATION Spec
CONSTANTS
  Doc = {d1, d2}
  Request = {s1, s2, a}
  AgentWrite = {a}
  MaxTyped = 1
  None = None
SYMMETRY Symmetry
INVARIANTS
  NoSilentOverwrite
  KnownHeadExists
  FilesKept
PROPERTY TextKept
