SPECIFICATION Spec
CONSTANTS
  Node = {root, n1, n2, n3, n4, n5, n6}
  Root = root
  None = None
CHECK_DEADLOCK FALSE
SYMMETRY Symmetry
INVARIANTS
  WellLinked
  TurnInView
PROPERTY AnswersKept
