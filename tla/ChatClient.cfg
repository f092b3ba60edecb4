SPECIFICATION Spec
CONSTANTS
  MaxSubmissions = 2
  Foreign = f
  MaxAttempts = 2
  MaxPackets = 1
  None = None
CHECK_DEADLOCK FALSE
INVARIANTS
  MessageKept
  OneStream
  StoppedStaysSilent
PROPERTY
  SubmissionEnds
