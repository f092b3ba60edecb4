SPECIFICATION Spec
CONSTANTS
  a1 = a1
  a2 = a2
  b = b
  c = c
  p1 = p1
  p2 = p2
  x = x
  y = y
  Request = {a1, a2, b, c}
  Principal <- MCPrincipal
  PrincipalOf <- MCPrincipalOf
  Payload <- MCPayload
  PayloadOf <- MCPayloadOf
  Policies <- MCPolicies
  MaxUpsets = 1
  None = None
SYMMETRY Symmetry
INVARIANTS
  DomainRunsOnce
  HandlerHoldsLock
  KeyBindsOneRequest
  NoForeignReplay
  WaiterNeverRepeats
  FailureFreesKey
