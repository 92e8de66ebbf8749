SPECIFICATION Spec
CONSTANTS
  MaxCalls = 0
  MaxLines = 0
INVARIANTS
  ReturnIsDelivered
CHECK_DEADLOCK FALSE
