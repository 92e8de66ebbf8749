SPECIFICATION Spec
CONSTANTS
  max_output_chars = 430
  Requests <- MCRequests
  Values <- MCValues
  Texts = {1, 4, 5, 8, 9, 12, 13, 20, 104, 106}
INVARIANT
  FitsTheLimit
PROPERTY
  CutsOnce
CHECK_DEADLOCK FALSE
