SPECIFICATION Spec
CONSTANTS
  Tools = {t1, t2}
  CodeExecution = code_execution
  Calls = {c1, c2, c3}
SYMMETRY Symmetry
INVARIANTS
  TypeOK
  OneHintPerRequest
  HintIsAccountedFor
  RoutingIsTemporary
CHECK_DEADLOCK FALSE
