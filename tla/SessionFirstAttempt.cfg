SPECIFICATION Spec
CONSTANTS
  Tools = {t1}
  CodeExecution = code_execution
  Calls = {c1, c2}
INVARIANTS
  FirstAttemptOnly
CHECK_DEADLOCK FALSE
