SPECIFICATION AnsweringSpec
CONSTANTS
  MaxCalls = 2
  MaxLines = 0
INVARIANTS
  TypeOK
  AnswerMatchesTool
  PendingIsExact
  NoCallForgotten
PROPERTIES
  ToolRunsAtMostOnce
  ImplementsExecution
  AnswerArrives
CHECK_DEADLOCK FALSE
