SPECIFICATION FairSpec
CONSTANTS
  MaxHelpers = 2
  Sizes = {0, 3}
  Limits <- Given
  max_parallel_tool_calls = 1
INVARIANTS
  TypeOK
  LimitHolds
  ResultsMatchCalls
  FailuresAreReported
  FirstSuccessIsLast
PROPERTIES
  HelpersSettle
CHECK_DEADLOCK FALSE
