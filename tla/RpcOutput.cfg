SPECIFICATION FairSpec
CONSTANTS
  MaxCalls = 1
  MaxLines = 2
INVARIANTS
  TruthfulVerdict
  OutputComplete
PROPERTIES
  EventuallySettled
  GiveUpQuiesces
CHECK_DEADLOCK FALSE
