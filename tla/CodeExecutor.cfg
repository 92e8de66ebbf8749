SPECIFICATION FairSpec
CONSTANTS
  Runs = {r1, r2, r3}
  EXECUTION_TIMEOUT = 2
  Timeouts = {1, 3}
  MaxOutputs <- Limits
  Sizes <- Printed
INVARIANTS
  TypeOK
  KnownContainerIsUp
  NoContainerIsForgotten
  OutputFits
PROPERTIES
  RunsKeepTheirContainer
  IdleContainersStop
CHECK_DEADLOCK FALSE
