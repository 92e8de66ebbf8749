SPECIFICATION FairSpec
CONSTANTS
  Files = {"echo.js", "search.js"}
  Names = {"echo", "echo_v2", "search", "odd"}
  DirectNames = {"echo", "echo_v2"}
  Clashing = {"odd"}
  MayDefine <- OwnTools
  MaxWrites = 2
  MaxReloads <- TwoOfEcho
INVARIANTS
  TypeOK
  ToolsFollowFiles
  ClashIsRejected
PROPERTIES
  CloseIsFinal
  Converges
CHECK_DEADLOCK FALSE
