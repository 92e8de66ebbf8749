SPECIFICATION FairSpec
CONSTANTS
  Files = {"echo.js", "tool.js"}
  Names = {"echo"}
  DirectNames = {"echo"}
  Clashing = {}
  MayDefine <- MovedTool
  MaxWrites = 2
  MaxReloads <- OneReload
PROPERTIES
  Converges
CHECK_DEADLOCK FALSE
