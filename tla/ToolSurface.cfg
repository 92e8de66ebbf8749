SPECIFICATION Spec
CONSTANTS
  Names = {"find", "bash", "glob", "query", "stats", "sg"}
  Builtins = {"find", "bash"}
  Aliases = {"glob"}
  Bash = "bash"
  CodeExecution = "code_execution"
  ReadOnlyNames = {"find", "glob", "sg"}
  Reserved = {"find", "glob", "sg", "bash"}
  Files = {"query.js", "stats.js"}
  FileTools <- Offers
  Emitted <- Executors
  OtherTools <- Others
  Selectable = {"find"}
  SettingsChoices <- Environments
INVARIANTS
  TypeOK
  RemovedToolsAreGone
  MutatorsStayOut
  RefusalsAreExplained
  HiddenToolsStayCallable
  ActiveToolsFollowFiles
CHECK_DEADLOCK FALSE
