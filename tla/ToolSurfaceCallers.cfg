SPECIFICATION Spec
CONSTANTS
  Names = {"find", "stats"}
  Builtins = {"find"}
  Aliases = {}
  Bash = "bash"
  CodeExecution = "code_execution"
  ReadOnlyNames = {"find"}
  Reserved = {"find"}
  Files = {"stats.js"}
  FileTools <- Narrowed
  Emitted = {}
  OtherTools = {}
  Selectable = {"find"}
  SettingsChoices <- Environments
INVARIANTS
  PythonOnlyToolsStayOut
CHECK_DEADLOCK FALSE
