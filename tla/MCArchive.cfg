SPECIFICATION Spec
CONSTANTS
  Names = {"a", "b"}
  Suspicious = {"../c"}
  Data = {d, e}
  d = d
  e = e
  None = None
  Paths <- MCPaths
  ArgLists <- MCArgLists
  FirstArchives <- MCArchives
  FirstFiles <- MCFiles
  MaxCommands = 3
INVARIANTS
  ReadsWholeArchive
PROPERTIES
  NoTmpLeft
  StoresMembers
CHECK_DEADLOCK FALSE
