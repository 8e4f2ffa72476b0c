SPECIFICATION Spec
CONSTANTS
  None = None
  Error = Error
  Base <- MCBase
  Trim <- MCTrim
  Programs <- MCPrograms
  Types <- MCTypes
  Builds <- MCBuilds
  Sources <- MCSources
  Home <- MCHome
  Logs <- MCLogs
  MaxLogs = 1
INVARIANTS
  TypeOK
  SchemaIsProgram
  SymbolsAreBuild
  LoggedIsShown
  ShownWasLogged
