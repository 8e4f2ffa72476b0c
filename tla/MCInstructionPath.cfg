SPECIFICATION Spec
CONSTANTS
  None = None
  Toplevel = Toplevel
  Entry = 0
  SourcePath = "main.sw"
  GasLimit = 6
  NESTED_CALL_LINE_GAP_THRESHOLD = 5
  Addr <- MCAddr
  Path <- MCPath
  Line <- MCLine
  Programs <- MCPrograms
INVARIANTS
  PathShown
