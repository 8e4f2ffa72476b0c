SPECIFICATION Spec
CONSTANTS
  None = None
  EndOfScript = 99
  Toplevel = "<toplevel>"
  Unnamed = "<fn at ...>"
  Entry = 0
  GasLimit = 18
  Addr <- MCAddr
  Loc <- MCLoc
  Fn <- MCFn
  Programs <- MCPrograms
INVARIANTS
  TypeOK
  CallsBalanced
  FramesMatchCallStack
  StackInv
  FramesNamed
  PositionShown
  LastIsPending
  ReceiptsMirroredOnce
PROPERTIES
  RecordingEnds
  ImplementsCallTrace
