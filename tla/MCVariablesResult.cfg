SPECIFICATION Spec
CONSTANTS
  None = None
  MaxValue = 8
  MaxSteps = 4
  Register <- MCRegister
  Reserved = {1}
  Displayed = {16, 17}
  Instructions <- MCInstructions
  ParamCounts = {0, 2}
INVARIANT
  TrackedValueIsResult
