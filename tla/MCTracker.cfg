SPECIFICATION Spec
CONSTANTS
  None = None
  ContractId = {"A", "B"}
  Zero = "zero"
  Toplevel = "<toplevel>"
  MaxSteps = 5
  Index <- MCIndex
  Place <- MCPlace
  Maps <- MCMaps
  DefaultMap <- MCDefaultMap
  LineOfIndex <- MCLineOfIndex
INVARIANTS
  TypeOK
  ContextsMatch
  CallsMatchContexts
  ShownIsRunningContract
  PredicateContextRestored
