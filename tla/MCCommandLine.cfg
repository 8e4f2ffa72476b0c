SPECIFICATION Spec
CONSTANTS
  None = None
  Contract = {"c1", "c2"}
  Inputs <- MCInputs
  MaxReceipts = 2
  Dir = {"flag", "env", "default"}
INVARIANTS
  TypeOK
  SummaryMatchesAnswers
  OnlyOutDirTouched
  OnlyGoodInputsRecorded
  ListingIsLastResort
PROPERTIES
  ProgramEnds
