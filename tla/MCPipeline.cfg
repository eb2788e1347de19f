SPECIFICATION Spec
CONSTANTS
  MAX_GAS = 12
  StackDepth = 40
  Fuel = 60
  ObserveDepth = 2
  Imports <- MCImports
  Candidates <- MCCandidates
  Renamed <- MCRenamed
  Completed <- MCCompleted
  NewName = "n"
CHECK_DEADLOCK FALSE
INVARIANTS
    WellTypedDontGoWrong
    TypedCodeNotBlamed
    
    RenameSafe
    CompletionRight
