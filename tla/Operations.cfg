SPECIFICATION Spec
CONSTANTS
  Names = {"a", "b"}
  Keys = {"k1", "k2"}
  MaxElems = 1
  MaxSteps = 3
CHECK_DEADLOCK FALSE
INVARIANTS
    
    FieldsAgree
    TailOpaque
