SPECIFICATION FSpec
CONSTANTS
  MAX_GAS = 2
  Setups <- MCSetups
  Scopes <- MCScopes
  StackDepth = 12
  Operands <- MCOperands
  TypeVars = {"r"}
  Reductions = 2
  Texts <- MCTexts
CHECK_DEADLOCK FALSE
INVARIANTS
    
    ScopesRight
    

    
