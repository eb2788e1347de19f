CONSTANTS
  N = 2
  Values = {"x", "y"}
  Contracts = {"C", "P"}
  Polymorphic = {"P"}
  Literals <- MCLiterals
  MaxLen = 8
  MaxWrapped = 2
  MaxCtrs = 2
SPECIFICATION Spec
PROPERTIES
    RefinesSequence
INVARIANTS
    ReadsAgree
