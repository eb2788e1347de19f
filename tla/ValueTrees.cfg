CONSTANTS
  Vars = {x, y}
  Addr = {a1, a2, a3}
  Own = own
  MaxLen = 1
  Numbers = {0, 1}
  PosIdx = {0}
  NONE = 0
  Inlines = {"EmptyRecord"}
  ScalarTags = {}
  WrapperTags = {"EnumVariant"}
  ContainerTags = {"Record"}
  MAX_REF_COUNT = 6
SPECIFICATION Spec
SYMMETRY Symmetric
CHECK_DEADLOCK FALSE
INVARIANTS
    RefCountsExact
    NothingLeaks

    
