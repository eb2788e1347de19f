CONSTANTS
  Programs <- AllPrograms
  RecursionLimit = 3
  Depth = 14
SPECIFICATION FairSpec
INVARIANTS
    BlackholesOwned
    OutcomeRight
PROPERTIES
    ValuesStay
    SessionEnds
