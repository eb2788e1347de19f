SPECIFICATION Spec
CONSTANTS
    None = None
    Files = {f1, f2}
    HighFiles = {f1, f2}
    NormalFiles = {f2}
    MaxVersion = 3
CHECK_DEADLOCK FALSE
INVARIANTS
    NewestWins
    ResultsCurrent
PROPERTIES
    EveryEvalSettled
