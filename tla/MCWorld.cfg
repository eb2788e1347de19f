SPECIFICATION Spec
CONSTANTS
    a = a
    b = b
    c = c
    NoFile = NoFile
    NoEntry = NoEntry
    NoId = NoId
    TypeError = TypeError
    Files <- MCFiles
    Names <- MCFiles
    Candidates <- MCCandidates
    FileName <- MCFileName
    ContentsOf <- AcyclicContents
    InitialDisks <- AcyclicDisks
    MaxWrites = 1
    MaxOps = 4
    MaxDepth = 4
CHECK_DEADLOCK FALSE
INVARIANTS
    ImportsAnalyzed
    ImportersSeeEditorUndisturbed
    PublishedRight
