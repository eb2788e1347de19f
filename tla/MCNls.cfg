SPECIFICATION Spec
CONSTANTS
    d1 = d1
    d2 = d2
    i1 = i1
    i2 = i2
    i3 = i3
    NoId = NoId
    NoTexts = NoTexts
    Files <- MCFiles
    Ids <- MCIds
    Deps <- MCDeps
    OnDisk <- MCOnDisk
    Method <- MCMethod
    BufferSize = 2
    MaxMsgs = 4
CHECK_DEADLOCK FALSE

    
PROPERTIES
    RequestSeesItsTexts
    EveryRequestAnswered
    
