SPECIFICATION Spec
CONSTANTS
    a = a
    b = b
    d = d
    x = x
    Paths <- MCPaths
    Nickel <- MCNickel
    Vars <- MCVars
    NoVar = NoVar
    TypeError = TypeError
    NoFile = NoFile
    NoEntry = NoEntry
    None = None
    Idle = Idle
    Main = a
    Inputs <- MCInputs
    ContentsOf <- MCContentsOf
    InitialDisks <- MCDisks
    MaxCommands = 3
    MaxWrites = 1
CHECK_DEADLOCK FALSE
INVARIANTS
    SoundCommandsRight
    
PROPERTIES
    FreshImports
