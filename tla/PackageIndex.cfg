SPECIFICATION FairSpec
CONSTANTS
    Procs = {p1, p2}
    Versions = {1, 2}
    GitPkg = GitPkg
    NoProc = NoProc
    NoVersion = NoVersion
    MaxRuns = 2
    MaxCrashes = 1
    MaxErrors = 1
CHECK_DEADLOCK FALSE
INVARIANTS
    ReadersSeeWhole
    DepsReady
PROPERTIES
    CommandsEnd
