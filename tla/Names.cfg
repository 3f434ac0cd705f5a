CONSTANTS
    t1 = t1
    t2 = t2
    NsThreads = {t1, t2}
    Paths <- MCPaths
    NoPath = NoPath
    MaxIno = 16
    XKeys = {"k"}
    TempName = "~"
    Volatile <- MCVolatile
    Targets <- MCTargets
    MaxFollow = 2
    Unset = Unset
    NotLink = NotLink
    Missing = Missing
    E4Threads = {t1, t2}
    Names <- MCNames
    E4Paths <- MCE4Paths
    Temp = "~"
    Inos = {1, 2, 3, 4}
    Modes = {1, 2}
    MaxRefs = 5
    MaxHops = 2
    NoIno = NoIno
    NoEntry = NoEntry
SPECIFICATION NamesSpec
CHECK_DEADLOCK FALSE
INVARIANTS
    NamesSafe
    
    TreeSafe

    
