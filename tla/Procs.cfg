CONSTANTS
    a1 = a1
    a2 = a2
    a3 = a3
    b1 = b1
    ga = ga
    gb = gb
    None = None
    Tasks <- MCTasks
    Groups <- MCGroups
    GroupOf <- MCGroupOf
    FirstTasks <- MCFirstTasks
    Cpus = {c1, c2}
    Calls = {"exit", "exit_group", "kill", "exec", "block", "yield", "stop", "cont", "clone"}
    FxTasks = {t1, t2, t3}
    Joinee = t1
    MaxSeq = 1
    NoOne = none
    Procs = {init, sh, k1, k2}
    Reaper = init
    Shell = sh
    NoProc = none
    SgThreads = {t1, t2}
    Sigs = {1, 2, 3, 4, 5}
    IgnoredSigs = {5}
    StopSigs = {3}
    Unblockable = {4}
    Depth = 3
    NoMask = nomask
    PageSize = 4
    Word = 2
    PieBias = 16
    InterpMinBias = 8
    HeapStart = 64
    StackTop = 144
    StackSize = 80
    MaxEntries = 5
    MaxBytes = 12
    Lib64 = 1
    Lib = 2
    LibcSo <- MCLibcSo
    BinSh <- MCBinSh
    BinBusybox <- MCBinBusybox
    Busybox <- MCBusybox
    ShArg <- MCShArg
    Platform <- MCPlatform
    Random <- MCRandom
    DefaultEnv <- MCDefaultEnv
    XTasks = {x1, x2, x3}
    XFirst = x1
    XFirstFile <- MCFirstFile
    NoTask = none
    Executables <- MCExecutables
SPECIFICATION ProcsSpec
SYMMETRY ProcsSymmetry
CHECK_DEADLOCK FALSE
INVARIANTS
    GroupsSafe
    FutexSafe
    ChildrenSafe
    SignalsSafe
    ProgramsStart
    
PROPERTIES
    ExitIsFinal
