CONSTANTS
    Frames <- MCFrames
    MaxCpus = 2
    Handles = {h1, h2, h3}
    Capacity = 2
    Refill = 2
    Flush = 1
    RunSizes = {3}
    Word = 32
    None = None
    HCpus = {c1, c2}
    HeapSpan = 4
    SmallClasses = 2
    CacheCap = 2
    RefillBatch = 2
    FlushBatch = 1
    REnd = 4
    RFrames = {1, 2, 3}
    NoFrame = 0
    TCpus = {c1, c2}
    Roots = {r1, r2}
    MaxAsid = 1
    MaxVer = 4
    NoRoot = none
SPECIFICATION MemSpec
SYMMETRY MemSymmetry
CHECK_DEADLOCK FALSE
INVARIANTS
    OneOwner
    NoFrameLost
    RefsExact
    FreeCounted
    HeapSafe
    RunsExact
    
    AwaitedCanAnswer
