CONSTANTS
    t1 = t1
    t2 = t2
    u = u
    sp1 = sp1
    sp2 = sp2
    o1 = o1
    o2 = o2
    d1 = d1
    d2 = d2
    DThreads = {t1, t2}
    DInos = {1}
    PageSz = 2
    DenseLimit = 2
    Cluster = 1
    MaxLen = 4
    MaxOpens = 3
    Nothing = Nothing
    Threads = {t1, t2, u}
    ProcOf <- MCProcOf
    Ofds = {o1, o2}
    FileOf <- MCFileOf
    OpenAt <- MCOpenAt
    Flocks <- MCFlocks
    FileOps <- MCFileOps
    Offset = 1
    Size = 2
    Inf = 3
    CpuCounts = {1, 2}
    MaxDup = 1
    None = None
    Inline_Limit = 2
    ChunkSize = 2
    MaxOffset = 5
    MemDescs = {d1, d2}
    Appends = {d2}
    Bufs <- MCBufs
    StackBuf = 2
    IoChunk = 3
    NoChunk = nochunk
    Nil = Nil
    Spaces = {sp1, sp2}
    MmThreads = {t1, t2, u}
    SpaceOf <- MCSpaceOf
    VEnd = 5
    HeapStart = 3
    HeapTop = 5
    MmFrames = {1, 2, 3, 4}
    Values = {0, 1, 2}
    FileLen = 2
    Window = 2
    ShmLen = 1
    SectorSize = 2
    BlockSize = 4
    DiskSize = 14
    CacheLimit = 2
    ReadAhead = 2
    BdTasks = {t1, t2}
    LoopFiles = {o1, o2}
    LoopCount = 2
    NoLoop = None
SPECIFICATION FilesSpec
CHECK_DEADLOCK FALSE
INVARIANTS
    
    
    LocksSafe
    MemSafe
    
    
PROPERTIES
    RefinesByteLocks
    ReleaseWakes
    WritesExact
