CONSTANTS
    MAX_FD_NUM = 3
    Descriptions = {f, g}
    MaxPos = 1
    Empty = empty
    A = A
    B = B
    t1 = t1
    t2 = t2
    t3 = t3
    pipe1 = pipe1
    pipe2 = pipe2
    ev = ev
    NoFd = NoFd
    IoThreads = {t1, t2, t3}
    IoProcOf <- MCIoProcOf
    PipeIds = {pipe1, pipe2}
    EventFds = {ev}
    Semaphores = {}
    Fds = {0, 1, 2, 3}
    BootFds <- MCBootFds
    PipeCapacity = 2
    EventMax = 2
    Counts = {1, 2}
    PollSets <- MCPollSets
    n1 = n1
    SkThreads = {t1, t2}
    SockIds = {1, 2, 3, 4}
    SockFds = {0, 1, 2}
    AnyAddr = any
    NoAddr = noaddr
    NoSock = nosock
    Addrs = {any, n1}
    QueueMax = 3
    BootSocks <- MCBootSocks
SPECIFICATION IoSpec
CHECK_DEADLOCK FALSE
INVARIANTS
    FdTableExact
    
    SocketsSafe
    NoStrandedSocket

    
