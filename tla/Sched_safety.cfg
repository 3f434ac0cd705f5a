CONSTANTS
    Tasks = {t1, t2}
    Cpus = {c1, c2}
    Producers = {p1}
    TimerIrqs = {i1}
    Signallers = {}
    MaxToken = 1
    None = None
    ICpus = {0, 1}
    ITasks = {1, 2}
    RtBudget = 1
    NoTask = none
    TmTasks = {m1, m2}
    Kinds = {1, 2}
    Slice = 2
    ForegroundSlice = 3
    MaxTime = 6
SPECIFICATION SchedSpec
SYMMETRY SchedSymmetry
INVARIANTS
    OneCpu
    ReadyNotLost
    NoLostWakeup
    
    
