CONSTANTS
    First = t1
    Tasks = {t1, t2}
    Cpus = {c1}
    Producers = {p1}
    TimerIrqs = {i1}
    Signallers = {s1}
    MaxToken = 1
    None = None
SPECIFICATION LiveSpec
CHECK_DEADLOCK FALSE
PROPERTIES
    ReadyRuns
    WaitsEnd
