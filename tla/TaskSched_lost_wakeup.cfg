CONSTANTS
    Tasks = {t1}
    Cpus = {c1, c2}
    Producers = {p1}
    TimerIrqs = {}
    Signallers = {}
    MaxToken = 2
    None = None
SPECIFICATION Spec
SYMMETRY Symmetry
INVARIANT
    NoLostWakeup
