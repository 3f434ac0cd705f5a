CONSTANTS
    Tasks = {t1}
    Cpus = {c1}
    Producers = {}
    TimerIrqs = {}
    Signallers = {s1}
    MaxToken = 1
    None = None
SPECIFICATION Spec
SYMMETRY Symmetry
INVARIANT
    SignalNotLost
