CONSTANTS
    Tasks = {t1}
    Cpus = {c1}
    Producers = {p1}
    TimerIrqs = {i1}
    Signallers = {}
    MaxToken = 2
    None = None
SPECIFICATION Spec
SYMMETRY Symmetry
INVARIANT
    NoStaleOutcome
