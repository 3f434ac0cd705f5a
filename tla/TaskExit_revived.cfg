CONSTANTS
    a1 = a1
    a2 = a2
    a3 = a3
    b1 = b1
    ga = ga
    gb = gb
    None = None
    Tasks <- MCTasks
    Groups <- MCGroups
    GroupOf <- MCGroupOf
    FirstTasks <- MCFirstTasks
    Cpus = {c1, c2}
    Calls = {"exit", "exit_group", "kill", "yield", "stop", "cont"}
SPECIFICATION Spec
SYMMETRY Symmetry
CHECK_DEADLOCK FALSE
PROPERTY
    ExitIsFinal
