\* A container is made, and two more commands meet it: safety.
SPECIFICATION LifecycleSpec
CONSTANTS
    c1 = c1
    c2 = c2
    c3 = c3
    Ids = {i1, dock}
    DockerId = dock
    Tasks = {t1, t2}
    Pids = {p1, p2}
    Clients = {c1, c2, c3}
    Threads <- MCThreads
    Impatient = {c1, c2}
    May <- MCMay
    PidReuse = FALSE
    None = None
SYMMETRY Symmetry
INVARIANTS
    LifecycleTypeOK
    StoppedForGood
    RunReportsExit
    RunKeepsProcess
CHECK_DEADLOCK FALSE
