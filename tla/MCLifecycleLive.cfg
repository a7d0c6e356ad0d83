\* One or two commands on one task: every command ends.
SPECIFICATION LifecycleFairSpec
CONSTANTS
    c1 = c1
    c2 = c2
    c3 = c3
    Ids = {i1, dock}
    DockerId = dock
    Tasks = {t1}
    Pids = {p1}
    Clients = {c1, c2}
    Threads <- MCThreads
    Impatient = {c1, c2}
    May <- MCMayPair
    PidReuse = FALSE
    None = None
PROPERTIES
    ExitIsReported
    DeadPidIsCleared
    CommandEnds
    RunEnds
CHECK_DEADLOCK FALSE
