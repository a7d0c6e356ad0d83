\* Two containers, recycled pids: safety.
SPECIFICATION Spec
CONSTANTS
    Ids = {i1, i2}
    Tasks = {t1, t2}
    Pids = {p1, p2}
    Threads = {w1, w2}
    PidReuse = TRUE
    None = None
SYMMETRY Symmetry
INVARIANTS
    TypeOK
    StoppedIsDead
    PidUntilGone
    WaitAfterExit
    PausedIsFrozen
PROPERTIES
    ImplementsLifecycle
CHECK_DEADLOCK FALSE
