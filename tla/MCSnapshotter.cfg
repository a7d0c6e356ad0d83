SPECIFICATION Spec
CONSTANTS
    Keys = {a, b, c}
    None = None
    Labels = {l}
    Faults = {"mkdir", "removeall", "removeall_bare", "restart"}
INVARIANTS
    TypeOK
    ParentCommitted
    BackedByDir
    SnapshotTree
    MountsCurrent
PROPERTIES
    CommittedStable
SYMMETRY Symmetry
