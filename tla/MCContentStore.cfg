\* Two streams on one ref, on a disk that fails writes and commits, with
\* restarts of the daemon.
SPECIFICATION Spec
CONSTANTS
    Bytes = {x, y}
    Hole = Hole
    Refs = {r1}
    Streams = {s1, s2}
    MaxLen = 2
    MaxFile = 2
    MaxBlobs = 1
    None = None
    Faults = {"restart", "shortwrite", "commit"}
SYMMETRY Symmetry
INVARIANTS
    TypeOK
    HasherFollowsFile
    EntriesHaveFiles
