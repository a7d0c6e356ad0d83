\* One pull at a time, repeated after a WRITE that failed half way or after
\* an interrupted upload of a longer download.
SPECIFICATION PullSpec
CONSTANTS
    x = x
    y = y
    r1 = r1
    r2 = r2
    Bytes = {x, y}
    Hole = Hole
    Refs = {r1}
    Streams = {s1}
    MaxLen = 3
    MaxFile = 6
    MaxBlobs = 2
    None = None
    Faults = {"shortwrite"}
    Payloads <- CorruptPayloads
    Downloads <- CorruptDownloads
    RefOf <- CorruptRefOf
    ChunkSize = 3
    Readers = {}
INVARIANTS
    StoredIsBlob
