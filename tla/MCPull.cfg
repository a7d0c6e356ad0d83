\* Two pulls at a time, of the same blob or of different ones.
SPECIFICATION PullSpec
CONSTANTS
    x = x
    y = y
    r1 = r1
    r2 = r2
    Bytes = {x, y}
    Hole = Hole
    Refs = {r1, r2}
    Streams = {s1, s2}
    MaxLen = 2
    MaxFile = 2
    MaxBlobs = 2
    None = None
    Faults = {"restart", "commit", "shortwrite"}
    Payloads <- MCPayloads
    Downloads <- MCDownloads
    RefOf <- MCRefOf
    ChunkSize = 1
    Readers = {rd1}
INVARIANTS
    StoredIsBlob
PROPERTIES
    ImplementsBlobMap
