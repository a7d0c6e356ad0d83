---------------------------- MODULE ContentStore ----------------------------
(***************************************************************************)
(* The content store of mini-containerd                                    *)
(* (mini-containerd/internal/content/store.go) and the streaming Write     *)
(* handler over it (service.go).  Every method of the store holds s.mu, so *)
(* a store call is one step; a stream makes one store call after another,  *)
(* and streams that name the same ref share one upload.                    *)
(*                                                                         *)
(* SHA-256 is modelled as injective: the digest of a byte sequence is the  *)
(* sequence.  A byte sequence is a sequence over Bytes; Hole is the zero   *)
(* byte that a write past the end of a file leaves in between.  The        *)
(* messages of a client are any in the bounds below; module PullClients    *)
(* has the clients of this repository.                                     *)
(***************************************************************************)
EXTENDS Naturals, Sequences, FiniteSetsExt

CONSTANTS
    Bytes,      \* byte values that clients send
    Hole,       \* the byte of a sparse region
    Refs,       \* upload references
    Streams,    \* concurrent Write streams
    MaxLen,     \* bound: a client never writes past this offset
    MaxFile,    \* bound on the length of an ingest file
    MaxBlobs,   \* bound on the number of files below blobs/
    None,       \* the empty string: no ref, no expected digest
    Faults      \* what the environment may do to the store

ASSUME BoundAssumption ==
    /\ MaxLen \in Nat /\ MaxFile \in Nat /\ MaxLen <= MaxFile
    /\ MaxBlobs \in Nat
ASSUME NoneAssumption == None \notin Bytes \cup {Hole}
ASSUME FaultsAssumption == Faults \subseteq {"restart", "shortwrite", "commit"}

VARIABLES
    uploads,   \* s.uploads: ref -> uploadState, with its ingest file
    blobs,     \* s.blobs: key -> size, or NoBlob
    disk,      \* the files below blobs/: digest -> content, or NoFile
    streams    \* each Write stream: its ref, uploaded, and where it is

vars == <<uploads, blobs, disk, streams>>

-----------------------------------------------------------------------------
Data(n) == UNION {[1 .. k -> Bytes] : k \in 0 .. n}

Digests == Data(MaxLen)

(* A key of s.blobs.  scan builds "algo:" + prefix + name although the file *)
(* name already begins with the prefix: a doubled key.                     *)
BlobKey == [hash : Digests, doubled : BOOLEAN]

Key(d) == [hash |-> d, doubled |-> FALSE]

NoBlob == MaxFile + 1

NoFile == <<None>>

(* uploadState.  file and pos are the content and the position of tmpFile, *)
(* linked says whether ingest/ref still names it, closed whether the       *)
(* descriptor has been closed.  torn is history: since the last seek a     *)
(* write failed half way and left pos where Offset does not follow.        *)
NoUpload ==
    [state |-> "none", offset |-> 0, expected |-> <<None>>, hashed |-> << >>,
     file |-> << >>, pos |-> 0, linked |-> FALSE, closed |-> FALSE, torn |-> FALSE]

NoExpected == <<None>>

FreshStream == [ref |-> None, uploaded |-> FALSE, step |-> "recv"]

Init ==
    /\ uploads = [r \in Refs |-> NoUpload]
    /\ blobs = [key \in BlobKey |-> NoBlob]
    /\ disk = [d \in Digests |-> NoFile]
    /\ streams = [s \in Streams |-> FreshStream]

-----------------------------------------------------------------------------
(* The store.                                                              *)

(* BeginUpload refuses a committed ref, returns an upload in progress as   *)
(* it is, and creates the ingest file of a new one.                        *)
CanBegin(ref) == uploads[ref].state # "committed"

BeginUpload(ref, expected) ==
    uploads' = IF uploads[ref].state = "none"
               THEN [uploads EXCEPT ![ref] =
                        [NoUpload EXCEPT !.state = "open", !.linked = TRUE,
                                         !.expected = expected]]
               ELSE uploads

(* A file after data was written at position pos. A write of no bytes      *)
(* leaves it as it is, also past its end.                                  *)
WriteAt(file, pos, data) ==
    [i \in 1 .. IF data = << >> THEN Len(file) ELSE Max({Len(file), pos + Len(data)}) |->
        IF i \in pos + 1 .. pos + Len(data) THEN data[i - pos]
        ELSE IF i <= Len(file) THEN file[i] ELSE Hole]

(* Mutant: the hasher is not reset.                                        *)
SeekMutant(us, offset) ==
    IF us.offset = offset THEN us ELSE [us EXCEPT !.pos = offset, !.torn = FALSE]

(* Mutant: the file is not sought.                                         *)
SeekFileMutant(us, offset) ==
    IF us.offset = offset THEN us ELSE [us EXCEPT !.hashed = << >>, !.torn = FALSE]

(* Writing at an offset other than us.Offset seeks and resets the hasher.  *)
Seek(us, offset) ==
    IF us.offset = offset THEN us
    ELSE [us EXCEPT !.pos = offset, !.hashed = << >>, !.torn = FALSE]

CanWrite(ref) == ~uploads[ref].closed

(* Mutant: Offset is advanced from where it was.                           *)
WriteUploadMutant(ref, offset, data) ==
    LET us == Seek(uploads[ref], offset) IN
    uploads' = [uploads EXCEPT ![ref] =
        [us EXCEPT !.file = WriteAt(us.file, us.pos, data),
                   !.pos = us.pos + Len(data),
                   !.hashed = us.hashed \o data,
                   !.offset = us.offset + Len(data)]]

WriteUpload(ref, offset, data) ==
    LET us == Seek(uploads[ref], offset) IN
    uploads' = [uploads EXCEPT ![ref] =
        [us EXCEPT !.file = WriteAt(us.file, us.pos, data),
                   !.pos = us.pos + Len(data),
                   !.hashed = us.hashed \o data,
                   !.offset = offset + Len(data)]]

(* tmpFile.Write stored n bytes of data and failed (a full disk): the      *)
(* method returns before it updates the hasher and Offset.                 *)
WriteUploadShort(ref, offset, data, n) ==
    LET us == Seek(uploads[ref], offset) IN
    uploads' = [uploads EXCEPT ![ref] =
        [us EXCEPT !.file = WriteAt(us.file, us.pos, SubSeq(data, 1, n)),
                   !.pos = us.pos + n, !.torn = TRUE]]

(* The two checks of CommitUpload.                                         *)
Verified(us, total) ==
    /\ total > 0 => us.offset = total
    /\ us.expected # NoExpected => us.expected = us.hashed

(* A failed check unlinks the ingest file; the upload stays in the map.    *)
CommitRejected(ref, total) ==
    /\ ~Verified(uploads[ref], total)
    /\ uploads' = [uploads EXCEPT ![ref].linked = FALSE]
    /\ UNCHANGED <<blobs, disk>>

(* tmpFile.Close, os.Rename to the path of the digest, and the entry.      *)
CommitStored(ref, total) ==
    LET us == uploads[ref] IN
    /\ Verified(us, total)
    /\ ~us.closed
    /\ us.linked
    /\ disk' = [disk EXCEPT ![us.hashed] = us.file]
    /\ blobs' = [blobs EXCEPT ![Key(us.hashed)] = us.offset]
    /\ uploads' = [uploads EXCEPT ![ref].state = "committed",
                                  ![ref].closed = TRUE, ![ref].linked = FALSE]

(* Mutant: the entry is made before the rename, which may fail.            *)
CommitFailedMutant(ref, total) ==
    LET us == uploads[ref] IN
    /\ Verified(us, total)
    /\ us.closed \/ ~us.linked \/ "commit" \in Faults
    /\ uploads' = [uploads EXCEPT ![ref].closed = TRUE]
    /\ blobs' = [blobs EXCEPT ![Key(us.hashed)] = us.offset]
    /\ UNCHANGED disk

(* Close fails on a closed file, and the rename when the ingest file has   *)
(* been unlinked, after the descriptor was closed. The disk can also fail  *)
(* a commit in order: in MkdirAll, with the file left open, or in Close or *)
(* the rename, with the ingest file left where it is.                      *)
CommitFailed(ref, total) ==
    LET us == uploads[ref]
        diskFails == "commit" \in Faults
    IN
    /\ Verified(us, total)
    /\ us.closed \/ ~us.linked \/ diskFails
    /\ \E closed \in {TRUE} \cup (IF diskFails THEN {us.closed} ELSE {}) :
            uploads' = [uploads EXCEPT ![ref].closed = closed]
    /\ UNCHANGED <<blobs, disk>>

CommitUpload(ref, total) ==
    \/ CommitRejected(ref, total)
    \/ CommitStored(ref, total)
    \/ CommitFailed(ref, total)

(* Delete ignores a file that does not exist.                              *)
Delete(key) ==
    /\ blobs[key] # NoBlob
    /\ disk' = IF key.doubled THEN disk ELSE [disk EXCEPT ![key.hash] = NoFile]
    /\ blobs' = [blobs EXCEPT ![key] = NoBlob]
    /\ UNCHANGED <<uploads, streams>>

(* The entry that the scan at startup makes for the file of a digest.      *)
ScannedKey(d) == [hash |-> d, doubled |-> TRUE]

scan ==
    [key \in BlobKey |->
        IF \E d \in Digests : disk[d] # NoFile /\ key = ScannedKey(d)
        THEN Len(disk[key.hash]) ELSE NoBlob]

(* The daemon restarts: streams break, uploads are forgotten (a later      *)
(* BeginUpload truncates the ingest file), and NewStore scans blobs/.      *)
Restart ==
    /\ "restart" \in Faults
    /\ uploads' = [r \in Refs |-> NoUpload]
    /\ streams' = [s \in Streams |-> FreshStream]
    /\ blobs' = scan
    /\ UNCHANGED disk

-----------------------------------------------------------------------------
(* The Write handler.  A slot of Streams is reused by the next stream.     *)

EndStream(s) == streams' = [streams EXCEPT ![s] = FreshStream]

(* The first message: the ref is taken from it and the upload begun.  The  *)
(* message itself is then handled by one of the actions below.             *)
Attach(s, ref, expected) ==
    /\ streams[s].ref = None
    /\ IF CanBegin(ref)
       THEN /\ BeginUpload(ref, expected)
            /\ streams' = [streams EXCEPT ![s].ref = ref]
       ELSE EndStream(s) /\ UNCHANGED uploads
    /\ UNCHANGED <<blobs, disk>>

(* A STAT may name another ref than the messages before it.                *)
Stat(s, ref, expected) ==
    /\ streams[s].ref # None
    /\ streams[s].step = "recv"
    /\ IF CanBegin(ref)
       THEN /\ BeginUpload(ref, expected)
            /\ streams' = [streams EXCEPT ![s].ref = ref]
       ELSE EndStream(s) /\ UNCHANGED uploads
    /\ UNCHANGED <<blobs, disk>>

Write(s, offset, data) ==
    /\ streams[s].ref # None
    /\ streams[s].step = "recv"
    /\ IF CanWrite(streams[s].ref)
       THEN /\ WriteUpload(streams[s].ref, offset, data)
            /\ streams' = [streams EXCEPT ![s].uploaded = TRUE]
       ELSE EndStream(s) /\ UNCHANGED uploads
    /\ UNCHANGED <<blobs, disk>>

WriteFails(s, offset, data) ==
    /\ "shortwrite" \in Faults
    /\ streams[s].ref # None
    /\ streams[s].step = "recv"
    /\ CanWrite(streams[s].ref)
    /\ \E n \in 0 .. Len(data) - 1 :
            WriteUploadShort(streams[s].ref, offset, data, n)
    /\ EndStream(s)
    /\ UNCHANGED <<blobs, disk>>

(* A COMMIT that carries data, on a stream that has written none: the data *)
(* is written first, and committed by the next call.                       *)
FinalWrite(s, offset, data) ==
    /\ streams[s].ref # None
    /\ streams[s].step = "recv"
    /\ ~streams[s].uploaded
    /\ data # << >>
    /\ IF CanWrite(streams[s].ref)
       THEN /\ WriteUpload(streams[s].ref, offset, data)
            /\ streams' = [streams EXCEPT ![s].step = "commit"]
       ELSE EndStream(s) /\ UNCHANGED uploads
    /\ UNCHANGED <<blobs, disk>>

Commit(s, total) ==
    /\ streams[s].ref # None
    /\ CommitUpload(streams[s].ref, total)
    /\ EndStream(s)

(* The client closes the stream, or is gone.                               *)
Close(s) ==
    /\ streams[s].ref # None
    /\ streams[s].step = "recv"
    /\ EndStream(s)
    /\ UNCHANGED <<uploads, blobs, disk>>

(* What a message can carry at an offset, nothing included.                *)
Chunks(offset) == Data(MaxLen - offset)

(* The bound on ingest files: a short write can displace the next one.     *)
Fits(s, offset, data) ==
    streams[s].ref # None =>
        Seek(uploads[streams[s].ref], offset).pos + Len(data) <= MaxFile

StoredFiles == Cardinality({d \in Digests : disk[d] # NoFile})

Next ==
    \/ \E s \in Streams, ref \in Refs, expected \in Digests \cup {NoExpected} :
            Attach(s, ref, expected) \/ Stat(s, ref, expected)
    \/ \E s \in Streams, offset \in 0 .. MaxLen : \E data \in Chunks(offset) :
            /\ Fits(s, offset, data)
            /\ \/ Write(s, offset, data)
               \/ WriteFails(s, offset, data)
               \/ FinalWrite(s, offset, data)
    \/ \E s \in Streams, total \in 0 .. MaxLen :
            Commit(s, total) /\ StoredFiles' <= MaxBlobs
    \/ \E s \in Streams : Close(s)
    \/ \E key \in BlobKey : Delete(key)
    \/ Restart

Spec == Init /\ [][Next]_vars

-----------------------------------------------------------------------------
(* Properties.                                                             *)

Files == UNION {[1 .. k -> Bytes \cup {Hole}] : k \in 0 .. MaxFile}

UploadStates ==
    [state : {"none", "open", "committed"}, offset : 0 .. MaxLen,
     expected : Digests \cup {NoExpected}, hashed : Digests, file : Files,
     pos : 0 .. MaxFile, linked : BOOLEAN, closed : BOOLEAN, torn : BOOLEAN]

StreamStates == [ref : Refs \cup {None}, uploaded : BOOLEAN, step : {"recv", "commit"}]

(* Every field holds a value of its type: the bounds are kept, too.        *)
TypeOK ==
    /\ uploads \in [Refs -> UploadStates]
    /\ blobs \in [BlobKey -> 0 .. NoBlob]
    /\ disk \in [Digests -> Files \cup {NoFile}]
    /\ streams \in [Streams -> StreamStates]

(* The file position is at Offset, and what the hasher has taken in, if    *)
(* anything, are exactly the bytes of the ingest file that end there,      *)
(* however streams that share a ref interleave, unless a write failed half *)
(* way since the last seek.  (A WRITE without data can put Offset past the *)
(* end of the file.)                                                       *)
HasherFollowsFile ==
    \A r \in Refs :
        LET us == uploads[r] IN
        ~us.torn =>
            /\ us.pos = us.offset
            /\ Len(us.hashed) <= us.offset
            /\ us.hashed # << >> =>
                  /\ us.offset <= Len(us.file)
                  /\ us.hashed = SubSeq(us.file, us.offset - Len(us.hashed) + 1, us.offset)

(* An entry that CommitUpload made has its file until it is deleted,       *)
(* whatever other commits, rejected uploads and failing disks did since.   *)
(* It says nothing of the entries that scan makes: no file is at their     *)
(* path.                                                                   *)
EntriesHaveFiles ==
    \A d \in Digests : blobs[Key(d)] # NoBlob => disk[d] # NoFile
=============================================================================
