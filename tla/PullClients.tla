---------------------------- MODULE PullClients -----------------------------
(***************************************************************************)
(* The clients that upload blobs in this repository: writeContent of       *)
(* mini-nerdctl/pkg/image/image.go (and, with the same messages and no     *)
(* look at the answers, of mini-docker/pkg/registry/pull.go) over the      *)
(* Write handler of ContentStore.  A client sends STAT with the digest it  *)
(* expects, WRITE for each chunk from offset 0 on, and COMMIT with the     *)
(* total length, on a ref derived from the digest.  What it sends is what  *)
(* it downloaded: mini-nerdctl does not compare that with the digest.  It  *)
(* gives up at the first error, may be interrupted at any point, and may   *)
(* be run again.                                                           *)
(***************************************************************************)
EXTENDS ContentStore

CONSTANTS
    Payloads,    \* the blobs that are pulled
    Downloads,   \* for each, the bytes that a registry may answer with
    RefOf,       \* "pull-" + digest[:32], taken to be injective
    ChunkSize,   \* bytes in one WRITE, and in one answer of Read
    Readers      \* concurrent Read streams

ASSUME PayloadAssumption == Payloads \subseteq Digests \ {<< >>}
ASSUME DownloadAssumption ==
    /\ Downloads \in [Payloads -> SUBSET Digests]
    /\ \A p \in Payloads : p \in Downloads[p]
ASSUME RefAssumption ==
    /\ None \notin Refs
    /\ RefOf \in [Payloads -> Refs]
    /\ \A p, q \in Payloads : RefOf[p] = RefOf[q] => p = q
ASSUME ChunkAssumption == ChunkSize \in Nat \ {0}

VARIABLES
    client,   \* per stream: what the client does next
    reads     \* per Read stream: where it is, the digest, the open file,
              \* what was sent

pullVars == <<uploads, blobs, disk, streams, client, reads>>

NotPulling == [step |-> "idle", payload |-> << >>, data |-> << >>, sent |-> 0]

NotReading == [step |-> "idle", digest |-> NoFile, file |-> NoFile, sent |-> << >>]

PullInit ==
    /\ Init
    /\ client = [s \in Streams |-> NotPulling]
    /\ reads = [rd \in Readers |-> NotReading]

(* Whether the daemon ended the stream of s in this step.                  *)
Ended(s) == streams'[s] = FreshStream

Goes(s, next) ==
    client' = [client EXCEPT ![s] = IF Ended(s) THEN NotPulling ELSE next]

(* The STAT message of a client that was asked for payload and downloaded  *)
(* data: the daemon begins the upload of its ref, then handles the         *)
(* message, which begins it once more.                                     *)
SendStat(s, payload, data) ==
    /\ client[s] = NotPulling
    /\ data \in Downloads[payload]
    /\ Attach(s, RefOf[payload], payload)
    /\ Goes(s, [step |-> "stat", payload |-> payload, data |-> data, sent |-> 0])

RecvStat(s) ==
    /\ client[s].step = "stat"
    /\ Stat(s, RefOf[client[s].payload], client[s].payload)
    /\ Goes(s, [client[s] EXCEPT !.step = "write"])

(* The next chunk of a client.                                             *)
Chunk(s) ==
    LET data == client[s].data
        sent == client[s].sent
    IN  SubSeq(data, sent + 1, Min({sent + ChunkSize, Len(data)}))

SendWrite(s) ==
    /\ client[s].step = "write"
    /\ client[s].sent < Len(client[s].data)
    /\ Fits(s, client[s].sent, Chunk(s))
    /\ Write(s, client[s].sent, Chunk(s))
    /\ Goes(s, [client[s] EXCEPT !.sent = @ + Len(Chunk(s))])

(* The daemon's disk fills up during a WRITE.                              *)
SendWriteFails(s) ==
    /\ client[s].step = "write"
    /\ client[s].sent < Len(client[s].data)
    /\ Fits(s, client[s].sent, Chunk(s))
    /\ WriteFails(s, client[s].sent, Chunk(s))
    /\ client' = [client EXCEPT ![s] = NotPulling]

SendCommit(s) ==
    /\ client[s].step = "write"
    /\ client[s].sent = Len(client[s].data)
    /\ Commit(s, Len(client[s].data))
    /\ client' = [client EXCEPT ![s] = NotPulling]

(* The client is interrupted.                                              *)
Interrupted(s) ==
    /\ client[s].step = "write"
    /\ Close(s)
    /\ client' = [client EXCEPT ![s] = NotPulling]

DaemonRestart ==
    /\ Restart
    /\ client' = [s \in Streams |-> NotPulling]
    /\ reads' = [rd \in Readers |-> NotReading]

RemoveBlob(key) == Delete(key) /\ UNCHANGED <<client, reads>>

ClientStep(s) ==
    \/ \E p \in Payloads : \E data \in Downloads[p] : SendStat(s, p, data)
    \/ RecvStat(s)
    \/ SendWrite(s)
    \/ SendWriteFails(s)
    \/ SendCommit(s)
    \/ Interrupted(s)

-----------------------------------------------------------------------------
(* The Read handler.                                                       *)

ReadGoes(rd, next) ==
    /\ reads' = [reads EXCEPT ![rd] = next]
    /\ UNCHANGED <<uploads, blobs, disk, streams, client>>

(* Open looks the digest up under the lock and opens the path after it has *)
(* released it.                                                            *)
OpenLookup(rd, d) ==
    /\ reads[rd].step \in {"idle", "eof"}
    /\ blobs[Key(d)] # NoBlob
    /\ ReadGoes(rd, [NotReading EXCEPT !.step = "open", !.digest = d])

OpenFile(rd) ==
    LET d == reads[rd].digest IN
    /\ reads[rd].step = "open"
    /\ ReadGoes(rd, IF disk[d] = NoFile THEN NotReading
                    ELSE [reads[rd] EXCEPT !.step = "read", !.file = disk[d]])

(* Mutant: the path is opened anew for each chunk.                         *)
ReadChunkMutant(rd) ==
    LET r == reads[rd]
        file == IF disk[r.digest] = NoFile THEN << >> ELSE disk[r.digest]
        last == Min({Len(r.sent) + ChunkSize, Len(file)})
    IN
    /\ r.step = "read"
    /\ ReadGoes(rd, [r EXCEPT
            !.step = IF last <= Len(r.sent) THEN "eof" ELSE "read",
            !.sent = @ \o SubSeq(file, Len(@) + 1, last)])

(* The next chunk of the open file, which stays the same when the path is  *)
(* removed or renamed over; EOF ends the stream.                           *)
ReadChunk(rd) ==
    LET r == reads[rd]
        last == Min({Len(r.sent) + ChunkSize, Len(r.file)})
    IN
    /\ r.step = "read"
    /\ ReadGoes(rd, [r EXCEPT
            !.step = IF last = Len(r.sent) THEN "eof" ELSE "read",
            !.sent = @ \o SubSeq(r.file, Len(@) + 1, last)])

(* The client goes away.                                                   *)
ReadBreaksOff(rd) == reads[rd].step # "idle" /\ ReadGoes(rd, NotReading)

PullNext ==
    \/ \E s \in Streams : ClientStep(s) /\ UNCHANGED reads
    \/ \E key \in BlobKey : RemoveBlob(key)
    \/ DaemonRestart
    \/ \E rd \in Readers, d \in Payloads : OpenLookup(rd, d)
    \/ \E rd \in Readers : OpenFile(rd) \/ ReadChunk(rd) \/ ReadBreaksOff(rd)

PullSpec == PullInit /\ [][PullNext]_pullVars

-----------------------------------------------------------------------------
(* What the store promises these clients: a digest finds a blob while the  *)
(* blob has its entry.                                                     *)
Stored == [d \in Payloads |-> IF blobs[Key(d)] # NoBlob THEN disk[d] ELSE NoFile]

Reading == [rd \in Readers |-> IF reads[rd].step = "read" THEN reads[rd].digest ELSE NoFile]

Answer == [rd \in Readers |-> IF reads[rd].step = "eof" THEN reads[rd].sent ELSE NoFile]

Promise == INSTANCE BlobMap WITH
    Blobs <- Payloads, Nothing <- NoFile, held <- Stored, reading <- Reading, answer <- Answer

(* Clients that share or repeat uploads, some of wrong or truncated        *)
(* downloads, failing commits, removals, restarts and reads of what is     *)
(* being removed or stored again: every step is one of the write-once map, *)
(* or invisible to it.  This needs downloads that are not longer than      *)
(* their blob, and writes that do not fail half way: see StoredIsBlob.     *)
ImplementsBlobMap == Promise!Spec

(* CommitUpload "finalizes an upload, verifies the blob, and moves it to   *)
(* the content store": the file of a digest has the content it is of, also *)
(* when a restart has left it without an entry.  That is so under the      *)
(* conditions of ImplementsBlobMap, and not without them: a WRITE that     *)
(* failed half way, or the tail of a longer download, is in the file and   *)
(* not in the hasher.                                                      *)
StoredIsBlob == \A d \in Payloads : disk[d] \in {NoFile, d}
=============================================================================
