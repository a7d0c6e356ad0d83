-------------------------- MODULE PullClientsProofs --------------------------
(***************************************************************************)
(* The content store with the clients of this repository, for any blobs,   *)
(* any number of uploads and reads at a time, and any chunk size.          *)
(*                                                                         *)
(* A ref is made of the digest it is for (RefUse), so all streams that     *)
(* share an upload expect the same blob, whatever they downloaded.  While  *)
(* no download is longer than its blob, no file and no Offset is either    *)
(* (ShortFiles), and the hasher has seen the bytes that end at Offset: when*)
(* it has come to the digest, the file is the blob.  What is stored under  *)
(* a digest is therefore the blob of that digest, and what a read delivers *)
(* is it too.  This needs writes that do not fail half way, since they     *)
(* leave the hasher behind the file; the run pull_corrupt shows that both  *)
(* hypotheses are needed.                                                  *)
(***************************************************************************)
EXTENDS PullClients, ContentStoreProofs

(* No write fails half way.                                                *)
SoundWrites == "shortwrite" \notin Faults

(* No download is longer than its blob.                                    *)
NoLonger == \A p \in Payloads : \A data \in Downloads[p] : Len(data) <= Len(p)

-----------------------------------------------------------------------------
(* The invariant of the clients, whatever fails.                           *)
ClientStates ==
    [step : {"stat", "write"}, payload : Payloads, data : Digests, sent : Nat]

(* A client c that has begun is on a stream st of the ref of its payload,  *)
(* whose upload has begun too.                                             *)
Session(c, st, ups) ==
    \/ c = NotPulling /\ st = FreshStream
    \/ /\ c \in ClientStates /\ c.sent <= Len(c.data) /\ c.data \in Downloads[c.payload]
       /\ st.ref = RefOf[c.payload] /\ st.step = "recv"
       /\ ups[RefOf[c.payload]].state # "none"

(* An upload expects the digest that its ref is made of.                   *)
RefUse(us, r) ==
    us.state # "none" => \E p \in Payloads : r = RefOf[p] /\ us.expected = p

ClientsInv ==
    /\ client \in [Streams -> ClientStates \cup {NotPulling}]
    /\ \A s \in Streams : Session(client[s], streams[s], uploads)
    /\ \A r \in Refs : RefUse(uploads[r], r)

PullsInv == StoreInv /\ ClientsInv

(* No file and no Offset outgrows its blob, and what is under a digest is  *)
(* its blob.                                                               *)
Short(us, p) == us.torn = FALSE /\ Len(us.file) <= Len(p) /\ us.offset <= Len(p)

ShortFiles == \A p \in Payloads : Short(uploads[RefOf[p]], p)

BlobsOnDisk == \A d \in Payloads : disk[d] \in {NoFile, d}

FilesInv == ShortFiles /\ BlobsOnDisk

ReadStates ==
    [step : {"idle", "open", "read", "eof"}, digest : Payloads \cup {NoFile},
     file : Payloads \cup {NoFile}, sent : Seq(Bytes)]

(* A read has opened the blob it was asked for and sent a prefix of it.    *)
ReadOK(r) ==
    /\ r.step \in {"open", "read"} => r.digest \in Payloads
    /\ r.step = "open" => r.sent = << >>
    /\ r.step = "read" => /\ r.file = r.digest /\ Len(r.sent) <= Len(r.digest)
                          /\ r.sent = SubSeq(r.digest, 1, Len(r.sent))

(* A blob that was looked up has its entry until its file is removed.      *)
LookedUp(d) == disk[d] # NoFile => blobs[Key(d)] # NoBlob

ReadsInv ==
    /\ reads \in [Readers -> ReadStates]
    /\ \A rd \in Readers : ReadOK(reads[rd])
    /\ \A rd \in Readers : reads[rd].step = "open" => LookedUp(reads[rd].digest)

-----------------------------------------------------------------------------
(* Blobs, chunks and prefixes.                                             *)
LEMMA PayloadIsBlob ==
    ASSUME NEW p \in Payloads
    PROVE  /\ p \in Digests /\ p \in Seq(Bytes) /\ p \in Files
           /\ Len(p) \in Nat /\ Len(p) > 0 /\ Len(p) <= MaxLen
           /\ p # NoFile /\ p # NoExpected
           /\ RefOf[p] \in Refs /\ RefOf[p] # None
<1>1. p \in Digests /\ p # << >>
  BY PayloadAssumption
<1>2. p \in Seq(Bytes) /\ Len(p) <= MaxLen /\ Len(p) \in Nat
  BY <1>1, DigestSeq
<1>3. Len(p) # 0
  BY <1>1, <1>2, EmptySeq
<1>4. p \in Seq(FileBytes)
  BY <1>2 DEF FileBytes
<1>5. Len(p) <= MaxFile
  BY <1>2, BoundAssumption
<1>6. p \in Files
  BY <1>4, <1>5, FileSeq
<1>7. p # NoFile /\ p # NoExpected
  BY <1>6, FileIsFile DEF NoFile, NoExpected
<1> QED BY <1>1, <1>2, <1>3, <1>6, <1>7, RefAssumption

LEMMA MinOfTwo ==
    ASSUME NEW a \in Nat, NEW b \in Nat
    PROVE  Min({a, b}) = IF a <= b THEN a ELSE b
<1>1. \E x \in {a, b} : \A y \in {a, b} : x <= y
  OBVIOUS
<1>2. Min({a, b}) \in {a, b} /\ \A y \in {a, b} : Min({a, b}) <= y
  BY <1>1 DEF Min
<1> QED BY <1>2

(* The bytes after the first n, at most ChunkSize of them.                 *)
PartEnd(p, n) == Min({n + ChunkSize, Len(p)})
Part(p, n) == SubSeq(p, n + 1, PartEnd(p, n))

LEMMA NextPart ==
    ASSUME NEW S, NEW p \in Seq(S), NEW n \in Nat, n <= Len(p)
    PROVE  /\ Part(p, n) \in Seq(S)
           /\ Len(Part(p, n)) = PartEnd(p, n) - n
           /\ PartEnd(p, n) \in Nat
           /\ PartEnd(p, n) <= Len(p)
           /\ PartEnd(p, n) >= n
           /\ n < Len(p) => PartEnd(p, n) > n
           /\ \A i \in 1 .. Len(Part(p, n)) : Part(p, n)[i] = p[n + i]
<1> DEFINE m == PartEnd(p, n)
<1>1. Len(p) \in Nat /\ ChunkSize \in Nat /\ ChunkSize > 0
  BY ChunkAssumption
<1>2. m \in Nat /\ m <= Len(p) /\ m >= n /\ (n < Len(p) => m > n)
  BY <1>1, MinOfTwo DEF PartEnd
<1> HIDE DEF m
<1>3. \A i \in n + 1 .. m : p[i] \in S
  <2>1. ASSUME NEW i \in n + 1 .. m PROVE i \in 1 .. Len(p)
    BY <1>1, <1>2
  <2> QED BY <2>1
<1>4. /\ SubSeq(p, n + 1, m) \in Seq(S)
      /\ Len(SubSeq(p, n + 1, m)) = IF n + 1 <= m THEN m - (n + 1) + 1 ELSE 0
      /\ \A i \in 1 .. m - (n + 1) + 1 : SubSeq(p, n + 1, m)[i] = p[n + 1 + i - 1]
  BY <1>2, <1>3, PartOfSeq
<1>5. Len(SubSeq(p, n + 1, m)) = m - n
  BY <1>2, <1>4
<1>6. ASSUME NEW i \in 1 .. m - n PROVE SubSeq(p, n + 1, m)[i] = p[n + i]
  <2>1. i \in 1 .. m - (n + 1) + 1 /\ n + 1 + i - 1 = n + i
    BY <1>2
  <2> QED BY <1>4, <2>1
<1>7. Part(p, n) = SubSeq(p, n + 1, m)
  BY DEF Part, m
<1> QED BY <1>2, <1>4, <1>5, <1>6, <1>7 DEF m

(* A prefix and the next part make the longer prefix.                      *)
LEMMA PrefixSeq ==
    ASSUME NEW S, NEW p \in Seq(S), NEW n \in Nat, n <= Len(p)
    PROVE  /\ SubSeq(p, 1, n) \in Seq(S) /\ Len(SubSeq(p, 1, n)) = n
           /\ \A i \in 1 .. n : SubSeq(p, 1, n)[i] = p[i]
<1>1. Len(p) \in Nat
  OBVIOUS
<1>2. \A i \in 1 .. n : p[i] \in S
  <2>1. ASSUME NEW i \in 1 .. n PROVE i \in 1 .. Len(p)
    BY <1>1
  <2> QED BY <2>1
<1>3. /\ SubSeq(p, 1, n) \in Seq(S)
      /\ Len(SubSeq(p, 1, n)) = IF 1 <= n THEN n - 1 + 1 ELSE 0
      /\ \A i \in 1 .. n - 1 + 1 : SubSeq(p, 1, n)[i] = p[1 + i - 1]
  BY <1>2, PartOfSeq
<1>4. ASSUME NEW i \in 1 .. n PROVE SubSeq(p, 1, n)[i] = p[i]
  <2>1. i \in 1 .. n - 1 + 1 /\ 1 + i - 1 = i
    OBVIOUS
  <2> QED BY <1>3, <2>1
<1> QED BY <1>3, <1>4

LEMMA Joined ==
    ASSUME NEW S, NEW a \in Seq(S), NEW b \in Seq(S)
    PROVE  /\ a \o b \in Seq(S)
           /\ Len(a \o b) = Len(a) + Len(b)
           /\ \A i \in 1 .. Len(a) + Len(b) :
                  (a \o b)[i] = IF i <= Len(a) THEN a[i] ELSE b[i - Len(a)]
BY ConcatProperties, Zenon

LEMMA PrefixGrows ==
    ASSUME NEW p \in Seq(Bytes), NEW n \in Nat, NEW m \in Nat, m <= Len(p), n <= m,
           NEW c \in Seq(Bytes), Len(c) = m - n, \A i \in 1 .. Len(c) : c[i] = p[n + i]
    PROVE  SubSeq(p, 1, n) \o c = SubSeq(p, 1, m)
<1>1. Len(p) \in Nat /\ n <= Len(p)
  OBVIOUS
<1> DEFINE a == SubSeq(p, 1, n)
           b == SubSeq(p, 1, m)
<1>2. /\ a \in Seq(Bytes) /\ Len(a) = n /\ \A i \in 1 .. n : a[i] = p[i]
      /\ b \in Seq(Bytes) /\ Len(b) = m /\ \A i \in 1 .. m : b[i] = p[i]
  BY <1>1, PrefixSeq
<1> HIDE DEF a, b
<1>3. /\ a \o c \in Seq(Bytes) /\ Len(a \o c) = n + Len(c)
      /\ \A i \in 1 .. n + Len(c) : (a \o c)[i] = IF i <= n THEN a[i] ELSE c[i - n]
  <2>1. /\ a \o c \in Seq(Bytes) /\ Len(a \o c) = Len(a) + Len(c)
        /\ \A i \in 1 .. Len(a) + Len(c) :
              (a \o c)[i] = IF i <= Len(a) THEN a[i] ELSE c[i - Len(a)]
    BY <1>2, Joined, Zenon
  <2> QED BY <1>2, <2>1
<1>4. n + Len(c) = m
  OBVIOUS
<1>5. ASSUME NEW i \in 1 .. m PROVE (a \o c)[i] = b[i]
  <2>1. CASE i <= n
    <3>1. i \in 1 .. n
      BY <2>1
    <3> QED BY <1>2, <1>3, <1>4, <2>1, <3>1
  <2>2. CASE ~(i <= n)
    <3>1. i - n \in 1 .. Len(c) /\ n + (i - n) = i
      BY <2>2
    <3>2. c[i - n] = p[i]
      BY <3>1
    <3> QED BY <1>2, <1>3, <1>4, <2>2, <3>2
  <2> QED BY <2>1, <2>2
<1>6. a \o c = b
  BY <1>2, <1>3, <1>4, <1>5, SeqEqual
<1> QED BY <1>6 DEF a, b

(* The whole is a prefix.                                                  *)
LEMMA WholePrefix ==
    ASSUME NEW p \in Seq(Bytes) PROVE SubSeq(p, 1, Len(p)) = p
<1>1. Len(p) \in Nat /\ Len(p) <= Len(p)
  OBVIOUS
<1>2. /\ SubSeq(p, 1, Len(p)) \in Seq(Bytes) /\ Len(SubSeq(p, 1, Len(p))) = Len(p)
      /\ \A i \in 1 .. Len(p) : SubSeq(p, 1, Len(p))[i] = p[i]
  BY <1>1, PrefixSeq
<1> QED BY <1>2, SeqEqual

(* What a client sends next.                                               *)
LEMMA ChunkOfClient ==
    ASSUME NEW s \in Streams, client[s] \in ClientStates, client[s].sent < Len(client[s].data)
    PROVE  LET n == client[s].sent
               m == n + Len(Chunk(s))
           IN  /\ n \in 0 .. MaxLen /\ Chunk(s) \in Chunks(n) /\ Chunk(s) \in Seq(Bytes)
               /\ Len(Chunk(s)) \in Nat /\ m \in Nat /\ m <= Len(client[s].data)
<1> DEFINE p == client[s].data
           n == client[s].sent
           c == Chunk(s)
           m == PartEnd(p, n)
<1>1. p \in Digests /\ n \in Nat /\ n < Len(p)
  BY DEF ClientStates
<1>2. p \in Seq(Bytes) /\ Len(p) \in Nat /\ Len(p) <= MaxLen
  BY <1>1, DigestSeq
<1>3. c = Part(p, n)
  BY DEF Chunk, Part, PartEnd
<1> HIDE DEF p, n, c
<1>4. c \in Seq(Bytes) /\ Len(c) = m - n /\ m \in Nat /\ m <= Len(p) /\ m > n
  BY <1>1, <1>2, <1>3, NextPart
<1> HIDE DEF m
<1>5. n \in 0 .. MaxLen /\ MaxLen - n \in Nat /\ Len(c) <= MaxLen - n
  BY <1>1, <1>2, <1>4, BoundAssumption
<1>6. c \in Chunks(n)
  BY <1>4, <1>5, DataSeq DEF Chunks
<1>7. n + Len(c) = m /\ Len(c) \in Nat
  BY <1>1, <1>4
<1> QED BY <1>4, <1>5, <1>6, <1>7 DEF p, n, c

-----------------------------------------------------------------------------
(* What the operations leave of an upload.                                 *)
LEMMA SeekFields ==
    ASSUME NEW us \in UploadStates, NEW offset
    PROVE  /\ Seek(us, offset).state = us.state
           /\ Seek(us, offset).expected = us.expected
           /\ Seek(us, offset).file = us.file
           /\ Seek(us, offset).linked = us.linked
           /\ Seek(us, offset).closed = us.closed
           /\ us.torn = FALSE => Seek(us, offset).torn = FALSE
BY DEF Seek, UploadStates

LEMMA WrittenFields ==
    ASSUME NEW v \in UploadStates, NEW offset, NEW data
    PROVE  LET w == Written(v, offset, data) IN
           /\ w.state = v.state /\ w.expected = v.expected /\ w.torn = v.torn
           /\ w.linked = v.linked /\ w.closed = v.closed
           /\ w.file = WriteAt(v.file, v.pos, data)
           /\ w.hashed = v.hashed \o data /\ w.offset = offset + Len(data)
BY DEF Written, UploadStates

LEMMA TornFields ==
    ASSUME NEW v \in UploadStates, NEW part, NEW n
    PROVE  LET w == Torn(v, part, n) IN
           /\ w.state = v.state /\ w.expected = v.expected
           /\ w.linked = v.linked /\ w.closed = v.closed
BY DEF Torn, UploadStates

(* An upload that is begun.                                                *)
Begun(expected) ==
    [NoUpload EXCEPT !.state = "open", !.linked = TRUE, !.expected = expected]

LEMMA BegunFields ==
    ASSUME NEW expected
    PROVE  LET w == Begun(expected) IN
           /\ w.state = "open" /\ w.expected = expected /\ w.linked = TRUE /\ w.closed = FALSE
           /\ w.torn = FALSE /\ w.file = << >> /\ w.offset = 0
BY DEF Begun, NoUpload

-----------------------------------------------------------------------------
(* The invariant of the clients.                                           *)

(* A step of one stream keeps it if it keeps what uploads are for.         *)
LEMMA OneSession ==
    ASSUME ClientsInv, StreamsInv, NEW s \in Streams, NEW a, NEW b,
           streams' = [streams EXCEPT ![s] = a], client' = [client EXCEPT ![s] = b],
           b \in ClientStates \cup {NotPulling}, Session(b, a, uploads'),
           \A r \in Refs : uploads[r].state # "none" => uploads'[r].state # "none",
           \A r \in Refs : RefUse(uploads'[r], r)
    PROVE  ClientsInv'
<1>1. client' \in [Streams -> ClientStates \cup {NotPulling}]
  BY DEF ClientsInv
<1>2. ASSUME NEW t \in Streams PROVE Session(client'[t], streams'[t], uploads')
  <2>1. CASE t = s
    <3>1. client'[t] = b /\ streams'[t] = a
      BY <2>1 DEF ClientsInv, StreamsInv
    <3> QED BY <3>1
  <2>2. CASE t # s
    <3>1. client'[t] = client[t] /\ streams'[t] = streams[t]
      BY <2>2 DEF ClientsInv, StreamsInv
    <3>2. Session(client[t], streams[t], uploads)
      BY DEF ClientsInv
    <3>3. client[t] \in ClientStates => RefOf[client[t].payload] \in Refs
      BY RefAssumption DEF ClientStates
    <3> QED BY <3>1, <3>2, <3>3 DEF Session
  <2> QED BY <2>1, <2>2
<1> QED BY <1>1, <1>2 DEF ClientsInv

(* The stream of a client ends, and the client with it.                    *)
LEMMA SessionEnds ==
    ASSUME ClientsInv, StreamsInv, NEW s \in Streams, EndStream(s),
           client' = [client EXCEPT ![s] = NotPulling],
           \A r \in Refs : uploads[r].state # "none" => uploads'[r].state # "none",
           \A r \in Refs : RefUse(uploads'[r], r)
    PROVE  ClientsInv'
<1>1. Session(NotPulling, FreshStream, uploads')
  BY DEF Session
<1>2. streams' = [streams EXCEPT ![s] = FreshStream]
  BY DEF EndStream
<1>3. NotPulling \in ClientStates \cup {NotPulling}
  OBVIOUS
<1> QED BY <1>1, <1>2, <1>3, OneSession

(* Ends(s): the daemon ended the stream of s in this step.                 *)
LEMMA EndedGoes ==
    ASSUME StreamsInv, NEW s \in Streams, EndStream(s), NEW next, Goes(s, next)
    PROVE  client' = [client EXCEPT ![s] = NotPulling]
<1>1. streams'[s] = FreshStream
  BY DEF EndStream, StreamsInv
<1> QED BY <1>1 DEF Goes, Ended

LEMMA OpenGoes ==
    ASSUME StreamsInv, NEW s \in Streams, NEW a, a.ref # None,
           streams' = [streams EXCEPT ![s] = a], NEW next, Goes(s, next)
    PROVE  client' = [client EXCEPT ![s] = next]
<1>1. streams'[s] = a
  BY DEF StreamsInv
<1>2. streams'[s] # FreshStream
  BY <1>1 DEF FreshStream
<1> QED BY <1>2 DEF Goes, Ended

(* What the session of a client that has begun says.                       *)
LEMMA SessionOf ==
    ASSUME ClientsInv, NEW s \in Streams, client[s] # NotPulling
    PROVE  /\ client[s] \in ClientStates /\ client[s].sent <= Len(client[s].data)
           /\ client[s].payload \in Payloads /\ client[s].sent \in Nat
           /\ client[s].data \in Downloads[client[s].payload] /\ client[s].data \in Digests
           /\ RefOf[client[s].payload] \in Refs
           /\ streams[s].ref = RefOf[client[s].payload] /\ streams[s].step = "recv"
           /\ streams[s].ref # None
           /\ uploads[RefOf[client[s].payload]].state # "none"
           /\ uploads[RefOf[client[s].payload]].expected = client[s].payload
<1>1. /\ client[s] \in ClientStates /\ client[s].sent <= Len(client[s].data)
      /\ client[s].data \in Downloads[client[s].payload]
      /\ streams[s].ref = RefOf[client[s].payload] /\ streams[s].step = "recv"
      /\ uploads[RefOf[client[s].payload]].state # "none"
  BY DEF ClientsInv, Session
<1>2. client[s].payload \in Payloads /\ client[s].sent \in Nat /\ client[s].data \in Digests
  BY <1>1 DEF ClientStates
<1>3. RefOf[client[s].payload] \in Refs /\ RefOf[client[s].payload] # None
  BY <1>2, PayloadIsBlob
<1>4. \E p \in Payloads : RefOf[client[s].payload] = RefOf[p]
                          /\ uploads[RefOf[client[s].payload]].expected = p
  BY <1>1, <1>3 DEF ClientsInv, RefUse
<1> QED BY <1>1, <1>2, <1>3, <1>4, RefAssumption

LEMMA Pulling ==
    ASSUME NEW s, client[s].step \in {"stat", "write"} PROVE client[s] # NotPulling
BY DEF NotPulling

(* An upload of ref becomes v, for the same digest.                        *)
LEMMA SameUse ==
    ASSUME ClientsInv, UploadsInv, NEW ref \in Refs, NEW v,
           uploads' = [uploads EXCEPT ![ref] = v],
           uploads[ref].state # "none", v.state # "none", v.expected = uploads[ref].expected
    PROVE  /\ \A r \in Refs : uploads[r].state # "none" => uploads'[r].state # "none"
           /\ \A r \in Refs : RefUse(uploads'[r], r)
<1>1. uploads'[ref] = v /\ \A r \in Refs \ {ref} : uploads'[r] = uploads[r]
  BY DEF UploadsInv
<1>2. \A r \in Refs : RefUse(uploads[r], r)
  BY DEF ClientsInv
<1>3. RefUse(v, ref)
  BY <1>2 DEF RefUse
<1>4. ASSUME NEW r \in Refs PROVE RefUse(uploads'[r], r)
  BY <1>1, <1>2, <1>3
<1> QED BY <1>1, <1>4

LEMMA SendStatInv ==
    ASSUME PullsInv, NEW s \in Streams, NEW p \in Payloads, NEW data \in Downloads[p],
           SendStat(s, p, data)
    PROVE  PullsInv'
<1> DEFINE ref == RefOf[p]
           a == [streams[s] EXCEPT !.ref = ref]
           b == [step |-> "stat", payload |-> p, data |-> data, sent |-> 0]
<1>1. StoreInv /\ StreamsInv /\ UploadsInv /\ ClientsInv
  BY DEF PullsInv, StoreInv
<1>2. ref \in Refs /\ ref # None /\ p \in Digests
  BY PayloadIsBlob
<1>3. Attach(s, ref, p) /\ Goes(s, b) /\ client[s] = NotPulling
  BY DEF SendStat
<1>4. StoreInv'
  BY <1>1, <1>2, <1>3, BeginInv
<1>5. CASE EndStream(s) /\ uploads' = uploads
  <2>1. client' = [client EXCEPT ![s] = NotPulling]
    BY <1>1, <1>3, <1>5, EndedGoes
  <2> QED BY <1>1, <1>4, <1>5, <2>1, SessionEnds DEF ClientsInv, PullsInv
<1>6. CASE BeginUpload(ref, p) /\ streams' = [streams EXCEPT ![s].ref = ref]
  <2>1. streams' = [streams EXCEPT ![s] = a]
    BY <1>6
  <2>2. streams[s] = FreshStream
    BY <1>1, <1>3 DEF ClientsInv, Session, NotPulling, ClientStates
  <2>3. a.ref = ref /\ a.step = "recv"
    BY <2>2 DEF FreshStream
  <2>4. client' = [client EXCEPT ![s] = b]
    BY <1>1, <1>2, <1>3, <2>1, <2>3, OpenGoes
  <2>5. b \in ClientStates /\ b.sent <= Len(b.data) /\ b.payload = p /\ b.data = data
    <3>1. data \in Digests
      BY DownloadAssumption
    <3>2. b.sent = 0 /\ b.payload = p /\ b.data = data /\ Len(data) \in Nat
      BY <3>1, DigestSeq
    <3>3. b \in ClientStates
      BY <3>1 DEF ClientStates
    <3> QED BY <3>2, <3>3
  <2>6. /\ uploads'[ref].state # "none"
        /\ \A r \in Refs : uploads[r].state # "none" => uploads'[r].state # "none"
        /\ \A r \in Refs : RefUse(uploads'[r], r)
    <3>1. CASE uploads[ref].state = "none"
      <4>1. uploads' = [uploads EXCEPT ![ref] = Begun(p)]
        BY <1>6, <3>1 DEF BeginUpload, Begun
      <4>2. uploads'[ref] = Begun(p) /\ \A r \in Refs \ {ref} : uploads'[r] = uploads[r]
        BY <1>1, <1>2, <4>1 DEF UploadsInv
      <4>3. Begun(p).state = "open" /\ Begun(p).expected = p
        BY BegunFields
      <4>4. RefUse(Begun(p), ref)
        BY <4>3 DEF RefUse
      <4> QED BY <1>1, <1>2, <3>1, <4>2, <4>3, <4>4 DEF ClientsInv
    <3>2. CASE uploads[ref].state # "none"
      <4>1. uploads' = uploads
        BY <1>6, <3>2 DEF BeginUpload
      <4> QED BY <1>1, <3>2, <4>1 DEF ClientsInv
    <3> QED BY <3>1, <3>2
  <2>7. Session(b, a, uploads')
    BY <2>3, <2>5, <2>6 DEF Session
  <2> HIDE DEF a, b
  <2>8. ClientsInv'
    BY <1>1, <2>1, <2>4, <2>5, <2>6, <2>7, OneSession
  <2> QED BY <1>4, <2>8 DEF PullsInv
<1> QED BY <1>3, <1>5, <1>6 DEF Attach

LEMMA RecvStatInv ==
    ASSUME PullsInv, NEW s \in Streams, RecvStat(s)
    PROVE  PullsInv' /\ uploads' = uploads
<1> DEFINE c == client[s]
           ref == RefOf[c.payload]
           a == [streams[s] EXCEPT !.ref = ref]
           b == [c EXCEPT !.step = "write"]
<1>1. StoreInv /\ StreamsInv /\ UploadsInv /\ ClientsInv
  BY DEF PullsInv, StoreInv
<1>2. Stat(s, ref, c.payload) /\ Goes(s, b) /\ c # NotPulling
  BY Pulling DEF RecvStat
<1>3. /\ c \in ClientStates /\ c.sent <= Len(c.data) /\ c.payload \in Payloads
      /\ c.data \in Downloads[c.payload]
      /\ ref \in Refs /\ ref # None /\ streams[s].step = "recv" /\ uploads[ref].state # "none"
  BY <1>1, <1>2, SessionOf
<1>4. c.payload \in Digests
  BY <1>3, PayloadIsBlob
<1>5. StoreInv'
  BY <1>1, <1>2, <1>3, <1>4, BeginInv
<1>6. uploads' = uploads
  BY <1>2, <1>3 DEF Stat, BeginUpload
<1>7. CASE EndStream(s)
  <2>1. client' = [client EXCEPT ![s] = NotPulling]
    BY <1>1, <1>2, <1>7, EndedGoes
  <2> QED BY <1>1, <1>5, <1>6, <1>7, <2>1, SessionEnds DEF ClientsInv, PullsInv
<1>8. CASE streams' = [streams EXCEPT ![s].ref = ref]
  <2>1. streams' = [streams EXCEPT ![s] = a]
    BY <1>8
  <2>2. a.ref = ref /\ a.step = "recv"
    BY <1>1, <1>3 DEF StreamsInv, StreamStates
  <2>3. client' = [client EXCEPT ![s] = b]
    BY <1>1, <1>2, <1>3, <2>1, <2>2, OpenGoes
  <2>4. b \in ClientStates /\ b.sent = c.sent /\ b.payload = c.payload /\ b.data = c.data
    BY <1>3 DEF ClientStates
  <2> HIDE DEF a, b
  <2>5. Session(b, a, uploads')
    BY <1>3, <1>6, <2>2, <2>4 DEF Session
  <2>6. ClientsInv'
    BY <1>1, <1>6, <2>1, <2>3, <2>4, <2>5, OneSession DEF ClientsInv
  <2> QED BY <1>5, <1>6, <2>6 DEF PullsInv
<1> QED BY <1>2, <1>7, <1>8 DEF Stat

LEMMA SendWriteInv ==
    ASSUME PullsInv, NEW s \in Streams, SendWrite(s)
    PROVE  PullsInv'
<1> DEFINE c == client[s]
           ref == RefOf[c.payload]
           a == [streams[s] EXCEPT !.uploaded = TRUE]
           n == Len(Chunk(s))
           b == [c EXCEPT !.sent = @ + n]
           v == Seek(uploads[ref], c.sent)
           w == Written(v, c.sent, Chunk(s))
<1>1. StoreInv /\ StreamsInv /\ UploadsInv /\ ClientsInv
  BY DEF PullsInv, StoreInv
<1>2. /\ c.sent < Len(c.data) /\ Fits(s, c.sent, Chunk(s)) /\ Write(s, c.sent, Chunk(s))
      /\ Goes(s, b) /\ c # NotPulling
  BY Pulling DEF SendWrite
<1>3. /\ c \in ClientStates /\ c.payload \in Payloads /\ c.sent \in Nat
      /\ c.data \in Downloads[c.payload]
      /\ ref \in Refs /\ ref # None /\ streams[s].ref = ref /\ streams[s].step = "recv"
      /\ uploads[ref].state # "none"
  BY <1>1, <1>2, SessionOf
<1>4. /\ c.sent \in 0 .. MaxLen /\ Chunk(s) \in Chunks(c.sent)
      /\ n \in Nat /\ c.sent + n \in Nat /\ c.sent + n <= Len(c.data)
  BY <1>2, <1>3, ChunkOfClient
<1>5. StoreInv'
  BY <1>1, <1>2, <1>4, WriteInv
<1>6. CASE EndStream(s) /\ uploads' = uploads
  <2>1. client' = [client EXCEPT ![s] = NotPulling]
    BY <1>1, <1>2, <1>6, EndedGoes
  <2> QED BY <1>1, <1>5, <1>6, <2>1, SessionEnds DEF ClientsInv, PullsInv
<1>7. CASE WriteUpload(ref, c.sent, Chunk(s)) /\ streams' = [streams EXCEPT ![s].uploaded = TRUE]
  <2>1. streams' = [streams EXCEPT ![s] = a]
    BY <1>7
  <2>2. a.ref = ref /\ a.step = "recv"
    BY <1>1, <1>3 DEF StreamsInv, StreamStates
  <2>3. client' = [client EXCEPT ![s] = b]
    BY <1>1, <1>2, <1>3, <2>1, <2>2, OpenGoes
  <2>4. b \in ClientStates /\ b.sent = c.sent + n /\ b.payload = c.payload /\ b.data = c.data
    BY <1>3, <1>4 DEF ClientStates
  <2> HIDE DEF a, b
  <2>5. uploads' = [uploads EXCEPT ![ref] = w]
    BY <1>7 DEF WriteUpload, Written
  <2>6. w.state = uploads[ref].state /\ w.expected = uploads[ref].expected
    <3>1. uploads[ref] \in UploadStates /\ UploadOK(uploads[ref])
      BY <1>1, <1>3 DEF UploadsInv
    <3>2. v.state = uploads[ref].state /\ v.expected = uploads[ref].expected
      BY <3>1, SeekFields
    <3>3. c.sent <= MaxLen
      BY <1>4, BoundAssumption
    <3>4. v \in UploadStates
      BY <1>3, <3>1, <3>3, SeekKeeps DEF Sought
    <3> QED BY <3>2, <3>4, WrittenFields
  <2> HIDE DEF w, v
  <2>7. /\ \A r \in Refs : uploads[r].state # "none" => uploads'[r].state # "none"
        /\ \A r \in Refs : RefUse(uploads'[r], r)
    BY <1>1, <1>3, <2>5, <2>6, SameUse
  <2>8. Session(b, a, uploads')
    BY <1>3, <1>4, <2>2, <2>4, <2>7 DEF Session
  <2>9. ClientsInv'
    BY <1>1, <2>1, <2>3, <2>4, <2>7, <2>8, OneSession
  <2> QED BY <1>5, <2>9 DEF PullsInv
<1> QED BY <1>2, <1>3, <1>6, <1>7 DEF Write

LEMMA SendWriteFailsInv ==
    ASSUME PullsInv, NEW s \in Streams, SendWriteFails(s)
    PROVE  PullsInv'
<1> DEFINE c == client[s]
           ref == RefOf[c.payload]
           v == Seek(uploads[ref], c.sent)
<1>1. StoreInv /\ StreamsInv /\ UploadsInv /\ ClientsInv
  BY DEF PullsInv, StoreInv
<1>2. /\ c.sent < Len(c.data) /\ Fits(s, c.sent, Chunk(s)) /\ WriteFails(s, c.sent, Chunk(s))
      /\ client' = [client EXCEPT ![s] = NotPulling] /\ c # NotPulling
  BY Pulling DEF SendWriteFails
<1>3. /\ c \in ClientStates /\ c.payload \in Payloads /\ c.sent \in Nat
      /\ ref \in Refs /\ streams[s].ref = ref /\ uploads[ref].state # "none"
  BY <1>1, <1>2, SessionOf
<1>4. c.sent \in 0 .. MaxLen /\ Chunk(s) \in Chunks(c.sent)
  BY <1>2, <1>3, ChunkOfClient
<1>5. StoreInv'
  BY <1>1, <1>2, <1>4, WriteFailsInv
<1>6. PICK n \in 0 .. Len(Chunk(s)) - 1 : WriteUploadShort(ref, c.sent, Chunk(s), n)
  BY <1>2, <1>3 DEF WriteFails
<1> DEFINE w == Torn(v, SubSeq(Chunk(s), 1, n), n)
<1>7. uploads' = [uploads EXCEPT ![ref] = w]
  BY <1>6 DEF WriteUploadShort, Torn
<1>8. w.state = uploads[ref].state /\ w.expected = uploads[ref].expected
  <2>1. uploads[ref] \in UploadStates /\ UploadOK(uploads[ref])
    BY <1>1, <1>3 DEF UploadsInv
  <2>2. v.state = uploads[ref].state /\ v.expected = uploads[ref].expected
    BY <2>1, SeekFields
  <2>3. c.sent <= MaxLen
    BY <1>4, BoundAssumption
  <2>4. v \in UploadStates
    BY <1>3, <2>1, <2>3, SeekKeeps DEF Sought
  <2> QED BY <2>2, <2>4, TornFields
<1> HIDE DEF w, v
<1>9. /\ \A r \in Refs : uploads[r].state # "none" => uploads'[r].state # "none"
      /\ \A r \in Refs : RefUse(uploads'[r], r)
  BY <1>1, <1>3, <1>7, <1>8, SameUse
<1>10. EndStream(s)
  BY <1>2 DEF WriteFails
<1>11. ClientsInv'
  BY <1>1, <1>2, <1>9, <1>10, SessionEnds
<1> QED BY <1>5, <1>11 DEF PullsInv

(* CommitUpload changes flags of the upload.                               *)
LEMMA CommittedFields ==
    ASSUME UploadsInv, NEW ref \in Refs, NEW total, CommitUpload(ref, total),
           uploads[ref].state # "none"
    PROVE  \E w \in UploadStates :
               /\ uploads' = [uploads EXCEPT ![ref] = w]
               /\ w.state # "none" /\ w.expected = uploads[ref].expected
               /\ w.file = uploads[ref].file /\ w.torn = uploads[ref].torn
               /\ w.offset = uploads[ref].offset
<1> DEFINE us == uploads[ref]
<1>1. us \in UploadStates /\ uploads \in [Refs -> UploadStates]
  BY DEF UploadsInv
<1>2. CASE CommitRejected(ref, total)
  <2> DEFINE w == [us EXCEPT !.linked = FALSE]
  <2>1. uploads' = [uploads EXCEPT ![ref] = w]
    BY <1>2 DEF CommitRejected
  <2>2. /\ w \in UploadStates /\ w.state = us.state /\ w.expected = us.expected
        /\ w.file = us.file /\ w.torn = us.torn /\ w.offset = us.offset
    BY <1>1 DEF UploadStates
  <2> QED BY <2>1, <2>2
<1>3. CASE CommitFailed(ref, total)
  <2>1. PICK closed \in BOOLEAN : uploads' = [uploads EXCEPT ![ref].closed = closed]
    <3>1. us.closed \in BOOLEAN
      BY <1>1 DEF UploadStates
    <3> QED BY <1>3, <3>1 DEF CommitFailed
  <2> DEFINE w == [us EXCEPT !.closed = closed]
  <2>2. uploads' = [uploads EXCEPT ![ref] = w]
    BY <2>1
  <2>3. w \in UploadStates
    BY <1>1, Zenon DEF UploadStates
  <2>4. /\ w.state = us.state /\ w.expected = us.expected
        /\ w.file = us.file /\ w.torn = us.torn /\ w.offset = us.offset
    BY <1>1 DEF UploadStates
  <2> QED BY <2>2, <2>3, <2>4
<1>4. CASE CommitStored(ref, total)
  <2> DEFINE w == [us EXCEPT !.state = "committed", !.closed = TRUE, !.linked = FALSE]
  <2>1. uploads' = [uploads EXCEPT ![ref] = w]
    BY <1>1, <1>4 DEF CommitStored
  <2>2. w \in UploadStates
    BY <1>1, Zenon DEF UploadStates
  <2>3. /\ w.state = "committed" /\ w.expected = us.expected
        /\ w.file = us.file /\ w.torn = us.torn /\ w.offset = us.offset
    BY <1>1 DEF UploadStates
  <2> QED BY <2>1, <2>2, <2>3
<1> QED BY <1>2, <1>3, <1>4 DEF CommitUpload

LEMMA SendCommitInv ==
    ASSUME PullsInv, NEW s \in Streams, SendCommit(s)
    PROVE  PullsInv'
<1> DEFINE c == client[s]
           ref == RefOf[c.payload]
<1>1. StoreInv /\ StreamsInv /\ UploadsInv /\ ClientsInv
  BY DEF PullsInv, StoreInv
<1>2. /\ Commit(s, Len(c.data)) /\ client' = [client EXCEPT ![s] = NotPulling]
      /\ c # NotPulling
  BY Pulling DEF SendCommit
<1>3. /\ c.data \in Digests /\ ref \in Refs /\ streams[s].ref = ref
      /\ uploads[ref].state # "none"
  BY <1>1, <1>2, SessionOf
<1>4. Len(c.data) \in 0 .. MaxLen
  BY <1>3, DigestSeq
<1>5. StoreInv'
  BY <1>1, <1>2, <1>4, CommitInv
<1>6. CommitUpload(ref, Len(c.data)) /\ EndStream(s)
  BY <1>2, <1>3 DEF Commit
<1>7. PICK w \in UploadStates :
          /\ uploads' = [uploads EXCEPT ![ref] = w]
          /\ w.state # "none" /\ w.expected = uploads[ref].expected
  BY <1>1, <1>3, <1>6, CommittedFields
<1>8. /\ \A r \in Refs : uploads[r].state # "none" => uploads'[r].state # "none"
      /\ \A r \in Refs : RefUse(uploads'[r], r)
  BY <1>1, <1>3, <1>7, SameUse
<1>9. ClientsInv'
  BY <1>1, <1>2, <1>6, <1>8, SessionEnds
<1> QED BY <1>5, <1>9 DEF PullsInv

LEMMA InterruptedInv ==
    ASSUME PullsInv, NEW s \in Streams, Interrupted(s)
    PROVE  PullsInv'
<1>1. StoreInv /\ StreamsInv /\ ClientsInv
  BY DEF PullsInv, StoreInv
<1>2. Close(s) /\ client' = [client EXCEPT ![s] = NotPulling]
  BY DEF Interrupted
<1>3. StoreInv'
  BY <1>1, <1>2, CloseInv
<1>4. EndStream(s) /\ uploads' = uploads
  BY <1>2 DEF Close
<1>5. ClientsInv'
  BY <1>1, <1>2, <1>4, SessionEnds DEF ClientsInv
<1> QED BY <1>3, <1>5 DEF PullsInv

LEMMA DaemonRestartInv ==
    ASSUME PullsInv, DaemonRestart
    PROVE  PullsInv'
<1>1. StoreInv /\ Restart /\ client' = [s \in Streams |-> NotPulling]
  BY DEF PullsInv, DaemonRestart
<1>2. StoreInv'
  BY <1>1, RestartInv
<1>3. uploads' = [r \in Refs |-> NoUpload] /\ streams' = [s \in Streams |-> FreshStream]
  BY <1>1 DEF Restart
<1>4. client' \in [Streams -> ClientStates \cup {NotPulling}]
  BY <1>1
<1>5. \A s \in Streams : Session(client'[s], streams'[s], uploads')
  BY <1>1, <1>3 DEF Session
<1>6. \A r \in Refs : RefUse(uploads'[r], r)
  BY <1>3 DEF RefUse, NoUpload
<1> QED BY <1>2, <1>4, <1>5, <1>6 DEF PullsInv, ClientsInv

(* Steps of readers and removals leave uploads, streams and clients.       *)
LEMMA ClientsStay ==
    ASSUME ClientsInv, UNCHANGED <<uploads, streams, client>> PROVE ClientsInv'
BY DEF ClientsInv

LEMMA StoreStays ==
    ASSUME StoreInv, UNCHANGED <<uploads, blobs, disk, streams>> PROVE StoreInv'
BY UploadsStay, BlobsStay DEF StoreInv, StreamsInv

(* Reads do not change the store.                                          *)
ReaderStep ==
    \E rd \in Readers :
        \/ \E d \in Payloads : OpenLookup(rd, d)
        \/ OpenFile(rd) \/ ReadChunk(rd) \/ ReadBreaksOff(rd)

LEMMA ReadersOnlyRead ==
    ASSUME ReaderStep PROVE UNCHANGED <<uploads, blobs, disk, streams, client>>
BY Zenon DEF ReaderStep, OpenLookup, OpenFile, ReadChunk, ReadBreaksOff, ReadGoes

LEMMA PullsStep ==
    ASSUME PullsInv, [PullNext]_pullVars
    PROVE  PullsInv'
<1>1. StoreInv /\ ClientsInv
  BY DEF PullsInv
<1>2. ASSUME NEW s \in Streams, ClientStep(s) PROVE PullsInv'
  BY <1>2, SendStatInv, RecvStatInv, SendWriteInv, SendWriteFailsInv, SendCommitInv,
     InterruptedInv DEF ClientStep
<1>3. ASSUME NEW key \in BlobKey, RemoveBlob(key) PROVE PullsInv'
  <2>1. Delete(key) /\ client' = client /\ uploads' = uploads /\ streams' = streams
    BY <1>3 DEF RemoveBlob, Delete
  <2> QED BY <1>1, <2>1, DeleteInv, ClientsStay DEF PullsInv
<1>4. CASE DaemonRestart
  BY <1>4, DaemonRestartInv
<1>5. CASE ReaderStep
  BY <1>1, <1>5, ReadersOnlyRead, ClientsStay, StoreStays DEF PullsInv
<1>6. CASE UNCHANGED pullVars
  BY <1>1, <1>6, ClientsStay, StoreStays DEF PullsInv, pullVars
<1> QED BY <1>2, <1>3, <1>4, <1>5, <1>6 DEF PullNext, ReaderStep

LEMMA PullsInit == PullInit => PullsInv
<1> SUFFICES ASSUME PullInit PROVE PullsInv
  OBVIOUS
<1>1. StoreInv
  BY StoreInit DEF PullInit
<1>2. /\ uploads = [r \in Refs |-> NoUpload] /\ streams = [s \in Streams |-> FreshStream]
      /\ client = [s \in Streams |-> NotPulling]
  BY DEF PullInit, Init
<1>3. \A r \in Refs : RefUse(uploads[r], r)
  BY <1>2 DEF RefUse, NoUpload
<1>4. \A s \in Streams : Session(client[s], streams[s], uploads)
  BY <1>2 DEF Session
<1> QED BY <1>1, <1>2, <1>3, <1>4 DEF PullsInv, ClientsInv

(* The clients of this repository, whatever they share and whatever fails: *)
(* a stream stays on the ref of its blob, and an upload expects the digest *)
(* that its ref is made of.                                                *)
THEOREM PullsInvariant == PullSpec => []PullsInv
<1>1. PullsInv /\ [PullNext]_pullVars => PullsInv'
  BY PullsStep
<1> QED BY <1>1, PullsInit, PTL DEF PullSpec

(* The store under the clients of this repository: the hasher follows the  *)
(* ingest file, unless a write failed half way since the last seek, and    *)
(* every entry that a commit made has its file, also while uploads share a *)
(* ref, are interrupted and repeated, commits fail and the daemon restarts.*)
(* It says nothing of the entries that the scan at startup makes.          *)
THEOREM StoreCorrectUnderPulls == PullSpec => [](HasherFollowsFile /\ EntriesHaveFiles)
<1>1. PullsInv => HasherFollowsFile /\ EntriesHaveFiles
  BY InvGivesHasher DEF PullsInv, StoreInv, BlobsInv
<1> QED BY <1>1, PullsInvariant, PTL

-----------------------------------------------------------------------------
(* Writes that do not fail half way: what is under a digest is its blob.   *)
LEMMA WrittenLen ==
    ASSUME NEW file \in Files, NEW pos \in Nat, NEW data \in Seq(Bytes), NEW n \in Nat,
           Len(file) <= n, pos + Len(data) <= n, n <= MaxFile
    PROVE  Len(WriteAt(file, pos, data)) <= n
<1>1. pos + Len(data) <= MaxFile
  BY BoundAssumption
<1> QED BY <1>1, WrittenFile

LEMMA OneShortFile ==
    ASSUME UploadsInv, ShortFiles, NEW p \in Payloads, NEW v,
           uploads' = [uploads EXCEPT ![RefOf[p]] = v], Short(v, p)
    PROVE  ShortFiles'
<1>1. RefOf[p] \in Refs /\ \A q \in Payloads : RefOf[q] \in Refs
  BY PayloadIsBlob
<1>2. /\ uploads'[RefOf[p]] = v
      /\ \A r \in Refs \ {RefOf[p]} : uploads'[r] = uploads[r]
  BY <1>1 DEF UploadsInv
<1>3. ASSUME NEW q \in Payloads PROVE Short(uploads'[RefOf[q]], q)
  <2>1. CASE q = p
    BY <1>2, <2>1
  <2>2. CASE q # p
    <3>1. RefOf[q] # RefOf[p]
      BY <2>2, RefAssumption
    <3>2. uploads'[RefOf[q]] = uploads[RefOf[q]]
      BY <1>1, <1>2, <3>1
    <3> QED BY <3>2 DEF ShortFiles
  <2> QED BY <2>1, <2>2
<1> QED BY <1>3 DEF ShortFiles

LEMMA SendStatFiles ==
    ASSUME PullsInv, ShortFiles, NEW s \in Streams, NEW p \in Payloads, NEW data,
           SendStat(s, p, data)
    PROVE  ShortFiles'
<1>1. UploadsInv
  BY DEF PullsInv, StoreInv
<1>2. uploads' = uploads \/ BeginUpload(RefOf[p], p)
  BY DEF SendStat, Attach
<1>3. uploads' = uploads \/ uploads' = [uploads EXCEPT ![RefOf[p]] = Begun(p)]
  BY <1>2 DEF BeginUpload, Begun
<1>4. Begun(p).torn = FALSE /\ Begun(p).file = << >> /\ Begun(p).offset = 0
  BY BegunFields
<1>5. Len(<< >>) <= Len(p) /\ 0 <= Len(p)
  BY PayloadIsBlob
<1>6. CASE uploads' = uploads
  BY <1>6 DEF ShortFiles
<1>7. CASE uploads' = [uploads EXCEPT ![RefOf[p]] = Begun(p)]
  BY <1>1, <1>4, <1>5, <1>7, OneShortFile DEF Short
<1> QED BY <1>3, <1>6, <1>7

LEMMA SendWriteFiles ==
    ASSUME NoLonger, PullsInv, ShortFiles, NEW s \in Streams, SendWrite(s)
    PROVE  ShortFiles'
<1> DEFINE c == client[s]
           p == c.payload
           ref == RefOf[p]
           us == uploads[ref]
           v == Seek(us, c.sent)
           n == Len(Chunk(s))
<1>1. UploadsInv /\ ClientsInv
  BY DEF PullsInv, StoreInv
<1>2. /\ c.sent < Len(c.data) /\ Write(s, c.sent, Chunk(s)) /\ c # NotPulling
  BY Pulling DEF SendWrite
<1>3. /\ c \in ClientStates /\ p \in Payloads /\ c.sent \in Nat /\ c.data \in Digests
      /\ ref \in Refs /\ streams[s].ref = ref /\ c.data \in Downloads[p]
  BY <1>1, <1>2, SessionOf
<1>4. /\ c.sent \in 0 .. MaxLen /\ Chunk(s) \in Seq(Bytes) /\ n \in Nat
      /\ c.sent + n <= Len(p)
  <2>1. /\ c.sent \in 0 .. MaxLen /\ Chunk(s) \in Seq(Bytes) /\ n \in Nat
        /\ c.sent + n <= Len(c.data)
    BY <1>2, <1>3, ChunkOfClient
  <2>2. Len(c.data) <= Len(p)
    BY <1>3 DEF NoLonger
  <2>3. Len(c.data) \in Nat /\ Len(p) \in Nat
    BY <1>3, DigestSeq, PayloadIsBlob
  <2> QED BY <1>3, <2>1, <2>2, <2>3
<1>5. us \in UploadStates /\ UploadOK(us) /\ us.torn = FALSE /\ Len(us.file) <= Len(p)
  BY <1>1, <1>3 DEF UploadsInv, ShortFiles, Short
<1>6. Sought(v, c.sent)
  <2>1. c.sent <= MaxLen
    BY <1>4, BoundAssumption
  <2> QED BY <1>3, <1>5, <2>1, SeekKeeps
<1>7. v.file = us.file /\ v.torn = FALSE
  BY <1>5, SeekFields
<1>8. uploads' = uploads \/ WriteUpload(ref, c.sent, Chunk(s))
  BY <1>2, <1>3 DEF Write
<1>9. CASE uploads' = uploads
  BY <1>9 DEF ShortFiles
<1>10. CASE WriteUpload(ref, c.sent, Chunk(s))
  <2>1. PICK o, data : o = c.sent /\ data = Chunk(s)
    OBVIOUS
  <2> DEFINE w == Written(v, o, data)
  <2>2. uploads' = [uploads EXCEPT ![ref] = w]
    BY <1>10, <2>1 DEF WriteUpload, Written
  <2> HIDE DEF v
  <2>3. v \in UploadStates /\ v.pos = o /\ o \in Nat
    BY <1>3, <1>6, <1>7, <2>1 DEF Sought
  <2>4. w.torn = v.torn /\ w.file = WriteAt(v.file, v.pos, data) /\ w.offset = o + Len(data)
    BY <2>3, WrittenFields
  <2> HIDE DEF w
  <2>5. Len(p) \in Nat /\ Len(p) <= MaxFile
    BY <1>3, PayloadIsBlob, BoundAssumption
  <2>6. us.file \in Files
    BY <1>5, UploadFields
  <2>7. data \in Seq(Bytes) /\ o + Len(data) <= Len(p)
    BY <1>4, <2>1
  <2>8. PICK f, m : f = us.file /\ m = Len(p)
    OBVIOUS
  <2>9. Len(WriteAt(f, o, data)) <= m
    BY <1>5, <2>3, <2>5, <2>6, <2>7, <2>8, WrittenLen
  <2>10. Short(w, p)
    BY <1>7, <2>3, <2>4, <2>7, <2>8, <2>9 DEF Short
  <2> QED BY <1>1, <1>3, <2>2, <2>10, OneShortFile
<1> QED BY <1>8, <1>9, <1>10

(* What a step may do to the files and entries of blobs: nothing, store a  *)
(* blob under its digest with its entry, or remove both.                   *)
BlobChange(d, f) ==
    /\ disk' = [disk EXCEPT ![d] = f]
    /\ (blobs'[Key(d)] # NoBlob) = (f # NoFile)
    /\ \A e \in Digests \ {d} : blobs'[Key(e)] = blobs[Key(e)]

NoBlobChange ==
    /\ disk' = disk
    /\ \A e \in Digests : blobs'[Key(e)] = blobs[Key(e)]

LEMMA DigestIsNoFile ==
    ASSUME NEW d \in Digests PROVE d # NoFile
<1>1. d \in Files
  <2>1. d \in Seq(Bytes) /\ Len(d) <= MaxLen /\ Len(d) \in Nat
    BY DigestSeq
  <2>2. d \in Seq(FileBytes) /\ Len(d) <= MaxFile
    BY <2>1, BoundAssumption DEF FileBytes
  <2> QED BY <2>2, FileSeq
<1> QED BY <1>1, FileIsFile DEF NoFile

LEMMA KeyOf ==
    ASSUME NEW d \in Digests
    PROVE  Key(d) \in BlobKey /\ \A e \in Digests : Key(e) = Key(d) => e = d
<1>1. ASSUME NEW e \in Digests, Key(e) = Key(d) PROVE e = d
  <2>1. Key(e).hash = e /\ Key(d).hash = d
    BY DEF Key
  <2> QED BY <1>1, <2>1
<1>2. Key(d) \in BlobKey
  BY DEF Key, BlobKey
<1> QED BY <1>1, <1>2

(* COMMIT of a client stores its payload, under its digest, or nothing.    *)
LEMMA SendCommitStores ==
    ASSUME PullsInv, ShortFiles, NEW s \in Streams, SendCommit(s)
    PROVE  /\ ShortFiles'
           /\ NoBlobChange \/ \E p \in Payloads : BlobChange(p, p)
<1> DEFINE c == client[s]
           p == c.payload
           ref == RefOf[p]
           us == uploads[ref]
           total == Len(c.data)
<1>1. UploadsInv /\ ClientsInv /\ blobs \in [BlobKey -> 0 .. NoBlob]
  BY DEF PullsInv, StoreInv, BlobsInv
<1>2. Commit(s, total) /\ c # NotPulling
  BY Pulling DEF SendCommit
<1>3. /\ p \in Payloads /\ ref \in Refs /\ streams[s].ref = ref
      /\ us.state # "none" /\ us.expected = p
  BY <1>1, <1>2, SessionOf
<1>4. CommitUpload(ref, total)
  BY <1>2, <1>3 DEF Commit
<1>5. us \in UploadStates /\ UploadOK(us) /\ Short(us, p)
  BY <1>1, <1>3 DEF UploadsInv, ShortFiles
<1>6. ShortFiles'
  <2>1. PICK w \in UploadStates :
            /\ uploads' = [uploads EXCEPT ![ref] = w]
            /\ w.file = us.file /\ w.torn = us.torn /\ w.offset = us.offset
    BY <1>1, <1>3, <1>4, CommittedFields
  <2>2. Short(w, p)
    BY <1>5, <2>1 DEF Short
  <2> QED BY <1>1, <1>3, <2>1, <2>2, OneShortFile
<1>7. CASE CommitRejected(ref, total) \/ CommitFailed(ref, total)
  <2>1. NoBlobChange
    BY <1>7 DEF CommitRejected, CommitFailed, NoBlobChange
  <2> QED BY <1>6, <2>1
<1>8. CASE CommitStored(ref, total)
  <2>1. /\ us.expected # NoExpected => us.expected = us.hashed
        /\ disk' = [disk EXCEPT ![us.hashed] = us.file]
        /\ blobs' = [blobs EXCEPT ![Key(us.hashed)] = us.offset]
    BY <1>8 DEF CommitStored, Verified
  <2>2. /\ p \in Seq(Bytes) /\ Len(p) \in Nat /\ Len(p) > 0 /\ p # NoExpected
        /\ p \in Digests /\ p # NoFile
    BY <1>3, PayloadIsBlob
  <2> HIDE DEF p
  <2>3. us.hashed = p
    BY <1>3, <2>1, <2>2
  <2>4. PICK f, o : f = us.file /\ o = us.offset
    OBVIOUS
  <2>5. f \in Seq(FileBytes) /\ Len(f) \in Nat /\ o \in Nat /\ o <= MaxLen
    <3>1. us.offset \in Nat /\ us.offset <= MaxLen
      BY <1>5, BoundAssumption DEF UploadStates
    <3> QED BY <1>5, <2>4, <3>1, UploadFields
  <2>6. /\ Len(p) <= o /\ o <= Len(p) /\ Len(f) <= Len(p)
        /\ \A i \in 1 .. Len(p) : o <= Len(f) /\ p[i] = f[o - Len(p) + i]
    BY <1>5, <2>3, <2>4 DEF UploadOK, Follows, Short
  <2>7. 1 \in 1 .. Len(p) /\ o = Len(p)
    BY <2>2, <2>5, <2>6
  <2>8. Len(f) = Len(p)
    BY <2>2, <2>5, <2>6, <2>7
  <2>9. ASSUME NEW i \in 1 .. Len(p) PROVE p[i] = f[i]
    <3>1. o - Len(p) + i = i
      BY <2>2, <2>7
    <3> QED BY <2>6, <3>1
  <2>10. p \in Seq(FileBytes)
    BY <2>2 DEF FileBytes
  <2>11. f = p
    BY <2>5, <2>8, <2>9, <2>10, SeqEqual
  <2>12. disk' = [disk EXCEPT ![p] = p] /\ blobs' = [blobs EXCEPT ![Key(p)] = o]
    BY <2>1, <2>3, <2>4, <2>11, Zenon
  <2>13. blobs'[Key(p)] = o /\ \A e \in Digests \ {p} : blobs'[Key(e)] = blobs[Key(e)]
    BY <1>1, <2>2, <2>12, KeyOf
  <2>14. o # NoBlob
    BY <2>5, BoundAssumption DEF NoBlob
  <2>15. BlobChange(p, p)
    BY <2>2, <2>12, <2>13, <2>14 DEF BlobChange
  <2> QED BY <1>3, <1>6, <2>15 DEF p
<1> QED BY <1>4, <1>7, <1>8 DEF CommitUpload

(* A step of a client stores the payload of one, or nothing.               *)
LEMMA ClientFiles ==
    ASSUME SoundWrites, NoLonger, PullsInv, ShortFiles, NEW s \in Streams, ClientStep(s)
    PROVE  /\ ShortFiles'
           /\ NoBlobChange \/ \E p \in Payloads : BlobChange(p, p)
<1>1. ASSUME NEW p \in Payloads, NEW data, SendStat(s, p, data) PROVE ShortFiles' /\ NoBlobChange
  BY <1>1, SendStatFiles DEF SendStat, Attach, NoBlobChange
<1>2. ASSUME RecvStat(s) PROVE ShortFiles' /\ NoBlobChange
  <2>1. uploads' = uploads
    BY <1>2, RecvStatInv
  <2> QED BY <1>2, <2>1 DEF ShortFiles, RecvStat, Stat, NoBlobChange
<1>3. ASSUME SendWrite(s) PROVE ShortFiles' /\ NoBlobChange
  BY <1>3, SendWriteFiles DEF SendWrite, Write, NoBlobChange
<1>4. ~SendWriteFails(s)
  BY DEF SendWriteFails, WriteFails, SoundWrites
<1>5. ASSUME Interrupted(s) PROVE ShortFiles' /\ NoBlobChange
  BY <1>5 DEF Interrupted, Close, ShortFiles, NoBlobChange
<1> QED BY <1>1, <1>2, <1>3, <1>4, <1>5, SendCommitStores DEF ClientStep

(* Delete removes the file of a digest with its entry, or only an entry    *)
(* that the scan made.                                                     *)
LEMMA RemoveFiles ==
    ASSUME PullsInv, NEW key \in BlobKey, RemoveBlob(key)
    PROVE  NoBlobChange \/ \E d \in Digests : BlobChange(d, NoFile)
<1>1. blobs \in [BlobKey -> 0 .. NoBlob]
  BY DEF PullsInv, StoreInv, BlobsInv
<1>2. /\ blobs' = [blobs EXCEPT ![key] = NoBlob]
      /\ disk' = IF key.doubled THEN disk ELSE [disk EXCEPT ![key.hash] = NoFile]
  BY DEF RemoveBlob, Delete
<1>3. \A e \in Digests : Key(e) \in BlobKey /\ Key(e).hash = e /\ Key(e).doubled = FALSE
  BY KeyOf DEF Key
<1>4. CASE key.doubled
  <2>1. \A e \in Digests : Key(e) # key
    BY <1>3, <1>4
  <2> QED BY <1>1, <1>2, <1>3, <1>4, <2>1 DEF NoBlobChange
<1>5. CASE ~key.doubled
  <2>1. key.hash \in Digests /\ key = Key(key.hash)
    BY <1>5 DEF BlobKey, Key
  <2>2. PICK d \in Digests : d = key.hash /\ key = Key(d)
    BY <2>1
  <2>3. blobs'[Key(d)] = NoBlob /\ \A e \in Digests \ {d} : blobs'[Key(e)] = blobs[Key(e)]
    BY <1>1, <1>2, <1>3, <2>2
  <2>4. BlobChange(d, NoFile)
    BY <1>2, <1>5, <2>2, <2>3 DEF BlobChange
  <2> QED BY <2>4
<1> QED BY <1>4, <1>5

(* One file becomes the blob of its digest, or is removed.                 *)
LEMMA OneBlob ==
    ASSUME PullsInv, BlobsOnDisk, NEW d \in Digests, NEW f \in {NoFile, d}, d # NoFile,
           BlobChange(d, f)
    PROVE  /\ BlobsOnDisk'
           /\ \A e \in Payloads : LookedUp(e) => LookedUp(e)'
           /\ Stored' = IF d \in Payloads THEN [Stored EXCEPT ![d] = f] ELSE Stored
<1>1. disk'[d] = f /\ \A e \in Digests \ {d} : disk'[e] = disk[e]
  BY DEF PullsInv, StoreInv, BlobsInv, BlobChange
<1>2. \A e \in Payloads : e \in Digests
  BY PayloadIsBlob
<1>3. BlobsOnDisk'
  BY <1>1, <1>2 DEF BlobsOnDisk
<1>4. ASSUME NEW e \in Payloads, LookedUp(e) PROVE LookedUp(e)'
  <2>1. CASE e = d
    BY <1>1, <2>1 DEF LookedUp, BlobChange
  <2>2. CASE e # d
    BY <1>1, <1>2, <1>4, <2>2 DEF LookedUp, BlobChange
  <2> QED BY <2>1, <2>2
<1> DEFINE At(e) == IF blobs[Key(e)] # NoBlob THEN disk[e] ELSE NoFile
           Then(e) == IF blobs'[Key(e)] # NoBlob THEN disk'[e] ELSE NoFile
<1>5. ASSUME NEW e \in Payloads PROVE Then(e) = IF e = d THEN f ELSE At(e)
  <2>1. CASE e = d
    BY <1>1, <2>1 DEF BlobChange
  <2>2. CASE e # d
    BY <1>1, <1>2, <2>2 DEF BlobChange
  <2> QED BY <2>1, <2>2
<1>6. Stored = [e \in Payloads |-> At(e)] /\ Stored' = [e \in Payloads |-> Then(e)]
  BY DEF Stored
<1> HIDE DEF At, Then
<1>7. Stored' = IF d \in Payloads THEN [Stored EXCEPT ![d] = f] ELSE Stored
  BY <1>5, <1>6
<1> QED BY <1>3, <1>4, <1>7

LEMMA NoBlobMoves ==
    ASSUME NoBlobChange
    PROVE  /\ BlobsOnDisk => BlobsOnDisk'
           /\ \A e \in Payloads : LookedUp(e) => LookedUp(e)'
           /\ Stored' = Stored
<1>1. \A e \in Payloads : blobs'[Key(e)] = blobs[Key(e)] /\ disk'[e] = disk[e]
  BY PayloadIsBlob DEF NoBlobChange
<1> QED BY <1>1 DEF BlobsOnDisk, LookedUp, Stored

(* What a change that is seen leaves of the invariants.                    *)
LEMMA BlobMoves ==
    ASSUME PullsInv, BlobsOnDisk,
           \/ NoBlobChange
           \/ \E p \in Payloads : BlobChange(p, p)
           \/ \E d \in Digests : BlobChange(d, NoFile)
    PROVE  BlobsOnDisk' /\ \A e \in Payloads : LookedUp(e) => LookedUp(e)'
<1>1. \A p \in Payloads : p \in Digests /\ p # NoFile
  BY PayloadIsBlob
<1>2. \A d \in Digests : d # NoFile
  BY DigestIsNoFile
<1>3. CASE \E p \in Payloads : BlobChange(p, p)
  BY <1>1, <1>3, OneBlob
<1>4. CASE \E d \in Digests : BlobChange(d, NoFile)
  BY <1>2, <1>4, OneBlob
<1>5. CASE NoBlobChange
  BY <1>5, NoBlobMoves
<1> QED BY <1>3, <1>4, <1>5

LEMMA FilesStay ==
    ASSUME FilesInv, UNCHANGED <<uploads, disk>> PROVE FilesInv'
BY DEF FilesInv, ShortFiles, BlobsOnDisk

LEMMA FilesStep ==
    ASSUME SoundWrites, NoLonger, PullsInv, FilesInv, [PullNext]_pullVars
    PROVE  FilesInv'
<1>1. ASSUME NEW s \in Streams, ClientStep(s) PROVE FilesInv'
  <2>1. ShortFiles /\ BlobsOnDisk
    BY DEF FilesInv
  <2>2. ShortFiles' /\ (NoBlobChange \/ \E p \in Payloads : BlobChange(p, p))
    BY <1>1, <2>1, ClientFiles
  <2> QED BY <2>1, <2>2, BlobMoves DEF FilesInv
<1>2. ASSUME NEW key \in BlobKey, RemoveBlob(key) PROVE FilesInv'
  <2>1. uploads' = uploads
    BY <1>2 DEF RemoveBlob, Delete
  <2>2. NoBlobChange \/ \E d \in Digests : BlobChange(d, NoFile)
    BY <1>2, RemoveFiles
  <2>3. BlobsOnDisk'
    BY <2>2, BlobMoves DEF FilesInv
  <2> QED BY <2>1, <2>3 DEF FilesInv, ShortFiles
<1>3. ASSUME DaemonRestart PROVE FilesInv'
  <2>1. uploads' = [r \in Refs |-> NoUpload] /\ disk' = disk
    BY <1>3 DEF DaemonRestart, Restart
  <2>2. \A r \in Refs : /\ uploads'[r].torn = FALSE /\ uploads'[r].file = << >>
                        /\ uploads'[r].offset = 0
    BY <2>1 DEF NoUpload
  <2>3. \A p \in Payloads : RefOf[p] \in Refs /\ Len(<< >>) <= Len(p) /\ 0 <= Len(p)
    BY PayloadIsBlob
  <2>4. ShortFiles'
    BY <2>2, <2>3 DEF ShortFiles, Short
  <2> QED BY <2>1, <2>4 DEF FilesInv, BlobsOnDisk
<1>4. ASSUME ReaderStep PROVE FilesInv'
  BY <1>4, ReadersOnlyRead, FilesStay
<1>5. ASSUME UNCHANGED pullVars PROVE FilesInv'
  BY <1>5, FilesStay DEF pullVars
<1> QED BY <1>1, <1>2, <1>3, <1>4, <1>5 DEF PullNext, ReaderStep

-----------------------------------------------------------------------------
(* Reads.                                                                  *)
LEMMA OneRead ==
    ASSUME ReadsInv, NEW rd \in Readers, NEW r \in ReadStates, ReadOK(r), ReadGoes(rd, r),
           r.step = "open" => LookedUp(r.digest)
    PROVE  ReadsInv'
<1>1. /\ reads' \in [Readers -> ReadStates] /\ reads'[rd] = r
      /\ \A q \in Readers \ {rd} : reads'[q] = reads[q]
      /\ disk' = disk /\ blobs' = blobs
  BY DEF ReadsInv, ReadGoes
<1> QED BY <1>1 DEF ReadsInv, LookedUp

LEMMA IdleRead == NotReading \in ReadStates /\ ReadOK(NotReading)
<1>1. << >> \in Seq(Bytes)
  OBVIOUS
<1> QED BY <1>1 DEF NotReading, ReadStates, ReadOK

LEMMA OpenLookupReads ==
    ASSUME ReadsInv, NEW rd \in Readers, NEW d \in Payloads, OpenLookup(rd, d)
    PROVE  \E q \in ReadStates :
               ReadGoes(rd, q) /\ ReadOK(q) /\ q.step = "open" /\ LookedUp(q.digest)
<1> DEFINE q == [NotReading EXCEPT !.step = "open", !.digest = d]
<1>1. << >> \in Seq(Bytes)
  OBVIOUS
<1>2. /\ q \in ReadStates /\ q.step = "open" /\ q.digest = d /\ q.sent = << >>
  BY <1>1 DEF NotReading, ReadStates
<1>3. ReadGoes(rd, q) /\ LookedUp(d)
  BY DEF OpenLookup, LookedUp
<1> HIDE DEF q
<1>4. ReadOK(q)
  BY <1>2 DEF ReadOK
<1> QED BY <1>2, <1>3, <1>4

(* The file that is opened is the blob, if there is one.                   *)
LEMMA OpenFileReads ==
    ASSUME FilesInv, ReadsInv, NEW rd \in Readers, OpenFile(rd)
    PROVE  \/ ReadGoes(rd, NotReading)
           \/ \E q \in ReadStates :
                /\ ReadGoes(rd, q) /\ ReadOK(q) /\ q.step = "read"
                /\ q.digest = reads[rd].digest /\ disk[q.digest] = q.digest
                /\ blobs[Key(q.digest)] # NoBlob
<1> DEFINE r == reads[rd]
           d == reads[rd].digest
           q == [r EXCEPT !.step = "read", !.file = disk[d]]
<1>1. r \in ReadStates /\ ReadOK(r) /\ r.step = "open" /\ LookedUp(d)
  BY DEF ReadsInv, OpenFile
<1>2. d \in Payloads /\ r.sent = << >>
  BY <1>1 DEF ReadOK
<1>3. CASE disk[d] = NoFile
  BY <1>3 DEF OpenFile
<1>4. CASE disk[d] # NoFile
  <2>1. disk[d] = d /\ blobs[Key(d)] # NoBlob
    BY <1>1, <1>2, <1>4 DEF FilesInv, BlobsOnDisk, LookedUp
  <2>2. /\ q \in ReadStates /\ q.step = "read" /\ q.digest = d /\ q.file = d
        /\ q.sent = r.sent
    BY <1>1, <1>2, <2>1 DEF ReadStates
  <2>3. ReadGoes(rd, q)
    BY <1>4 DEF OpenFile
  <2> HIDE DEF q, r
  <2>4. d \in Seq(Bytes) /\ Len(d) \in Nat
    BY <1>2, PayloadIsBlob
  <2>5. SubSeq(d, 1, 0) \in Seq(Bytes) /\ Len(SubSeq(d, 1, 0)) = 0
    BY <2>4, PrefixSeq
  <2>6. SubSeq(d, 1, 0) = << >>
    BY <2>5, EmptySeq
  <2>7. q.sent = << >> /\ Len(<< >>) = 0
    BY <1>2, <2>2 DEF r
  <2>8. ReadOK(q)
    BY <1>2, <2>2, <2>4, <2>6, <2>7 DEF ReadOK
  <2> QED BY <2>1, <2>2, <2>3, <2>8
<1> QED BY <1>3, <1>4

(* A read that has come to the end of its file has sent the blob.          *)
LEMMA ReadChunkReads ==
    ASSUME ReadsInv, NEW rd \in Readers, ReadChunk(rd)
    PROVE  /\ reads[rd].step = "read" /\ reads[rd].digest \in Payloads
           /\ \E q \in ReadStates :
                /\ ReadGoes(rd, q) /\ ReadOK(q)
                /\ \/ q.step = "read" /\ q.digest = reads[rd].digest
                   \/ q.step = "eof" /\ q.sent = reads[rd].digest
<1>1. PICK r : r = reads[rd]
  OBVIOUS
<1>2. r \in ReadStates /\ ReadOK(r) /\ r.step = "read"
  BY <1>1 DEF ReadsInv, ReadChunk
<1>3. PICK p, sent : p = r.digest /\ sent = r.sent
  OBVIOUS
<1>4. PICK n : n = Len(sent)
  OBVIOUS
<1>5. /\ p \in Payloads /\ r.file = p /\ n <= Len(p) /\ sent = SubSeq(p, 1, n)
      /\ sent \in Seq(Bytes) /\ n \in Nat
  BY <1>2, <1>3, <1>4 DEF ReadOK, ReadStates
<1>6. p \in Seq(Bytes) /\ Len(p) \in Nat
  BY <1>5, PayloadIsBlob
<1> DEFINE m == PartEnd(p, n)
           c == Part(p, n)
           next == IF m = n THEN "eof" ELSE "read"
           q == [r EXCEPT !.step = next, !.sent = sent \o c]
<1>7. ReadGoes(rd, q)
  BY <1>1, <1>3, <1>4, <1>5, Zenon DEF ReadChunk, Part, PartEnd
<1>8. /\ c \in Seq(Bytes) /\ Len(c) = m - n /\ m \in Nat /\ m <= Len(p) /\ m >= n
      /\ n < Len(p) => m > n
      /\ \A i \in 1 .. Len(c) : c[i] = p[n + i]
  BY <1>5, <1>6, NextPart
<1> HIDE DEF m, c
<1>9. sent \o c = SubSeq(p, 1, m)
  BY <1>5, <1>6, <1>8, PrefixGrows
<1>10. SubSeq(p, 1, m) \in Seq(Bytes) /\ Len(SubSeq(p, 1, m)) = m
  BY <1>6, <1>8, PrefixSeq
<1>11. PICK all : all = sent \o c
  OBVIOUS
<1>12. all \in Seq(Bytes) /\ Len(all) = m /\ all = SubSeq(p, 1, m)
  BY <1>9, <1>10, <1>11
<1>13. /\ q \in ReadStates /\ q.step = next /\ q.digest = p /\ q.file = p
       /\ q.sent = all
  BY <1>2, <1>3, <1>5, <1>11, <1>12 DEF ReadStates
<1> HIDE DEF q
<1>14. CASE m = n
  <2>1. m = Len(p)
    BY <1>5, <1>6, <1>8, <1>14
  <2>2. all = p
    BY <1>6, <1>12, <2>1, WholePrefix
  <2>3. q.step = "eof" /\ ReadOK(q)
    BY <1>13, <1>14 DEF ReadOK
  <2> QED BY <1>1, <1>2, <1>3, <1>5, <1>7, <1>13, <2>2, <2>3
<1>15. CASE m # n
  <2>1. q.step = "read"
    BY <1>13, <1>15
  <2>2. ReadOK(q)
    BY <1>5, <1>8, <1>12, <1>13, <2>1 DEF ReadOK
  <2> QED BY <1>1, <1>2, <1>3, <1>5, <1>7, <1>13, <2>1, <2>2
<1> QED BY <1>14, <1>15

LEMMA ReadsStep ==
    ASSUME SoundWrites, NoLonger, PullsInv, FilesInv, ReadsInv, [PullNext]_pullVars
    PROVE  ReadsInv'
<1>1. NotReading.step # "open"
  BY DEF NotReading
<1>2. ASSUME UNCHANGED reads,
             \/ NoBlobChange
             \/ \E p \in Payloads : BlobChange(p, p)
             \/ \E d \in Digests : BlobChange(d, NoFile)
      PROVE  ReadsInv'
  <2>1. \A e \in Payloads : LookedUp(e) => LookedUp(e)'
    BY <1>2, BlobMoves DEF FilesInv
  <2>2. \A rd \in Readers : reads[rd].step = "open" => reads[rd].digest \in Payloads
    BY DEF ReadsInv, ReadOK
  <2>3. \A rd \in Readers : reads'[rd].step = "open" => LookedUp(reads[rd].digest)'
    BY <1>2, <2>1, <2>2 DEF ReadsInv
  <2> QED BY <1>2, <2>3 DEF ReadsInv
<1>3. ASSUME NEW s \in Streams, ClientStep(s), UNCHANGED reads PROVE ReadsInv'
  BY <1>2, <1>3, ClientFiles DEF FilesInv
<1>4. ASSUME NEW key \in BlobKey, RemoveBlob(key) PROVE ReadsInv'
  BY <1>2, <1>4, RemoveFiles DEF RemoveBlob
<1>5. ASSUME DaemonRestart PROVE ReadsInv'
  BY <1>1, <1>5, IdleRead DEF DaemonRestart, ReadsInv
<1>6. ASSUME NEW rd \in Readers, NEW d \in Payloads, OpenLookup(rd, d) PROVE ReadsInv'
  BY <1>6, OpenLookupReads, OneRead
<1>7. ASSUME NEW rd \in Readers, OpenFile(rd) PROVE ReadsInv'
  BY <1>1, <1>7, OpenFileReads, OneRead, IdleRead
<1>8. ASSUME NEW rd \in Readers, ReadChunk(rd) PROVE ReadsInv'
  BY <1>8, ReadChunkReads, OneRead
<1>9. ASSUME NEW rd \in Readers, ReadBreaksOff(rd) PROVE ReadsInv'
  BY <1>1, <1>9, OneRead, IdleRead DEF ReadBreaksOff
<1>10. ASSUME UNCHANGED pullVars PROVE ReadsInv'
  <2>1. NoBlobChange /\ UNCHANGED reads
    BY <1>10 DEF pullVars, NoBlobChange
  <2> QED BY <1>2, <2>1
<1> QED BY <1>3, <1>4, <1>5, <1>6, <1>7, <1>8, <1>9, <1>10 DEF PullNext

-----------------------------------------------------------------------------
(* Every step is one of the write-once map, or invisible to it.            *)
Shown(r) == IF r.step = "read" THEN r.digest ELSE NoFile
Told(r) == IF r.step = "eof" THEN r.sent ELSE NoFile

(* What the map sees of a step of one read.                                *)
LEMMA ReadShows ==
    ASSUME ReadsInv, NEW rd \in Readers, NEW q, ReadGoes(rd, q)
    PROVE  /\ Reading' = [Reading EXCEPT ![rd] = Shown(q)]
           /\ Answer' = [Answer EXCEPT ![rd] = Told(q)]
           /\ Stored' = Stored
           /\ Reading[rd] = Shown(reads[rd])
<1>1. /\ reads'[rd] = q
      /\ \A x \in Readers \ {rd} : reads'[x] = reads[x]
      /\ disk' = disk /\ blobs' = blobs
  BY DEF ReadsInv, ReadGoes
<1>2. Reading' = [Reading EXCEPT ![rd] = Shown(q)]
  <2>1. Reading' = [x \in Readers |-> IF x = rd THEN Shown(q) ELSE Shown(reads[x])]
    BY <1>1 DEF Reading, Shown
  <2>2. Reading = [x \in Readers |-> Shown(reads[x])]
    BY DEF Reading, Shown
  <2> QED BY <2>1, <2>2
<1>3. Answer' = [Answer EXCEPT ![rd] = Told(q)]
  <2>1. Answer' = [x \in Readers |-> IF x = rd THEN Told(q) ELSE Told(reads[x])]
    BY <1>1 DEF Answer, Told
  <2>2. Answer = [x \in Readers |-> Told(reads[x])]
    BY DEF Answer, Told
  <2> QED BY <2>1, <2>2
<1> QED BY <1>1, <1>2, <1>3 DEF Stored, Reading, Shown

(* A read that is no longer under way and has delivered nothing.           *)
LEMMA ReadGivesUp ==
    ASSUME ReadsInv, NEW rd \in Readers, NEW q, ReadGoes(rd, q),
           q.step \in {"idle", "open"}
    PROVE  Promise!Next
<1>1. Shown(q) = NoFile /\ Told(q) = NoFile
  BY DEF Shown, Told
<1>2. Promise!BreakOff(rd)
  BY <1>1, ReadShows DEF Promise!BreakOff
<1> QED BY <1>2 DEF Promise!Next

LEMMA OpenFileImplements ==
    ASSUME FilesInv, ReadsInv, NEW rd \in Readers, OpenFile(rd)
    PROVE  Promise!Next
<1>1. CASE ReadGoes(rd, NotReading)
  <2>1. NotReading.step \in {"idle", "open"}
    BY DEF NotReading
  <2> QED BY <1>1, <2>1, ReadGivesUp
<1>2. ASSUME NEW q \in ReadStates, ReadGoes(rd, q), ReadOK(q), q.step = "read",
             q.digest = reads[rd].digest, disk[q.digest] = q.digest,
             blobs[Key(q.digest)] # NoBlob
      PROVE  Promise!Next
  <2>1. q.digest \in Payloads
    BY <1>2 DEF ReadOK
  <2>2. q.digest # NoFile
    BY <2>1, PayloadIsBlob
  <2>3. reads[rd].step = "open"
    BY DEF OpenFile
  <2>4. Shown(reads[rd]) = NoFile /\ Shown(q) = q.digest /\ Told(q) = NoFile
    BY <1>2, <2>3 DEF Shown, Told
  <2>5. Stored[q.digest] # NoFile
    BY <1>2, <2>1, <2>2 DEF Stored
  <2>6. Promise!BeginRead(rd, q.digest)
    BY <1>2, <2>4, <2>5, ReadShows DEF Promise!BeginRead
  <2> QED BY <2>1, <2>6 DEF Promise!Next
<1> QED BY <1>1, <1>2, OpenFileReads

LEMMA ReadChunkImplements ==
    ASSUME ReadsInv, NEW rd \in Readers, ReadChunk(rd)
    PROVE  [Promise!Next]_(Promise!vars)
<1> DEFINE d == reads[rd].digest
<1>1. reads[rd].step = "read" /\ d \in Payloads
  BY ReadChunkReads
<1>2. PICK q \in ReadStates :
        /\ ReadGoes(rd, q)
        /\ \/ q.step = "read" /\ q.digest = d
           \/ q.step = "eof" /\ q.sent = d
  BY ReadChunkReads
<1>3. Shown(reads[rd]) = d /\ Told(reads[rd]) = NoFile /\ d # NoFile
  BY <1>1, PayloadIsBlob DEF Shown, Told
<1>4. /\ Reading' = [Reading EXCEPT ![rd] = Shown(q)]
      /\ Answer' = [Answer EXCEPT ![rd] = Told(q)]
      /\ Stored' = Stored /\ Reading[rd] = d
  BY <1>2, <1>3, ReadShows
<1>5. CASE q.step = "read" /\ q.digest = d
  <2>1. Shown(q) = d /\ Told(q) = NoFile
    BY <1>5 DEF Shown, Told
  <2>2. Answer[rd] = NoFile
    BY <1>3 DEF Answer, Told
  <2>3. Reading = [x \in Readers |-> Reading[x]] /\ Answer = [x \in Readers |-> Answer[x]]
    BY DEF Reading, Answer
  <2>4. Reading' = Reading
    BY <1>4, <2>1, <2>3
  <2>5. Answer' = Answer
    BY <1>4, <2>1, <2>2, <2>3
  <2> QED BY <1>4, <2>4, <2>5 DEF Promise!vars
<1>6. CASE q.step = "eof" /\ q.sent = d
  <2>1. Shown(q) = NoFile /\ Told(q) = d
    BY <1>6 DEF Shown, Told
  <2>2. Promise!EndRead(rd)
    BY <1>3, <1>4, <2>1 DEF Promise!EndRead
  <2> QED BY <2>2 DEF Promise!Next
<1> QED BY <1>2, <1>5, <1>6

(* What the map sees of a step that leaves the reads alone.                *)
LEMMA DiskShows ==
    ASSUME PullsInv, FilesInv, UNCHANGED reads, NEW d \in Digests, NEW f \in {NoFile, d},
           BlobChange(d, f)
    PROVE  [Promise!Next]_(Promise!vars)
<1>1. Reading' = Reading /\ Answer' = Answer
  BY DEF Reading, Answer
<1>2. /\ d # NoFile
      /\ Stored' = IF d \in Payloads THEN [Stored EXCEPT ![d] = f] ELSE Stored
  BY DigestIsNoFile, OneBlob DEF FilesInv
<1>3. CASE Stored' = Stored
  BY <1>1, <1>3 DEF Promise!vars
<1>4. CASE d \in Payloads
  <2>1. Stored' = [Stored EXCEPT ![d] = f]
    BY <1>2, <1>4
  <2>2. CASE f = NoFile
    <3>1. Promise!Remove(d)
      BY <1>1, <2>1, <2>2 DEF Promise!Remove
    <3> QED BY <1>4, <3>1 DEF Promise!Next
  <2>3. CASE f = d /\ Stored[d] = NoFile
    <3>1. Promise!Put(d)
      BY <1>1, <2>1, <2>3 DEF Promise!Put
    <3> QED BY <1>4, <3>1 DEF Promise!Next
  <2>4. CASE f = d /\ Stored[d] # NoFile
    <3>1. Stored[d] = d
      BY <1>4, <2>4 DEF Stored, FilesInv, BlobsOnDisk
    <3>2. Stored = [e \in Payloads |-> Stored[e]]
      BY DEF Stored
    <3>3. Stored' = Stored
      BY <2>1, <2>4, <3>1, <3>2
    <3> QED BY <1>3, <3>3
  <2> QED BY <2>2, <2>3, <2>4
<1> QED BY <1>2, <1>3, <1>4

LEMMA StoreImplements ==
    ASSUME PullsInv, FilesInv, UNCHANGED reads,
           \/ NoBlobChange
           \/ \E p \in Payloads : BlobChange(p, p)
           \/ \E d \in Digests : BlobChange(d, NoFile)
    PROVE  [Promise!Next]_(Promise!vars)
<1>1. \A p \in Payloads : p \in Digests
  BY PayloadIsBlob
<1>2. CASE NoBlobChange
  <2>1. Stored' = Stored /\ Reading' = Reading /\ Answer' = Answer
    BY <1>2, NoBlobMoves DEF Reading, Answer
  <2> QED BY <2>1 DEF Promise!vars
<1> QED BY <1>1, <1>2, DiskShows

(* No entry that a commit made outlives a restart: the scan makes entries  *)
(* under doubled keys only.                                                *)
LEMMA RestartImplements ==
    ASSUME DaemonRestart PROVE Promise!Next
<1>1. blobs' = scan /\ reads' = [rd \in Readers |-> NotReading]
  BY DEF DaemonRestart, Restart
<1>2. ASSUME NEW d \in Payloads PROVE blobs'[Key(d)] = NoBlob
  <2>1. Key(d) \in BlobKey /\ Key(d).doubled = FALSE
    BY PayloadIsBlob, KeyOf DEF Key
  <2>2. \A e \in Digests : Key(d) # ScannedKey(e)
    BY <2>1 DEF ScannedKey
  <2> QED BY <1>1, <2>1, <2>2 DEF scan
<1>3. Stored' = [d \in Payloads |-> NoFile]
  BY <1>2 DEF Stored
<1>4. /\ Reading' = [rd \in Readers |-> NoFile]
      /\ Answer' = [rd \in Readers |-> NoFile]
  BY <1>1 DEF Reading, Answer, NotReading
<1>5. Promise!Forget
  BY <1>3, <1>4 DEF Promise!Forget
<1> QED BY <1>5 DEF Promise!Next

LEMMA StepImplements ==
    ASSUME SoundWrites, NoLonger, PullsInv, FilesInv, ReadsInv, [PullNext]_pullVars
    PROVE  [Promise!Next]_(Promise!vars)
<1>1. ASSUME NEW rd \in Readers, NEW d \in Payloads, OpenLookup(rd, d) PROVE Promise!Next
  <2>1. PICK q : ReadGoes(rd, q) /\ q.step = "open"
    BY <1>1, OpenLookupReads
  <2> QED BY <2>1, ReadGivesUp
<1>2. ASSUME NEW rd \in Readers, ReadBreaksOff(rd) PROVE Promise!Next
  <2>1. ReadGoes(rd, NotReading) /\ NotReading.step = "idle"
    BY <1>2 DEF ReadBreaksOff, NotReading
  <2> QED BY <2>1, ReadGivesUp
<1>3. CASE UNCHANGED pullVars
  <2>1. NoBlobChange /\ UNCHANGED reads
    BY <1>3 DEF pullVars, NoBlobChange
  <2> QED BY <2>1, StoreImplements
<1>4. ASSUME NEW s \in Streams, ClientStep(s), UNCHANGED reads
      PROVE  [Promise!Next]_(Promise!vars)
  BY <1>4, ClientFiles, StoreImplements DEF FilesInv
<1>5. ASSUME NEW key \in BlobKey, RemoveBlob(key) PROVE [Promise!Next]_(Promise!vars)
  BY <1>5, RemoveFiles, StoreImplements DEF RemoveBlob
<1>6. CASE DaemonRestart
  BY <1>6, RestartImplements
<1>7. CASE \E rd \in Readers, d \in Payloads : OpenLookup(rd, d)
  BY <1>1, <1>7
<1>8. CASE \E rd \in Readers : OpenFile(rd) \/ ReadChunk(rd) \/ ReadBreaksOff(rd)
  BY <1>2, <1>8, OpenFileImplements, ReadChunkImplements
<1> QED BY <1>3, <1>4, <1>5, <1>6, <1>7, <1>8 DEF PullNext

LEMMA FilesInit == PullInit => FilesInv /\ ReadsInv /\ Promise!Init
<1> SUFFICES ASSUME PullInit PROVE FilesInv /\ ReadsInv /\ Promise!Init
  OBVIOUS
<1>1. /\ uploads = [r \in Refs |-> NoUpload] /\ disk = [d \in Digests |-> NoFile]
      /\ reads = [rd \in Readers |-> NotReading]
  BY DEF PullInit, Init
<1>2. \A p \in Payloads : /\ p \in Digests /\ RefOf[p] \in Refs
                          /\ Len(<< >>) <= Len(p) /\ 0 <= Len(p)
  BY PayloadIsBlob
<1>3. \A r \in Refs : uploads[r].torn = FALSE /\ uploads[r].file = << >> /\ uploads[r].offset = 0
  BY <1>1 DEF NoUpload
<1>4. FilesInv
  BY <1>1, <1>2, <1>3 DEF FilesInv, ShortFiles, Short, BlobsOnDisk
<1>5. ReadsInv
  <2>1. NotReading.step # "open"
    BY DEF NotReading
  <2> QED BY <1>1, <2>1, IdleRead DEF ReadsInv
<1>6. Stored = [d \in Payloads |-> NoFile]
  BY <1>1, <1>2 DEF Stored
<1>7. Reading = [rd \in Readers |-> NoFile] /\ Answer = [rd \in Readers |-> NoFile]
  BY <1>1 DEF Reading, Answer, NotReading
<1> QED BY <1>4, <1>5, <1>6, <1>7 DEF Promise!Init

(* No file under a digest has another content, for any blobs, streams and  *)
(* chunk size, when no write of the daemon's disk fails half way and no    *)
(* download is longer than its blob.                                       *)
THEOREM FilesAreBlobs == ASSUME SoundWrites, NoLonger PROVE PullSpec => []StoredIsBlob
<1>1. PullInit => FilesInv
  BY FilesInit
<1>2. PullsInv /\ FilesInv /\ [PullNext]_pullVars => FilesInv'
  BY FilesStep
<1>3. FilesInv => StoredIsBlob
  BY DEF FilesInv, BlobsOnDisk, StoredIsBlob
<1> QED BY <1>1, <1>2, <1>3, PullsInvariant, PTL DEF PullSpec

(* Uploads that share a ref, are repeated or interrupted, of wrong or      *)
(* truncated downloads, failing commits, removals, restarts, and reads of  *)
(* what is removed or stored again meanwhile: until the daemon restarts    *)
(* the store is a write-once map from digests to blobs, and a read that    *)
(* ends has delivered the blob, for any blobs, streams, reads and chunk    *)
(* size.  It assumes that no write of the daemon's disk fails half way and *)
(* that no download is longer than its blob.                               *)
THEOREM PullsImplementBlobMap ==
    ASSUME SoundWrites, NoLonger PROVE PullSpec => ImplementsBlobMap
<1> DEFINE Inv == PullsInv /\ FilesInv /\ ReadsInv
<1>1. PullInit => Inv /\ Promise!Init
  BY PullsInit, FilesInit
<1>2. Inv /\ [PullNext]_pullVars => Inv'
  BY PullsStep, FilesStep, ReadsStep
<1>3. Inv /\ [PullNext]_pullVars => [Promise!Next]_(Promise!vars)
  BY StepImplements
<1> HIDE DEF Inv
<1> QED BY <1>1, <1>2, <1>3, PTL DEF PullSpec, ImplementsBlobMap, Promise!Spec
=============================================================================
