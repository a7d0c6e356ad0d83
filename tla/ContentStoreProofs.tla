------------------------- MODULE ContentStoreProofs -------------------------
(***************************************************************************)
(* The content store for any number of streams, any bytes and any bounds.  *)
(*                                                                         *)
(* An upload whose writes all succeeded since the last seek is described   *)
(* byte by byte: the hasher has seen k bytes, and they are the k bytes of  *)
(* the file before Offset (k is 0 after a WRITE without data past the end  *)
(* of the file).  The blob map is described together with the files:       *)
(* CommitUpload renames before it enters, and nothing but Delete removes a *)
(* file.                                                                   *)
(***************************************************************************)
EXTENDS ContentStore, SequenceTheorems, TLAPS

FileBytes == Bytes \cup {Hole}

(* The hasher has seen the bytes of the file that end at Offset.           *)
Follows(us) ==
    /\ us.pos = us.offset
    /\ \A i \in 1 .. Len(us.hashed) :
            /\ us.offset <= Len(us.file)
            /\ us.hashed[i] = us.file[us.offset - Len(us.hashed) + i]

UploadOK(us) ==
    /\ us \in UploadStates
    /\ Len(us.hashed) <= us.offset
    /\ ~us.torn => Follows(us)

(* The invariant: of uploads, streams, and blobs with their files.         *)
UploadsInv == uploads \in [Refs -> UploadStates] /\ \A r \in Refs : UploadOK(uploads[r])

StreamsInv == streams \in [Streams -> StreamStates]

BlobsInv ==
    /\ blobs \in [BlobKey -> 0 .. NoBlob]
    /\ disk \in [Digests -> Files \cup {NoFile}]
    /\ EntriesHaveFiles

StoreInv == UploadsInv /\ StreamsInv /\ BlobsInv

-----------------------------------------------------------------------------
(* Byte sequences of bounded length are sequences.                         *)
LEMMA BoundedSeq ==
    ASSUME NEW S, NEW n \in Nat, NEW d
    PROVE  d \in UNION {[1 .. k -> S] : k \in 0 .. n} <=> d \in Seq(S) /\ Len(d) <= n
<1>1. ASSUME d \in UNION {[1 .. k -> S] : k \in 0 .. n} PROVE d \in Seq(S) /\ Len(d) <= n
  <2>1. PICK k \in 0 .. n : d \in [1 .. k -> S]
    BY <1>1
  <2>2. k \in Nat /\ d \in Seq(S)
    BY <2>1
  <2>3. Len(d) = k
    <3>1. DOMAIN d = 1 .. k
      BY <2>1
    <3>2. Len(d) \in Nat /\ DOMAIN d = 1 .. Len(d)
      BY <2>2, LenProperties
    <3> QED BY <2>2, <3>1, <3>2
  <2> QED BY <2>2, <2>3
<1>2. ASSUME d \in Seq(S), Len(d) <= n PROVE d \in UNION {[1 .. k -> S] : k \in 0 .. n}
  <2>1. Len(d) \in 0 .. n /\ d \in [1 .. Len(d) -> S]
    BY <1>2
  <2> QED BY <2>1, Zenon
<1> QED BY <1>1, <1>2

LEMMA DataSeq ==
    ASSUME NEW n \in Nat, NEW d
    PROVE  d \in Data(n) <=> d \in Seq(Bytes) /\ Len(d) <= n
BY BoundedSeq DEF Data

LEMMA DigestSeq ==
    ASSUME NEW d PROVE d \in Digests <=> d \in Seq(Bytes) /\ Len(d) <= MaxLen
BY DataSeq, BoundAssumption DEF Digests

LEMMA FileSeq ==
    ASSUME NEW f PROVE f \in Files <=> f \in Seq(FileBytes) /\ Len(f) <= MaxFile
BY BoundedSeq, BoundAssumption DEF Files, FileBytes

(* A file is not the mark of a missing one.                                *)
LEMMA FileIsFile ==
    ASSUME NEW f \in Files PROVE f # NoFile
<1>1. f \in Seq(FileBytes)
  BY FileSeq
<1>2. SUFFICES ASSUME f = <<None>> PROVE FALSE
  BY DEF NoFile
<1>3. f[1] \in FileBytes
  BY <1>1, <1>2
<1> QED BY <1>2, <1>3, NoneAssumption DEF FileBytes

(* What a write leaves: data at pos, the old bytes around it, and holes.   *)
LEMMA MaxOfTwo ==
    ASSUME NEW a \in Nat, NEW b \in Nat
    PROVE  Max({a, b}) = IF a >= b THEN a ELSE b
<1>1. \E x \in {a, b} : \A y \in {a, b} : x >= y
  OBVIOUS
<1>2. Max({a, b}) \in {a, b} /\ \A y \in {a, b} : Max({a, b}) >= y
  BY <1>1 DEF Max
<1> QED BY <1>2

LEMMA WrittenFile ==
    ASSUME NEW file \in Files, NEW pos \in Nat, NEW data \in Seq(Bytes),
           pos + Len(data) <= MaxFile
    PROVE  /\ WriteAt(file, pos, data) \in Files
           /\ Len(WriteAt(file, pos, data)) \in Nat /\ Len(file) <= Len(WriteAt(file, pos, data))
           /\ Len(data) > 0 => pos + Len(data) <= Len(WriteAt(file, pos, data))
           /\ Len(WriteAt(file, pos, data)) \in {Len(file), pos + Len(data)}
           /\ \A i \in 1 .. Len(data) : WriteAt(file, pos, data)[pos + i] = data[i]
           /\ \A i \in 1 .. Len(file) : i <= pos => WriteAt(file, pos, data)[i] = file[i]
<1> DEFINE m == IF data = << >> THEN Len(file) ELSE Max({Len(file), pos + Len(data)})
           w == WriteAt(file, pos, data)
           e(i) == IF i \in pos + 1 .. pos + Len(data) THEN data[i - pos]
                   ELSE IF i <= Len(file) THEN file[i] ELSE Hole
<1>1. file \in Seq(FileBytes) /\ Len(file) <= MaxFile /\ Len(file) \in Nat /\ Len(data) \in Nat
  BY FileSeq
<1>2. /\ m \in Nat /\ m >= Len(file) /\ (Len(data) > 0 => m >= pos + Len(data))
      /\ m <= MaxFile /\ m \in {Len(file), pos + Len(data)}
  <2>1. CASE data = << >>
    BY <1>1, <2>1, BoundAssumption
  <2>2. CASE data # << >>
    <3>1. Len(data) > 0
      BY <2>2
    <3>2. m = IF Len(file) >= pos + Len(data) THEN Len(file) ELSE pos + Len(data)
      BY <1>1, <2>2, MaxOfTwo
    <3> HIDE DEF m
    <3> QED BY <1>1, <3>1, <3>2, BoundAssumption
  <2> QED BY <2>1, <2>2
<1>3. w = [i \in 1 .. m |-> e(i)]
  BY DEF WriteAt
<1> HIDE DEF m, w
<1>4. ASSUME NEW i \in 1 .. m PROVE e(i) \in FileBytes
  <2>1. CASE i \in pos + 1 .. pos + Len(data)
    <3>1. i - pos \in 1 .. Len(data)
      BY <1>1, <2>1
    <3>2. data[i - pos] \in Bytes
      BY <3>1
    <3> QED BY <2>1, <3>2 DEF FileBytes
  <2>2. CASE i \notin pos + 1 .. pos + Len(data) /\ i <= Len(file)
    <3>1. i \in 1 .. Len(file)
      BY <1>1, <1>2, <2>2
    <3>2. file[i] \in FileBytes
      BY <1>1, <3>1
    <3> QED BY <2>2, <3>2
  <2>3. CASE i \notin pos + 1 .. pos + Len(data) /\ ~(i <= Len(file))
    BY <2>3 DEF FileBytes
  <2> QED BY <2>1, <2>2, <2>3
<1>5. w \in [1 .. m -> FileBytes]
  BY <1>3, <1>4
<1>6. w \in Seq(FileBytes) /\ Len(w) = m
  BY <1>2, <1>5
<1>7. w \in Files
  BY <1>2, <1>6, FileSeq
<1>8. ASSUME NEW i \in 1 .. Len(data) PROVE w[pos + i] = data[i]
  <2>1. Len(data) > 0
    BY <1>1
  <2>2. pos + i \in 1 .. m /\ pos + i \in pos + 1 .. pos + Len(data) /\ (pos + i) - pos = i
    BY <1>1, <1>2, <2>1
  <2> QED BY <1>3, <2>2
<1>9. ASSUME NEW i \in 1 .. Len(file), i <= pos PROVE w[i] = file[i]
  <2>1. i \in 1 .. m /\ i \notin pos + 1 .. pos + Len(data) /\ i <= Len(file)
    BY <1>1, <1>2, <1>9
  <2> QED BY <1>3, <2>1
<1> QED BY <1>2, <1>6, <1>7, <1>8, <1>9 DEF w

-----------------------------------------------------------------------------
(* The operations on one upload.                                           *)
LEMMA UploadFields ==
    ASSUME NEW us \in UploadStates
    PROVE  /\ us.offset \in Nat /\ us.offset <= MaxLen /\ us.pos \in Nat /\ us.pos <= MaxFile
           /\ us.hashed \in Seq(Bytes) /\ Len(us.hashed) \in Nat /\ Len(us.hashed) <= MaxLen
           /\ us.file \in Files /\ us.file \in Seq(FileBytes) /\ Len(us.file) \in Nat
           /\ us.torn \in BOOLEAN
<1>1. /\ us.offset \in 0 .. MaxLen /\ us.pos \in 0 .. MaxFile
      /\ us.hashed \in Digests /\ us.file \in Files /\ us.torn \in BOOLEAN
  BY DEF UploadStates
<1>2. us.hashed \in Seq(Bytes) /\ Len(us.hashed) <= MaxLen /\ us.file \in Seq(FileBytes)
  BY <1>1, DigestSeq, FileSeq
<1> QED BY <1>1, <1>2, BoundAssumption

(* An upload about to be written at offset: when no write failed, file     *)
(* position and hasher have come to that offset together.                  *)
Sought(v, offset) ==
    /\ v \in UploadStates
    /\ Len(v.hashed) <= v.offset /\ Len(v.hashed) <= offset
    /\ ~v.torn =>
          /\ v.pos = offset
          /\ \A i \in 1 .. Len(v.hashed) :
                /\ offset <= Len(v.file)
                /\ v.hashed[i] = v.file[offset - Len(v.hashed) + i]

LEMMA SeekKeeps ==
    ASSUME NEW us, UploadOK(us), NEW offset \in Nat, offset <= MaxLen
    PROVE  Sought(Seek(us, offset), offset)
<1> DEFINE v == Seek(us, offset)
<1>1. us \in UploadStates /\ Len(us.hashed) <= us.offset /\ us.offset \in Nat
  BY UploadFields DEF UploadOK
<1>2. CASE us.offset = offset
  <2>1. v = us
    BY <1>2 DEF Seek
  <2> HIDE DEF v
  <2>2. Sought(v, offset)
    BY <1>1, <1>2, <2>1 DEF UploadOK, Follows, Sought
  <2> QED BY <2>2 DEF v
<1>3. CASE us.offset # offset
  <2>1. v = [us EXCEPT !.pos = offset, !.hashed = << >>, !.torn = FALSE]
    BY <1>3 DEF Seek
  <2>2. << >> \in Digests /\ Len(<< >>) = 0 /\ offset \in 0 .. MaxFile
    <3>1. << >> \in Seq(Bytes) /\ Len(<< >>) = 0
      OBVIOUS
    <3>2. << >> \in Digests
      <4>1. 0 <= MaxLen
        BY BoundAssumption
      <4> QED BY <3>1, <4>1, DigestSeq
    <3>3. offset \in 0 .. MaxFile
      BY BoundAssumption
    <3> QED BY <3>1, <3>2, <3>3
  <2>3. v \in UploadStates
    BY <1>1, <2>1, <2>2, Zenon DEF UploadStates
  <2>4. v.offset = us.offset /\ v.hashed = << >> /\ v.pos = offset
    BY <1>1, <2>1 DEF UploadStates
  <2> HIDE DEF v
  <2>5. Sought(v, offset)
    BY <1>1, <2>2, <2>3, <2>4 DEF Sought
  <2> QED BY <2>5 DEF v
<1> QED BY <1>2, <1>3

(* WriteUpload, on what Seek has left.                                     *)
Written(v, offset, data) ==
    [v EXCEPT !.file = WriteAt(v.file, v.pos, data), !.pos = v.pos + Len(data),
              !.hashed = v.hashed \o data, !.offset = offset + Len(data)]

(* Byte i of what the hasher has seen, after n more bytes, is where?       *)
LEMMA Positions ==
    ASSUME NEW offset \in Nat, NEW k \in Nat, NEW n \in Nat, k <= offset, NEW i \in 1 .. k + n
    PROVE  /\ (offset + n) - (k + n) + i = offset - k + i
           /\ i <= k => /\ i \in 1 .. k
                        /\ offset - k + i \in 1 .. offset
           /\ ~(i <= k) => i - k \in 1 .. n /\ offset - k + i = offset + (i - k)
OBVIOUS

LEMMA WriteKeeps ==
    ASSUME NEW us, UploadOK(us), NEW offset \in Nat, NEW data \in Seq(Bytes),
           offset + Len(data) <= MaxLen, Seek(us, offset).pos + Len(data) <= MaxFile
    PROVE  UploadOK(Written(Seek(us, offset), offset, data))
<1> DEFINE v == Seek(us, offset)
           w == Written(v, offset, data)
           n == Len(data)
           k == Len(v.hashed)
<1>1. n \in Nat /\ offset <= MaxLen /\ offset + n <= MaxLen
  BY BoundAssumption
<1>0. Sought(v, offset)
  BY <1>1, SeekKeeps
<1>4. v.pos + n <= MaxFile
  OBVIOUS
<1> HIDE DEF v
<1>2. /\ v \in UploadStates /\ k <= offset
      /\ ~v.torn => /\ v.pos = offset
                    /\ \A i \in 1 .. k :
                          /\ offset <= Len(v.file)
                          /\ v.hashed[i] = v.file[offset - k + i]
  BY <1>0 DEF Sought
<1>3. /\ v.pos \in Nat /\ v.hashed \in Seq(Bytes) /\ k \in Nat
      /\ v.file \in Files /\ v.file \in Seq(FileBytes) /\ Len(v.file) \in Nat
  BY <1>2, UploadFields
<1> DEFINE f == WriteAt(v.file, v.pos, data)
           h == v.hashed \o data
<1>5. /\ f \in Files /\ Len(f) \in Nat /\ Len(v.file) <= Len(f)
      /\ n > 0 => v.pos + n <= Len(f)
      /\ \A i \in 1 .. n : f[v.pos + i] = data[i]
      /\ \A i \in 1 .. Len(v.file) : i <= v.pos => f[i] = v.file[i]
  BY <1>3, <1>4, WrittenFile
<1>6. /\ h \in Seq(Bytes) /\ Len(h) = k + n
      /\ \A i \in 1 .. k + n : h[i] = IF i <= k THEN v.hashed[i] ELSE data[i - k]
  BY <1>3, ConcatProperties, Zenon
<1> HIDE DEF f, h, n, k
<1>7. h \in Digests
  <2>1. Len(h) <= MaxLen
    BY <1>1, <1>2, <1>3, <1>6, BoundAssumption
  <2> QED BY <1>6, <2>1, DigestSeq
<1>8. v.pos + n \in 0 .. MaxFile /\ offset + n \in 0 .. MaxLen
  BY <1>1, <1>3, <1>4, BoundAssumption
<1>9. w = [v EXCEPT !.file = f, !.pos = v.pos + n, !.hashed = h, !.offset = offset + n]
  BY DEF Written, f, h, n
<1>10. w \in UploadStates
  BY <1>2, <1>5, <1>7, <1>8, <1>9, Zenon DEF UploadStates
<1>11. /\ w.file = f /\ w.pos = v.pos + n /\ w.hashed = h /\ w.offset = offset + n
       /\ w.torn = v.torn
  BY <1>2, <1>9 DEF UploadStates
<1> HIDE DEF w
<1>12. Len(w.hashed) <= w.offset
  BY <1>1, <1>2, <1>3, <1>6, <1>11
<1>13. ASSUME ~w.torn PROVE Follows(w)
  <2>1. v.pos = offset /\ \A i \in 1 .. k : /\ offset <= Len(v.file)
                                            /\ v.hashed[i] = v.file[offset - k + i]
    BY <1>2, <1>11, <1>13
  <2>2. w.pos = w.offset
    BY <1>11, <2>1
  <2>4. ASSUME NEW i \in 1 .. k + n PROVE offset + n <= Len(f)
    <3>1. CASE n > 0
      BY <1>5, <2>1, <3>1
    <3>2. CASE n = 0
      <4>1. i \in 1 .. k
        BY <1>3, <3>2
      <4>2. offset <= Len(v.file)
        BY <2>1, <4>1
      <4> QED BY <1>3, <1>5, <3>2, <4>2
    <3> QED BY <1>1, <3>1, <3>2
  <2>3. ASSUME NEW i \in 1 .. k + n
        PROVE  h[i] = f[(offset + n) - (k + n) + i]
    <3>0. /\ (offset + n) - (k + n) + i = offset - k + i
          /\ i <= k => i \in 1 .. k /\ offset - k + i \in 1 .. offset
          /\ ~(i <= k) => i - k \in 1 .. n /\ offset - k + i = offset + (i - k)
      BY <1>1, <1>2, <1>3, Positions
    <3>1. CASE i <= k
      <4>1. i \in 1 .. k /\ offset - k + i \in 1 .. offset
        BY <3>0, <3>1
      <4>2. offset - k + i \in 1 .. Len(v.file) /\ offset - k + i <= v.pos
        <5>1. offset <= Len(v.file) /\ v.pos = offset
          BY <2>1, <4>1
        <5> QED BY <1>3, <4>1, <5>1
      <4>3. f[offset - k + i] = v.file[offset - k + i]
        BY <1>5, <4>2
      <4>4. h[i] = v.hashed[i]
        BY <1>6, <3>1
      <4> QED BY <2>1, <3>0, <4>1, <4>3, <4>4
    <3>2. CASE ~(i <= k)
      <4>1. i - k \in 1 .. n /\ offset - k + i = v.pos + (i - k)
        BY <2>1, <3>0, <3>2
      <4>2. f[v.pos + (i - k)] = data[i - k]
        BY <1>5, <4>1
      <4>3. h[i] = data[i - k]
        BY <1>6, <3>2
      <4> QED BY <3>0, <4>1, <4>2, <4>3
    <3> QED BY <3>1, <3>2
  <2> QED BY <1>6, <1>11, <2>2, <2>3, <2>4 DEF Follows
<1> QED BY <1>10, <1>12, <1>13 DEF UploadOK, w, v

(* WriteUpload fails after n bytes.                                        *)
Torn(v, part, n) ==
    [v EXCEPT !.file = WriteAt(v.file, v.pos, part), !.pos = v.pos + n, !.torn = TRUE]

LEMMA ShortWriteKeeps ==
    ASSUME NEW us, UploadOK(us), NEW offset \in Nat, NEW data \in Seq(Bytes),
           offset + Len(data) <= MaxLen, Seek(us, offset).pos + Len(data) <= MaxFile,
           NEW n \in 0 .. Len(data) - 1
    PROVE  UploadOK(Torn(Seek(us, offset), SubSeq(data, 1, n), n))
<1> DEFINE v == Seek(us, offset)
           part == SubSeq(data, 1, n)
           w == Torn(v, part, n)
<1>1. Len(data) \in Nat /\ offset <= MaxLen /\ n \in Nat /\ n < Len(data)
  BY BoundAssumption
<1>2. v \in UploadStates /\ Len(v.hashed) <= v.offset
  BY <1>1, SeekKeeps DEF Sought
<1>3. v.pos \in Nat /\ v.file \in Files
  BY <1>2, UploadFields
<1>4. v.pos + Len(data) <= MaxFile
  OBVIOUS
<1>5. part \in Seq(Bytes) /\ Len(part) = n
  <2>1. \A i \in 1 .. n : data[i] \in Bytes
    BY <1>1
  <2>2. /\ SubSeq(data, 1, n) \in Seq(Bytes)
        /\ Len(SubSeq(data, 1, n)) = IF 1 <= n THEN n - 1 + 1 ELSE 0
    BY <1>1, <2>1, SubSeqProperties
  <2> QED BY <1>1, <2>2
<1> HIDE DEF v, part
<1> DEFINE f == WriteAt(v.file, v.pos, part)
<1>6. f \in Files
  BY <1>1, <1>3, <1>4, <1>5, WrittenFile, BoundAssumption
<1>7. v.pos + n \in 0 .. MaxFile
  BY <1>1, <1>3, <1>4, BoundAssumption
<1>8. w = [v EXCEPT !.file = f, !.pos = v.pos + n, !.torn = TRUE]
  BY DEF Torn
<1> HIDE DEF f
<1>9. w \in UploadStates
  BY <1>2, <1>6, <1>7, <1>8, Zenon DEF UploadStates
<1>10. w.torn = TRUE /\ w.hashed = v.hashed /\ w.offset = v.offset
  BY <1>2, <1>8 DEF UploadStates
<1> HIDE DEF w
<1>11. UploadOK(w)
  BY <1>2, <1>9, <1>10 DEF UploadOK
<1> QED BY <1>11 DEF w, v, part

-----------------------------------------------------------------------------
(* The steps.                                                              *)
LEMMA OneUpload ==
    ASSUME UploadsInv, NEW r \in Refs, NEW v, UploadOK(v), uploads' = [uploads EXCEPT ![r] = v]
    PROVE  UploadsInv'
<1>1. v \in UploadStates /\ uploads \in [Refs -> UploadStates]
  BY DEF UploadOK, UploadsInv
<1>2. uploads' \in [Refs -> UploadStates]
  BY <1>1
<1>3. \A q \in Refs : UploadOK(uploads'[q])
  <2>1. uploads'[r] = v /\ \A q \in Refs \ {r} : uploads'[q] = uploads[q]
    BY <1>1
  <2> QED BY <2>1 DEF UploadsInv
<1> QED BY <1>2, <1>3 DEF UploadsInv

LEMMA UploadsStay ==
    ASSUME UploadsInv, uploads' = uploads PROVE UploadsInv'
BY DEF UploadsInv

LEMMA BlobsStay ==
    ASSUME BlobsInv, blobs' = blobs, disk' = disk PROVE BlobsInv'
BY DEF BlobsInv, EntriesHaveFiles

LEMMA FreshOK == UploadOK(NoUpload) /\ FreshStream \in StreamStates
<1>1. << >> \in Seq(Bytes) /\ << >> \in Seq(FileBytes) /\ Len(<< >>) = 0
  OBVIOUS
<1>2. 0 <= MaxLen /\ 0 <= MaxFile
  BY BoundAssumption
<1>3. << >> \in Digests /\ << >> \in Files
  BY <1>1, <1>2, DigestSeq, FileSeq
<1>4. 0 \in 0 .. MaxLen /\ 0 \in 0 .. MaxFile
  BY BoundAssumption
<1>5. NoUpload \in UploadStates
  BY <1>3, <1>4 DEF NoUpload, UploadStates, NoExpected
<1>6. /\ NoUpload.offset = 0 /\ NoUpload.pos = 0
      /\ NoUpload.hashed = << >> /\ NoUpload.file = << >>
  BY DEF NoUpload
<1>7. UploadOK(NoUpload)
  BY <1>1, <1>5, <1>6 DEF UploadOK, Follows
<1>8. FreshStream \in StreamStates
  BY DEF FreshStream, StreamStates
<1> QED BY <1>7, <1>8

LEMMA EndStreamInv ==
    ASSUME StreamsInv, NEW s \in Streams, EndStream(s) PROVE StreamsInv'
BY FreshOK DEF StreamsInv, EndStream

LEMMA BeginUploadInv ==
    ASSUME UploadsInv, NEW ref \in Refs, NEW expected \in Digests \cup {NoExpected},
           BeginUpload(ref, expected)
    PROVE  UploadsInv'
<1> DEFINE v == [NoUpload EXCEPT !.state = "open", !.linked = TRUE, !.expected = expected]
<1>1. CASE uploads[ref].state = "none"
  <2>1. uploads' = [uploads EXCEPT ![ref] = v]
    BY <1>1 DEF BeginUpload
  <2>2. NoUpload \in UploadStates /\ Len(NoUpload.hashed) <= NoUpload.offset
        /\ (~NoUpload.torn => Follows(NoUpload))
    BY FreshOK DEF UploadOK
  <2>3. v \in UploadStates
    BY <2>2, Zenon DEF UploadStates
  <2>4. /\ v.offset = NoUpload.offset /\ v.pos = NoUpload.pos /\ v.torn = NoUpload.torn
        /\ v.hashed = NoUpload.hashed /\ v.file = NoUpload.file
    BY DEF NoUpload
  <2> HIDE DEF v
  <2>5. UploadOK(v)
    BY <2>2, <2>3, <2>4 DEF UploadOK, Follows
  <2> QED BY <2>1, <2>5, OneUpload
<1>2. CASE uploads[ref].state # "none"
  BY <1>2, UploadsStay DEF BeginUpload
<1> QED BY <1>1, <1>2

(* Attach and Stat.                                                        *)
LEMMA BeginInv ==
    ASSUME StoreInv, NEW s \in Streams, NEW ref \in Refs,
           NEW expected \in Digests \cup {NoExpected},
           Attach(s, ref, expected) \/ Stat(s, ref, expected)
    PROVE  StoreInv'
<1>1. UploadsInv /\ StreamsInv /\ BlobsInv
  BY DEF StoreInv
<1>2. /\ blobs' = blobs /\ disk' = disk
      /\ \/ BeginUpload(ref, expected) /\ streams' = [streams EXCEPT ![s].ref = ref]
         \/ EndStream(s) /\ uploads' = uploads
  BY DEF Attach, Stat
<1>3. BlobsInv'
  BY <1>1, <1>2, BlobsStay
<1>4. CASE BeginUpload(ref, expected) /\ streams' = [streams EXCEPT ![s].ref = ref]
  <2>1. UploadsInv'
    BY <1>1, <1>4, BeginUploadInv
  <2>2. StreamsInv'
    BY <1>1, <1>4 DEF StreamsInv, StreamStates
  <2> QED BY <1>3, <2>1, <2>2 DEF StoreInv
<1>5. CASE EndStream(s) /\ uploads' = uploads
  BY <1>1, <1>3, <1>5, EndStreamInv, UploadsStay DEF StoreInv
<1> QED BY <1>2, <1>4, <1>5

LEMMA ChunkSeq ==
    ASSUME NEW offset \in 0 .. MaxLen, NEW data \in Chunks(offset)
    PROVE  offset \in Nat /\ data \in Seq(Bytes) /\ offset + Len(data) <= MaxLen
<1>1. offset \in Nat /\ MaxLen - offset \in Nat /\ MaxLen \in Nat
  BY BoundAssumption
<1>2. data \in Data(MaxLen - offset)
  BY DEF Chunks
<1>3. data \in Seq(Bytes) /\ Len(data) <= MaxLen - offset
  BY <1>1, <1>2, DataSeq
<1>4. Len(data) \in Nat
  BY <1>3
<1> QED BY <1>1, <1>3, <1>4

LEMMA StreamRef ==
    ASSUME StreamsInv, NEW s \in Streams, streams[s].ref # None
    PROVE  streams[s].ref \in Refs
BY DEF StreamsInv, StreamStates

LEMMA WriteUploadInv ==
    ASSUME UploadsInv, NEW ref \in Refs, NEW offset \in 0 .. MaxLen, NEW data \in Chunks(offset),
           Seek(uploads[ref], offset).pos + Len(data) <= MaxFile, WriteUpload(ref, offset, data)
    PROVE  UploadsInv'
<1> DEFINE v == Written(Seek(uploads[ref], offset), offset, data)
<1>1. UploadOK(uploads[ref])
  BY DEF UploadsInv
<1>2. UploadOK(v)
  BY <1>1, ChunkSeq, WriteKeeps
<1>3. uploads' = [uploads EXCEPT ![ref] = v]
  BY DEF WriteUpload, Written
<1> HIDE DEF v
<1> QED BY <1>2, <1>3, OneUpload

(* Write and FinalWrite.                                                   *)
LEMMA WriteInv ==
    ASSUME StoreInv, NEW s \in Streams, NEW offset \in 0 .. MaxLen, NEW data \in Chunks(offset),
           Fits(s, offset, data), Write(s, offset, data) \/ FinalWrite(s, offset, data)
    PROVE  StoreInv'
<1>1. UploadsInv /\ StreamsInv /\ BlobsInv
  BY DEF StoreInv
<1>2. /\ streams[s].ref # None /\ blobs' = blobs /\ disk' = disk
      /\ \/ /\ WriteUpload(streams[s].ref, offset, data)
            /\ \/ streams' = [streams EXCEPT ![s].uploaded = TRUE]
               \/ streams' = [streams EXCEPT ![s].step = "commit"]
         \/ EndStream(s) /\ uploads' = uploads
  BY DEF Write, FinalWrite
<1>3. BlobsInv'
  BY <1>1, <1>2, BlobsStay
<1>4. ASSUME WriteUpload(streams[s].ref, offset, data),
             \/ streams' = [streams EXCEPT ![s].uploaded = TRUE]
             \/ streams' = [streams EXCEPT ![s].step = "commit"]
      PROVE  StoreInv'
  <2>1. streams[s].ref \in Refs
    BY <1>1, <1>2, StreamRef
  <2>2. Seek(uploads[streams[s].ref], offset).pos + Len(data) <= MaxFile
    BY <1>2 DEF Fits
  <2>3. UploadsInv'
    BY <1>1, <1>4, <2>1, <2>2, WriteUploadInv
  <2>4. StreamsInv'
    <3>1. streams \in [Streams -> StreamStates] /\ streams[s] \in StreamStates
      BY <1>1 DEF StreamsInv
    <3>2. /\ [streams[s] EXCEPT !.uploaded = TRUE] \in StreamStates
          /\ [streams[s] EXCEPT !.step = "commit"] \in StreamStates
      BY <3>1 DEF StreamStates
    <3>3. \E next \in StreamStates : streams' = [streams EXCEPT ![s] = next]
      BY <1>4, <3>2
    <3> QED BY <3>1, <3>3 DEF StreamsInv
  <2> QED BY <1>3, <2>3, <2>4 DEF StoreInv
<1>5. ASSUME EndStream(s), uploads' = uploads PROVE StoreInv'
  BY <1>1, <1>3, <1>5, EndStreamInv, UploadsStay DEF StoreInv
<1> QED BY <1>2, <1>4, <1>5

LEMMA WriteFailsInv ==
    ASSUME StoreInv, NEW s \in Streams, NEW offset \in 0 .. MaxLen, NEW data \in Chunks(offset),
           Fits(s, offset, data), WriteFails(s, offset, data)
    PROVE  StoreInv'
<1> DEFINE ref == streams[s].ref
<1>1. UploadsInv /\ StreamsInv /\ BlobsInv
  BY DEF StoreInv
<1>2. ref # None /\ blobs' = blobs /\ disk' = disk /\ EndStream(s)
  BY DEF WriteFails
<1>3. PICK n \in 0 .. Len(data) - 1 : WriteUploadShort(ref, offset, data, n)
  BY DEF WriteFails
<1>4. ref \in Refs
  BY <1>1, <1>2, StreamRef
<1>5. Seek(uploads[ref], offset).pos + Len(data) <= MaxFile
  BY <1>2 DEF Fits
<1> DEFINE v == Torn(Seek(uploads[ref], offset), SubSeq(data, 1, n), n)
<1>6. UploadOK(v)
  <2>1. UploadOK(uploads[ref])
    BY <1>1, <1>4 DEF UploadsInv
  <2> QED BY <1>5, <2>1, ChunkSeq, ShortWriteKeeps
<1>7. uploads' = [uploads EXCEPT ![ref] = v]
  BY <1>3 DEF WriteUploadShort, Torn
<1> HIDE DEF v
<1>8. UploadsInv'
  BY <1>1, <1>4, <1>6, <1>7, OneUpload
<1> QED BY <1>1, <1>2, <1>8, BlobsStay, EndStreamInv DEF StoreInv

(* CommitUpload leaves what the hasher and the file say alone.             *)
LEMMA Flagged ==
    ASSUME NEW us, UploadOK(us), NEW v \in UploadStates,
           v.offset = us.offset, v.pos = us.pos, v.hashed = us.hashed, v.file = us.file,
           v.torn = us.torn
    PROVE  UploadOK(v)
BY DEF UploadOK, Follows

LEMMA CommitInv ==
    ASSUME StoreInv, NEW s \in Streams, NEW total \in 0 .. MaxLen, Commit(s, total)
    PROVE  StoreInv'
<1> DEFINE ref == streams[s].ref
           us == uploads[ref]
<1>1. UploadsInv /\ StreamsInv /\ BlobsInv
  BY DEF StoreInv
<1>2. ref # None /\ CommitUpload(ref, total) /\ EndStream(s)
  BY DEF Commit
<1>3. ref \in Refs
  BY <1>1, <1>2, StreamRef
<1>4. uploads \in [Refs -> UploadStates] /\ UploadOK(us) /\ us \in UploadStates
  BY <1>1, <1>3 DEF UploadsInv
<1>5. StreamsInv'
  BY <1>1, <1>2, EndStreamInv
<1>6. ASSUME CommitRejected(ref, total) PROVE StoreInv'
  <2> DEFINE v == [us EXCEPT !.linked = FALSE]
  <2>1. uploads' = [uploads EXCEPT ![ref] = v] /\ blobs' = blobs /\ disk' = disk
    BY <1>6 DEF CommitRejected
  <2>2. /\ v \in UploadStates /\ v.offset = us.offset /\ v.pos = us.pos
        /\ v.hashed = us.hashed /\ v.file = us.file /\ v.torn = us.torn
    BY <1>4 DEF UploadStates
  <2> HIDE DEF v
  <2>3. UploadsInv'
    BY <1>1, <1>3, <1>4, <2>1, <2>2, Flagged, OneUpload
  <2> QED BY <1>1, <1>5, <2>1, <2>3, BlobsStay DEF StoreInv
<1>7. ASSUME CommitFailed(ref, total) PROVE StoreInv'
  <2>0. PICK closed \in {TRUE, us.closed} :
             uploads' = [uploads EXCEPT ![ref].closed = closed] /\ blobs' = blobs /\ disk' = disk
    BY <1>7 DEF CommitFailed
  <2> DEFINE v == [us EXCEPT !.closed = closed]
  <2>1. uploads' = [uploads EXCEPT ![ref] = v] /\ blobs' = blobs /\ disk' = disk
    BY <2>0
  <2>2. /\ v \in UploadStates /\ v.offset = us.offset /\ v.pos = us.pos
        /\ v.hashed = us.hashed /\ v.file = us.file /\ v.torn = us.torn
    BY <1>4 DEF UploadStates
  <2> HIDE DEF v
  <2>3. UploadsInv'
    BY <1>1, <1>3, <1>4, <2>1, <2>2, Flagged, OneUpload
  <2> QED BY <1>1, <1>5, <2>1, <2>3, BlobsStay DEF StoreInv
<1>8. ASSUME CommitStored(ref, total) PROVE StoreInv'
  <2> DEFINE v == [us EXCEPT !.state = "committed", !.closed = TRUE, !.linked = FALSE]
  <2>1. uploads' = [uploads EXCEPT ![ref] = v]
    BY <1>3, <1>4, <1>8 DEF CommitStored
  <2>2. v \in UploadStates
    BY <1>4, Zenon DEF UploadStates
  <2>3. /\ v.offset = us.offset /\ v.pos = us.pos
        /\ v.hashed = us.hashed /\ v.file = us.file /\ v.torn = us.torn
    BY <1>4 DEF UploadStates
  <2> HIDE DEF v
  <2>4. UploadsInv'
    BY <1>1, <1>3, <1>4, <2>1, <2>2, <2>3, Flagged, OneUpload
  <2>5. /\ disk' = [disk EXCEPT ![us.hashed] = us.file]
        /\ blobs' = [blobs EXCEPT ![Key(us.hashed)] = us.offset]
    BY <1>8 DEF CommitStored
  <2>6. us.hashed \in Digests /\ us.file \in Files /\ us.offset \in Nat /\ us.offset <= MaxLen
    BY <1>4, UploadFields, DigestSeq
  <2>7. us.offset \in 0 .. NoBlob
    BY <2>6, BoundAssumption DEF NoBlob
  <2> HIDE DEF us
  <2>8. \A d \in Digests : Key(d) \in BlobKey /\ (Key(d) = Key(us.hashed) => d = us.hashed)
    BY <2>6 DEF Key, BlobKey
  <2>9. blobs' \in [BlobKey -> 0 .. NoBlob] /\ disk' \in [Digests -> Files \cup {NoFile}]
    BY <1>1, <2>5, <2>6, <2>7 DEF BlobsInv
  <2>10. EntriesHaveFiles'
    <3>1. SUFFICES ASSUME NEW d \in Digests, blobs'[Key(d)] # NoBlob
                   PROVE  disk'[d] # NoFile
      BY DEF EntriesHaveFiles
    <3>2. CASE d = us.hashed
      <4>1. disk'[d] = us.file
        BY <1>1, <2>5, <2>6, <3>2 DEF BlobsInv
      <4> QED BY <2>6, <4>1, FileIsFile
    <3>3. CASE d # us.hashed
      <4>1. Key(d) \in BlobKey /\ Key(d) # Key(us.hashed)
        BY <2>8, <3>3
      <4>2. blobs'[Key(d)] = blobs[Key(d)] /\ disk'[d] = disk[d]
        BY <1>1, <2>5, <3>3, <4>1 DEF BlobsInv
      <4> QED BY <1>1, <3>1, <4>2 DEF BlobsInv, EntriesHaveFiles
    <3> QED BY <3>2, <3>3
  <2>11. BlobsInv'
    BY <2>9, <2>10 DEF BlobsInv
  <2> QED BY <1>5, <2>4, <2>11 DEF StoreInv
<1> QED BY <1>2, <1>6, <1>7, <1>8 DEF CommitUpload

LEMMA CloseInv ==
    ASSUME StoreInv, NEW s \in Streams, Close(s)
    PROVE  StoreInv'
BY UploadsStay, BlobsStay, EndStreamInv DEF StoreInv, Close

LEMMA DeleteInv ==
    ASSUME StoreInv, NEW key \in BlobKey, Delete(key)
    PROVE  StoreInv'
<1>1. UploadsInv /\ StreamsInv /\ BlobsInv
  BY DEF StoreInv
<1>2. /\ disk' = IF key.doubled THEN disk ELSE [disk EXCEPT ![key.hash] = NoFile]
      /\ blobs' = [blobs EXCEPT ![key] = NoBlob] /\ uploads' = uploads /\ streams' = streams
  BY DEF Delete
<1>3. key.hash \in Digests /\ key.doubled \in BOOLEAN /\ NoBlob \in 0 .. NoBlob
  BY BoundAssumption DEF BlobKey, NoBlob
<1>4. blobs' \in [BlobKey -> 0 .. NoBlob]
  BY <1>1, <1>2, <1>3 DEF BlobsInv
<1>5. disk' \in [Digests -> Files \cup {NoFile}]
  <2>1. disk \in [Digests -> Files \cup {NoFile}]
    BY <1>1 DEF BlobsInv
  <2>2. CASE key.doubled
    BY <1>2, <2>1, <2>2
  <2>3. CASE ~key.doubled
    BY <1>2, <2>1, <2>3
  <2> QED BY <2>2, <2>3
<1>6. EntriesHaveFiles'
  <2>1. SUFFICES ASSUME NEW d \in Digests, blobs'[Key(d)] # NoBlob
                 PROVE  disk'[d] # NoFile
    BY DEF EntriesHaveFiles
  <2>2. Key(d) \in BlobKey
    BY DEF Key, BlobKey
  <2>3. Key(d) # key
    BY <1>1, <1>2, <2>1 DEF BlobsInv
  <2>4. disk[d] # NoFile
    BY <1>1, <1>2, <2>1, <2>2, <2>3 DEF BlobsInv, EntriesHaveFiles
  <2>5. CASE key.doubled
    BY <1>2, <2>4, <2>5
  <2>6. CASE ~key.doubled
    <3>1. key.hash # d
      <4>1. key = [hash |-> key.hash, doubled |-> key.doubled]
        BY DEF BlobKey
      <4>2. key.doubled = FALSE
        BY <1>3, <2>6, Zenon
      <4> QED BY <2>3, <4>1, <4>2 DEF Key
    <3>2. disk'[d] = disk[d]
      BY <1>1, <1>2, <2>6, <3>1 DEF BlobsInv
    <3> QED BY <2>4, <3>2
  <2> QED BY <2>5, <2>6
<1>7. BlobsInv' /\ UploadsInv' /\ StreamsInv'
  BY <1>1, <1>2, <1>4, <1>5, <1>6, UploadsStay DEF BlobsInv, StreamsInv
<1> QED BY <1>7 DEF StoreInv

LEMMA RestartInv ==
    ASSUME StoreInv, Restart PROVE StoreInv'
<1>1. /\ uploads' = [r \in Refs |-> NoUpload] /\ streams' = [s \in Streams |-> FreshStream]
      /\ blobs' = scan /\ disk' = disk
  BY DEF Restart
<1>2. UploadsInv' /\ StreamsInv'
  BY <1>1, FreshOK DEF UploadsInv, StreamsInv, UploadOK
<1>3. disk \in [Digests -> Files \cup {NoFile}]
  BY DEF StoreInv, BlobsInv
<1>4. blobs' \in [BlobKey -> 0 .. NoBlob]
  <2>1. ASSUME NEW key \in BlobKey, NEW d \in Digests, disk[d] # NoFile, key = ScannedKey(d)
        PROVE  Len(disk[key.hash]) \in 0 .. NoBlob
    <3>1. key.hash = d
      BY <2>1 DEF ScannedKey
    <3>2. disk[d] \in Files
      BY <1>3, <2>1
    <3>3. Len(disk[d]) \in Nat /\ Len(disk[d]) <= MaxFile
      BY <3>2, FileSeq
    <3> QED BY <3>1, <3>3, BoundAssumption DEF NoBlob
  <2>2. NoBlob \in 0 .. NoBlob
    BY BoundAssumption DEF NoBlob
  <2>3. ASSUME NEW key \in BlobKey
        PROVE  (IF \E d \in Digests : disk[d] # NoFile /\ key = ScannedKey(d)
                THEN Len(disk[key.hash]) ELSE NoBlob) \in 0 .. NoBlob
    BY <2>1, <2>2
  <2> QED BY <1>1, <2>3 DEF scan
<1>5. EntriesHaveFiles'
  <2>1. SUFFICES ASSUME NEW d \in Digests PROVE blobs'[Key(d)] = NoBlob
    BY DEF EntriesHaveFiles
  <2>2. Key(d) \in BlobKey
    BY DEF Key, BlobKey
  <2>3. \A e : Key(d) # ScannedKey(e)
    <3>1. ASSUME NEW e, Key(d) = ScannedKey(e) PROVE FALSE
      <4>1. Key(d).doubled = FALSE /\ ScannedKey(e).doubled = TRUE
        BY DEF Key, ScannedKey
      <4> QED BY <3>1, <4>1
    <3> QED BY <3>1
  <2> QED BY <1>1, <2>2, <2>3 DEF scan
<1>6. BlobsInv'
  BY <1>1, <1>3, <1>4, <1>5 DEF BlobsInv
<1> QED BY <1>2, <1>6 DEF StoreInv

-----------------------------------------------------------------------------
LEMMA StoreInit == Init => StoreInv
<1> SUFFICES ASSUME Init PROVE StoreInv
  OBVIOUS
<1>1. UploadsInv /\ StreamsInv
  BY FreshOK DEF Init, UploadsInv, StreamsInv, UploadOK
<1>2. NoBlob \in 0 .. NoBlob
  BY BoundAssumption DEF NoBlob
<1>3. \A d \in Digests : Key(d) \in BlobKey
  BY DEF Key, BlobKey
<1>4. BlobsInv
  BY <1>2, <1>3 DEF Init, BlobsInv, EntriesHaveFiles
<1> QED BY <1>1, <1>4 DEF StoreInv

LEMMA StoreNext == StoreInv /\ [Next]_vars => StoreInv'
<1> SUFFICES ASSUME StoreInv, [Next]_vars PROVE StoreInv'
  OBVIOUS
<1>1. ASSUME NEW s \in Streams, NEW ref \in Refs, NEW expected \in Digests \cup {NoExpected},
             Attach(s, ref, expected) \/ Stat(s, ref, expected)
      PROVE  StoreInv'
  BY <1>1, BeginInv
<1>2. ASSUME NEW s \in Streams, NEW offset \in 0 .. MaxLen, NEW data \in Chunks(offset),
             Fits(s, offset, data),
             \/ Write(s, offset, data)
             \/ WriteFails(s, offset, data)
             \/ FinalWrite(s, offset, data)
      PROVE  StoreInv'
  BY <1>2, WriteInv, WriteFailsInv
<1>3. ASSUME NEW s \in Streams, NEW total \in 0 .. MaxLen, Commit(s, total) PROVE StoreInv'
  BY <1>3, CommitInv
<1>4. ASSUME NEW s \in Streams, Close(s) PROVE StoreInv'
  BY <1>4, CloseInv
<1>5. ASSUME NEW key \in BlobKey, Delete(key) PROVE StoreInv'
  BY <1>5, DeleteInv
<1>6. CASE Restart
  BY <1>6, RestartInv
<1>7. CASE UNCHANGED vars
  BY <1>7, UploadsStay, BlobsStay DEF vars, StoreInv, StreamsInv
<1> QED BY <1>1, <1>2, <1>3, <1>4, <1>5, <1>6, <1>7 DEF Next

(* The invariant of uploads, streams and blobs, from which the rest        *)
(* follows.                                                                *)
THEOREM StoreInvariant == Spec => []StoreInv
BY StoreInit, StoreNext, PTL DEF Spec

(* Every field has its type and keeps its bound, for any bytes and bounds, *)
(* whatever clients send.                                                  *)
THEOREM StoreTypes == Spec => []TypeOK
<1>1. StoreInv => TypeOK
  BY DEF StoreInv, UploadsInv, StreamsInv, BlobsInv, TypeOK
<1> QED BY <1>1, StoreInvariant, PTL

(* CommitUpload and Delete: an entry that a commit made has its file until *)
(* it is deleted, whatever failed or was rejected since. (The entries that *)
(* scan makes after a restart are others, and have no file at their path.) *)
THEOREM EntriesAreBacked == Spec => []EntriesHaveFiles
<1>1. StoreInv => EntriesHaveFiles
  BY DEF StoreInv, BlobsInv
<1> QED BY <1>1, StoreInvariant, PTL

(* What SubSeq returns.                                                    *)
LEMMA PartOfSeq ==
    ASSUME NEW S, NEW s, NEW m \in Int, NEW n \in Int, \A i \in m .. n : s[i] \in S
    PROVE  /\ SubSeq(s, m, n) \in Seq(S)
           /\ Len(SubSeq(s, m, n)) = IF m <= n THEN n - m + 1 ELSE 0
           /\ \A i \in 1 .. n - m + 1 : SubSeq(s, m, n)[i] = s[m + i - 1]
BY SubSeqProperties

(* Bytes that are those of a file up to an offset are a part of it.        *)
LEMMA PartOfFile ==
    ASSUME NEW f \in Seq(FileBytes), NEW h \in Seq(Bytes), NEW o \in Nat,
           Len(h) <= o, o <= Len(f), \A i \in 1 .. Len(h) : h[i] = f[o - Len(h) + i]
    PROVE  h = SubSeq(f, o - Len(h) + 1, o)
<1> DEFINE k == Len(h)
           first == o - k + 1
<1>1. k \in Nat /\ Len(f) \in Nat
  OBVIOUS
<1>2. first \in Int /\ o \in Int /\ o - first + 1 = k /\ (first <= o <=> 1 <= k)
  BY <1>1
<1>3. \A i \in first .. o : f[i] \in FileBytes
  <2>1. ASSUME NEW i \in first .. o PROVE i \in 1 .. Len(f)
    BY <1>1
  <2> QED BY <2>1
<1>4. h \in Seq(FileBytes)
  BY DEF FileBytes
<1>5. \A i \in 1 .. k : h[i] = f[o - k + i]
  OBVIOUS
<1>6. \A i \in 1 .. k : first + i - 1 = o - k + i
  BY <1>1
<1> HIDE DEF k, first
<1> DEFINE sub == SubSeq(f, first, o)
<1>7. /\ sub \in Seq(FileBytes)
      /\ Len(sub) = IF first <= o THEN o - first + 1 ELSE 0
      /\ \A i \in 1 .. o - first + 1 : sub[i] = f[first + i - 1]
  BY <1>2, <1>3, PartOfSeq
<1> HIDE DEF sub
<1>8. Len(sub) = k
  BY <1>1, <1>2, <1>7
<1>9. ASSUME NEW i \in 1 .. k PROVE h[i] = sub[i]
  <2>1. sub[i] = f[first + i - 1]
    BY <1>2, <1>7
  <2>2. first + i - 1 = o - k + i
    BY <1>6
  <2>3. h[i] = f[o - k + i]
    BY <1>5
  <2> QED BY <2>1, <2>2, <2>3, Zenon
<1>10. h = sub
  BY <1>4, <1>7, <1>8, <1>9, SeqEqual DEF k
<1> QED BY <1>10 DEF sub, first, k

(* Byte by byte or as a subsequence: the invariant is the property.        *)
LEMMA InvGivesHasher == StoreInv => HasherFollowsFile
<1> SUFFICES ASSUME StoreInv, NEW r \in Refs, ~uploads[r].torn
             PROVE  LET us == uploads[r] IN
                    /\ us.pos = us.offset
                    /\ Len(us.hashed) <= us.offset
                    /\ us.hashed # << >> =>
                          /\ us.offset <= Len(us.file)
                          /\ us.hashed = SubSeq(us.file, us.offset - Len(us.hashed) + 1, us.offset)
  BY DEF HasherFollowsFile
<1> DEFINE us == uploads[r]
<1>1. UploadOK(us) /\ us \in UploadStates
  BY DEF StoreInv, UploadsInv
<1>2. /\ us.offset \in Nat /\ us.hashed \in Seq(Bytes) /\ us.file \in Seq(FileBytes)
  BY <1>1, UploadFields
<1>3. /\ Len(us.hashed) <= us.offset /\ us.pos = us.offset
      /\ \A i \in 1 .. Len(us.hashed) :
            /\ us.offset <= Len(us.file)
            /\ us.hashed[i] = us.file[us.offset - Len(us.hashed) + i]
  BY <1>1 DEF UploadOK, Follows
<1> HIDE DEF us
<1>4. ASSUME us.hashed # << >>
      PROVE  /\ us.offset <= Len(us.file)
             /\ us.hashed = SubSeq(us.file, us.offset - Len(us.hashed) + 1, us.offset)
  <2>1. 1 \in 1 .. Len(us.hashed)
    BY <1>2, <1>4
  <2>2. us.offset <= Len(us.file)
    BY <1>3, <2>1
  <2> QED BY <1>2, <1>3, <2>2, PartOfFile
<1> QED BY <1>3, <1>4 DEF us

(* WriteUpload and CommitUpload: what the hasher has seen, if anything,    *)
(* are the bytes of the ingest file that end at Offset, for any            *)
(* interleaving of writes at any offsets, with and without data, unless a  *)
(* write failed half way since the last seek.                              *)
THEOREM HasherIsTrue == Spec => []HasherFollowsFile
BY InvGivesHasher, StoreInvariant, PTL
=============================================================================
