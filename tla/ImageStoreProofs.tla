-------------------------- MODULE ImageStoreProofs --------------------------
(***************************************************************************)
(* What racing pulls leave behind, for any images, layers and number of    *)
(* pulls.                                                                  *)
(*                                                                         *)
(* The uploads of the content store are the lock that nobody wrote: a ref  *)
(* is committed once and stays committed, so of all pulls of the daemon    *)
(* that want a layer only one ever gets past storeContent with it.  That   *)
(* pull claims the layer: it alone prepares and commits its snapshot, and  *)
(* when it has succeeded nobody can touch the chain but by removing it.    *)
(***************************************************************************)
EXTENDS ImageStore, FiniteSetTheorems, SequenceTheorems, TLAPS

(* Where a pull is, as a record q of PullStates.                           *)
Running(q) == q.step \notin {"idle", "failed"}

Size(q) == Len(BlobsOf(q.kind, q.manifest))

Blob(q, i) == BlobsOf(q.kind, q.manifest)[i]

PullOK(q) ==
    /\ q.step = "idle" => q.kind = None
    /\ Running(q) => /\ q.kind \in Kinds /\ q.name \in Names /\ q.manifest \in Manifests
                     /\ q.at \in 1 .. Size(q)
    /\ q.step \in {"register", "ok"} => q.at = Size(q)
    /\ q.step = "store" => q.kind # "docker"
    /\ q.step \in {"prepare", "commit"} => q.kind = "containerd" /\ q.at > 1

(* The blobs that a pull has been told are stored.                         *)
Told(q, i) ==
    /\ Running(q) /\ q.kind # "docker"
    /\ i \in 1 .. q.at
    /\ i < q.at \/ q.step \in {"prepare", "commit", "register", "ok"}

BlobsTold == \A p \in Pullers : \A i \in Nat : Told(pulls[p], i) => Blob(pulls[p], i) \in blobs

(* A pull that waits has one upload in progress, of the blob it is at.     *)
JobsOK ==
    \A j \in jobs :
        LET q == pulls[j.puller] IN
        /\ q.kind \in Kinds
        /\ q.kind # "docker" =>
              /\ q.step \in {"store", "failed"}
              /\ q.step = "store" => j.blob = Blob(q, q.at)
              /\ \A k \in jobs : k.puller = j.puller => k = j

-----------------------------------------------------------------------------
(* The layers a pull of the daemon has claimed: those it was told of.      *)
Claims(q, i) == Told(q, i) /\ q.kind = "containerd" /\ i > 1

Chain(q, i) == IF i = 2 THEN None ELSE Blob(q, i - 1)

(* The snapshot of a claimed layer: there is none yet, the one that is     *)
(* being unpacked, or the one that was committed; or it was removed.       *)
Phase(q, i) ==
    IF i = q.at /\ q.step = "prepare" THEN "absent"
    ELSE IF i = q.at /\ q.step = "commit" THEN "active" ELSE "committed"

Snapped(snaps, gone, l, phase, parent) ==
    LET absent == snaps[l].kind = "absent" /\ snaps[l].parent = None
    IN  IF phase = "absent"
        THEN absent
        ELSE (snaps[l].kind = phase /\ snaps[l].parent = parent) \/ (absent /\ l \in gone)

Layered(q) ==
    \A i \in Nat : Claims(q, i) =>
        /\ uploads[<<"upload", Blob(q, i)>>].committed
        /\ Snapped(snapshots, removed, Blob(q, i), Phase(q, i), Chain(q, i))

ClaimedOnce ==
    \A p, q \in Pullers : \A i, k \in Nat :
        /\ Claims(pulls[p], i) /\ Claims(pulls[q], k)
        /\ Blob(pulls[p], i) = Blob(pulls[q], k)
        => p = q /\ i = k

UploadsOK ==
    /\ \A r \in Refs : uploads[r].committed =>
            uploads[r].file = "closed" /\ uploads[r].data = "good"
    /\ \A l \in Layers : ~uploads[<<"upload", l>>].committed =>
            snapshots[l].kind = "absent" /\ snapshots[l].parent = None

(* An active layer is being unpacked.                                      *)
ActiveOwned ==
    \A l \in Layers : snapshots[l].kind = "active" =>
        \E p \in Pullers : pulls[p].step = "commit" /\ Blob(pulls[p], pulls[p].at) = l

(* A record of the daemon's Pull is that of a pull that has succeeded.     *)
Recorded ==
    \A n \in Names : images[n].target # None =>
        \E p \in Pullers : /\ pulls[p].step = "ok" /\ pulls[p].kind = "containerd"
                           /\ pulls[p].manifest = images[n].target

Clients ==
    /\ \A p \in Pullers : PullOK(pulls[p]) /\ Layered(pulls[p])
    /\ BlobsTold /\ ClaimedOnce /\ ActiveOwned /\ Recorded

ImageInv ==
    /\ TypeOK
    /\ Clients
    /\ JobsOK /\ UploadsOK

-----------------------------------------------------------------------------
(* The blobs of a manifest.                                                *)
LEMMA ManifestBlobs ==
    ASSUME NEW m \in Manifests, NEW kind
    PROVE  /\ BlobsOf(kind, m) \in Seq(Digests)
           /\ Len(BlobsOf(kind, m)) > 0
           /\ kind # "docker" =>
                 /\ Len(BlobsOf(kind, m)) = 1 + Len(LayersOf[m])
                 /\ \A i \in 2 .. Len(BlobsOf(kind, m)) :
                       /\ BlobsOf(kind, m)[i] = LayersOf[m][i - 1]
                       /\ BlobsOf(kind, m)[i] \in Layers
<1> DEFINE head == <<ConfigOf[m]>>
           mid == LayersOf[m]
           last == IF kind = "docker" THEN <<m>> ELSE << >>
<1>1. head \in Seq(Digests) /\ Len(head) = 1
  BY ManifestAssumption DEF Digests
<1>2. mid \in Seq(Digests) /\ mid \in Seq(Layers)
  <2>1. mid \in Seq(Layers)
    BY ManifestAssumption
  <2> QED BY <2>1 DEF Digests
<1>3. last \in Seq(Digests) /\ (kind # "docker" => last = << >>)
  <2>1. m \in Digests
    BY DEF Digests
  <2>2. << >> \in Seq(Digests) /\ <<m>> \in Seq(Digests)
    BY <2>1
  <2>3. ASSUME kind # "docker" PROVE last = << >>
    BY <2>3
  <2>4. ASSUME kind = "docker" PROVE last = <<m>>
    BY <2>4
  <2> QED BY <2>2, <2>3, <2>4, Zenon
<1>4. BlobsOf(kind, m) = head \o mid \o last
  BY DEF BlobsOf
<1> HIDE DEF head, mid, last
<1>5. head \o mid \in Seq(Digests) /\ Len(head \o mid) = 1 + Len(mid)
  <2>1. head \o mid \in Seq(Digests) /\ Len(head \o mid) = Len(head) + Len(mid)
    BY <1>1, <1>2, ConcatProperties, Zenon
  <2> QED BY <1>1, <2>1, Zenon
<1>6. head \o mid \o last \in Seq(Digests)
      /\ Len(head \o mid \o last) = Len(head \o mid) + Len(last)
  BY <1>3, <1>5, ConcatProperties, Zenon
<1>7. Len(mid) \in Nat /\ Len(last) \in Nat
  BY <1>2, <1>3
<1>8. BlobsOf(kind, m) \in Seq(Digests) /\ Len(BlobsOf(kind, m)) > 0
  BY <1>4, <1>5, <1>6, <1>7
<1>9. ASSUME kind # "docker"
      PROVE  /\ Len(BlobsOf(kind, m)) = 1 + Len(mid)
             /\ \A i \in 2 .. Len(BlobsOf(kind, m)) :
                   BlobsOf(kind, m)[i] = mid[i - 1] /\ mid[i - 1] \in Layers
  <2>1. BlobsOf(kind, m) = head \o mid
    BY <1>3, <1>4, <1>5, <1>9, ConcatEmptySeq
  <2>2. \A i \in 1 .. Len(head) + Len(mid) :
            (head \o mid)[i] = IF i <= Len(head) THEN head[i] ELSE mid[i - Len(head)]
    BY <1>1, <1>2, ConcatProperties, Zenon
  <2>3. \A i \in 1 .. Len(mid) : mid[i] \in Layers
    BY <1>2
  <2>4. ASSUME NEW i \in 2 .. Len(BlobsOf(kind, m))
        PROVE  BlobsOf(kind, m)[i] = mid[i - 1] /\ mid[i - 1] \in Layers
    <3>1. i \in 1 .. Len(head) + Len(mid) /\ ~(i <= Len(head)) /\ i - 1 \in 1 .. Len(mid)
      BY <1>1, <1>5, <1>7, <2>1
    <3>2. (head \o mid)[i] = mid[i - 1]
      BY <1>1, <2>2, <3>1
    <3> QED BY <2>1, <2>3, <3>1, <3>2
  <2> QED BY <1>5, <2>1, <2>4
<1> QED BY <1>8, <1>9 DEF mid

(* What a pull has been told of are blobs, what it claims are layers.      *)
LEMMA ToldBlobs ==
    ASSUME NEW q \in PullStates, PullOK(q), NEW i \in Nat
    PROVE  /\ Running(q) => Size(q) \in Nat /\ q.at \in 1 .. Size(q)
           /\ Told(q, i) => i \in 1 .. Size(q) /\ Blob(q, i) \in Digests
           /\ Claims(q, i) => i \in 2 .. Size(q) /\ Blob(q, i) \in Layers
<1>1. ASSUME Running(q) PROVE Size(q) \in Nat /\ q.at \in 1 .. Size(q) /\ q.manifest \in Manifests
  BY <1>1, ManifestBlobs DEF PullOK, Size
<1>2. ASSUME Told(q, i) PROVE i \in 1 .. Size(q) /\ Blob(q, i) \in Digests
  <2>1. Running(q) /\ i \in 1 .. Size(q)
    BY <1>1, <1>2 DEF Told
  <2> QED BY <1>1, <2>1, ManifestBlobs DEF Size, Blob
<1>3. ASSUME Claims(q, i) PROVE i \in 2 .. Size(q) /\ Blob(q, i) \in Layers
  <2>1. Running(q) /\ i \in 1 .. Size(q) /\ i > 1 /\ q.kind # "docker"
    BY <1>2, <1>3 DEF Claims, Told
  <2> QED BY <1>1, <2>1, ManifestBlobs DEF Size, Blob
<1> QED BY <1>1, <1>2, <1>3

-----------------------------------------------------------------------------
(* What a step does to one pull, in the terms of the invariant.  A quiet   *)
(* step makes no claim and leaves the snapshots alone.                     *)
Heard(p) ==
    \A i \in Nat : Told(pulls'[p], i) =>
        \/ Told(pulls[p], i) /\ Blob(pulls'[p], i) = Blob(pulls[p], i)
        \/ Blob(pulls'[p], i) \in blobs'

NoNewClaim(p) ==
    \A i \in Nat : Claims(pulls'[p], i) =>
        /\ Claims(pulls[p], i)
        /\ Blob(pulls'[p], i) = Blob(pulls[p], i)
        /\ Chain(pulls'[p], i) = Chain(pulls[p], i)

SamePhase(p) ==
    \A i \in Nat : Claims(pulls'[p], i) => Phase(pulls'[p], i) = Phase(pulls[p], i)

StaysOk(p) == pulls[p].step = "ok" => pulls'[p] = pulls[p]

StaysOwner(p) ==
    pulls[p].step = "commit" =>
        pulls'[p] = pulls[p] \/ snapshots[Blob(pulls[p], pulls[p].at)].kind # "active"

Quiet(p) ==
    /\ PullOK(pulls'[p]) /\ Heard(p)
    /\ NoNewClaim(p) /\ SamePhase(p)
    /\ StaysOk(p) /\ StaysOwner(p)

(* A committed upload stays committed.                                     *)
Kept ==
    \A l \in Layers : uploads[<<"upload", l>>].committed => uploads'[<<"upload", l>>].committed

SameTargets ==
    \A n \in Names : images'[n].target # None => images'[n].target = images[n].target

LEMMA StillQuiet ==
    ASSUME NEW p, PullOK(pulls[p]), pulls'[p] = pulls[p]
    PROVE  Quiet(p)
BY DEF Quiet, Heard, NoNewClaim, SamePhase, StaysOk, StaysOwner

LEMMA BlobsToldStep ==
    ASSUME BlobsTold, \A p \in Pullers : Heard(p), blobs \subseteq blobs'
    PROVE  BlobsTold'
<1>1. SUFFICES ASSUME NEW p \in Pullers, NEW i \in Nat, Told(pulls'[p], i)
               PROVE  Blob(pulls'[p], i) \in blobs'
  BY DEF BlobsTold
<1>2. Heard(p)
  OBVIOUS
<1> QED BY <1>1, <1>2 DEF Heard, BlobsTold

LEMMA ClaimedOnceStep ==
    ASSUME ClaimedOnce, \A p \in Pullers : NoNewClaim(p)
    PROVE  ClaimedOnce'
<1>1. SUFFICES ASSUME NEW p \in Pullers, NEW q \in Pullers, NEW i \in Nat, NEW k \in Nat,
                      Claims(pulls'[p], i), Claims(pulls'[q], k),
                      Blob(pulls'[p], i) = Blob(pulls'[q], k)
               PROVE  p = q /\ i = k
  BY DEF ClaimedOnce
<1>2. NoNewClaim(p) /\ NoNewClaim(q)
  OBVIOUS
<1>3. Claims(pulls[p], i) /\ Blob(pulls'[p], i) = Blob(pulls[p], i)
  BY <1>1, <1>2 DEF NoNewClaim
<1>4. Claims(pulls[q], k) /\ Blob(pulls'[q], k) = Blob(pulls[q], k)
  BY <1>1, <1>2 DEF NoNewClaim
<1> QED BY <1>1, <1>3, <1>4 DEF ClaimedOnce

(* The layers of a pull follow its claims, one at a time.                  *)
LEMMA LayeredStep ==
    ASSUME NEW p \in Pullers, NoNewClaim(p), Kept,
           pulls[p] \in PullStates, PullOK(pulls[p]), Layered(pulls[p]),
           \A i \in Nat :
              /\ Claims(pulls[p], i) /\ Claims(pulls'[p], i)
              /\ Snapped(snapshots, removed, Blob(pulls[p], i), Phase(pulls[p], i),
                         Chain(pulls[p], i))
              => Snapped(snapshots', removed', Blob(pulls[p], i), Phase(pulls'[p], i),
                         Chain(pulls[p], i))
    PROVE  Layered(pulls[p])'
<1>1. SUFFICES ASSUME NEW i \in Nat, Claims(pulls'[p], i)
               PROVE  /\ uploads'[<<"upload", Blob(pulls'[p], i)>>].committed
                      /\ Snapped(snapshots', removed', Blob(pulls'[p], i), Phase(pulls'[p], i),
                                 Chain(pulls'[p], i))
  BY DEF Layered
<1>2. /\ Claims(pulls[p], i)
      /\ Blob(pulls'[p], i) = Blob(pulls[p], i) /\ Chain(pulls'[p], i) = Chain(pulls[p], i)
  BY <1>1 DEF NoNewClaim
<1>3. /\ uploads[<<"upload", Blob(pulls[p], i)>>].committed
      /\ Snapped(snapshots, removed, Blob(pulls[p], i), Phase(pulls[p], i), Chain(pulls[p], i))
  BY <1>2 DEF Layered
<1>4. Blob(pulls[p], i) \in Layers
  BY <1>2, ToldBlobs
<1>5. uploads'[<<"upload", Blob(pulls[p], i)>>].committed
  BY <1>3, <1>4 DEF Kept
<1> QED BY <1>1, <1>2, <1>3, <1>5

LEMMA ActiveOwnedStep ==
    ASSUME ActiveOwned, snapshots' = snapshots, \A p \in Pullers : StaysOwner(p)
    PROVE  ActiveOwned'
<1>1. SUFFICES ASSUME NEW l \in Layers, snapshots[l].kind = "active"
               PROVE  \E p \in Pullers :
                         pulls'[p].step = "commit" /\ Blob(pulls'[p], pulls'[p].at) = l
  BY DEF ActiveOwned
<1>2. PICK p \in Pullers : pulls[p].step = "commit" /\ Blob(pulls[p], pulls[p].at) = l
  BY <1>1 DEF ActiveOwned
<1>3. pulls'[p] = pulls[p]
  BY <1>1, <1>2 DEF StaysOwner
<1> QED BY <1>2, <1>3

LEMMA RecordedStep ==
    ASSUME Recorded, SameTargets, \A p \in Pullers : StaysOk(p)
    PROVE  Recorded'
<1>1. SUFFICES ASSUME NEW n \in Names, images'[n].target # None
               PROVE  \E p \in Pullers :
                         /\ pulls'[p].step = "ok" /\ pulls'[p].kind = "containerd"
                         /\ pulls'[p].manifest = images'[n].target
  BY DEF Recorded
<1>2. images'[n].target = images[n].target
  BY <1>1 DEF SameTargets
<1>3. PICK p \in Pullers : /\ pulls[p].step = "ok" /\ pulls[p].kind = "containerd"
                           /\ pulls[p].manifest = images[n].target
  BY <1>1, <1>2 DEF Recorded
<1>4. pulls'[p] = pulls[p]
  BY <1>3 DEF StaysOk
<1> QED BY <1>2, <1>3, <1>4

(* A step that is quiet for every pull.                                    *)
LEMMA QuietStep ==
    ASSUME TypeOK, Clients, \A p \in Pullers : Quiet(p),
           blobs \subseteq blobs', Kept, snapshots' = snapshots, removed' = removed, Recorded'
    PROVE  Clients'
<1>1. ASSUME NEW p \in Pullers
      PROVE  /\ PullOK(pulls[p]) /\ PullOK(pulls'[p]) /\ Heard(p) /\ NoNewClaim(p)
             /\ SamePhase(p) /\ StaysOk(p) /\ StaysOwner(p)
             /\ pulls[p] \in PullStates /\ Layered(pulls[p])
  <2>1. Quiet(p) /\ pulls \in [Pullers -> PullStates]
    BY DEF TypeOK
  <2> QED BY <2>1 DEF Quiet, Clients
<1>2. ASSUME NEW p \in Pullers PROVE Layered(pulls[p])'
  <2>1. \A i \in Nat :
              /\ Claims(pulls[p], i) /\ Claims(pulls'[p], i)
              /\ Snapped(snapshots, removed, Blob(pulls[p], i), Phase(pulls[p], i),
                         Chain(pulls[p], i))
              => Snapped(snapshots', removed', Blob(pulls[p], i), Phase(pulls'[p], i),
                         Chain(pulls[p], i))
    BY <1>1 DEF SamePhase
  <2> QED BY <1>1, <2>1, LayeredStep
<1>3. BlobsTold'
  BY <1>1, BlobsToldStep DEF Clients
<1>4. ClaimedOnce'
  BY <1>1, ClaimedOnceStep DEF Clients
<1>5. ActiveOwned'
  BY <1>1, ActiveOwnedStep DEF Clients
<1>6. \A p \in Pullers : PullOK(pulls[p])' /\ Layered(pulls[p])'
  BY <1>1, <1>2
<1> QED BY <1>3, <1>4, <1>5, <1>6 DEF Clients

(* A pull that waits for an answer has at most the job it waits for.       *)
LEMMA JobsOKStep ==
    ASSUME JobsOK, jobs' \subseteq jobs,
           \A j \in jobs' :
              \/ pulls'[j.puller] = pulls[j.puller]
              \/ pulls'[j.puller].kind = pulls[j.puller].kind /\ pulls'[j.puller].step = "failed"
              \/ pulls'[j.puller].kind = "docker"
    PROVE  JobsOK'
<1>1. SUFFICES ASSUME NEW j \in jobs'
               PROVE  LET q == pulls'[j.puller] IN
                      /\ q.kind \in Kinds
                      /\ q.kind # "docker" =>
                            /\ q.step \in {"store", "failed"}
                            /\ q.step = "store" => j.blob = Blob(q, q.at)
                            /\ \A k \in jobs' : k.puller = j.puller => k = j
  BY DEF JobsOK
<1>2. j \in jobs
  BY <1>1
<1> QED BY <1>1, <1>2 DEF JobsOK, Kinds

-----------------------------------------------------------------------------
(* The moves of one pull.                                                  *)
LEMMA SameBlobs ==
    ASSUME NEW a, NEW b, b.kind = a.kind, b.manifest = a.manifest
    PROVE  Size(b) = Size(a) /\ \A i : Blob(b, i) = Blob(a, i) /\ Chain(b, i) = Chain(a, i)
BY DEF Size, Blob, Chain

LEMMA FailedQuiet ==
    ASSUME NEW p, pulls'[p].step = "failed", pulls[p].step # "ok", StaysOwner(p)
    PROVE  Quiet(p)
<1>1. PullOK(pulls'[p]) /\ \A i : ~Told(pulls'[p], i) /\ ~Claims(pulls'[p], i)
  BY DEF PullOK, Running, Told, Claims
<1> QED BY <1>1 DEF Quiet, Heard, NoNewClaim, SamePhase, StaysOk

(* A pull that only changes its step, to one where it is told no more.     *)
LEMMA StepQuiet ==
    ASSUME NEW p, pulls[p] \in PullStates, PullOK(pulls[p]),
           pulls'[p].kind = pulls[p].kind, pulls'[p].name = pulls[p].name,
           pulls'[p].manifest = pulls[p].manifest, pulls'[p].at = pulls[p].at,
           \/ pulls[p].step = "fetch" /\ pulls'[p].step = "store" /\ pulls[p].kind # "docker"
           \/ pulls[p].step = "register" /\ pulls'[p].step = "ok"
    PROVE  Quiet(p)
<1> DEFINE a == pulls[p]
           b == pulls'[p]
<1>1. Size(b) = Size(a) /\ \A i : Blob(b, i) = Blob(a, i) /\ Chain(b, i) = Chain(a, i)
  BY SameBlobs
<1>2. PullOK(b)
  BY <1>1 DEF PullOK, Running
<1>3. \A i \in Nat : Told(b, i) => Told(a, i)
  BY DEF Told, Running
<1>4. \A i \in Nat : (Claims(b, i) => Claims(a, i)) /\ Phase(b, i) = Phase(a, i)
  BY <1>3 DEF Claims, Phase
<1>5. a.step # "ok" /\ a.step # "commit"
  OBVIOUS
<1> QED
  BY <1>1, <1>2, <1>3, <1>4, <1>5 DEF Quiet, Heard, NoNewClaim, SamePhase, StaysOk, StaysOwner

LEMMA OnwardMoves ==
    ASSUME NEW a \in PullStates, PullOK(a), a.step \in {"fetch", "store", "commit"}
    PROVE  /\ Onward(a) \in PullStates /\ PullOK(Onward(a))
           /\ Onward(a).kind = a.kind /\ Onward(a).manifest = a.manifest
           /\ Onward(a).step \in {"fetch", "register"}
           /\ \A i \in Nat : Told(Onward(a), i) <=> (a.kind # "docker" /\ i \in 1 .. a.at)
<1> DEFINE b == Onward(a)
<1>1. Size(a) \in Nat /\ a.at \in 1 .. Size(a) /\ a.at \in Nat /\ Running(a)
  BY ToldBlobs DEF Running, PullStates
<1>2. CASE a.at < Size(a)
  <2>1. b = [a EXCEPT !.step = "fetch", !.at = a.at + 1]
    BY <1>2 DEF Onward, Size
  <2>2. /\ b \in PullStates /\ b.kind = a.kind /\ b.manifest = a.manifest /\ b.name = a.name
        /\ b.step = "fetch" /\ b.at = a.at + 1
    <3>1. a.at + 1 \in Nat
      BY <1>1
    <3>2. b \in PullStates
      BY <2>1, <3>1, Zenon DEF PullStates
    <3> QED BY <2>1, <3>2 DEF PullStates
  <2> HIDE DEF b
  <2>3. Size(b) = Size(a)
    BY <2>2, SameBlobs
  <2>4. PullOK(b)
    BY <1>1, <1>2, <2>2, <2>3 DEF PullOK, Running
  <2>5. \A i \in Nat : Told(b, i) <=> (a.kind # "docker" /\ i \in 1 .. a.at)
    BY <1>1, <2>2 DEF Told, Running
  <2> QED BY <2>2, <2>4, <2>5 DEF b
<1>3. CASE ~(a.at < Size(a))
  <2>1. b = [a EXCEPT !.step = "register"]
    BY <1>3 DEF Onward, Size
  <2>2. /\ b \in PullStates /\ b.kind = a.kind /\ b.manifest = a.manifest /\ b.name = a.name
        /\ b.step = "register" /\ b.at = a.at
    BY <1>1, <2>1 DEF PullStates
  <2> HIDE DEF b
  <2>3. Size(b) = Size(a)
    BY <2>2, SameBlobs
  <2>4. PullOK(b)
    BY <1>1, <1>3, <2>2, <2>3 DEF PullOK, Running
  <2>5. \A i \in Nat : Told(b, i) <=> (a.kind # "docker" /\ i \in 1 .. a.at)
    BY <1>1, <2>2 DEF Told, Running
  <2> QED BY <2>2, <2>4, <2>5 DEF b
<1> QED BY <1>2, <1>3

LEMMA StoredMoves ==
    ASSUME NEW a \in PullStates, PullOK(a), a.step = "store"
    PROVE  /\ Stored(a) \in PullStates /\ PullOK(Stored(a))
           /\ Stored(a).kind = a.kind /\ Stored(a).manifest = a.manifest
           /\ IF a.kind = "containerd" /\ a.at > 1
              THEN Stored(a).step = "prepare" /\ Stored(a).at = a.at
              ELSE Stored(a).step \in {"fetch", "register"}
           /\ \A i \in Nat : Told(Stored(a), i) <=> i \in 1 .. a.at
<1> DEFINE b == Stored(a)
<1>0. a.kind # "docker"
  BY DEF PullOK
<1>1. CASE a.kind = "containerd" /\ a.at > 1
  <2>1. /\ b \in PullStates /\ b.kind = a.kind /\ b.manifest = a.manifest /\ b.name = a.name
        /\ b.step = "prepare" /\ b.at = a.at
    BY <1>1 DEF Stored, PullStates
  <2> HIDE DEF b
  <2>2. Size(b) = Size(a)
    BY <2>1, SameBlobs
  <2>3. PullOK(b)
    BY <1>1, <2>1, <2>2 DEF PullOK, Running
  <2>4. \A i \in Nat : Told(b, i) <=> i \in 1 .. a.at
    BY <1>0, <2>1 DEF Told, Running
  <2> QED BY <1>1, <2>1, <2>3, <2>4 DEF b
<1>2. CASE ~(a.kind = "containerd" /\ a.at > 1)
  <2>1. b = Onward(a)
    BY <1>2 DEF Stored
  <2> QED BY <1>0, <1>2, <2>1, OnwardMoves
<1> QED BY <1>1, <1>2

(* An upload ends well, or the docker pull goes on: no layer is claimed.   *)
LEMMA OnwardQuiet ==
    ASSUME NEW p, pulls[p] \in PullStates, PullOK(pulls[p]),
           pulls[p].step \in {"fetch", "store"}, pulls'[p] = Onward(pulls[p]),
           \/ pulls[p].kind = "docker"
           \/ /\ pulls[p].step = "store" /\ Blob(pulls[p], pulls[p].at) \in blobs'
              /\ pulls[p].kind = "containerd" => pulls[p].at = 1
    PROVE  Quiet(p)
<1> DEFINE a == pulls[p]
           b == pulls'[p]
<1>1. /\ PullOK(b) /\ b.kind = a.kind /\ b.manifest = a.manifest
      /\ \A i \in Nat : Told(b, i) <=> (a.kind # "docker" /\ i \in 1 .. a.at)
  BY OnwardMoves
<1>2. \A i : Blob(b, i) = Blob(a, i)
  BY <1>1, SameBlobs
<1>3. a.at \in Nat
  BY DEF PullStates
<1>4. Heard(p)
  <2>1. SUFFICES ASSUME NEW i \in Nat, Told(b, i)
                 PROVE  Told(a, i) \/ Blob(b, i) \in blobs'
    BY <1>2 DEF Heard
  <2>2. a.kind # "docker" /\ i \in 1 .. a.at
    BY <1>1, <2>1
  <2>3. CASE i = a.at
    BY <1>2, <2>2, <2>3
  <2>4. CASE i # a.at
    BY <1>3, <2>2, <2>4 DEF Told, Running
  <2> QED BY <2>3, <2>4
<1>5. \A i \in Nat : ~Claims(b, i)
  BY <1>1, <1>3 DEF Claims
<1> QED BY <1>1, <1>4, <1>5 DEF Quiet, NoNewClaim, SamePhase, StaysOk, StaysOwner

-----------------------------------------------------------------------------
(* Steps of a pull that leave the stores alone.                            *)
Alone(p) ==
    /\ pulls' \in [Pullers -> PullStates]
    /\ \A q \in Pullers \ {p} : pulls'[q] = pulls[q]

LEMMA OneQuiet ==
    ASSUME Clients, NEW p \in Pullers, Alone(p), Quiet(p)
    PROVE  \A q \in Pullers : Quiet(q)
<1>1. SUFFICES ASSUME NEW q \in Pullers, q # p PROVE Quiet(q)
  OBVIOUS
<1>2. pulls'[q] = pulls[q] /\ PullOK(pulls[q])
  BY <1>1 DEF Alone, Clients
<1> QED BY <1>2, StillQuiet

StoresStay ==
    /\ uploads' = uploads /\ blobs' = blobs /\ spoiled' = spoiled
    /\ snapshots' = snapshots /\ removed' = removed
RecordsStay == images' = images /\ updates' = updates

LEMMA RecordInv ==
    ASSUME ImageInv, \A p \in Pullers : Quiet(p), StoresStay,
           pulls' \in [Pullers -> PullStates], images' \in [Names -> ImageRecords],
           updates' \in [Updaters -> UpdateStates], jobs' \subseteq Job,
           JobsOK', Recorded'
    PROVE  ImageInv'
<1>1. TypeOK'
  BY DEF ImageInv, TypeOK, StoresStay
<1>2. blobs \subseteq blobs' /\ Kept /\ snapshots' = snapshots /\ removed' = removed
  BY DEF StoresStay, Kept
<1>3. Clients'
  BY <1>2, QuietStep DEF ImageInv
<1>4. UploadsOK'
  BY DEF ImageInv, UploadsOK, StoresStay
<1> QED BY <1>1, <1>3, <1>4 DEF ImageInv

LEMMA PullInv ==
    ASSUME ImageInv, NEW p \in Pullers, Alone(p), Quiet(p), StoresStay, RecordsStay,
           jobs' \subseteq Job, JobsOK'
    PROVE  ImageInv'
<1>1. /\ pulls' \in [Pullers -> PullStates] /\ images' \in [Names -> ImageRecords]
      /\ updates' \in [Updaters -> UpdateStates]
  BY DEF ImageInv, TypeOK, Alone, RecordsStay
<1>2. \A q \in Pullers : Quiet(q)
  BY OneQuiet DEF ImageInv
<1>3. SameTargets /\ Recorded /\ \A q \in Pullers : StaysOk(q)
  BY <1>2 DEF RecordsStay, SameTargets, Quiet, ImageInv, Clients
<1>4. Recorded'
  BY <1>3, RecordedStep
<1> QED BY <1>1, <1>2, <1>4, RecordInv

(* The parts of the invariant for one pull.                                *)
LEMMA PullParts ==
    ASSUME ImageInv, NEW p \in Pullers
    PROVE  pulls[p] \in PullStates /\ PullOK(pulls[p])
BY DEF ImageInv, TypeOK, Clients

(* A pull that is somewhere else than waiting has no job.                  *)
LEMMA NoJobs ==
    ASSUME JobsOK, NEW p \in Pullers, pulls[p].kind # "docker",
           pulls[p].step \notin {"store", "failed"}, NEW j \in jobs
    PROVE  j.puller # p
BY DEF JobsOK

LEMMA GoesAlone ==
    ASSUME ImageInv, NEW p \in Pullers, NEW s, Goes(p, s),
           s \in {"store", "commit", "ok", "failed"}
    PROVE  /\ Alone(p)
           /\ pulls'[p].kind = pulls[p].kind /\ pulls'[p].name = pulls[p].name
           /\ pulls'[p].manifest = pulls[p].manifest /\ pulls'[p].at = pulls[p].at
           /\ pulls'[p].step = s
<1>1. pulls \in [Pullers -> PullStates]
  BY DEF ImageInv, TypeOK
<1>2. pulls' = [pulls EXCEPT ![p] = [pulls[p] EXCEPT !.step = s]]
  BY DEF Goes
<1>3. /\ [pulls[p] EXCEPT !.step = s] \in PullStates
      /\ [pulls[p] EXCEPT !.step = s].kind = pulls[p].kind
      /\ [pulls[p] EXCEPT !.step = s].name = pulls[p].name
      /\ [pulls[p] EXCEPT !.step = s].manifest = pulls[p].manifest
      /\ [pulls[p] EXCEPT !.step = s].at = pulls[p].at
      /\ [pulls[p] EXCEPT !.step = s].step = s
  BY <1>1 DEF PullStates
<1>4. pulls'[p] = [pulls[p] EXCEPT !.step = s]
  BY <1>1, <1>2
<1>5. Alone(p)
  BY <1>1, <1>2, <1>3 DEF Alone
<1> QED BY <1>3, <1>4, <1>5

(* A pull that is put somewhere else.                                      *)
LEMMA MovesAlone ==
    ASSUME ImageInv, NEW p \in Pullers, NEW b \in PullStates, pulls' = [pulls EXCEPT ![p] = b]
    PROVE  Alone(p) /\ pulls'[p] = b
BY DEF ImageInv, TypeOK, Alone

LEMMA FetchManifestInv ==
    ASSUME ImageInv, NEW p \in Pullers, NEW kind \in Kinds, NEW n \in Names, NEW m \in Manifests,
           FetchManifest(p, kind, n, m)
    PROVE  ImageInv'
<1> DEFINE b == [step |-> "fetch", kind |-> kind, name |-> n, manifest |-> m, at |-> 1]
<1>1. /\ b \in PullStates /\ b.step = "fetch" /\ b.kind = kind /\ b.name = n
      /\ b.manifest = m /\ b.at = 1
  BY DEF PullStates
<1>2. pulls[p] = NotPulling /\ pulls' = [pulls EXCEPT ![p] = b]
  BY DEF FetchManifest
<1>3. StoresStay /\ RecordsStay /\ jobs' = jobs
  BY DEF FetchManifest, contentVars, fileVars, recordVars, StoresStay, RecordsStay
<1>4. pulls[p].step = "idle" /\ pulls[p].kind = None
  BY <1>2 DEF NotPulling
<1> HIDE DEF b
<1>5. Alone(p) /\ pulls'[p] = b
  BY <1>1, <1>2, MovesAlone
<1>6. PullOK(b)
  <2>1. Size(b) \in Nat /\ Size(b) > 0
    BY <1>1, ManifestBlobs DEF Size
  <2> QED BY <1>1, <2>1 DEF PullOK, Running
<1>7. \A i \in Nat : ~Told(b, i) /\ ~Claims(b, i)
  BY <1>1 DEF Told, Claims
<1>8. Quiet(p)
  BY <1>4, <1>5, <1>6, <1>7 DEF Quiet, Heard, NoNewClaim, SamePhase, StaysOk, StaysOwner
<1>9. JobsOK'
  <2>1. ASSUME NEW j \in jobs PROVE pulls'[j.puller] = pulls[j.puller]
    <3>1. j.puller \in Pullers /\ pulls[j.puller].kind \in Kinds
      BY <2>1 DEF ImageInv, TypeOK, Job, JobsOK
    <3>2. None \notin Kinds
      BY NoneAssumption
    <3>3. j.puller # p
      BY <1>4, <3>1, <3>2
    <3> QED BY <1>5, <3>1, <3>3 DEF Alone
  <2> QED BY <1>3, <2>1, JobsOKStep DEF ImageInv
<1>10. jobs' \subseteq Job
  BY <1>3 DEF ImageInv, TypeOK
<1> QED BY <1>3, <1>5, <1>8, <1>9, <1>10, PullInv

(* A pull that fails away from the content store.                          *)
LEMMA FailsInv ==
    ASSUME ImageInv, NEW p \in Pullers, Alone(p), pulls'[p].step = "failed",
           pulls'[p].kind = pulls[p].kind, pulls[p].step # "ok", StaysOwner(p),
           StoresStay, RecordsStay, jobs' = jobs
    PROVE  ImageInv'
<1>1. Quiet(p)
  BY FailedQuiet
<1>2. JobsOK'
  <2>1. ASSUME NEW j \in jobs
        PROVE  \/ pulls'[j.puller] = pulls[j.puller]
               \/ /\ pulls'[j.puller].kind = pulls[j.puller].kind
                  /\ pulls'[j.puller].step = "failed"
    <3>1. j.puller \in Pullers
      BY DEF ImageInv, TypeOK, Job
    <3> QED BY <3>1 DEF Alone
  <2> QED BY <2>1, JobsOKStep DEF ImageInv
<1>3. jobs' \subseteq Job
  BY DEF ImageInv, TypeOK
<1> QED BY <1>1, <1>2, <1>3, PullInv

LEMMA FetchManifestFailsInv ==
    ASSUME ImageInv, NEW p \in Pullers, FetchManifestFails(p)
    PROVE  ImageInv'
<1> DEFINE b == [NotPulling EXCEPT !.step = "failed"]
<1>1. b \in PullStates /\ b.step = "failed" /\ b.kind = NotPulling.kind
  BY DEF PullStates, NotPulling
<1>2. pulls[p] = NotPulling /\ pulls' = [pulls EXCEPT ![p] = b]
  BY DEF FetchManifestFails
<1>3. StoresStay /\ RecordsStay /\ jobs' = jobs
  BY DEF FetchManifestFails, contentVars, fileVars, recordVars, StoresStay, RecordsStay
<1>4. pulls[p].step = "idle"
  BY <1>2 DEF NotPulling
<1> HIDE DEF b
<1>5. Alone(p) /\ pulls'[p] = b
  BY <1>1, <1>2, MovesAlone
<1>6. StaysOwner(p)
  BY <1>4 DEF StaysOwner
<1> QED BY <1>1, <1>2, <1>3, <1>4, <1>5, <1>6, FailsInv

LEMMA FetchBlobFailsInv ==
    ASSUME ImageInv, NEW p \in Pullers, FetchBlobFails(p)
    PROVE  ImageInv'
<1>1. pulls[p].step = "fetch" /\ Goes(p, "failed")
  BY DEF FetchBlobFails
<1>2. StoresStay /\ RecordsStay /\ jobs' = jobs
  BY DEF FetchBlobFails, contentVars, fileVars, recordVars, StoresStay, RecordsStay
<1>3. Alone(p) /\ pulls'[p].step = "failed" /\ pulls'[p].kind = pulls[p].kind
  BY <1>1, GoesAlone
<1>4. StaysOwner(p)
  BY <1>1 DEF StaysOwner
<1> QED BY <1>1, <1>2, <1>3, <1>4, FailsInv

LEMMA InterruptedInv ==
    ASSUME ImageInv, NEW p \in Pullers, Interrupted(p)
    PROVE  ImageInv'
<1>1. pulls[p].kind \in {"nerdctl", "docker"} /\ pulls[p].step # "ok" /\ Goes(p, "failed")
  BY DEF Interrupted, Over
<1>2. StoresStay /\ RecordsStay /\ jobs' = jobs
  BY DEF Interrupted, contentVars, fileVars, recordVars, StoresStay, RecordsStay
<1>3. Alone(p) /\ pulls'[p].step = "failed" /\ pulls'[p].kind = pulls[p].kind
  BY <1>1, GoesAlone
<1>4. StaysOwner(p)
  BY <1>1, PullParts DEF StaysOwner, PullOK
<1> QED BY <1>1, <1>2, <1>3, <1>4, FailsInv

LEMMA PrepareFailsInv ==
    ASSUME ImageInv, NEW p \in Pullers, PrepareFails(p)
    PROVE  ImageInv'
<1>1. pulls[p].step = "prepare" /\ Goes(p, "failed")
  BY DEF PrepareFails
<1>2. StoresStay /\ RecordsStay /\ jobs' = jobs
  BY DEF PrepareFails, contentVars, fileVars, recordVars, StoresStay, RecordsStay
<1>3. Alone(p) /\ pulls'[p].step = "failed" /\ pulls'[p].kind = pulls[p].kind
  BY <1>1, GoesAlone
<1>4. StaysOwner(p)
  BY <1>1 DEF StaysOwner
<1> QED BY <1>1, <1>2, <1>3, <1>4, FailsInv

LEMMA NewJobs ==
    ASSUME ImageInv, NEW p \in Pullers, Running(pulls[p]), NEW data \in Downloads
    PROVE  /\ NewJob(p, data) \in Job
           /\ NewJob(p, data).puller = p
           /\ NewJob(p, data).blob = Blob(pulls[p], pulls[p].at)
<1>1. Size(pulls[p]) \in Nat /\ pulls[p].at \in 1 .. Size(pulls[p]) /\ pulls[p].at \in Nat
  BY PullParts, ToldBlobs DEF PullStates
<1>2. pulls[p].manifest \in Manifests
  BY PullParts DEF PullOK
<1>3. Blob(pulls[p], pulls[p].at) \in Digests
  BY <1>1, <1>2, ManifestBlobs DEF Size, Blob
<1>4. BlobAt(p) = Blob(pulls[p], pulls[p].at)
  BY DEF BlobAt, List, Blob
<1> QED BY <1>1, <1>3, <1>4 DEF NewJob, Job

LEMMA FetchBlobInv ==
    ASSUME ImageInv, NEW p \in Pullers, NEW data \in Downloads, FetchBlob(p, data)
    PROVE  ImageInv'
<1> DEFINE a == pulls[p]
           b == pulls'[p]
           new == NewJob(p, data)
<1>1. /\ a.step = "fetch" /\ a.kind # "docker" /\ jobs' = jobs \cup {new} /\ Goes(p, "store")
      /\ StoresStay /\ RecordsStay
  BY DEF FetchBlob, contentVars, fileVars, recordVars, StoresStay, RecordsStay
<1>2. /\ Alone(p) /\ b.kind = a.kind /\ b.name = a.name /\ b.manifest = a.manifest
      /\ b.at = a.at /\ b.step = "store"
  BY <1>1, GoesAlone
<1>3. a \in PullStates /\ PullOK(a) /\ Running(a)
  BY <1>1, PullParts DEF Running
<1>4. Quiet(p)
  BY <1>1, <1>2, <1>3, StepQuiet
<1>5. new \in Job /\ new.puller = p /\ new.blob = Blob(a, a.at)
  BY <1>3, NewJobs
<1> HIDE DEF new
<1>6. JobsOK'
  <2>1. \A i : Blob(b, i) = Blob(a, i)
    BY <1>2, SameBlobs
  <2>2. a.kind \in Kinds
    BY <1>3 DEF PullOK
  <2>3. ASSUME NEW j \in jobs
        PROVE  /\ j.puller # p /\ pulls'[j.puller] = pulls[j.puller]
               /\ pulls[j.puller].kind \in Kinds
               /\ pulls[j.puller].kind # "docker" =>
                     /\ pulls[j.puller].step \in {"store", "failed"}
                     /\ pulls[j.puller].step = "store" =>
                           j.blob = Blob(pulls[j.puller], pulls[j.puller].at)
                     /\ \A k \in jobs : k.puller = j.puller => k = j
    <3>1. j.puller # p
      BY <1>1, NoJobs DEF ImageInv
    <3>2. j.puller \in Pullers
      BY DEF ImageInv, TypeOK, Job
    <3> QED BY <1>2, <3>1, <3>2 DEF Alone, ImageInv, JobsOK
  <2>4. SUFFICES ASSUME NEW j \in jobs'
                 PROVE  /\ pulls'[j.puller].kind \in Kinds
                        /\ pulls'[j.puller].kind # "docker" =>
                              /\ pulls'[j.puller].step \in {"store", "failed"}
                              /\ pulls'[j.puller].step = "store" =>
                                    j.blob = Blob(pulls'[j.puller], pulls'[j.puller].at)
                              /\ \A k \in jobs' : k.puller = j.puller => k = j
    BY DEF JobsOK
  <2>5. CASE j \in jobs
    <3>1. \A k \in jobs' : k \in jobs \/ k = new
      BY <1>1
    <3> QED BY <1>5, <2>3, <2>5, <3>1
  <2>6. CASE j = new
    <3>1. \A k \in jobs' : k \in jobs \/ k = new
      BY <1>1
    <3>2. \A k \in jobs' : k.puller = p => k = new
      BY <2>3, <3>1
    <3> QED BY <1>2, <1>5, <2>1, <2>2, <2>6, <3>2
  <2> QED BY <1>1, <2>4, <2>5, <2>6
<1>7. jobs' \subseteq Job
  BY <1>1, <1>5 DEF ImageInv, TypeOK
<1> QED BY <1>1, <1>2, <1>4, <1>6, <1>7, PullInv

LEMMA SendBlobInv ==
    ASSUME ImageInv, NEW p \in Pullers, SendBlob(p)
    PROVE  ImageInv'
<1> DEFINE a == pulls[p]
           b == pulls'[p]
           new == NewJob(p, "good")
<1>1. /\ a.step = "fetch" /\ a.kind = "docker" /\ jobs' = jobs \cup {new}
      /\ pulls' = [pulls EXCEPT ![p] = Onward(pulls[p])]
      /\ StoresStay /\ RecordsStay
  BY DEF SendBlob, contentVars, fileVars, recordVars, StoresStay, RecordsStay
<1>2. a \in PullStates /\ PullOK(a) /\ Running(a)
  BY <1>1, PullParts DEF Running
<1>3. Onward(a) \in PullStates /\ Onward(a).kind = "docker"
  BY <1>1, <1>2, OnwardMoves
<1>4. Alone(p) /\ b = Onward(a)
  BY <1>1, <1>3, MovesAlone
<1>5. Quiet(p)
  BY <1>1, <1>2, <1>4, OnwardQuiet
<1>6. new \in Job /\ new.puller = p
  <2>1. "good" \in Downloads
    BY DEF Downloads
  <2> QED BY <1>2, <2>1, NewJobs
<1> HIDE DEF new
<1>7. JobsOK'
  <2>1. ASSUME NEW j \in jobs
        PROVE  /\ j.puller # p => pulls'[j.puller] = pulls[j.puller]
               /\ pulls[j.puller].kind \in Kinds
               /\ pulls[j.puller].kind # "docker" =>
                     /\ pulls[j.puller].step \in {"store", "failed"}
                     /\ pulls[j.puller].step = "store" =>
                           j.blob = Blob(pulls[j.puller], pulls[j.puller].at)
                     /\ \A k \in jobs : k.puller = j.puller => k = j
    <3>1. j.puller \in Pullers
      BY DEF ImageInv, TypeOK, Job
    <3> QED BY <1>4, <3>1 DEF Alone, ImageInv, JobsOK
  <2>2. SUFFICES ASSUME NEW j \in jobs'
                 PROVE  /\ pulls'[j.puller].kind \in Kinds
                        /\ pulls'[j.puller].kind # "docker" =>
                              /\ pulls'[j.puller].step \in {"store", "failed"}
                              /\ pulls'[j.puller].step = "store" =>
                                    j.blob = Blob(pulls'[j.puller], pulls'[j.puller].at)
                              /\ \A k \in jobs' : k.puller = j.puller => k = j
    BY DEF JobsOK
  <2>3. CASE j.puller = p
    BY <1>3, <1>4, <2>3 DEF Kinds
  <2>4. CASE j.puller # p
    <3>1. \A k \in jobs' : k \in jobs \/ k.puller = p
      BY <1>1, <1>6
    <3> QED BY <2>1, <2>4, <3>1
  <2> QED BY <2>3, <2>4
<1>8. jobs' \subseteq Job
  BY <1>1, <1>6 DEF ImageInv, TypeOK
<1> QED BY <1>1, <1>4, <1>5, <1>7, <1>8, PullInv

-----------------------------------------------------------------------------
(* The records.                                                            *)
LEMMA OutdatedTypes ==
    ASSUME TypeOK, NEW n, Outdated(n)
    PROVE  updates' \in [Updaters -> UpdateStates]
<1>1. \A u \in Updaters : updates[u] \in UpdateStates
  BY DEF TypeOK
<1>2. \A u \in Updaters : [updates[u] EXCEPT !.current = FALSE] \in UpdateStates
  BY <1>1 DEF UpdateStates
<1> QED BY <1>1, <1>2 DEF Outdated

(* A step that registers: the pull has succeeded and has no job.           *)
LEMMA RegisterParts ==
    ASSUME ImageInv, NEW p \in Pullers, pulls[p].step = "register", Goes(p, "ok"), jobs' = jobs
    PROVE  /\ Alone(p) /\ \A q \in Pullers : Quiet(q)
           /\ pulls'[p].step = "ok" /\ pulls'[p].kind = pulls[p].kind
           /\ pulls'[p].manifest = pulls[p].manifest
           /\ pulls[p].manifest \in Manifests /\ pulls[p].name \in Names
           /\ JobsOK' /\ jobs' \subseteq Job
<1>1. /\ Alone(p)
      /\ pulls'[p].kind = pulls[p].kind /\ pulls'[p].name = pulls[p].name
      /\ pulls'[p].manifest = pulls[p].manifest /\ pulls'[p].at = pulls[p].at
      /\ pulls'[p].step = "ok"
  BY GoesAlone
<1>2. pulls[p] \in PullStates /\ PullOK(pulls[p])
  BY PullParts
<1>3. Quiet(p)
  BY <1>1, <1>2, StepQuiet
<1>4. \A q \in Pullers : Quiet(q)
  BY <1>1, <1>3, OneQuiet DEF ImageInv
<1>5. JobsOK'
  <2>1. ASSUME NEW j \in jobs
        PROVE  pulls'[j.puller] = pulls[j.puller] \/ pulls'[j.puller].kind = "docker"
    <3>1. j.puller \in Pullers
      BY DEF ImageInv, TypeOK, Job
    <3>2. CASE j.puller = p
      BY <1>1, <3>2, NoJobs DEF ImageInv
    <3>3. CASE j.puller # p
      BY <1>1, <3>1, <3>3 DEF Alone
    <3> QED BY <3>2, <3>3
  <2> QED BY <2>1, JobsOKStep DEF ImageInv
<1>6. pulls[p].manifest \in Manifests /\ pulls[p].name \in Names
  BY <1>2 DEF PullOK, Running
<1>7. jobs' \subseteq Job
  BY DEF ImageInv, TypeOK
<1> QED BY <1>1, <1>4, <1>5, <1>6, <1>7

LEMMA PutRecordInv ==
    ASSUME ImageInv, NEW p \in Pullers, PutRecord(p)
    PROVE  ImageInv'
<1> DEFINE rec == [exists |-> TRUE, target |-> pulls[p].manifest, labels |-> {"unpacked"}]
<1>1. /\ pulls[p].step = "register" /\ pulls[p].kind = "containerd"
      /\ images' = [images EXCEPT ![pulls[p].name] = rec]
      /\ Outdated(pulls[p].name) /\ Goes(p, "ok") /\ StoresStay /\ jobs' = jobs
  BY DEF PutRecord, contentVars, fileVars, StoresStay
<1>2. /\ Alone(p) /\ \A q \in Pullers : Quiet(q)
      /\ pulls'[p].step = "ok" /\ pulls'[p].kind = pulls[p].kind
      /\ pulls'[p].manifest = pulls[p].manifest
      /\ pulls[p].manifest \in Manifests /\ pulls[p].name \in Names
      /\ JobsOK' /\ jobs' \subseteq Job
  BY <1>1, RegisterParts
<1>3. rec \in ImageRecords /\ rec.target = pulls[p].manifest
  BY <1>2 DEF ImageRecords, Labels
<1> HIDE DEF rec
<1>4. /\ images \in [Names -> ImageRecords] /\ images' \in [Names -> ImageRecords]
      /\ images'[pulls[p].name] = rec
      /\ \A n \in Names \ {pulls[p].name} : images'[n] = images[n]
  BY <1>1, <1>2, <1>3 DEF ImageInv, TypeOK
<1>5. updates' \in [Updaters -> UpdateStates]
  BY <1>1, OutdatedTypes DEF ImageInv
<1>6. Recorded'
  <2>1. SUFFICES ASSUME NEW n \in Names, images'[n].target # None
                 PROVE  \E q \in Pullers :
                           /\ pulls'[q].step = "ok" /\ pulls'[q].kind = "containerd"
                           /\ pulls'[q].manifest = images'[n].target
    BY DEF Recorded
  <2>2. CASE n = pulls[p].name
    BY <1>1, <1>2, <1>3, <1>4, <2>2
  <2>3. CASE n # pulls[p].name
    <3>1. images'[n] = images[n]
      BY <1>4, <2>3
    <3>2. PICK q \in Pullers : /\ pulls[q].step = "ok" /\ pulls[q].kind = "containerd"
                               /\ pulls[q].manifest = images[n].target
      BY <2>1, <3>1 DEF ImageInv, Clients, Recorded
    <3>3. pulls'[q] = pulls[q]
      BY <1>2, <3>2 DEF Quiet, StaysOk
    <3> QED BY <3>1, <3>2, <3>3
  <2> QED BY <2>2, <2>3
<1>7. pulls' \in [Pullers -> PullStates]
  BY <1>2 DEF Alone
<1> QED BY <1>1, <1>2, <1>4, <1>5, <1>6, <1>7, RecordInv

(* Steps that write a record without a target.                             *)
LEMMA NoTargetInv ==
    ASSUME ImageInv, \A p \in Pullers : Quiet(p), StoresStay,
           pulls' \in [Pullers -> PullStates], images' \in [Names -> ImageRecords],
           updates' \in [Updaters -> UpdateStates], jobs' \subseteq Job, JobsOK',
           SameTargets
    PROVE  ImageInv'
<1>1. Recorded'
  BY RecordedStep DEF ImageInv, Clients, Quiet
<1> QED BY <1>1, RecordInv

LEMMA CreateRecordInv ==
    ASSUME ImageInv, NEW p \in Pullers, CreateRecord(p)
    PROVE  ImageInv'
<1> DEFINE n == pulls[p].name
           rec == [exists |-> TRUE, target |-> None, labels |-> {}]
<1>1. /\ pulls[p].step = "register"
      /\ images' = [images EXCEPT ![n] = IF images[n].exists THEN images[n] ELSE rec]
      /\ Goes(p, "ok") /\ StoresStay /\ jobs' = jobs /\ updates' = updates
  BY DEF CreateRecord, Create, contentVars, fileVars, StoresStay
<1>2. /\ Alone(p) /\ (\A q \in Pullers : Quiet(q)) /\ n \in Names
      /\ JobsOK' /\ jobs' \subseteq Job
  BY <1>1, RegisterParts
<1>3. rec \in ImageRecords /\ rec.target = None
  BY DEF ImageRecords
<1> HIDE DEF n, rec
<1>4. /\ images \in [Names -> ImageRecords] /\ images' \in [Names -> ImageRecords]
      /\ images'[n] = images[n] \/ images'[n] = rec
      /\ \A k \in Names \ {n} : images'[k] = images[k]
  <2>1. images \in [Names -> ImageRecords]
    BY DEF ImageInv, TypeOK
  <2>2. CASE images[n].exists
    BY <1>1, <1>2, <2>1, <2>2
  <2>3. CASE ~images[n].exists
    BY <1>1, <1>2, <1>3, <2>1, <2>3
  <2> QED BY <2>2, <2>3
<1>5. SameTargets
  BY <1>3, <1>4 DEF SameTargets
<1>6. updates' \in [Updaters -> UpdateStates] /\ pulls' \in [Pullers -> PullStates]
  BY <1>1, <1>2 DEF ImageInv, TypeOK, Alone
<1> QED BY <1>1, <1>2, <1>4, <1>5, <1>6, NoTargetInv

(* Steps of other requests: no pull moves.                                 *)
LEMMA OthersInv ==
    ASSUME ImageInv, StoresStay, pulls' = pulls, jobs' = jobs,
           images' \in [Names -> ImageRecords], updates' \in [Updaters -> UpdateStates],
           SameTargets
    PROVE  ImageInv'
<1>1. \A p \in Pullers : Quiet(p)
  BY StillQuiet DEF ImageInv, Clients
<1>2. JobsOK'
  BY DEF ImageInv, JobsOK
<1>3. pulls' \in [Pullers -> PullStates] /\ jobs' \subseteq Job
  BY DEF ImageInv, TypeOK
<1> QED BY <1>1, <1>2, <1>3, NoTargetInv

LEMMA DeleteInv ==
    ASSUME ImageInv, NEW n \in Names, Delete(n)
    PROVE  ImageInv'
<1>1. /\ images' = [images EXCEPT ![n] = NoImage] /\ Outdated(n)
      /\ StoresStay /\ pulls' = pulls /\ jobs' = jobs
  BY DEF Delete, contentVars, fileVars, StoresStay
<1>2. NoImage \in ImageRecords /\ NoImage.target = None
  BY DEF NoImage, ImageRecords
<1>3. /\ images' \in [Names -> ImageRecords] /\ images'[n] = NoImage
      /\ \A k \in Names \ {n} : images'[k] = images[k]
  BY <1>1, <1>2 DEF ImageInv, TypeOK
<1>4. SameTargets
  BY <1>2, <1>3 DEF SameTargets
<1>5. updates' \in [Updaters -> UpdateStates]
  BY <1>1, OutdatedTypes DEF ImageInv
<1> QED BY <1>1, <1>3, <1>4, <1>5, OthersInv

LEMMA UpdateGetInv ==
    ASSUME ImageInv, NEW u \in Updaters, NEW n \in Names, UpdateGet(u, n)
    PROVE  ImageInv'
<1>1. /\ updates' = [updates EXCEPT ![u] = [name |-> n, current |-> TRUE]]
      /\ images' = images /\ StoresStay /\ pulls' = pulls /\ jobs' = jobs
  BY DEF UpdateGet, contentVars, fileVars, StoresStay
<1>2. images' \in [Names -> ImageRecords] /\ updates' \in [Updaters -> UpdateStates]
  BY <1>1 DEF ImageInv, TypeOK, UpdateStates
<1>3. SameTargets
  BY <1>1 DEF SameTargets
<1> QED BY <1>1, <1>2, <1>3, OthersInv

LEMMA UpdateLabelsInv ==
    ASSUME ImageInv, NEW u \in Updaters, UpdateLabels(u)
    PROVE  ImageInv'
<1> DEFINE n == updates[u].name
           rec == [images[n] EXCEPT !.labels = images[n].labels \cup {"client"}]
<1>1. /\ images' = IF updates[u].current THEN [images EXCEPT ![n] = rec] ELSE images
      /\ updates' = [updates EXCEPT ![u] = NoUpdate]
      /\ StoresStay /\ pulls' = pulls /\ jobs' = jobs
  BY DEF UpdateLabels, contentVars, fileVars, StoresStay
<1>2. updates' \in [Updaters -> UpdateStates]
  <2>1. NoUpdate \in UpdateStates
    BY DEF NoUpdate, UpdateStates
  <2> QED BY <1>1, <2>1 DEF ImageInv, TypeOK
<1>3. images \in [Names -> ImageRecords]
  BY DEF ImageInv, TypeOK
<1>4. images' \in [Names -> ImageRecords] /\ SameTargets
  <2>1. CASE n \in Names
    <3>1. rec \in ImageRecords /\ rec.target = images[n].target
      BY <1>3, <2>1 DEF ImageRecords, Labels
    <3> HIDE DEF rec
    <3> QED BY <1>1, <1>3, <3>1 DEF SameTargets
  <2>2. CASE n \notin Names
    <3>1. images' = images
      BY <1>1, <1>3, <2>2
    <3> QED BY <1>3, <3>1 DEF SameTargets
  <2> QED BY <2>1, <2>2
<1> QED BY <1>1, <1>2, <1>4, OthersInv

-----------------------------------------------------------------------------
(* The uploads.                                                            *)
CommitsSafe ==
    \A r \in Refs : /\ uploads[r].committed => uploads'[r].committed
                    /\ uploads'[r].committed =>
                          uploads'[r].file = "closed" /\ uploads'[r].data = "good"

LEMMA CommitsKept ==
    ASSUME CommitsSafe PROVE Kept
<1>1. \A l \in Layers : <<"upload", l>> \in Refs
  BY DEF Refs, Digests
<1> QED BY <1>1 DEF CommitsSafe, Kept

LEMMA UploadsOKStep ==
    ASSUME UploadsOK, CommitsSafe, snapshots' = snapshots
    PROVE  UploadsOK'
<1>1. Kept
  BY CommitsKept
<1> QED BY <1>1 DEF UploadsOK, CommitsSafe, Kept

LEMMA OneUpload ==
    ASSUME ImageInv, NEW r \in Refs, NEW v \in UploadStates, uploads' = [uploads EXCEPT ![r] = v],
           uploads[r].committed => v.committed,
           v.committed => v.file = "closed" /\ v.data = "good"
    PROVE  uploads' \in [Refs -> UploadStates] /\ CommitsSafe
<1>1. uploads \in [Refs -> UploadStates]
  BY DEF ImageInv, TypeOK
<1>2. \A s \in Refs : uploads[s].committed => uploads[s].file = "closed" /\ uploads[s].data = "good"
  BY DEF ImageInv, UploadsOK
<1>3. uploads'[r] = v /\ \A s \in Refs \ {r} : uploads'[s] = uploads[s]
  BY <1>1
<1>4. CommitsSafe
  BY <1>2, <1>3 DEF CommitsSafe
<1> QED BY <1>1, <1>4

LEMMA SameUploads ==
    ASSUME ImageInv, uploads' = uploads
    PROVE  uploads' \in [Refs -> UploadStates] /\ CommitsSafe
BY DEF ImageInv, TypeOK, UploadsOK, CommitsSafe

(* A step of a job that is quiet for every pull.                           *)
LEMMA JobInv ==
    ASSUME ImageInv, \A p \in Pullers : Quiet(p), RecordsStay, snapshots' = snapshots,
           removed' = removed, pulls' \in [Pullers -> PullStates], jobs' \subseteq Job, JobsOK',
           uploads' \in [Refs -> UploadStates], CommitsSafe,
           blobs \subseteq blobs', blobs' \subseteq Digests, spoiled' \subseteq Digests
    PROVE  ImageInv'
<1>1. TypeOK'
  BY DEF ImageInv, TypeOK, RecordsStay
<1>2. Recorded'
  <2>1. Recorded /\ SameTargets /\ \A p \in Pullers : StaysOk(p)
    BY DEF ImageInv, Clients, RecordsStay, SameTargets, Quiet
  <2> QED BY <2>1, RecordedStep
<1>3. Clients'
  BY <1>2, CommitsKept, QuietStep DEF ImageInv
<1>4. UploadsOK'
  BY UploadsOKStep DEF ImageInv
<1> QED BY <1>1, <1>3, <1>4 DEF ImageInv

LEMMA JobParts ==
    ASSUME ImageInv, NEW j \in jobs
    PROVE  /\ j \in Job /\ j.puller \in Pullers /\ j.blob \in Digests
           /\ Ref(j) \in Refs /\ uploads[Ref(j)] \in UploadStates
           /\ pulls[j.puller] \in PullStates /\ PullOK(pulls[j.puller])
           /\ uploads[Ref(j)].committed =>
                 uploads[Ref(j)].file = "closed" /\ uploads[Ref(j)].data = "good"
<1>1. j \in Job /\ j.puller \in Pullers /\ j.blob \in Digests
  BY DEF ImageInv, TypeOK, Job
<1>2. Ref(j) \in Refs
  BY <1>1 DEF Ref, RefClass, Refs
<1>3. uploads[Ref(j)] \in UploadStates
  BY <1>2 DEF ImageInv, TypeOK
<1> QED BY <1>1, <1>2, <1>3, PullParts DEF ImageInv, UploadsOK

(* The job ends with an error: the pull that waits for it fails.           *)
LEMMA JobFailsQuiet ==
    ASSUME ImageInv, NEW j \in jobs, JobFails(j)
    PROVE  /\ \A p \in Pullers : Quiet(p)
           /\ pulls' \in [Pullers -> PullStates] /\ jobs' \subseteq Job /\ JobsOK'
<1> DEFINE p == j.puller
<1>1. p \in Pullers /\ pulls \in [Pullers -> PullStates] /\ jobs' = jobs \ {j} /\ jobs' \subseteq Job
  BY JobParts DEF ImageInv, TypeOK, JobFails
<1>2. CASE pulls[p].step = "store"
  <2>1. Goes(p, "failed")
    BY <1>2 DEF JobFails, Awaited, Goes
  <2>2. Alone(p) /\ pulls'[p].kind = pulls[p].kind /\ pulls'[p].step = "failed"
    BY <1>1, <2>1, GoesAlone
  <2>3. StaysOwner(p)
    BY <1>2 DEF StaysOwner
  <2>4. Quiet(p)
    BY <1>2, <2>2, <2>3, FailedQuiet
  <2>5. \A q \in Pullers : Quiet(q)
    BY <1>1, <2>2, <2>4, OneQuiet DEF ImageInv
  <2>6. ASSUME NEW k \in jobs'
        PROVE  \/ pulls'[k.puller] = pulls[k.puller]
               \/ /\ pulls'[k.puller].kind = pulls[k.puller].kind
                  /\ pulls'[k.puller].step = "failed"
    <3>1. k \in jobs /\ k.puller \in Pullers
      BY <1>1 DEF Job
    <3> QED BY <2>2, <3>1 DEF Alone
  <2>7. JobsOK'
    BY <1>1, <2>6, JobsOKStep DEF ImageInv
  <2> QED BY <1>1, <2>2, <2>5, <2>7 DEF Alone
<1>3. CASE pulls[p].step # "store"
  <2>1. pulls' = pulls
    BY <1>3 DEF JobFails, Awaited
  <2>2. \A q \in Pullers : Quiet(q)
    BY <2>1, StillQuiet DEF ImageInv, Clients
  <2>3. JobsOK'
    BY <1>1, <2>1, JobsOKStep DEF ImageInv
  <2> QED BY <1>1, <2>1, <2>2, <2>3
<1> QED BY <1>2, <1>3

(* The job goes on: it is the same job of the same pull.                   *)
LEMMA JobGoesQuiet ==
    ASSUME ImageInv, NEW j \in jobs, NEW s \in {"write", "commit"}, JobGoes(j, s)
    PROVE  /\ \A p \in Pullers : Quiet(p)
           /\ pulls' \in [Pullers -> PullStates] /\ jobs' \subseteq Job /\ JobsOK'
<1> DEFINE new == [j EXCEPT !.step = s]
<1>1. j \in Job /\ jobs \subseteq Job
  BY JobParts DEF ImageInv, TypeOK
<1>2. new \in Job /\ new.puller = j.puller /\ new.blob = j.blob
  BY <1>1 DEF Job
<1>3. jobs' = (jobs \ {j}) \cup {new} /\ pulls' = pulls
  BY DEF JobGoes
<1> HIDE DEF new
<1>4. \A q \in Pullers : Quiet(q)
  BY <1>3, StillQuiet DEF ImageInv, Clients
<1>5. JobsOK'
  <2>1. SUFFICES ASSUME NEW k \in jobs'
                 PROVE  /\ pulls[k.puller].kind \in Kinds
                        /\ pulls[k.puller].kind # "docker" =>
                              /\ pulls[k.puller].step \in {"store", "failed"}
                              /\ pulls[k.puller].step = "store" =>
                                    k.blob = Blob(pulls[k.puller], pulls[k.puller].at)
                              /\ \A o \in jobs' : o.puller = k.puller => o = k
    BY <1>3 DEF JobsOK
  <2>2. PICK old \in jobs : /\ old.puller = k.puller /\ old.blob = k.blob
                            /\ IF old = j THEN k = new ELSE k = old
    BY <1>2, <1>3
  <2>3. /\ pulls[old.puller].kind \in Kinds
        /\ pulls[old.puller].kind # "docker" =>
              /\ pulls[old.puller].step \in {"store", "failed"}
              /\ pulls[old.puller].step = "store" =>
                    old.blob = Blob(pulls[old.puller], pulls[old.puller].at)
              /\ \A o \in jobs : o.puller = old.puller => o = old
    BY DEF ImageInv, JobsOK
  <2>4. ASSUME pulls[k.puller].kind # "docker", NEW o \in jobs', o.puller = k.puller
        PROVE  o = k
    <3>1. PICK prev \in jobs : prev.puller = o.puller /\ IF prev = j THEN o = new ELSE o = prev
      BY <1>2, <1>3
    <3>2. prev = old
      BY <2>2, <2>3, <2>4, <3>1
    <3> QED BY <2>2, <3>1, <3>2
  <2> QED BY <2>2, <2>3, <2>4
<1> QED BY <1>1, <1>2, <1>3, <1>4, <1>5 DEF ImageInv, TypeOK

LEMMA BeginUploadInv ==
    ASSUME ImageInv, NEW j \in jobs, BeginUpload(j)
    PROVE  ImageInv'
<1> DEFINE r == Ref(j)
           v == [uploads[r] EXCEPT !.file = "linked"]
<1>1. /\ RecordsStay /\ snapshots' = snapshots /\ removed' = removed
      /\ blobs \subseteq blobs' /\ blobs' \subseteq Digests /\ spoiled' \subseteq Digests
  BY DEF BeginUpload, fileVars, recordVars, RecordsStay, ImageInv, TypeOK
<1>2. /\ r \in Refs /\ uploads[r] \in UploadStates
      /\ uploads[r].committed => uploads[r].file = "closed" /\ uploads[r].data = "good"
  BY JobParts
<1>3. CASE uploads[r].committed
  <2>1. JobFails(j) /\ uploads' = uploads
    BY <1>3 DEF BeginUpload
  <2> QED BY <1>1, <2>1, JobFailsQuiet, SameUploads, JobInv
<1>4. CASE ~uploads[r].committed
  <2>1. /\ JobGoes(j, "write")
        /\ uploads' = IF uploads[r].file = "none" THEN [uploads EXCEPT ![r] = v] ELSE uploads
    BY <1>4 DEF BeginUpload
  <2>2. v \in UploadStates /\ v.committed = uploads[r].committed
    BY <1>2 DEF UploadStates
  <2> HIDE DEF r, v
  <2>3. uploads' \in [Refs -> UploadStates] /\ CommitsSafe
    <3>1. CASE uploads[r].file = "none"
      BY <1>2, <1>4, <2>1, <2>2, <3>1, OneUpload
    <3>2. CASE uploads[r].file # "none"
      BY <2>1, <3>2, SameUploads
    <3> QED BY <3>1, <3>2
  <2> QED BY <1>1, <2>1, <2>3, JobGoesQuiet, JobInv
<1> QED BY <1>3, <1>4

LEMMA WriteUploadInv ==
    ASSUME ImageInv, NEW j \in jobs, WriteUpload(j)
    PROVE  ImageInv'
<1> DEFINE r == Ref(j)
           v == [uploads[r] EXCEPT !.data = j.data, !.long = @ \/ j.data = "long"]
<1>1. /\ RecordsStay /\ snapshots' = snapshots /\ removed' = removed
      /\ blobs \subseteq blobs' /\ blobs' \subseteq Digests /\ spoiled' \subseteq Digests
  BY DEF WriteUpload, fileVars, recordVars, RecordsStay, ImageInv, TypeOK
<1>2. /\ r \in Refs /\ uploads[r] \in UploadStates /\ j \in Job
      /\ uploads[r].committed => uploads[r].file = "closed" /\ uploads[r].data = "good"
  BY JobParts
<1>3. CASE uploads[r].file = "closed"
  <2>1. JobFails(j) /\ uploads' = uploads
    BY <1>3 DEF WriteUpload
  <2> QED BY <1>1, <2>1, JobFailsQuiet, SameUploads, JobInv
<1>4. CASE uploads[r].file # "closed"
  <2>1. JobGoes(j, "commit") /\ uploads' = [uploads EXCEPT ![r] = v]
    BY <1>4 DEF WriteUpload
  <2>2. v \in UploadStates /\ v.committed = uploads[r].committed
    BY <1>2 DEF UploadStates, Job
  <2> HIDE DEF r, v
  <2>3. uploads' \in [Refs -> UploadStates] /\ CommitsSafe
    BY <1>2, <1>4, <2>1, <2>2, OneUpload
  <2> QED BY <1>1, <2>1, <2>3, JobGoesQuiet, JobInv
<1> QED BY <1>3, <1>4

LEMMA CommitMismatchInv ==
    ASSUME ImageInv, NEW j \in jobs, CommitMismatch(j)
    PROVE  ImageInv'
<1> DEFINE r == Ref(j)
           v == [uploads[r] EXCEPT !.file = IF @ = "closed" THEN @ ELSE "unlinked"]
<1>1. /\ RecordsStay /\ snapshots' = snapshots /\ removed' = removed
      /\ blobs \subseteq blobs' /\ blobs' \subseteq Digests /\ spoiled' \subseteq Digests
  BY DEF CommitMismatch, fileVars, recordVars, RecordsStay, ImageInv, TypeOK
<1>2. /\ r \in Refs /\ uploads[r] \in UploadStates
      /\ uploads[r].committed => uploads[r].file = "closed" /\ uploads[r].data = "good"
  BY JobParts
<1>3. uploads' = [uploads EXCEPT ![r] = v] /\ JobFails(j)
  BY DEF CommitMismatch
<1>4. /\ v \in UploadStates /\ v.committed = uploads[r].committed
      /\ v.data = uploads[r].data /\ (uploads[r].file = "closed" => v.file = "closed")
  BY <1>2 DEF UploadStates
<1> HIDE DEF r, v
<1>5. uploads' \in [Refs -> UploadStates] /\ CommitsSafe
  BY <1>2, <1>3, <1>4, OneUpload
<1> QED BY <1>1, <1>3, <1>5, JobFailsQuiet, JobInv

LEMMA CommitFailsInv ==
    ASSUME ImageInv, NEW j \in jobs, CommitFails(j)
    PROVE  ImageInv'
<1> DEFINE r == Ref(j)
<1>1. /\ RecordsStay /\ snapshots' = snapshots /\ removed' = removed
      /\ blobs \subseteq blobs' /\ blobs' \subseteq Digests /\ spoiled' \subseteq Digests
  BY DEF CommitFails, fileVars, recordVars, RecordsStay, ImageInv, TypeOK
<1>2. /\ r \in Refs /\ uploads[r] \in UploadStates
      /\ uploads[r].committed => uploads[r].file = "closed" /\ uploads[r].data = "good"
  BY JobParts
<1>3. PICK file \in {uploads[r].file, "closed"} : uploads' = [uploads EXCEPT ![r].file = file]
  BY DEF CommitFails
<1> DEFINE v == [uploads[r] EXCEPT !.file = file]
<1>4. uploads' = [uploads EXCEPT ![r] = v] /\ JobFails(j)
  BY <1>3 DEF CommitFails
<1>5. /\ v \in UploadStates /\ v.committed = uploads[r].committed
      /\ v.data = uploads[r].data /\ (uploads[r].file = "closed" => v.file = "closed")
  BY <1>2, <1>3 DEF UploadStates
<1> HIDE DEF r, v
<1>6. uploads' \in [Refs -> UploadStates] /\ CommitsSafe
  BY <1>2, <1>4, <1>5, OneUpload
<1> QED BY <1>1, <1>4, <1>6, JobFailsQuiet, JobInv

LEMMA CancelledInv ==
    ASSUME ImageInv, NEW j \in jobs, Cancelled(j)
    PROVE  ImageInv'
<1>1. /\ RecordsStay /\ snapshots' = snapshots /\ removed' = removed /\ uploads' = uploads
      /\ blobs \subseteq blobs' /\ blobs' \subseteq Digests /\ spoiled' \subseteq Digests
      /\ pulls' = pulls /\ jobs' = jobs \ {j}
  BY DEF Cancelled, contentVars, fileVars, recordVars, RecordsStay, ImageInv, TypeOK
<1>2. \A q \in Pullers : Quiet(q)
  BY <1>1, StillQuiet DEF ImageInv, Clients
<1>3. JobsOK'
  BY <1>1, JobsOKStep DEF ImageInv
<1>4. pulls' \in [Pullers -> PullStates] /\ jobs' \subseteq Job
  BY <1>1 DEF ImageInv, TypeOK
<1> QED BY <1>1, <1>2, <1>3, <1>4, SameUploads, JobInv

-----------------------------------------------------------------------------
(* The upload that is committed.  A pull of the daemon that waits for it   *)
(* claims the layer: its upload was not committed before, so that nobody   *)
(* has claimed it yet and it has no snapshot.                              *)
LEMMA Unclaimed ==
    ASSUME ImageInv, NEW l \in Layers, ~uploads[<<"upload", l>>].committed
    PROVE  /\ \A p \in Pullers : \A i \in Nat : Claims(pulls[p], i) => Blob(pulls[p], i) # l
           /\ snapshots[l].kind = "absent" /\ snapshots[l].parent = None
<1>1. ASSUME NEW p \in Pullers, NEW i \in Nat, Claims(pulls[p], i)
      PROVE  Blob(pulls[p], i) # l
  <2>1. Layered(pulls[p])
    BY DEF ImageInv, Clients
  <2> QED BY <1>1, <2>1 DEF Layered
<1>2. snapshots[l].kind = "absent" /\ snapshots[l].parent = None
  BY DEF ImageInv, UploadsOK
<1> QED BY <1>1, <1>2

(* A claim of the layer l at i is added to those of p.                     *)
LEMMA ClaimStep ==
    ASSUME ImageInv, NEW p \in Pullers, NEW l \in Layers, ~uploads[<<"upload", l>>].committed,
           uploads'[<<"upload", l>>].committed, Kept,
           snapshots' = snapshots, removed' = removed,
           \A q \in Pullers \ {p} : pulls'[q] = pulls[q],
           pulls'[p].step = "prepare", Blob(pulls'[p], pulls'[p].at) = l,
           pulls[p].step = "store",
           \A i \in Nat : Claims(pulls'[p], i) /\ i # pulls'[p].at =>
              /\ Claims(pulls[p], i)
              /\ Blob(pulls'[p], i) = Blob(pulls[p], i)
              /\ Chain(pulls'[p], i) = Chain(pulls[p], i)
    PROVE  ClaimedOnce' /\ \A q \in Pullers : Layered(pulls[q])'
<1> DEFINE a == pulls[p]
           b == pulls'[p]
<1>1. /\ \A q \in Pullers : \A i \in Nat : Claims(pulls[q], i) => Blob(pulls[q], i) # l
      /\ snapshots[l].kind = "absent" /\ snapshots[l].parent = None
  BY Unclaimed
<1>2. ASSUME NEW q \in Pullers, NEW i \in Nat, Claims(pulls'[q], i)
      PROVE  \/ q = p /\ i = b.at /\ Blob(pulls'[q], i) = l
             \/ /\ Claims(pulls[q], i) /\ Blob(pulls'[q], i) # l
                /\ Blob(pulls'[q], i) = Blob(pulls[q], i)
                /\ Chain(pulls'[q], i) = Chain(pulls[q], i)
  <2>1. CASE q = p
    BY <1>1, <1>2, <2>1
  <2>2. CASE q # p
    BY <1>1, <1>2, <2>2
  <2> QED BY <2>1, <2>2
<1>3. ClaimedOnce'
  <2>1. SUFFICES ASSUME NEW q \in Pullers, NEW s \in Pullers, NEW i \in Nat, NEW k \in Nat,
                        Claims(pulls'[q], i), Claims(pulls'[s], k),
                        Blob(pulls'[q], i) = Blob(pulls'[s], k)
                 PROVE  q = s /\ i = k
    BY DEF ClaimedOnce
  <2>2. CASE Blob(pulls'[q], i) = l
    <3>1. q = p /\ i = b.at
      BY <1>2, <2>1, <2>2
    <3>2. s = p /\ k = b.at
      BY <1>2, <2>1, <2>2
    <3> QED BY <3>1, <3>2
  <2>3. CASE Blob(pulls'[q], i) # l
    <3>1. Claims(pulls[q], i) /\ Claims(pulls[s], k) /\ Blob(pulls[q], i) = Blob(pulls[s], k)
      BY <1>2, <2>1, <2>3
    <3> QED BY <3>1 DEF ImageInv, Clients, ClaimedOnce
  <2> QED BY <2>2, <2>3
<1>4. ASSUME NEW q \in Pullers PROVE Layered(pulls[q])'
  <2>1. SUFFICES ASSUME NEW i \in Nat, Claims(pulls'[q], i)
                 PROVE  /\ uploads'[<<"upload", Blob(pulls'[q], i)>>].committed
                        /\ Snapped(snapshots', removed', Blob(pulls'[q], i), Phase(pulls'[q], i),
                                   Chain(pulls'[q], i))
    BY DEF Layered
  <2>2. CASE q = p /\ i = b.at /\ Blob(pulls'[q], i) = l
    <3>1. Phase(pulls'[q], i) = "absent"
      BY <2>2 DEF Phase
    <3>2. Snapped(snapshots', removed', l, "absent", Chain(pulls'[q], i))
      BY <1>1 DEF Snapped
    <3> QED BY <2>2, <3>1, <3>2
  <2>3. CASE /\ Claims(pulls[q], i) /\ Blob(pulls'[q], i) # l
             /\ Blob(pulls'[q], i) = Blob(pulls[q], i)
             /\ Chain(pulls'[q], i) = Chain(pulls[q], i)
    <3>1. Layered(pulls[q]) /\ pulls[q] \in PullStates /\ PullOK(pulls[q])
      BY PullParts DEF ImageInv, Clients
    <3>2. /\ uploads[<<"upload", Blob(pulls[q], i)>>].committed
          /\ Snapped(snapshots, removed, Blob(pulls[q], i), Phase(pulls[q], i), Chain(pulls[q], i))
      BY <2>3, <3>1 DEF Layered
    <3>3. Blob(pulls[q], i) \in Layers
      BY <2>3, <3>1, ToldBlobs
    <3>4. Phase(pulls'[q], i) = Phase(pulls[q], i)
      <4>1. CASE q = p
        <5>1. i # b.at
          BY <2>3, <4>1
        <5> QED BY <4>1, <5>1 DEF Phase
      <4>2. CASE q # p
        BY <4>2
      <4> QED BY <4>1, <4>2
    <3>5. uploads'[<<"upload", Blob(pulls[q], i)>>].committed
      BY <3>2, <3>3 DEF Kept
    <3> QED BY <2>3, <3>2, <3>4, <3>5
  <2> QED BY <1>2, <2>1, <2>2, <2>3
<1> QED BY <1>3, <1>4

(* The pull that waits for the job goes on, and has no other job.          *)
LEMMA JobDoneParts ==
    ASSUME ImageInv, NEW j \in jobs, JobDone(j), pulls[j.puller].step = "store"
    PROVE  /\ Alone(j.puller) /\ pulls'[j.puller] = Stored(pulls[j.puller])
           /\ j.blob = Blob(pulls[j.puller], pulls[j.puller].at)
           /\ jobs' \subseteq Job /\ JobsOK'
<1> DEFINE p == j.puller
<1>1. p \in Pullers /\ pulls[p] \in PullStates /\ PullOK(pulls[p])
  BY JobParts
<1>2. pulls' = [pulls EXCEPT ![p] = Stored(pulls[p])] /\ jobs' = jobs \ {j}
  BY DEF JobDone, Awaited
<1>3. Stored(pulls[p]) \in PullStates
  BY <1>1, StoredMoves
<1>4. Alone(p) /\ pulls'[p] = Stored(pulls[p])
  BY <1>1, <1>2, <1>3, MovesAlone
<1>5. pulls[p].kind # "docker"
  BY <1>1 DEF PullOK
<1>6. j.blob = Blob(pulls[p], pulls[p].at) /\ \A k \in jobs : k.puller = p => k = j
  BY <1>5 DEF ImageInv, JobsOK
<1>7. jobs' \subseteq Job
  BY <1>2 DEF ImageInv, TypeOK
<1>8. ASSUME NEW k \in jobs' PROVE pulls'[k.puller] = pulls[k.puller]
  <2>1. k.puller \in Pullers /\ k.puller # p
    BY <1>2, <1>6, <1>7 DEF Job
  <2> QED BY <1>4, <2>1 DEF Alone
<1>9. JobsOK'
  BY <1>2, <1>8, JobsOKStep DEF ImageInv
<1> QED BY <1>4, <1>6, <1>7, <1>9

LEMMA CommitUploadInv ==
    ASSUME ImageInv, NEW j \in jobs, CommitUpload(j)
    PROVE  ImageInv'
<1> DEFINE r == Ref(j)
           p == j.puller
           a == pulls[p]
           b == pulls'[p]
           v == [uploads[r] EXCEPT !.file = "closed", !.committed = TRUE]
<1>1. /\ uploads[r].data = "good" /\ uploads[r].file = "linked"
      /\ blobs' = blobs \cup {j.blob} /\ JobDone(j)
      /\ spoiled' = spoiled \cup {j.blob} \/ spoiled' = spoiled \ {j.blob}
      /\ RecordsStay /\ snapshots' = snapshots /\ removed' = removed
  BY DEF CommitUpload, Verified, recordVars, RecordsStay
<1>2. /\ r \in Refs /\ uploads[r] \in UploadStates /\ p \in Pullers /\ j.blob \in Digests
      /\ a \in PullStates /\ PullOK(a)
      /\ uploads[r].committed => uploads[r].file = "closed"
  BY JobParts
<1>3. ~uploads[r].committed
  BY <1>1, <1>2
<1>4. uploads' = [uploads EXCEPT ![r] = v]
  BY <1>2 DEF CommitUpload, ImageInv, TypeOK
<1>5. v \in UploadStates /\ v.file = "closed" /\ v.data = uploads[r].data /\ v.committed = TRUE
  BY <1>2 DEF UploadStates
<1> HIDE DEF r, v
<1>6. uploads' \in [Refs -> UploadStates] /\ CommitsSafe
  BY <1>1, <1>2, <1>4, <1>5, OneUpload
<1>7. /\ blobs \subseteq blobs' /\ blobs' \subseteq Digests /\ j.blob \in blobs'
      /\ spoiled' \subseteq Digests
  BY <1>1, <1>2 DEF ImageInv, TypeOK
<1>8. CASE a.step # "store"
  <2>1. pulls' = pulls /\ jobs' = jobs \ {j}
    BY <1>1, <1>8 DEF JobDone, Awaited
  <2>2. \A q \in Pullers : Quiet(q)
    BY <2>1, StillQuiet DEF ImageInv, Clients
  <2>3. JobsOK'
    BY <2>1, JobsOKStep DEF ImageInv
  <2>4. pulls' \in [Pullers -> PullStates] /\ jobs' \subseteq Job
    BY <2>1 DEF ImageInv, TypeOK
  <2> QED BY <1>1, <1>6, <1>7, <2>2, <2>3, <2>4, JobInv
<1>9. CASE a.step = "store"
  <2>1. /\ Alone(p) /\ b = Stored(a) /\ j.blob = Blob(a, a.at)
        /\ jobs' \subseteq Job /\ JobsOK'
    BY <1>1, <1>9, JobDoneParts
  <2>2. pulls' \in [Pullers -> PullStates] /\ \A q \in Pullers \ {p} : pulls'[q] = pulls[q]
    BY <2>1 DEF Alone
  <2>3. CASE ~(a.kind = "containerd" /\ a.at > 1)
    <3>1. b = Onward(a)
      BY <2>1, <2>3 DEF Stored
    <3>2. a.at \in Nat /\ a.at > 0
      BY <1>2, <1>9 DEF PullOK, Running, PullStates
    <3>3. a.kind = "containerd" => a.at = 1
      BY <2>3, <3>2
    <3>4. Quiet(p)
      BY <1>2, <1>7, <1>9, <2>1, <3>1, <3>3, OnwardQuiet
    <3>5. \A q \in Pullers : Quiet(q)
      BY <1>2, <2>1, <3>4, OneQuiet DEF ImageInv
    <3> QED BY <1>1, <1>6, <1>7, <2>1, <2>2, <3>5, JobInv
  <2>4. CASE a.kind = "containerd" /\ a.at > 1
    <3> DEFINE l == Blob(a, a.at)
    <3>1. /\ PullOK(b) /\ b.kind = a.kind /\ b.manifest = a.manifest
          /\ b.step = "prepare" /\ b.at = a.at
          /\ \A i \in Nat : Told(b, i) <=> i \in 1 .. a.at
      BY <1>2, <1>9, <2>1, <2>4, StoredMoves
    <3>2. \A i : Blob(b, i) = Blob(a, i) /\ Chain(b, i) = Chain(a, i)
      BY <3>1, SameBlobs
    <3>3. a.at \in Nat
      BY <1>2 DEF PullStates
    <3>4. \A i \in Nat : Told(b, i) => Told(a, i) \/ i = a.at
      BY <1>9, <2>4, <3>1, <3>3 DEF Told, Running
    <3>5. \A i \in Nat : Claims(b, i) /\ i # b.at => Claims(a, i)
      BY <2>4, <3>1, <3>4 DEF Claims
    <3>6. l \in Layers
      <4>1. Claims(b, b.at) /\ b \in PullStates
        BY <1>2, <2>2, <2>4, <3>1, <3>3 DEF Claims
      <4> QED BY <3>1, <3>2, <3>3, <4>1, ToldBlobs
    <3>7. r = <<"upload", l>>
      BY <2>1, <2>4 DEF r, Ref, RefClass
    <3>8. ~uploads[<<"upload", l>>].committed /\ uploads'[<<"upload", l>>].committed
      <4>1. uploads'[r] = v
        BY <1>2, <1>4 DEF ImageInv, TypeOK
      <4> QED BY <1>3, <1>5, <3>7, <4>1
    <3>9. Kept
      BY <1>6, CommitsKept
    <3> HIDE DEF l
    <3>10. ClaimedOnce' /\ \A q \in Pullers : Layered(pulls[q])'
      <4>1. Blob(b, b.at) = l
        BY <3>1, <3>2 DEF l
      <4> QED BY <1>1, <1>2, <1>9, <2>2, <3>1, <3>2, <3>5, <3>6, <3>8, <3>9, <4>1, ClaimStep
    <3>11. ASSUME NEW q \in Pullers
           PROVE  PullOK(pulls'[q]) /\ Heard(q) /\ StaysOk(q) /\ StaysOwner(q)
      <4>1. CASE q # p
        <5>1. Quiet(q)
          BY <2>2, <4>1, StillQuiet DEF ImageInv, Clients
        <5> QED BY <5>1 DEF Quiet
      <4>2. CASE q = p
        <5>1. Heard(p)
          BY <1>7, <2>1, <3>2, <3>4 DEF Heard
        <5> QED BY <1>9, <3>1, <4>2, <5>1 DEF StaysOk, StaysOwner
      <4> QED BY <4>1, <4>2
    <3>12. BlobsTold' /\ ActiveOwned'
      BY <1>1, <1>7, <3>11, BlobsToldStep, ActiveOwnedStep DEF ImageInv, Clients
    <3>13. Recorded'
      <4>1. SameTargets
        BY <1>1 DEF RecordsStay, SameTargets
      <4> QED BY <3>11, <4>1, RecordedStep DEF ImageInv, Clients
    <3>14. Clients'
      BY <3>10, <3>11, <3>12, <3>13 DEF Clients
    <3>15. UploadsOK'
      BY <1>1, <1>6, UploadsOKStep DEF ImageInv
    <3>16. TypeOK'
      BY <1>1, <1>6, <1>7, <2>1, <2>2 DEF ImageInv, TypeOK, RecordsStay
    <3> QED BY <2>1, <3>14, <3>15, <3>16 DEF ImageInv
  <2> QED BY <2>3, <2>4
<1> QED BY <1>8, <1>9

-----------------------------------------------------------------------------
(* The snapshots.  A pull that unpacks works on a layer of its own.        *)
LEMMA UnpackParts ==
    ASSUME ImageInv, NEW p \in Pullers, pulls[p].step \in {"prepare", "commit"}
    PROVE  /\ Claims(pulls[p], pulls[p].at) /\ pulls[p].at \in Nat
           /\ BlobAt(p) = Blob(pulls[p], pulls[p].at) /\ BlobAt(p) \in Layers
           /\ chainID(p) = Chain(pulls[p], pulls[p].at)
           /\ uploads[<<"upload", BlobAt(p)>>].committed
           /\ Snapped(snapshots, removed, BlobAt(p), Phase(pulls[p], pulls[p].at), chainID(p))
           /\ pulls[p].kind = "containerd"
<1> DEFINE a == pulls[p]
<1>1. a \in PullStates /\ PullOK(a) /\ Layered(a)
  BY PullParts DEF ImageInv, Clients
<1>2. a.kind = "containerd" /\ a.at > 1 /\ a.at \in Nat
  BY <1>1 DEF PullOK, PullStates
<1>3. Claims(a, a.at)
  BY <1>2 DEF Claims, Told, Running
<1>4. BlobAt(p) = Blob(a, a.at) /\ chainID(p) = Chain(a, a.at)
  BY DEF BlobAt, List, Blob, chainID, Chain
<1>5. Blob(a, a.at) \in Layers
  BY <1>1, <1>2, <1>3, ToldBlobs
<1>6. /\ uploads[<<"upload", Blob(a, a.at)>>].committed
      /\ Snapped(snapshots, removed, Blob(a, a.at), Phase(a, a.at), Chain(a, a.at))
  BY <1>1, <1>2, <1>3 DEF Layered
<1> QED BY <1>2, <1>3, <1>4, <1>5, <1>6

(* Only the snapshot of l changes, and l is what p unpacks.                *)
LEMMA UnpackStep ==
    ASSUME ImageInv, NEW p \in Pullers, pulls[p].step \in {"prepare", "commit"},
           Alone(p), NoNewClaim(p), uploads' = uploads, removed' = removed,
           \A l \in Layers \ {BlobAt(p)} : snapshots'[l] = snapshots[l],
           \A i \in Nat : Claims(pulls'[p], i) /\ i # pulls[p].at =>
              Phase(pulls'[p], i) = Phase(pulls[p], i),
           Claims(pulls'[p], pulls[p].at) =>
              Snapped(snapshots', removed', BlobAt(p), Phase(pulls'[p], pulls[p].at), chainID(p))
    PROVE  ClaimedOnce' /\ \A q \in Pullers : Layered(pulls[q])'
<1> DEFINE a == pulls[p]
           l == BlobAt(p)
<1>1. /\ Claims(a, a.at) /\ a.at \in Nat
      /\ l = Blob(a, a.at) /\ l \in Layers /\ chainID(p) = Chain(a, a.at)
  BY UnpackParts
<1> HIDE DEF l
<1>2. ASSUME NEW q \in Pullers
      PROVE  /\ pulls[q] \in PullStates /\ PullOK(pulls[q]) /\ Layered(pulls[q]) /\ NoNewClaim(q)
             /\ q # p => pulls'[q] = pulls[q]
  <2>1. pulls[q] \in PullStates /\ PullOK(pulls[q]) /\ Layered(pulls[q])
    BY PullParts DEF ImageInv, Clients
  <2>2. CASE q # p
    <3>1. pulls'[q] = pulls[q]
      BY <2>2 DEF Alone
    <3>2. Quiet(q)
      BY <2>1, <3>1, StillQuiet
    <3> QED BY <2>1, <3>1, <3>2 DEF Quiet
  <2>3. CASE q = p
    BY <2>1, <2>3
  <2> QED BY <2>2, <2>3
<1>3. ClaimedOnce'
  BY <1>2, ClaimedOnceStep DEF ImageInv, Clients
<1>4. Kept
  BY DEF Kept
<1>5. ASSUME NEW q \in Pullers PROVE Layered(pulls[q])'
  <2>1. ASSUME NEW i \in Nat, Claims(pulls[q], i), Claims(pulls'[q], i),
               Snapped(snapshots, removed, Blob(pulls[q], i), Phase(pulls[q], i),
                       Chain(pulls[q], i))
        PROVE  Snapped(snapshots', removed', Blob(pulls[q], i), Phase(pulls'[q], i),
                       Chain(pulls[q], i))
    <3>1. CASE q = p /\ i = a.at
      BY <1>1, <2>1, <3>1 DEF l
    <3>2. CASE ~(q = p /\ i = a.at)
      <4>1. Blob(pulls[q], i) # l
        BY <1>1, <2>1, <3>2 DEF ImageInv, Clients, ClaimedOnce
      <4>2. Blob(pulls[q], i) \in Layers
        BY <1>2, <2>1, ToldBlobs
      <4>3. snapshots'[Blob(pulls[q], i)] = snapshots[Blob(pulls[q], i)]
        BY <4>1, <4>2 DEF l
      <4>4. Phase(pulls'[q], i) = Phase(pulls[q], i)
        BY <1>2, <2>1, <3>2
      <4> QED BY <2>1, <4>3, <4>4 DEF Snapped
    <3> QED BY <3>1, <3>2
  <2> QED BY <1>2, <1>4, <2>1, LayeredStep
<1> QED BY <1>3, <1>5

(* The rest of the invariant after a step of a pull that unpacks.          *)
LEMMA UnpackInv ==
    ASSUME ImageInv, NEW p \in Pullers, pulls[p].step \in {"prepare", "commit"},
           Alone(p), PullOK(pulls'[p]), Heard(p), uploads' = uploads, blobs' = blobs, spoiled' = spoiled,
           RecordsStay, removed' = removed, jobs' = jobs,
           snapshots' \in [Layers -> SnapshotStates],
           \A l \in Layers \ {BlobAt(p)} : snapshots'[l] = snapshots[l],
           ActiveOwned', ClaimedOnce', \A q \in Pullers : Layered(pulls[q])'
    PROVE  ImageInv'
<1>1. TypeOK'
  BY DEF ImageInv, TypeOK, Alone, RecordsStay
<1>2. ASSUME NEW q \in Pullers PROVE PullOK(pulls'[q]) /\ Heard(q) /\ StaysOk(q)
  <2>1. CASE q # p
    <3>1. pulls'[q] = pulls[q] /\ PullOK(pulls[q])
      BY <2>1, PullParts DEF Alone
    <3>2. Quiet(q)
      BY <3>1, StillQuiet
    <3> QED BY <3>2 DEF Quiet
  <2>2. CASE q = p
    BY <2>2 DEF StaysOk
  <2> QED BY <2>1, <2>2
<1>3. BlobsTold'
  BY <1>2, BlobsToldStep DEF ImageInv, Clients
<1>4. Recorded'
  <2>1. SameTargets
    BY DEF RecordsStay, SameTargets
  <2> QED BY <1>2, <2>1, RecordedStep DEF ImageInv, Clients
<1>5. Clients'
  BY <1>2, <1>3, <1>4 DEF Clients
<1>6. JobsOK'
  <2>1. ASSUME NEW j \in jobs PROVE pulls'[j.puller] = pulls[j.puller]
    <3>1. j.puller \in Pullers
      BY DEF ImageInv, TypeOK, Job
    <3>2. pulls[p].kind # "docker"
      BY UnpackParts
    <3>3. j.puller # p
      BY <3>2, NoJobs DEF ImageInv
    <3> QED BY <3>1, <3>3 DEF Alone
  <2> QED BY <2>1, JobsOKStep DEF ImageInv
<1>7. UploadsOK'
  <2>1. uploads[<<"upload", BlobAt(p)>>].committed
    BY UnpackParts
  <2> QED BY <2>1 DEF ImageInv, UploadsOK
<1> QED BY <1>1, <1>5, <1>6, <1>7 DEF ImageInv

LEMMA PrepareInv ==
    ASSUME ImageInv, NEW p \in Pullers, Prepare(p)
    PROVE  ImageInv'
<1> DEFINE a == pulls[p]
           b == pulls'[p]
           l == BlobAt(p)
           new == [kind |-> "active", parent |-> chainID(p)]
<1>1. /\ a.step = "prepare" /\ Goes(p, "commit") /\ snapshots' = [snapshots EXCEPT ![l] = new]
      /\ CanPrepare(l, chainID(p))
      /\ uploads' = uploads /\ blobs' = blobs /\ spoiled' = spoiled
      /\ RecordsStay /\ removed' = removed /\ jobs' = jobs
  BY DEF Prepare, contentVars, fileVars, recordVars, RecordsStay
<1>2. /\ Alone(p) /\ b.kind = a.kind /\ b.name = a.name /\ b.manifest = a.manifest
      /\ b.at = a.at /\ b.step = "commit"
  BY <1>1, GoesAlone
<1>3. /\ l \in Layers /\ l = Blob(a, a.at) /\ chainID(p) = Chain(a, a.at)
      /\ a.at \in Nat /\ a.kind = "containerd"
  BY <1>1, UnpackParts
<1>4. a \in PullStates /\ PullOK(a)
  BY PullParts
<1>5. Size(b) = Size(a) /\ \A i : Blob(b, i) = Blob(a, i) /\ Chain(b, i) = Chain(a, i)
  BY <1>2, SameBlobs
<1>6. PullOK(b)
  BY <1>1, <1>2, <1>4, <1>5 DEF PullOK, Running
<1>7. \A i \in Nat : Told(b, i) => Told(a, i)
  BY <1>1, <1>2 DEF Told, Running
<1>8. Heard(p) /\ NoNewClaim(p)
  BY <1>2, <1>5, <1>7 DEF Heard, NoNewClaim, Claims
<1>9. new \in SnapshotStates /\ new.kind = "active" /\ new.parent = chainID(p)
  <2>1. chainID(p) \in Layers \cup {None}
    <3>1. CASE a.at = 2
      BY <3>1 DEF chainID
    <3>2. CASE a.at # 2
      <4>1. a.at - 1 \in Nat /\ Claims(a, a.at - 1)
        BY <1>1, <1>3, <1>4, <3>2 DEF Claims, Told, Running, PullOK
      <4>2. Blob(a, a.at - 1) \in Layers
        BY <1>4, <4>1, ToldBlobs
      <4> QED BY <1>3, <3>2, <4>2 DEF Chain
    <3> QED BY <3>1, <3>2
  <2> QED BY <2>1 DEF SnapshotStates
<1> HIDE DEF l, new
<1>10. /\ snapshots' \in [Layers -> SnapshotStates] /\ snapshots'[l] = new
       /\ \A k \in Layers \ {l} : snapshots'[k] = snapshots[k]
  BY <1>1, <1>3, <1>9 DEF ImageInv, TypeOK
<1>11. ClaimedOnce' /\ \A q \in Pullers : Layered(pulls[q])'
  <2>1. \A i \in Nat : i # a.at => Phase(b, i) = Phase(a, i)
    BY <1>2 DEF Phase
  <2>2. Phase(b, a.at) = "active"
    BY <1>2 DEF Phase
  <2>3. Snapped(snapshots', removed', l, "active", chainID(p))
    BY <1>9, <1>10 DEF Snapped
  <2> QED BY <1>1, <1>2, <1>8, <1>10, <2>1, <2>2, <2>3, UnpackStep DEF l
<1>12. ActiveOwned'
  <2>1. SUFFICES ASSUME NEW k \in Layers, snapshots'[k].kind = "active"
                 PROVE  \E q \in Pullers :
                           pulls'[q].step = "commit" /\ Blob(pulls'[q], pulls'[q].at) = k
    BY DEF ActiveOwned
  <2>2. CASE k = l
    BY <1>2, <1>3, <1>5, <2>2
  <2>3. CASE k # l
    <3>1. PICK q \in Pullers : pulls[q].step = "commit" /\ Blob(pulls[q], pulls[q].at) = k
      BY <1>10, <2>1, <2>3 DEF ImageInv, Clients, ActiveOwned
    <3>2. pulls'[q] = pulls[q]
      BY <1>1, <1>2, <3>1 DEF Alone
    <3> QED BY <3>1, <3>2
  <2> QED BY <2>2, <2>3
<1> QED BY <1>1, <1>2, <1>6, <1>8, <1>10, <1>11, <1>12, UnpackInv DEF l

LEMMA CommitInv ==
    ASSUME ImageInv, NEW p \in Pullers, Commit(p)
    PROVE  ImageInv'
<1> DEFINE a == pulls[p]
           b == pulls'[p]
           l == BlobAt(p)
<1>1. /\ a.step = "commit" /\ RecordsStay
      /\ uploads' = uploads /\ blobs' = blobs /\ spoiled' = spoiled
      /\ removed' = removed /\ jobs' = jobs
  BY DEF Commit, contentVars, fileVars, recordVars, RecordsStay
<1>2. CASE snapshots[l].kind # "active"
  <2>1. Goes(p, "failed") /\ snapshots' = snapshots
    BY <1>2 DEF Commit
  <2>2. Alone(p) /\ b.step = "failed" /\ b.kind = a.kind
    BY <2>1, GoesAlone
  <2>3. StaysOwner(p)
    <3>1. l = Blob(a, a.at)
      BY <1>1, UnpackParts
    <3> QED BY <1>2, <3>1 DEF StaysOwner
  <2>4. StoresStay
    BY <1>1, <2>1 DEF StoresStay
  <2> QED BY <1>1, <2>2, <2>3, <2>4, FailsInv
<1>3. CASE snapshots[l].kind = "active"
  <2> DEFINE new == [snapshots[l] EXCEPT !.kind = "committed"]
  <2>1. pulls' = [pulls EXCEPT ![p] = Onward(pulls[p])] /\ snapshots' = [snapshots EXCEPT ![l] = new]
    BY <1>3 DEF Commit
  <2>2. /\ l \in Layers /\ l = Blob(a, a.at) /\ chainID(p) = Chain(a, a.at) /\ Claims(a, a.at)
        /\ a.at \in Nat /\ a.kind = "containerd"
        /\ Snapped(snapshots, removed, l, Phase(a, a.at), chainID(p))
    BY <1>1, UnpackParts
  <2>3. a \in PullStates /\ PullOK(a)
    BY PullParts
  <2>4. /\ Onward(a) \in PullStates /\ PullOK(Onward(a))
        /\ Onward(a).kind = a.kind /\ Onward(a).manifest = a.manifest
        /\ Onward(a).step \in {"fetch", "register"}
        /\ \A i \in Nat : Told(Onward(a), i) <=> (a.kind # "docker" /\ i \in 1 .. a.at)
    BY <1>1, <2>3, OnwardMoves
  <2>5. Alone(p) /\ b = Onward(a)
    BY <2>1, <2>4, MovesAlone
  <2>6. \A i : Blob(b, i) = Blob(a, i) /\ Chain(b, i) = Chain(a, i)
    BY <2>4, <2>5, SameBlobs
  <2>7. \A i \in Nat : Told(b, i) => Told(a, i)
    BY <1>1, <2>2, <2>4, <2>5 DEF Told, Running
  <2>8. Heard(p) /\ NoNewClaim(p)
    BY <2>4, <2>5, <2>6, <2>7 DEF Heard, NoNewClaim, Claims
  <2>9. snapshots[l] \in SnapshotStates
    BY <2>2 DEF ImageInv, TypeOK
  <2>10. new \in SnapshotStates /\ new.kind = "committed" /\ new.parent = snapshots[l].parent
    BY <2>9 DEF SnapshotStates
  <2> HIDE DEF l, new
  <2>11. /\ snapshots' \in [Layers -> SnapshotStates] /\ snapshots'[l] = new
         /\ \A k \in Layers \ {l} : snapshots'[k] = snapshots[k]
    BY <2>1, <2>2, <2>10 DEF ImageInv, TypeOK
  <2>12. ClaimedOnce' /\ \A q \in Pullers : Layered(pulls[q])'
    <3>1. \A i \in Nat : Phase(b, i) = "committed"
      BY <2>4, <2>5 DEF Phase
    <3>2. \A i \in Nat : i # a.at => Phase(a, i) = "committed"
      BY DEF Phase
    <3>3. Phase(a, a.at) = "active"
      BY <1>1 DEF Phase
    <3>4. snapshots[l].parent = chainID(p)
      BY <1>3, <2>2, <3>3 DEF Snapped, l
    <3>5. Snapped(snapshots', removed', l, "committed", chainID(p))
      BY <2>10, <2>11, <3>4 DEF Snapped
    <3> QED BY <1>1, <2>2, <2>5, <2>8, <2>11, <3>1, <3>2, <3>5, UnpackStep DEF l
  <2>13. ActiveOwned'
    <3>1. SUFFICES ASSUME NEW k \in Layers, snapshots'[k].kind = "active"
                   PROVE  \E q \in Pullers :
                             pulls'[q].step = "commit" /\ Blob(pulls'[q], pulls'[q].at) = k
      BY DEF ActiveOwned
    <3>2. k # l
      BY <2>10, <2>11, <3>1
    <3>3. PICK q \in Pullers : pulls[q].step = "commit" /\ Blob(pulls[q], pulls[q].at) = k
      BY <2>11, <3>1, <3>2 DEF ImageInv, Clients, ActiveOwned
    <3>4. pulls'[q] = pulls[q]
      BY <2>2, <2>5, <3>2, <3>3 DEF Alone
    <3> QED BY <3>3, <3>4
  <2> QED BY <1>1, <2>4, <2>5, <2>8, <2>11, <2>12, <2>13, UnpackInv DEF l
<1> QED BY <1>2, <1>3

LEMMA RemoveLayerInv ==
    ASSUME ImageInv, NEW l \in Layers, RemoveLayer(l)
    PROVE  ImageInv'
<1>1. /\ snapshots[l].kind # "absent" /\ snapshots' = [snapshots EXCEPT ![l] = NoSnapshot]
      /\ removed' = removed \cup {l} /\ uploads' = uploads /\ blobs' = blobs
      /\ spoiled' = spoiled /\ RecordsStay
      /\ pulls' = pulls /\ jobs' = jobs
  BY DEF RemoveLayer, contentVars, fileVars, recordVars, RecordsStay
<1>2. NoSnapshot \in SnapshotStates /\ NoSnapshot.kind = "absent" /\ NoSnapshot.parent = None
  BY DEF NoSnapshot, SnapshotStates
<1>3. /\ snapshots' \in [Layers -> SnapshotStates] /\ snapshots'[l] = NoSnapshot
      /\ \A k \in Layers \ {l} : snapshots'[k] = snapshots[k]
  BY <1>1, <1>2 DEF ImageInv, TypeOK
<1>4. ASSUME NEW p \in Pullers
      PROVE  /\ pulls[p] \in PullStates /\ PullOK(pulls[p]) /\ Layered(pulls[p])
             /\ NoNewClaim(p)
  <2>1. pulls[p] \in PullStates /\ PullOK(pulls[p]) /\ Layered(pulls[p])
    BY PullParts DEF ImageInv, Clients
  <2>2. Quiet(p)
    BY <1>1, <2>1, StillQuiet
  <2> QED BY <2>1, <2>2 DEF Quiet
<1>5. ASSUME NEW p \in Pullers PROVE Layered(pulls[p])'
  <2>1. ASSUME NEW i \in Nat, Claims(pulls[p], i),
               Snapped(snapshots, removed, Blob(pulls[p], i), Phase(pulls[p], i),
                       Chain(pulls[p], i))
        PROVE  Snapped(snapshots', removed', Blob(pulls[p], i), Phase(pulls[p], i),
                       Chain(pulls[p], i))
    <3>1. CASE Blob(pulls[p], i) = l
      BY <1>1, <1>2, <1>3, <2>1, <3>1 DEF Snapped
    <3>2. CASE Blob(pulls[p], i) # l
      <4>1. Blob(pulls[p], i) \in Layers
        BY <1>4, <2>1, ToldBlobs
      <4>2. snapshots'[Blob(pulls[p], i)] = snapshots[Blob(pulls[p], i)]
        BY <1>3, <3>2, <4>1
      <4> QED BY <1>1, <2>1, <4>2 DEF Snapped
    <3> QED BY <3>1, <3>2
  <2>2. Kept
    BY <1>1 DEF Kept
  <2>3. pulls'[p] = pulls[p]
    BY <1>1
  <2> QED BY <1>4, <2>1, <2>2, <2>3, LayeredStep
<1>6. Clients'
  <2>1. BlobsTold' /\ ClaimedOnce'
    BY <1>1 DEF ImageInv, Clients, BlobsTold, ClaimedOnce
  <2>2. ActiveOwned'
    BY <1>1, <1>2, <1>3 DEF ImageInv, Clients, ActiveOwned
  <2>3. Recorded'
    BY <1>1 DEF ImageInv, Clients, Recorded, RecordsStay
  <2>4. \A p \in Pullers : PullOK(pulls[p])'
    BY <1>1, <1>4
  <2> QED BY <1>5, <2>1, <2>2, <2>3, <2>4 DEF Clients
<1>7. TypeOK'
  BY <1>1, <1>3 DEF ImageInv, TypeOK, RecordsStay
<1>8. JobsOK'
  BY <1>1 DEF ImageInv, JobsOK
<1>9. UploadsOK'
  BY <1>1, <1>2, <1>3 DEF ImageInv, UploadsOK
<1> QED BY <1>6, <1>7, <1>8, <1>9 DEF ImageInv

-----------------------------------------------------------------------------
LEMMA ImageInit == Init => ImageInv
<1> SUFFICES ASSUME Init PROVE ImageInv
  OBVIOUS
<1>1. ASSUME NEW p \in Pullers
      PROVE  /\ pulls[p] \in PullStates /\ pulls[p].step = "idle" /\ pulls[p].kind = None
  BY DEF Init, NotPulling, PullStates
<1>2. ASSUME NEW p \in Pullers
      PROVE  PullOK(pulls[p]) /\ \A i : ~Told(pulls[p], i) /\ ~Claims(pulls[p], i)
  BY <1>1 DEF PullOK, Running, Told, Claims
<1>3. ASSUME NEW n \in Names PROVE images[n] \in ImageRecords /\ images[n].target = None
  BY DEF Init, NoImage, ImageRecords
<1>4. ASSUME NEW r \in Refs PROVE uploads[r] \in UploadStates /\ ~uploads[r].committed
  BY DEF Init, NoUpload, UploadStates
<1>5. ASSUME NEW l \in Layers
      PROVE  /\ snapshots[l] \in SnapshotStates
             /\ snapshots[l].kind = "absent" /\ snapshots[l].parent = None
  BY DEF Init, NoSnapshot, SnapshotStates
<1>6. ASSUME NEW u \in Updaters PROVE updates[u] \in UpdateStates
  BY DEF Init, NoUpdate, UpdateStates
<1>7. TypeOK
  <2>1. /\ images \in [Names -> ImageRecords] /\ uploads \in [Refs -> UploadStates]
        /\ snapshots \in [Layers -> SnapshotStates]
    BY <1>3, <1>4, <1>5 DEF Init
  <2>2. pulls \in [Pullers -> PullStates] /\ updates \in [Updaters -> UpdateStates]
    BY <1>1, <1>6 DEF Init
  <2> QED BY <2>1, <2>2 DEF Init, TypeOK
<1>8. Clients
  <2>1. \A p \in Pullers : PullOK(pulls[p]) /\ Layered(pulls[p])
    BY <1>2 DEF Layered
  <2>2. BlobsTold /\ ClaimedOnce
    BY <1>2 DEF BlobsTold, ClaimedOnce
  <2>3. ActiveOwned /\ Recorded
    BY <1>3, <1>5 DEF ActiveOwned, Recorded
  <2> QED BY <2>1, <2>2, <2>3 DEF Clients
<1>9. JobsOK /\ UploadsOK
  BY <1>4, <1>5 DEF Init, JobsOK, UploadsOK
<1> QED BY <1>7, <1>8, <1>9 DEF ImageInv

LEMMA ImageNext == ImageInv /\ [Next]_vars => ImageInv'
<1> SUFFICES ASSUME ImageInv, [Next]_vars PROVE ImageInv'
  OBVIOUS
<1>1. ASSUME NEW p \in Pullers, PullStep(p) PROVE ImageInv'
  <2>1. ASSUME NEW kind \in Kinds, NEW n \in Names, NEW m \in Manifests,
               FetchManifest(p, kind, n, m)
        PROVE  ImageInv'
    BY <2>1, FetchManifestInv
  <2>2. CASE FetchManifestFails(p)
    BY <2>2, FetchManifestFailsInv
  <2>3. ASSUME NEW data \in Downloads, FetchBlob(p, data) PROVE ImageInv'
    BY <2>3, FetchBlobInv
  <2>4. CASE SendBlob(p)
    BY <2>4, SendBlobInv
  <2>5. CASE FetchBlobFails(p)
    BY <2>5, FetchBlobFailsInv
  <2>6. CASE Interrupted(p)
    BY <2>6, InterruptedInv
  <2>7. CASE Prepare(p)
    BY <2>7, PrepareInv
  <2>8. CASE PrepareFails(p)
    BY <2>8, PrepareFailsInv
  <2>9. CASE Commit(p)
    BY <2>9, CommitInv
  <2>10. CASE PutRecord(p)
    BY <2>10, PutRecordInv
  <2>11. CASE CreateRecord(p)
    BY <2>11, CreateRecordInv
  <2> QED
    BY <1>1, <2>1, <2>2, <2>3, <2>4, <2>5, <2>6, <2>7, <2>8, <2>9, <2>10, <2>11 DEF PullStep
<1>2. ASSUME NEW j \in jobs, JobStep(j) PROVE ImageInv'
  <2>1. CASE BeginUpload(j)
    BY <2>1, BeginUploadInv
  <2>2. CASE WriteUpload(j)
    BY <2>2, WriteUploadInv
  <2>3. CASE CommitMismatch(j)
    BY <2>3, CommitMismatchInv
  <2>4. CASE CommitFails(j)
    BY <2>4, CommitFailsInv
  <2>5. CASE CommitUpload(j)
    BY <2>5, CommitUploadInv
  <2>6. CASE Cancelled(j)
    BY <2>6, CancelledInv
  <2> QED BY <1>2, <2>1, <2>2, <2>3, <2>4, <2>5, <2>6 DEF JobStep
<1>3. ASSUME NEW n \in Names, Delete(n) PROVE ImageInv'
  BY <1>3, DeleteInv
<1>4. ASSUME NEW u \in Updaters, UpdateLabels(u) PROVE ImageInv'
  BY <1>4, UpdateLabelsInv
<1>5. ASSUME NEW u \in Updaters, NEW n \in Names, UpdateGet(u, n) PROVE ImageInv'
  BY <1>5, UpdateGetInv
<1>6. ASSUME NEW l \in Layers, RemoveLayer(l) PROVE ImageInv'
  BY <1>6, RemoveLayerInv
<1>7. CASE UNCHANGED vars
  <2>1. /\ StoresStay /\ pulls' = pulls /\ jobs' = jobs /\ SameTargets
        /\ images' \in [Names -> ImageRecords] /\ updates' \in [Updaters -> UpdateStates]
    BY <1>7 DEF vars, StoresStay, SameTargets, ImageInv, TypeOK
  <2> QED BY <2>1, OthersInv
<1> QED BY <1>1, <1>2, <1>3, <1>4, <1>5, <1>6, <1>7 DEF Next

(* The invariant of all pulls, from which the rest follows.                *)
THEOREM ImagesInvariant == Spec => []ImageInv
BY ImageInit, ImageNext, PTL DEF Spec

(* Every variable has its type, in every state, for any images.            *)
THEOREM ImagesTypes == Spec => []TypeOK
<1>1. ImageInv => TypeOK
  BY DEF ImageInv
<1> QED BY <1>1, ImagesInvariant, PTL

(* A file goes on after its blob only if longer bytes were written to one  *)
(* of the uploads of the digest.                                           *)
LongOnce(ups, d) == \E class \in {"upload", "pull"} : ups[<<class, d>>].long

SpoiledInv == \A d \in spoiled : LongOnce(uploads, d)

LEMMA LongStays ==
    ASSUME TypeOK, NEW r \in Refs, NEW v,
           \/ uploads' = uploads
           \/ uploads' = [uploads EXCEPT ![r] = v] /\ (uploads[r].long => v.long),
           NEW d \in Digests, LongOnce(uploads, d)
    PROVE  LongOnce(uploads', d)
<1>1. PICK class \in {"upload", "pull"} : uploads[<<class, d>>].long
  BY DEF LongOnce
<1>2. <<class, d>> \in Refs
  BY DEF Refs
<1>3. uploads'[<<class, d>>].long
  BY <1>1, <1>2 DEF TypeOK
<1> QED BY <1>3 DEF LongOnce

LEMMA OneSpoiled ==
    ASSUME ImageInv, SpoiledInv, NEW j \in jobs, NEW v,
           uploads' = [uploads EXCEPT ![Ref(j)] = v], uploads[Ref(j)].long => v.long,
           \A d \in spoiled' : d \in spoiled \/ (d = j.blob /\ v.long)
    PROVE  SpoiledInv'
<1>1. Ref(j) \in Refs /\ j.blob \in Digests /\ TypeOK
  BY JobParts DEF ImageInv
<1>2. \A d \in spoiled : d \in Digests /\ LongOnce(uploads, d)
  BY <1>1 DEF SpoiledInv, TypeOK
<1>3. \A d \in spoiled : LongOnce(uploads', d)
  BY <1>1, <1>2, LongStays
<1>4. v.long => LongOnce(uploads', j.blob)
  <2>1. uploads'[Ref(j)] = v
    BY <1>1 DEF TypeOK
  <2>2. \E class \in {"upload", "pull"} : Ref(j) = <<class, j.blob>>
    BY DEF Ref, RefClass
  <2> QED BY <2>1, <2>2 DEF LongOnce
<1> QED BY <1>3, <1>4 DEF SpoiledInv

LEMMA SpoiledStep ==
    ASSUME ImageInv, SpoiledInv, [Next]_vars PROVE SpoiledInv'
<1>1. ASSUME uploads' = uploads, spoiled' = spoiled PROVE SpoiledInv'
  BY <1>1 DEF SpoiledInv
<1>2. ASSUME NEW j \in jobs, JobStep(j) PROVE SpoiledInv'
  <2> DEFINE us == uploads[Ref(j)]
  <2>1. us \in UploadStates /\ uploads \in [Refs -> UploadStates] /\ Ref(j) \in Refs
    BY JobParts DEF ImageInv, TypeOK
  <2>2. CASE BeginUpload(j)
    <3> DEFINE v == [us EXCEPT !.file = "linked"]
    <3>1. spoiled' = spoiled /\ (uploads' = uploads \/ uploads' = [uploads EXCEPT ![Ref(j)] = v])
      BY <2>2 DEF BeginUpload, fileVars
    <3>2. uploads[Ref(j)].long => v.long
      BY <2>1 DEF UploadStates
    <3> HIDE DEF v
    <3> QED BY <1>1, <3>1, <3>2, OneSpoiled
  <2>3. CASE WriteUpload(j)
    <3> DEFINE v == [us EXCEPT !.data = j.data, !.long = @ \/ j.data = "long"]
    <3>1. spoiled' = spoiled /\ (uploads' = uploads \/ uploads' = [uploads EXCEPT ![Ref(j)] = v])
      BY <2>1, <2>3 DEF WriteUpload, fileVars
    <3>2. uploads[Ref(j)].long => v.long
      BY <2>1 DEF UploadStates
    <3> HIDE DEF v
    <3> QED BY <1>1, <3>1, <3>2, OneSpoiled
  <2>4. CASE CommitMismatch(j)
    <3> DEFINE v == [us EXCEPT !.file = IF @ = "closed" THEN @ ELSE "unlinked"]
    <3>1. spoiled' = spoiled /\ uploads' = [uploads EXCEPT ![Ref(j)] = v]
      BY <2>4 DEF CommitMismatch, fileVars
    <3>2. uploads[Ref(j)].long => v.long
      BY <2>1 DEF UploadStates
    <3> HIDE DEF v
    <3> QED BY <3>1, <3>2, OneSpoiled
  <2>5. CASE CommitFails(j)
    <3>1. PICK file : uploads' = [uploads EXCEPT ![Ref(j)].file = file]
      BY <2>5 DEF CommitFails
    <3> DEFINE v == [us EXCEPT !.file = file]
    <3>2. spoiled' = spoiled /\ uploads' = [uploads EXCEPT ![Ref(j)] = v]
      BY <2>5, <3>1 DEF CommitFails, fileVars
    <3>3. uploads[Ref(j)].long => v.long
      BY <2>1 DEF UploadStates
    <3> HIDE DEF v
    <3> QED BY <3>2, <3>3, OneSpoiled
  <2>6. CASE CommitUpload(j)
    <3> DEFINE v == [us EXCEPT !.file = "closed", !.committed = TRUE]
    <3>1. /\ uploads' = [uploads EXCEPT ![Ref(j)] = v]
          /\ spoiled' = IF us.long THEN spoiled \cup {j.blob} ELSE spoiled \ {j.blob}
      BY <2>1, <2>6 DEF CommitUpload
    <3>2. v.long = us.long
      BY <2>1 DEF UploadStates
    <3>3. \A d \in spoiled' : d \in spoiled \/ (d = j.blob /\ v.long)
      BY <3>1, <3>2
    <3>4. uploads[Ref(j)].long => v.long
      BY <3>2
    <3> HIDE DEF v
    <3> QED BY <3>1, <3>3, <3>4, OneSpoiled
  <2>7. CASE Cancelled(j)
    BY <1>1, <2>7 DEF Cancelled, contentVars, fileVars
  <2> QED BY <1>2, <2>2, <2>3, <2>4, <2>5, <2>6, <2>7 DEF JobStep
<1>3. ASSUME NEW p \in Pullers, PullStep(p) PROVE uploads' = uploads /\ spoiled' = spoiled
  BY <1>3 DEF PullStep, FetchManifest, FetchManifestFails, FetchBlob, SendBlob, FetchBlobFails,
     Interrupted, Prepare, PrepareFails, Commit, PutRecord, CreateRecord, contentVars, fileVars
<1>4. ASSUME \/ \E n \in Names : Delete(n)
             \/ \E u \in Updaters : UpdateLabels(u) \/ \E n \in Names : UpdateGet(u, n)
             \/ \E l \in Layers : RemoveLayer(l)
             \/ UNCHANGED vars
      PROVE  uploads' = uploads /\ spoiled' = spoiled
  BY <1>4 DEF Delete, UpdateLabels, UpdateGet, RemoveLayer, contentVars, fileVars, vars
<1> QED BY <1>1, <1>2, <1>3, <1>4 DEF Next

(* Pull of the daemon and of nerdctl: when it has reported success, each   *)
(* blob of its manifest is in the content store, whatever other pulls did  *)
(* with the same uploads, and its file is the blob unless longer bytes     *)
(* were once written to an upload of that digest.                          *)
THEOREM PullsAreStored == Spec => []PulledIsStored
<1>1. ImageInv /\ SpoiledInv => PulledIsStored
  <2> SUFFICES ASSUME ImageInv, SpoiledInv, NEW p \in Pullers,
                      pulls[p].step = "ok", pulls[p].kind # "docker",
                      NEW i \in 1 .. Len(List(p))
               PROVE  List(p)[i] \in blobs
    BY DEF PulledIsStored, SpoiledInv, LongOnce
  <2>1. PullOK(pulls[p]) /\ pulls[p] \in PullStates
    BY PullParts
  <2>2. Running(pulls[p])
    BY DEF Running
  <2>3. Size(pulls[p]) \in Nat /\ pulls[p].at = Size(pulls[p]) /\ Size(pulls[p]) = Len(List(p))
    BY <2>1, <2>2, ToldBlobs DEF PullOK, Size, List
  <2>4. i \in Nat /\ Told(pulls[p], i)
    BY <2>2, <2>3 DEF Told
  <2>5. Blob(pulls[p], i) \in blobs
    BY <2>4 DEF ImageInv, Clients, BlobsTold
  <2> QED BY <2>5 DEF Blob, List
<1>2. Init => SpoiledInv
  BY DEF Init, SpoiledInv
<1>3. ImageInv /\ SpoiledInv /\ [Next]_vars => SpoiledInv'
  BY SpoiledStep
<1> QED BY <1>1, <1>2, <1>3, ImagesInvariant, PTL DEF Spec

(* A snapshot is its kind and its parent.                                  *)
LEMMA SnapshotIs ==
    ASSUME NEW s \in SnapshotStates
    PROVE  s = [kind |-> s.kind, parent |-> s.parent]
BY DEF SnapshotStates

(* Pull of the daemon: the layers of an image it has recorded are unpacked *)
(* on one another in the order of the manifest, and what is missing was    *)
(* removed by a client, whichever pulls of images that share layers ran    *)
(* before, meanwhile or since.                                             *)
THEOREM ImagesAreChained == Spec => []LayersChained
<1>1. ImageInv => LayersChained
  <2> SUFFICES ASSUME ImageInv, NEW n \in Names, images[n].target # None
               PROVE  LET layers == LayersOf[images[n].target]
                      IN  \A i \in 1 .. Len(layers) :
                            \/ snapshots[layers[i]] =
                                  [kind |-> "committed",
                                   parent |-> IF i = 1 THEN None ELSE layers[i - 1]]
                            \/ snapshots[layers[i]] = NoSnapshot /\ layers[i] \in removed
    BY DEF LayersChained
  <2> DEFINE m == images[n].target
             layers == LayersOf[m]
  <2>1. PICK p \in Pullers : /\ pulls[p].step = "ok" /\ pulls[p].kind = "containerd"
                             /\ pulls[p].manifest = m
    BY DEF ImageInv, Clients, Recorded
  <2> DEFINE q == pulls[p]
  <2>2. q \in PullStates /\ PullOK(q) /\ Layered(q) /\ Running(q) /\ m \in Manifests
    BY <2>1, PullParts DEF ImageInv, Clients, Running, PullOK
  <2>3. /\ Size(q) = 1 + Len(layers) /\ Len(layers) \in Nat
        /\ \A i \in 2 .. Size(q) : Blob(q, i) = layers[i - 1]
    <3>1. layers \in Seq(Layers)
      BY <2>2, ManifestAssumption
    <3>2. Len(layers) \in Nat
      BY <3>1
    <3>3. BlobsOf(q.kind, q.manifest) = BlobsOf("containerd", m)
      BY <2>1
    <3>4. /\ Len(BlobsOf("containerd", m)) = 1 + Len(layers)
          /\ \A i \in 2 .. Len(BlobsOf("containerd", m)) :
                BlobsOf("containerd", m)[i] = layers[i - 1]
      BY <2>2, ManifestBlobs
    <3> HIDE DEF layers, m
    <3> QED BY <3>2, <3>3, <3>4 DEF Size, Blob
  <2>4. q.at = Size(q)
    BY <2>1, <2>2 DEF PullOK
  <2> HIDE DEF layers, m
  <2>5. ASSUME NEW i \in 1 .. Len(layers)
        PROVE  \/ snapshots[layers[i]] =
                     [kind |-> "committed", parent |-> IF i = 1 THEN None ELSE layers[i - 1]]
               \/ snapshots[layers[i]] = NoSnapshot /\ layers[i] \in removed
    <3> DEFINE l == layers[i]
               up == IF i = 1 THEN None ELSE layers[i - 1]
    <3>1. i + 1 \in Nat /\ i + 1 \in 2 .. Size(q) /\ (i + 1) - 1 = i
      BY <2>3
    <3>2. Claims(q, i + 1)
      BY <2>1, <2>2, <2>4, <3>1 DEF Claims, Told
    <3>3. Blob(q, i + 1) = l /\ l \in Layers
      BY <2>2, <2>3, <3>1, <3>2, ToldBlobs
    <3>4. Chain(q, i + 1) = up
      <4>1. CASE i = 1
        BY <4>1 DEF Chain
      <4>2. CASE i # 1
        <5>1. i \in 2 .. Size(q) /\ i + 1 # 2
          BY <2>3, <4>2
        <5>2. Blob(q, i) = layers[i - 1]
          BY <2>3, <5>1
        <5> QED BY <3>1, <4>2, <5>1, <5>2 DEF Chain
      <4> QED BY <4>1, <4>2
    <3>5. Phase(q, i + 1) = "committed"
      BY <2>1 DEF Phase
    <3>6. Snapped(snapshots, removed, l, "committed", up)
      BY <2>2, <3>1, <3>2, <3>3, <3>4, <3>5 DEF Layered
    <3> HIDE DEF l, up
    <3>7. \/ snapshots[l].kind = "committed" /\ snapshots[l].parent = up
          \/ snapshots[l].kind = "absent" /\ snapshots[l].parent = None /\ l \in removed
      BY <3>6 DEF Snapped
    <3>8. snapshots[l] = [kind |-> snapshots[l].kind, parent |-> snapshots[l].parent]
      BY <3>3, SnapshotIs DEF ImageInv, TypeOK
    <3>9. CASE snapshots[l].kind = "committed" /\ snapshots[l].parent = up
      BY <3>8, <3>9, Zenon DEF l, up
    <3>10. CASE snapshots[l].kind = "absent" /\ snapshots[l].parent = None /\ l \in removed
      BY <3>8, <3>10, Zenon DEF l, NoSnapshot
    <3> QED BY <3>7, <3>9, <3>10
  <2> QED BY <2>5 DEF layers, m
<1> QED BY <1>1, ImagesInvariant, PTL

(* Prepare and Commit in the daemon's Pull: no two pulls unpack one layer  *)
(* at a time, and a layer that is active has a pull that will commit it.   *)
THEOREM LayersUnpackedByOne == Spec => []UnpackedByOne
<1>1. ImageInv => UnpackedByOne
  <2> SUFFICES ASSUME ImageInv, NEW l \in Layers
               PROVE  /\ Cardinality({p \in Pullers :
                               pulls[p].step \in {"prepare", "commit"} /\ BlobAt(p) = l}) <= 1
                      /\ snapshots[l].kind = "active" =>
                            {p \in Pullers : pulls[p].step \in {"commit"} /\ BlobAt(p) = l} # {}
    BY DEF UnpackedByOne
  <2> DEFINE U == {p \in Pullers : pulls[p].step \in {"prepare", "commit"} /\ BlobAt(p) = l}
  <2>1. ASSUME NEW p \in U, NEW q \in U PROVE p = q
    <3>1. /\ Claims(pulls[p], pulls[p].at) /\ pulls[p].at \in Nat
          /\ Blob(pulls[p], pulls[p].at) = l
      BY UnpackParts
    <3>2. /\ Claims(pulls[q], pulls[q].at) /\ pulls[q].at \in Nat
          /\ Blob(pulls[q], pulls[q].at) = l
      BY UnpackParts
    <3> QED BY <3>1, <3>2 DEF ImageInv, Clients, ClaimedOnce
  <2>2. Cardinality(U) <= 1
    <3> HIDE DEF U
    <3>1. CASE U = {}
      BY <3>1, FS_EmptySet
    <3>2. CASE U # {}
      <4>1. PICK p \in U : TRUE
        BY <3>2
      <4>2. U = {p}
        BY <2>1, <4>1
      <4>3. Cardinality({p}) = 1
        BY FS_Singleton
      <4> QED BY <4>2, <4>3
    <3> QED BY <3>1, <3>2
  <2>3. ASSUME snapshots[l].kind = "active"
        PROVE  {p \in Pullers : pulls[p].step \in {"commit"} /\ BlobAt(p) = l} # {}
    <3>1. PICK p \in Pullers : pulls[p].step = "commit" /\ Blob(pulls[p], pulls[p].at) = l
      BY <2>3 DEF ImageInv, Clients, ActiveOwned
    <3>2. BlobAt(p) = l
      BY <3>1, UnpackParts
    <3> QED BY <3>1, <3>2
  <2> QED BY <2>2, <2>3
<1> QED BY <1>1, ImagesInvariant, PTL
=============================================================================
