----------------------------- MODULE ImageStore -----------------------------
(***************************************************************************)
(* The image store of mini-containerd (internal/image) and the three pulls *)
(* of this repository that meet in one daemon:                             *)
(*                                                                         *)
(*   containerd  Store.Pull: stores config and layers, unpacks each layer  *)
(*               into a snapshot on top of the one before, writes the      *)
(*               record (no handler of the daemon calls it yet);           *)
(*   nerdctl     image.Pull: stores the blobs over the content service,    *)
(*               waits for every answer, creates a record;                 *)
(*   docker      registry.Pull: sends the blobs without waiting for an     *)
(*               answer and creates a record.                              *)
(*                                                                         *)
(* A job is one upload in the content store, step by step; its messages    *)
(* and file positions are the subject of ContentStore and PullClients.     *)
(* Here a download is the blob, or wrong and as long, shorter or longer,   *)
(* and it is one WRITE at offset 0 (one without bytes is in PullClients).  *)
(* A snapshot is what Prepare, Commit and Remove of Snapshotter look at.   *)
(***************************************************************************)
EXTENDS Naturals, Sequences, FiniteSets

CONSTANTS
    Names,       \* image references
    Layers,      \* digests of layers
    Configs,     \* digests of image configurations
    Manifests,   \* digests of manifests
    Index,       \* the manifests that are an image index
    ConfigOf,    \* the config of a manifest
    LayersOf,    \* the layers of a manifest, lowest first
    Served,      \* the manifests a registry may serve for a name
    Guarded,     \* the names whose registry asks for a bearer token
    Pullers,     \* requests that pull, each used once
    Asked,       \* the pulls that may be asked for: <<kind, name>>
    Updaters,    \* requests that update a record
    None

Kinds == {"containerd", "nerdctl", "docker"}
Digests == Layers \cup Configs \cup Manifests

ASSUME ManifestAssumption ==
    /\ Index \subseteq Manifests
    /\ ConfigOf \in [Manifests -> Configs]
    /\ LayersOf \in [Manifests -> Seq(Layers)]
    /\ Served \in [Names -> SUBSET Manifests]
    /\ Guarded \subseteq Names
    /\ Layers \cap (Configs \cup Manifests) = {}
    /\ Configs \cap Manifests = {}
ASSUME AskedAssumption == Asked \subseteq Kinds \X Names
ASSUME NoneAssumption ==
    None \notin Digests \cup Names \cup Kinds

VARIABLES
    images,      \* Store.images
    uploads,     \* the content store's uploads, by ref
    blobs,       \* the digests in the content store's map
    spoiled,     \* those whose file goes on after the blob
    snapshots,   \* the snapshotter's map, for the keys that Pull makes
    pulls,       \* per request: where its Pull is
    jobs,        \* the uploads in progress
    updates,     \* per request: the record its Update has looked up
    removed      \* history: the layers that clients have removed

vars == <<images, uploads, blobs, spoiled, snapshots, pulls, jobs, updates, removed>>

-----------------------------------------------------------------------------
(* The state.                                                              *)

NoImage == [exists |-> FALSE, target |-> None, labels |-> {}]
Labels == {"unpacked", "client"}

Downloads == {"good", "same", "short", "long"}

SizeOf(data) == CASE data = "short" -> 1 [] data = "long" -> 3 [] OTHER -> 2

(* An upload: its temporary file, what the last WRITE put there, whether   *)
(* one was longer than the blob (no WRITE truncates the file), and whether *)
(* it was committed.  The ref is made of the digest: "upload-" in          *)
(* storeContent, "pull-" in both clients.                                  *)
NoUpload == [file |-> "none", data |-> "none", long |-> FALSE, committed |-> FALSE]
RefClass(p) == IF pulls[p].kind = "containerd" THEN "upload" ELSE "pull"
Refs == {"upload", "pull"} \X Digests
Ref(j) == <<RefClass(j.puller), j.blob>>

NoSnapshot == [kind |-> "absent", parent |-> None]

NotPulling == [step |-> "idle", kind |-> None, name |-> None, manifest |-> None, at |-> 0]
NoUpdate == [name |-> None, current |-> FALSE]

Job == [puller : Pullers, nr : Nat, blob : Digests, data : Downloads,
        step : {"begin", "write", "commit"}]

Init ==
    /\ images = [n \in Names |-> NoImage]
    /\ uploads = [r \in Refs |-> NoUpload]
    /\ blobs = {}
    /\ spoiled = {}
    /\ snapshots = [l \in Layers |-> NoSnapshot]
    /\ pulls = [p \in Pullers |-> NotPulling]
    /\ jobs = {}
    /\ updates = [u \in Updaters |-> NoUpdate]
    /\ removed = {}

fileVars == <<blobs, spoiled>>
contentVars == <<uploads, fileVars>>
recordVars == <<images, updates>>

-----------------------------------------------------------------------------
(* Pull: the manifest.                                                     *)

Over(p) == pulls[p].step \in {"ok", "failed"}

(* A challenge names the realm first, right after "Bearer ".  The clients  *)
(* strip that word; the daemon looks for a part that starts with "realm=". *)
RealmFound(kind) == kind # "containerd"

Authorised(kind, n) == n \in Guarded => RealmFound(kind)

(* No pull resolves an index: the daemon says so, the clients find neither *)
(* config nor layers in it.                                                *)
Parses(m) == m \notin Index

(* What a pull stores, in order.  The docker pull stores the manifest too. *)
BlobsOf(kind, m) ==
    <<ConfigOf[m]>> \o LayersOf[m] \o (IF kind = "docker" THEN <<m>> ELSE << >>)

Goes(p, step) == pulls' = [pulls EXCEPT ![p].step = step]

FetchManifest(p, kind, n, m) ==
    /\ pulls[p] = NotPulling
    /\ <<kind, n>> \in Asked
    /\ m \in Served[n]
    /\ Authorised(kind, n)
    /\ Parses(m)
    /\ pulls' = [pulls EXCEPT ![p] =
                    [step |-> "fetch", kind |-> kind, name |-> n, manifest |-> m, at |-> 1]]
    /\ UNCHANGED <<contentVars, recordVars, snapshots, jobs, removed>>

FetchManifestFails(p) ==
    /\ pulls[p] = NotPulling
    /\ pulls' = [pulls EXCEPT ![p] = [NotPulling EXCEPT !.step = "failed"]]
    /\ UNCHANGED <<contentVars, recordVars, snapshots, jobs, removed>>

-----------------------------------------------------------------------------
(* Pull: a blob is downloaded and handed to the content store.             *)

List(p) == BlobsOf(pulls[p].kind, pulls[p].manifest)
BlobAt(p) == List(p)[pulls[p].at]

(* The pull after the blob it is at: the next one, or the record.          *)
Onward(pull) ==
    IF pull.at < Len(BlobsOf(pull.kind, pull.manifest))
    THEN [pull EXCEPT !.step = "fetch", !.at = @ + 1]
    ELSE [pull EXCEPT !.step = "register"]

NewJob(p, data) ==
    [puller |-> p, nr |-> pulls[p].at, blob |-> BlobAt(p), data |-> data, step |-> "begin"]

(* The daemon and nerdctl leave it to COMMIT to look at what they got.     *)
FetchBlob(p, data) ==
    /\ pulls[p].step = "fetch"
    /\ pulls[p].kind # "docker"
    /\ jobs' = jobs \cup {NewJob(p, data)}
    /\ Goes(p, "store")
    /\ UNCHANGED <<contentVars, recordVars, snapshots, removed>>

(* The docker pull compares a blob with its digest, sends all messages of  *)
(* its upload and goes on at once.  The manifest is sent as it came.       *)
SendBlob(p) ==
    /\ pulls[p].step = "fetch"
    /\ pulls[p].kind = "docker"
    /\ jobs' = jobs \cup {NewJob(p, "good")}
    /\ pulls' = [pulls EXCEPT ![p] = Onward(@)]
    /\ UNCHANGED <<contentVars, recordVars, snapshots, removed>>

(* The download fails, or the docker pull finds another digest.            *)
FetchBlobFails(p) ==
    /\ pulls[p].step = "fetch"
    /\ BlobAt(p) \notin Manifests
    /\ Goes(p, "failed")
    /\ UNCHANGED <<contentVars, recordVars, snapshots, jobs, removed>>

(* A client is interrupted: nerdctl is killed, or the HTTP request that    *)
(* runs the docker pull goes away.                                         *)
Interrupted(p) ==
    /\ pulls[p].kind \in {"nerdctl", "docker"}
    /\ ~Over(p)
    /\ Goes(p, "failed")
    /\ UNCHANGED <<contentVars, recordVars, snapshots, jobs, removed>>

-----------------------------------------------------------------------------
(* The upload of a job in the content store.                               *)

(* Whether the pull waits for the job: the docker pull never does, nor     *)
(* does a client that was interrupted.                                     *)
Awaited(j) == pulls[j.puller].step = "store"

(* After storeContent the daemon unpacks a layer.                          *)
Stored(pull) ==
    IF pull.kind = "containerd" /\ pull.at > 1
    THEN [pull EXCEPT !.step = "prepare"]
    ELSE Onward(pull)

(* Mutant: the error of storeContent is not looked at.                     *)
JobFailsMutant(j) ==
    /\ jobs' = jobs \ {j}
    /\ pulls' = IF Awaited(j) THEN [pulls EXCEPT ![j.puller] = Stored(@)] ELSE pulls

JobFails(j) ==
    /\ jobs' = jobs \ {j}
    /\ pulls' = IF Awaited(j) THEN [pulls EXCEPT ![j.puller].step = "failed"] ELSE pulls

JobGoes(j, step) ==
    /\ jobs' = (jobs \ {j}) \cup {[j EXCEPT !.step = step]}
    /\ UNCHANGED pulls

JobDone(j) ==
    /\ jobs' = jobs \ {j}
    /\ pulls' = IF Awaited(j)
                THEN [pulls EXCEPT ![j.puller] = Stored(@)]
                ELSE pulls

BeginUpload(j) ==
    /\ j.step = "begin"
    /\ IF uploads[Ref(j)].committed
       THEN JobFails(j) /\ UNCHANGED uploads
       ELSE /\ JobGoes(j, "write")
            /\ uploads' = IF uploads[Ref(j)].file = "none"
                          THEN [uploads EXCEPT ![Ref(j)].file = "linked"]
                          ELSE uploads
    /\ UNCHANGED <<fileVars, recordVars, snapshots, removed>>

(* Seeking in a closed file fails.  Any other WRITE at 0 seeks back and    *)
(* resets the hasher; what lies behind its last byte stays in the file.    *)
WriteUpload(j) ==
    /\ j.step = "write"
    /\ IF uploads[Ref(j)].file = "closed"
       THEN JobFails(j) /\ UNCHANGED uploads
       ELSE /\ JobGoes(j, "commit")
            /\ uploads' = [uploads EXCEPT ![Ref(j)].data = j.data,
                                          ![Ref(j)].long = @ \/ j.data = "long"]
    /\ UNCHANGED <<fileVars, recordVars, snapshots, removed>>

(* The checks of CommitUpload: Offset, which the last WRITE left, is the   *)
(* length of what this job downloaded, and the hasher has the digest.      *)
Verified(j) ==
    /\ SizeOf(uploads[Ref(j)].data) = SizeOf(j.data)
    /\ uploads[Ref(j)].data = "good"

(* A wrong digest or size: the file is unlinked and the upload stays.      *)
CommitMismatch(j) ==
    /\ j.step = "commit"
    /\ ~Verified(j)
    /\ uploads' = [uploads EXCEPT ![Ref(j)].file = IF @ = "closed" THEN @ ELSE "unlinked"]
    /\ JobFails(j)
    /\ UNCHANGED <<fileVars, recordVars, snapshots, removed>>

(* Mutant: the error of Close is not looked at.                            *)
CommitFailsMutant(j) ==
    /\ j.step = "commit"
    /\ Verified(j)
    /\ uploads[Ref(j)].file # "linked"
    /\ JobDone(j)
    /\ UNCHANGED <<contentVars, recordVars, snapshots, removed>>

(* The checks pass and the file cannot be moved: MkdirAll fails before it  *)
(* is closed, or it is closed already, or closed and then not renamed,     *)
(* which is sure once it has been unlinked.                                *)
CommitFails(j) ==
    /\ j.step = "commit"
    /\ Verified(j)
    /\ \E file \in {uploads[Ref(j)].file, "closed"} :
            uploads' = [uploads EXCEPT ![Ref(j)].file = file]
    /\ JobFails(j)
    /\ UNCHANGED <<fileVars, recordVars, snapshots, removed>>

(* The file is renamed over one that is there.                             *)
CommitUpload(j) ==
    /\ j.step = "commit"
    /\ Verified(j)
    /\ uploads[Ref(j)].file = "linked"
    /\ uploads' = [uploads EXCEPT ![Ref(j)].file = "closed", ![Ref(j)].committed = TRUE]
    /\ blobs' = blobs \cup {j.blob}
    /\ spoiled' = IF uploads[Ref(j)].long THEN spoiled \cup {j.blob} ELSE spoiled \ {j.blob}
    /\ JobDone(j)
    /\ UNCHANGED <<recordVars, snapshots, removed>>

(* The stream of a client that is gone is cancelled; net/http cancels the  *)
(* context of a request also when its handler returns.                     *)
Cancelled(j) ==
    /\ pulls[j.puller].kind # "containerd"
    /\ Over(j.puller)
    /\ jobs' = jobs \ {j}
    /\ UNCHANGED <<contentVars, recordVars, snapshots, pulls, removed>>

-----------------------------------------------------------------------------
(* Pull in the daemon: a stored layer is unpacked on the one before it.    *)

(* Mutant: chainID is not assigned after a layer.                          *)
chainIDMutant(p) == None

chainID(p) == IF pulls[p].at = 2 THEN None ELSE List(p)[pulls[p].at - 1]

CanPrepare(key, parent) ==
    /\ parent # None => snapshots[parent].kind = "committed"
    /\ snapshots[key].kind = "absent"

Prepare(p) ==
    /\ pulls[p].step = "prepare"
    /\ CanPrepare(BlobAt(p), chainID(p))
    /\ snapshots' = [snapshots EXCEPT ![BlobAt(p)] =
                        [kind |-> "active", parent |-> chainID(p)]]
    /\ Goes(p, "commit")
    /\ UNCHANGED <<contentVars, recordVars, jobs, removed>>

(* The snapshot exists, its parent is gone, or MkdirAll fails.             *)
PrepareFails(p) ==
    /\ pulls[p].step = "prepare"
    /\ Goes(p, "failed")
    /\ UNCHANGED <<contentVars, recordVars, snapshots, jobs, removed>>

Commit(p) ==
    /\ pulls[p].step = "commit"
    /\ IF snapshots[BlobAt(p)].kind = "active"
       THEN /\ snapshots' = [snapshots EXCEPT ![BlobAt(p)].kind = "committed"]
            /\ pulls' = [pulls EXCEPT ![p] = Onward(@)]
       ELSE Goes(p, "failed") /\ UNCHANGED snapshots
    /\ UNCHANGED <<contentVars, recordVars, jobs, removed>>

-----------------------------------------------------------------------------
(* The records.                                                            *)

(* A record that is replaced or deleted is no longer the one that a        *)
(* running Update holds a pointer to.                                      *)
Outdated(n) ==
    updates' = [u \in Updaters |->
                    IF updates[u].name = n THEN [updates[u] EXCEPT !.current = FALSE]
                                           ELSE updates[u]]

(* Mutant: the record has the reference where its digest should be.        *)
PutRecordMutant(p) ==
    /\ pulls[p].step = "register"
    /\ pulls[p].kind = "containerd"
    /\ images' = [images EXCEPT ![pulls[p].name] =
                    [exists |-> TRUE, target |-> pulls[p].name, labels |-> {"unpacked"}]]
    /\ Outdated(pulls[p].name)
    /\ Goes(p, "ok")
    /\ UNCHANGED <<contentVars, snapshots, jobs, removed>>

(* The daemon's Pull overwrites the record of that name.                   *)
PutRecord(p) ==
    /\ pulls[p].step = "register"
    /\ pulls[p].kind = "containerd"
    /\ images' = [images EXCEPT ![pulls[p].name] =
                    [exists |-> TRUE, target |-> pulls[p].manifest, labels |-> {"unpacked"}]]
    /\ Outdated(pulls[p].name)
    /\ Goes(p, "ok")
    /\ UNCHANGED <<contentVars, snapshots, jobs, removed>>

(* Create keeps the name and the labels of the request and drops its       *)
(* target.  The clients go on when the name is taken.                      *)
Create(n, labels) ==
    images' = [images EXCEPT ![n] =
                IF @.exists THEN @ ELSE [exists |-> TRUE, target |-> None, labels |-> labels]]

CreateRecord(p) ==
    /\ pulls[p].step = "register"
    /\ pulls[p].kind # "containerd"
    /\ Create(pulls[p].name, {})
    /\ Goes(p, "ok")
    /\ UNCHANGED <<contentVars, updates, snapshots, jobs, removed>>

Delete(n) ==
    /\ images[n].exists
    /\ images' = [images EXCEPT ![n] = NoImage]
    /\ Outdated(n)
    /\ UNCHANGED <<contentVars, snapshots, pulls, jobs, removed>>

(* Update of the service gets the record under the lock, and adds labels   *)
(* to what it got without the lock.                                        *)
UpdateGet(u, n) ==
    /\ updates[u] = NoUpdate
    /\ images[n].exists
    /\ updates' = [updates EXCEPT ![u] = [name |-> n, current |-> TRUE]]
    /\ UNCHANGED <<contentVars, images, snapshots, pulls, jobs, removed>>

UpdateLabels(u) ==
    /\ updates[u] # NoUpdate
    /\ images' = IF updates[u].current
                 THEN [images EXCEPT ![updates[u].name].labels = @ \cup {"client"}]
                 ELSE images
    /\ updates' = [updates EXCEPT ![u] = NoUpdate]
    /\ UNCHANGED <<contentVars, snapshots, pulls, jobs, removed>>

-----------------------------------------------------------------------------
(* Another client of the snapshotter.                                      *)

HasChild(key) == \E l \in Layers : snapshots[l].parent = key

RemoveLayer(l) ==
    /\ snapshots[l].kind # "absent"
    /\ ~HasChild(l)
    /\ snapshots' = [snapshots EXCEPT ![l] = NoSnapshot]
    /\ removed' = removed \cup {l}
    /\ UNCHANGED <<contentVars, recordVars, pulls, jobs>>

JobStep(j) ==
    \/ BeginUpload(j)
    \/ WriteUpload(j)
    \/ CommitMismatch(j)
    \/ CommitFails(j)
    \/ CommitUpload(j)
    \/ Cancelled(j)

PullStep(p) ==
    \/ \E kind \in Kinds, n \in Names, m \in Manifests : FetchManifest(p, kind, n, m)
    \/ FetchManifestFails(p)
    \/ \E data \in Downloads : FetchBlob(p, data)
    \/ SendBlob(p)
    \/ FetchBlobFails(p)
    \/ Interrupted(p)
    \/ Prepare(p)
    \/ PrepareFails(p)
    \/ Commit(p)
    \/ PutRecord(p)
    \/ CreateRecord(p)

Next ==
    \/ \E p \in Pullers : PullStep(p)
    \/ \E j \in jobs : JobStep(j)
    \/ \E n \in Names : Delete(n)
    \/ \E u \in Updaters : UpdateLabels(u) \/ \E n \in Names : UpdateGet(u, n)
    \/ \E l \in Layers : RemoveLayer(l)

Spec == Init /\ [][Next]_vars

-----------------------------------------------------------------------------
ImageRecords ==
    [exists : BOOLEAN, target : Manifests \cup {None}, labels : SUBSET Labels]

UploadStates ==
    [file : {"none", "linked", "unlinked", "closed"},
     data : Downloads \cup {"none"}, long : BOOLEAN, committed : BOOLEAN]

SnapshotStates ==
    [kind : {"absent", "active", "committed"}, parent : Layers \cup {None}]

PullStates ==
    [step : {"idle", "fetch", "store", "prepare", "commit", "register", "ok", "failed"},
     kind : Kinds \cup {None}, name : Names \cup {None},
     manifest : Manifests \cup {None}, at : Nat]

UpdateStates == [name : Names \cup {None}, current : BOOLEAN]

(* Every variable has its type.                                            *)
TypeOK ==
    /\ images \in [Names -> ImageRecords]
    /\ uploads \in [Refs -> UploadStates]
    /\ blobs \subseteq Digests
    /\ spoiled \subseteq Digests
    /\ snapshots \in [Layers -> SnapshotStates]
    /\ pulls \in [Pullers -> PullStates]
    /\ jobs \subseteq Job
    /\ updates \in [Updaters -> UpdateStates]
    /\ removed \subseteq Layers

(* A pull of the daemon or of nerdctl that reported success stored each of *)
(* its blobs, whatever other pulls wrote to the same uploads meanwhile and *)
(* whichever of them committed; and the file is the blob itself unless     *)
(* longer bytes were once written to an upload of that digest.             *)
PulledIsStored ==
    \A p \in Pullers :
        pulls[p].step = "ok" /\ pulls[p].kind # "docker"
            => \A i \in 1 .. Len(List(p)) :
                  /\ List(p)[i] \in blobs
                  /\ List(p)[i] \in spoiled =>
                        \E class \in {"upload", "pull"} : uploads[<<class, List(p)[i]>>].long

(* An image recorded by the daemon's Pull has its layers unpacked on one   *)
(* another in the order of its manifest; what is missing was removed.  No  *)
(* later pull can put one of its layers on another chain.                  *)
LayersChained ==
    \A n \in Names :
        images[n].target # None =>
            LET layers == LayersOf[images[n].target]
            IN  \A i \in 1 .. Len(layers) :
                    \/ snapshots[layers[i]] =
                          [kind |-> "committed",
                           parent |-> IF i = 1 THEN None ELSE layers[i - 1]]
                    \/ snapshots[layers[i]] = NoSnapshot
                          /\ layers[i] \in removed

(* However pulls of images that share layers race, one layer is unpacked   *)
(* by one pull at a time, and a layer that is still active has a pull that *)
(* will commit it: a pull that fails leaves no half unpacked layer.        *)
UnpackedByOne ==
    \A l \in Layers :
        LET unpacking(step) ==
                {p \in Pullers : pulls[p].step \in step /\ BlobAt(p) = l}
        IN  /\ Cardinality(unpacking({"prepare", "commit"})) <= 1
            /\ snapshots[l].kind = "active" => unpacking({"commit"}) # {}

(* What mini-docker's Pull says it does, once its uploads have ended: it   *)
(* "stores blobs via the content store" and then returns no error.         *)
DockerPullStores ==
    \A p \in Pullers :
        /\ pulls[p].kind = "docker"
        /\ pulls[p].step = "ok"
        /\ \A j \in jobs : j.puller # p
        => \A i \in 1 .. Len(List(p)) : List(p)[i] \in blobs
=============================================================================
