# Verification of mini-container-ecosystem

TLA+ models of the parts of this repository that keep state, TLC runs that check
them on small instances, and TLAPS proofs of their main safety properties.
`PROJECT.json` lists components, runs, mutants, findings, hazards, theorems and
the source lines each definition stands for.

## Inventory

### mini-containerd (one daemon, gRPC, one goroutine per request)

| component | state | operations | what is hard | what makes it correct |
|---|---|---|---|---|
| snapshotter `internal/snapshot` | map key → info in memory; one directory per key on disk; one RWMutex | Prepare, View, Commit (renames), Remove, Mounts, Update | map and disk change in two steps, either can fail; restart loses the map; mounts outlive the call that made them | a tree of committed layers, each with its directory; mounts stay right while they are held |
| task manager `internal/task` | map id → task, per task status, pid, exit code, channel; one lock for the map, one per task; a monitor goroutine per process | Create, Start, Pause, Resume, Kill, Wait, Delete | processes end at any time; requests look a task up, release the lock and act later; pids are reused | status follows the lifecycle; STOPPED means dead; a waiter gets the exit code, after the exit |
| content store `internal/content` | map of blobs, map of uploads with temporary file, hasher and offset; blob files; one RWMutex | Write stream (STAT, WRITE, COMMIT), Delete, scan at start | streams share uploads by ref; retries at any offset; short writes; restart | a file named by a digest has that digest; map and directory agree |
| image store `internal/image` | map of images | Create, Get, List, Delete, Pull | Pull calls content store and snapshotter several times and undoes nothing; pulls share uploads and layers | a pull that succeeds has stored its blobs; a recorded image has its layers on one another in order |
| containers store `internal/containers` | map id → record | Create, Get, Update, Delete | record, task and snapshot of a container are three entries of three services, and only the client keeps them together | a live process is never out of reach of stop and rm |
| auxiliary services `internal/services` | map of namespaces; the others answer with constants | Create, Get, Update, Delete, one locked step each | nothing: no other service reads it | |
| metadata | none (a package comment) | | | |

### Clients and the other programs

* **mini-nerdctl**: `pkg/image` pulls blobs over the content store's Write stream;
  `pkg/container` runs, stops (SIGTERM, timeout, SIGKILL) and removes containers, each by
  a sequence of calls that other commands interleave with and that the user can
  interrupt; `pkg/runtime` execs; `pkg/reference` parses names; `cmd` is the command line.
  Correct when success means what it says: stopped is dead, the exit code is that of the
  container's process, and every command ends.
* **mini-docker**: a stateless REST translation (every container it creates has the same
  id, made of its own pid), the same pull without looking at the answers, a Dockerfile
  parser and the loop over its instructions.
* **mini-kueue**: one process without any lock, an HTTP handler per request. State:
  a sorted queue and a list of active workloads per ClusterQueue, used quota per flavor.
  Correct when flavors are never overcommitted, quota use is exact, nobody is lost and
  admission is in order.
* **mini-kubepray**: shell scripts over ssh.

Interaction: nerdctl and docker call the daemon's services; `image.Pull` calls the
content store and the snapshotter in the same process; records, tasks and snapshots of a
container meet only in the client; image names go from one client through the
daemon's records to the other, and five functions parse them.

## Plan

1. Snapshotter, TaskManager, ContentStore with the clients that use it, KueueScheduler,
   (done).
2. ImageStore: the three pulls that meet in one daemon, with failure of each step and
   images that share layers (done).
3. ContainerLifecycle: run, exec, stop with its timeout, rm, and docker's create, start
   and stop over TaskManager and the containers store (done).
4. Abstract specifications: BlobMap, which ContentStore with the clients of this repository
   implements; AdmissionLedger, which KueueScheduler implements;
   TaskLifecycle, which TaskManager implements (done, and proved).
5. ImageNames: the five parsers of image names against the rules that the code
   documents (done).
6. Proofs of every safety property and of the three refinements (done). Left: liveness,
   which stays with TLC.

## Modules

### Snapshotter

Every method of `Snapshotter` holds `s.mu` from start to end, so each is one action;
a request the code refuses has a false guard. `snapshots` is the map (an absent key has
`NoSnapshot`), `dirs` what is on disk under the key, in the six states that MkdirAll,
Rename and RemoveAll can tell apart, and `held` is a history variable: the mounts the
owner of a key was last given. `Faults` says what may go wrong: MkdirAll fails half way
(`PrepareFails`), RemoveAll fails half way or at its last rmdir (`RemoveFails`), the
daemon restarts (`Restart`). `WriteLayer` is the environment: whoever holds a writable mount
writes to it. Commit moves a directory with Go's `os.Rename`, which looks first and refuses any
directory that exists, empty or not (`RenameTarget`; the mutant is rename(2), which replaces an empty
one). The code relies on this to keep Commit from replacing a snapshot: it never looks
whether the map has the name. `BackedByDir`, that every snapshot has its directory, is the
invariant that makes it work.

Abstracted: a key is one path component (the code does not check that); labels are a
set of label names; times are left out.

### TaskManager

Requests run on threads `thr`. A request first looks the task up under the manager's
lock (`Lookup`) and then acts on that object under the task's lock, or without a lock;
Kill is two steps because it releases the lock between reading the pid and signalling.
Wait is two steps, the channel and the exit code. Create and Delete hold the manager's
lock throughout and are one action each. The monitor goroutine is three steps: reap, update, send. The kernel
(`os`, `ProcessExits`, `Signalled`, `FreePid`) is external: a process ends when it likes,
stays a zombie that holds its pid until it is reaped; with `PidReuse` a reaped pid can be given to
another task. Kill sends SIGKILL, which ends the process, or SIGTERM, which it may ignore; a
stopped process acts on SIGTERM only when it is resumed. Kill with SIGSTOP or SIGCONT is not modelled. Task objects are used once each, so that a pointer held by a request
still means something after Delete.

`TaskLifecycle` is what the manager promises of a task, without locks, requests, pids and
goroutines: the state diagram, an exit that happens once, a notice that is sent after the
exit was recorded and is taken by one waiter. `ImplementsLifecycle` maps status, exit,
code and channel to it. An exit that the manager learns of while the task is CREATED or
PAUSED is a notice without a stop: the abstract task keeps its phase for ever, as the
code's does.

### ContainerLifecycle

Each command `c` is a sequence of calls, one action per call, with its place in `cmd[c].pc`
and what it remembers between calls. The calls that block or have several steps in the daemon are requests of TaskManager
on two threads of the command: `Call(c)`, and `Waiter(c)` for the goroutine in which the
client library keeps its Wait. So the module composes the commands with the same actions
(`Lookup`, `Start`, `KillReadPid`, `KillSignal`, `WaitReceive`, `WaitReturn`, `Create`,
`Delete`, the monitor) that `tasks` checks. `records` is the containers store, `snaps`
the keys that have a snapshot.

`Interrupt` is the cancelled context: the command is gone, its requests in the daemon stay, because no handler looks
at its context, and an abandoned Wait still takes the exit from the
channel. A stop that is interrupted while it waits reports success, because it takes the error of Wait
for an exit; StoppedForGood leaves this case out.

An exit code is an `int` in the task manager, -1 for a process that a signal ended; the
daemon answers `uint32(exitCode)` (`service.go:120`), and run.go makes an `int` of that
again. `UInt32` is this conversion, as two halves of 16 bits, because TLC's integers have
32: nerdctl's run gives 4294967295 for -1, of which the shell sees 255. The daemon's answer
to Start carries no pid (`service.go:57`), so the client's task has pid 0 from then on (`nopid`).

External, from how the code uses it: the containerd client library. Its `Task.Delete`
asks for the status first (`CheckStopped`), its `Container.Delete` asks for a task first
(`CheckNoTask`), its Wait turns an error into an unknown exit status. Preparing a
snapshot, making the spec, finding the image and starting the program may
succeed or fail at any time. In particular `service.go:31` takes the program from the
request's `Stdin` field, which these clients set to a FIFO or leave empty; whether NewTask can succeed
against this daemon is therefore left open, and the properties hold either way.

### ContentStore and PullClients

A blob's bytes are a sequence over `Bytes`, and a digest is the sequence that was hashed
(SHA-256 taken as injective). `uploads[ref]` has the temporary file, the file position,
the code's `Offset`, the hasher, the expected digest and whether the file still has its
name; `disk` the blob files; `blobs` the map; `streams` the local variables of the Write
handler. The handler is one action per message. `ScannedKey` is what scan calls a file
it finds: prefix plus file name, a key that no digest has (`doubled`). `Restart` loses
uploads and rebuilds the map with it. Writing beyond the end leaves a `Hole`; a WRITE without
data moves offset and position and resets the hasher, also beyond the end, and leaves the file alone.
A WRITE at 0 seeks back, but nothing ever truncates the file. A COMMIT whose checks pass can
fail in MkdirAll, with the file still open, or in Close or Rename, with the file closed and still linked.

PullClients runs the only two clients of the repository on top: STAT, chunks from offset
0, COMMIT with total and digest, on a ref made of the digest; interrupted at any point,
repeated, two at the same time. What they send is what they downloaded (`Downloads`):
mini-nerdctl hands it on unverified (`image.go:79-84`), so it may be wrong, empty, shorter
or longer than the blob. It also has the Read stream, whose Open looks the digest up
under the lock and opens the path after releasing it, then sends the open file chunk by
chunk while the blob may be removed and stored again.

`BlobMap` is what this promises: a write-once map from digests to blobs, and reads that
deliver the blob or break off (`BreakOff`). A blob is in the map while `blobs` has an entry under its
digest. A restart empties the map (`Forget`): the files stay, but scan, which by its comment
"loads existing blobs into memory" (`store.go:121`), enters them under keys that no client asks for.
`StoredIsBlob` says of the files themselves that one named by a digest has its content. It holds,
as does the refinement, while no write fails half way and no download is longer than its blob;
without that it does not, which is the run `pull_corrupt`.

### ImageStore

A request `p` runs one of the three pulls: `Store.Pull` of the daemon, `Pull` of
mini-nerdctl or `Pull` of mini-docker. `pulls[p]` is where it is in its list of blobs.
A blob that was downloaded becomes a job, which goes through BeginUpload, WriteUpload
and CommitUpload under the content store's lock, one action each. The daemon and
nerdctl wait for the job; docker goes on at once, and its jobs are cancelled when it
returns. The daemon then unpacks a layer (`Prepare`, `Commit`) on the one before it, and
writes the record; the clients create one, whose target `fromGRPC` drops.

The content store is reduced to what these calls tell apart: whether the temporary file
is linked, unlinked after a mismatch, or closed; which bytes the last WRITE wrote; whether one before was
longer than the blob, since what lies behind stays in the file; whether the upload is committed. COMMIT compares
the offset with the length of the committing job's own download and the hasher with the digest (`Verified`). `spoiled` are the
stored blobs with such a tail. A blob is one WRITE; ContentStore and PullClients have the chunks,
the offsets and empty downloads. Nothing in the repository calls the daemon's `Store.Pull`
yet: it is modelled as it is written. Snapshots
are kind and parent, as Prepare, Commit and Remove use them. Digests are taken to differ
in the prefixes that refs and keys are made of. `Guarded` names need a token,
which the daemon cannot get: parseAuthHeader finds no realm after `Bearer `. An index is
resolved by none of the three. A restart empties all of this state and is left to the
modules below. Of the clients of the service, only those that update, delete and
remove layers are modelled.

### ImageNames

A name is a sequence of words and separators; of a word only matters whether it has a
dot, whether it looks like a port and whether it is one of the words the code compares
with. Each parser is an operator: Parse and Normalize of `reference.go` with their
helpers, `normalizeRef` of mini-docker, the parseRef of the two clients (the same code
twice) and the one of the daemon. The state is one name in circulation: written by
a user, rewritten by whichever client stores the image, shown, and typed again. `Denoted` is the reference
definition, from the rules in the comments of `reference.go`. Names outside `Common` are
those on which the parsers disagree; they are listed below. What a name fetches is all this is about: the
lookup of a record by name is another matter (see below). A reference without a host whose
first of several components has a dot is not in `Reference`: by the rules that word is a host.

### KueueScheduler

`Schedule` is modelled step by step (`pass`): dequeue, quota check, reservation,
re-enqueue. A request is served only when no pass is running (`MayServe`). The program
does not see to that, it has no lock at all: everything said with KueueScheduler is about
clients that wait for the answer of one request before they send the next. `KueueRace` drops that
and splits what a pass does to shared fields into the reads and writes of the code, so that two passes can take
the same head, index a slice that the other has emptied (a panic that ends the handler), and overwrite
each other's update of Used or of a list. Nothing is claimed to hold of it; it is there for
what goes wrong.

The documents of mini-kueue disagree with each other about a pass: `internal/scheduler/doc.go:13`
says "admit as many pending workloads as quota permits", the loop below it (`doc.go:15-18`) and the one in
`mini-kueue/README.md:42-47` run only "while head of queue fits". The code does the former: it holds back what does not fit
and goes on with the next workload. AdmitInOrder and PassIsMaximal follow the code and
the sentence; a scheduler that stops at the first misfit, as the loops describe, would violate PassIsMaximal.

`Enqueued` is append and stable sort, on a queue that is sorted
already. `AdmissionLedger` has no queues, passes or counters: a workload is submitted,
admitted where its whole demand fits beside what is admitted there, and finished, once.
Amounts are natural numbers for float64; flavors have distinct names.

## Runs

| run | checks | distinct states |
|---|---|---|
| snapshotter | tree, parents committed, directories present, held mounts current, committed layers stable; MkdirAll failing half way, RemoveAll failing half way or at its end, restarts | 447,963 |
| tasks | STOPPED is dead, pid kept until the process is gone, Wait after the exit, PAUSED is frozen, implements TaskLifecycle; pids are reused | 1.15 million |
| lifecycle | three commands, two of them interruptible: stopped is dead, a run reports its own exit, a live process of a run stays on the list and keeps its record | 2.31 million |
| lifecycle_live | two commands on one task: exits are reported, pids cleared, commands end | 54,052 |
| content | any clients on one ref, failing writes and commits, restarts: the hasher covers what was written unless a write failed half way since the last seek, entries of commits have files | 514,297 |
| pull | two uploads of this repository's clients and a read, with wrong and truncated downloads, failing commits, removals and restarts, implement BlobMap, and files under a digest have its content | 1.48 million |
| images | two pulls of any kind at a time, downloads that are wrong, short or long, failures, interruptions, removed layers: success means stored, layers chained in order, a layer unpacked by one pull and never left half unpacked | 155,675 |
| kueue | quota, exact use, one place, order, maximal pass, every pass ends, implements AdmissionLedger | 393,867 |
| references | Parse against its rules; five parsers on names they agree on at first and that were rewritten any number of times | 10,704 |

Three runs are expected to find a violation. Each compares a comment with the code and
is a finding in `PROJECT.json` with the quotation:

* `docker_pull`: mini-docker registers an image and reports success while its uploads are in
  flight; they are cancelled when the handler returns.
* `kueue_race`: two overlapping passes check the quota before either has reserved it, and
  overcommit a flavor.
* `pull_corrupt`: a file with other content is stored under a digest that was verified. In the trace
  the WRITE at 0 fails after one byte; Offset is still 0, so the retry's WRITE at 0 is not
  preceded by a seek and lands behind that byte, while the hasher has only the right ones. Without any failure
  (`Faults = {}`) an interrupted upload of a longer download leaves its tail in the file.

The environment assumptions of the passing runs are just as telling. With the constants
set otherwise the models show that the code does not defend itself against these:

* A COMMIT that was refused leaves the upload open on a file that has no name any more: every
  later one of that ref fails until a restart. Two clients that pull one blob at a time can cause it, the second by
  resetting the hasher of the first.
* A second pull of an image, or of one that shares a layer, fails at BeginUpload, which refuses
  a committed ref, until the daemon restarts. ImageStore has this as it is; its properties say that
  nothing wrong is recorded, not that a pull can be repeated.
* Commit to the key of a View replaces the View, and its parent can then be removed under a mount
  that is held. MountsCurrent speaks of mounts whose key is still what it was.
* After a restart scan lists every blob under a digest that repeats the two-digit prefix
  (`ScannedKey`), so no blob is found under its own.
* A process that ends before Start leaves a task that is RUNNING for ever and that Delete
  refuses (`TaskLifecycle`: a notice without a stop).
* Two commands that wait for one container: the channel gets one value and is not closed,
  although `task.go:47` says so, and one of them waits for ever. `Rival` in the liveness
  properties is this case: run and stop, exec and stop, and rm -f of a container that is being run.
* `rm` without `-f` of a detached container that has exited fails as long as its task is there, and
  no command but `rm -f` removes the task. No command removes a snapshot.
* A removal that finds no task deletes the record while a run, between its NewRecord and its NewTask, or a
  docker start is making one: a task without a record, which stop and rm cannot load. RunKeepsProcess
  says of the record that it stays unless a removal was given, and of the daemon's list that the task stays on it, removal or not.
* When somebody starts the container of a run with docker start, of two forced removals one deletes the earlier
  task and the other then deletes the one that the run has made since, whose process lives. RunKeepsProcess leaves such
  containers out.
* A forced removal and a docker start between the Start and the Wait of a run make it
  wait for another task, and report that one's exit code.
* Names: no parser understands a digest: Parse leaves it in the repository or the tag and Normalize adds a
  tag behind it, the clients take what follows its colon for the tag, the daemon the word before; `localhost:5000/img` is a registry to Parse and a Docker Hub repository to the
  parsers that fetch; `docker.io/alpine` loses `library/` everywhere but in
  Parse; normalizeRef turns the `docker.io/...` it returns into `registry-1.docker.io/...` when it is applied again, so mini-docker
  keeps two records of one image.
* Records by name: mini-docker stores `a/b/c:latest` under that name and nerdctl looks for
  `docker.io/a/b/c:latest`. The name does not decide anyway: the daemon's List ignores the
  `name==` filter (`internal/image/service.go:32`), and nerdctl's Remove deletes the first image of the answer
  (`pkg/image/image.go:200`). So nothing is claimed about finding an image again.
* `PidReuse` (on in `tasks`, off in the lifecycle runs): Kill, and Resume of a task whose process is gone, can
  signal another task's process.
* `FinishOnce = FALSE`: finishing a workload twice releases its quota twice, and the flavor is
  overcommitted. With names that are used again, FinishByName finds the finished workload first.

### Bounds

Three snapshot keys allow a chain of two layers with an active snapshot on top, a View
beside it, and a name to collide with. Two task objects and two ids are what
pid reuse, Delete followed by Create and requests on a stale object need; two threads
let any two requests overlap. Blobs of up to two bytes over two
values allow several chunks, a rewrite and a hole; `MaxFile` bounds the temporary file, which grows past
`MaxLen` when a short write displaces the next one (`pull_corrupt` has room for that); `MaxBlobs` bounds the files
under `blobs/`, which restarts would otherwise let pile up, and one is enough for an entry and its file to disagree. In `pull` a chunk is one byte, so a WRITE that fails stores none of it; no download is
longer than its blob. Those two cases are `pull_corrupt`. Kueue has five workloads for three flavors: more than fit, of two priorities, with two pods,
and with a resource that one flavor does not track.

In `lifecycle` the first command makes a container (run, run -d or docker create), the second stops it,
execs in it or starts it, the third stops or removes it: every pair of commands that meet on a
container, with a third that changes what they have seen. Two task objects allow a docker start
after a removal. The liveness run has one task and two commands, the second of
any kind, because every further command only adds a `Rival`.

References have up to three components, from a set with an ordinary word, `library` and a
number; with the separators this reaches every branch of SplitN with limit 3 and both
sides of every port test. `MaxLen` stops names with a digest, which grow; all others stay shorter.

One reader and two uploads suffice for a read to meet a removal and a second upload of
its blob.

Two pull requests let any two of the three pulls race or follow one another, on two images that
share a layer at different depths; with three requests the same properties hold over 4.9 million states.
The docker pull is asked for an image without layers: a config and a manifest are two
uploads in flight.

Deadlock is checked in all runs but those of TaskManager, ContainerLifecycle and ImageStore, where the finite supply of task
objects, commands and pull requests ends the run: with all of them used no request is left to make; and
in `references`, where MaxLen ends it.

### Fairness

`LifecycleFairSpec`: weak fairness of each command's next step, of each step of its requests in
the daemon and of each monitor step, because a goroutine that can run does run, and a timer
fires; none for processes, which may ignore SIGTERM and run for ever, for users, who
need not give or interrupt a command, and for the success of a call that may fail: the fairness
is of the command, which may take the failing branch every time. `KueueScheduler!FairSpec`: weak fairness of the steps of
a pass that has begun; none for clients.

## Proofs

Each of the eight proof modules holds for every value of the constants: any number of keys, tasks,
commands, streams, pulls, flavors and workloads. Where a theorem needs more than the assumptions of the
modules it says so, with `ASSUME`; the hypotheses are named below with the reason. Every
inductive invariant was an invariant of the TLC run of its component before it was proved.

| module | about | theorems that state a property of a run |
|---|---|---|
| `SnapshotterProofs` | Snapshotter | ParentsStay, LayersStay, AlwaysTree, CommittedStays, MountsAreTyped, MountsStayCurrent |
| `TaskManagerProofs` | TaskManager | TypeCorrect, StoppedTasksAreDead, PidsAreKept, WaitsEndAfterExit, PausedTasksRest, ManagerImplementsLifecycle |
| `ContainerLifecycleProofs` | ContainerLifecycle | LifecycleTypes, StopsAreFinal, RunsReportExits, RunsKeepProcesses, CommandsKeepDaemonCorrect |
| `ImageStoreProofs` | ImageStore | ImagesTypes, PullsAreStored, ImagesAreChained, LayersUnpackedByOne |
| `ContentStoreProofs` | ContentStore | StoreTypes, EntriesAreBacked, HasherIsTrue |
| `PullClientsProofs` | PullClients over ContentStore | FilesAreBlobs, PullsImplementBlobMap, StoreCorrectUnderPulls |
| `KueueSchedulerProofs` | KueueScheduler | KueueTypes, UsedIsTheSum, WorkloadsAreKept, QuotaIsKept, AdmissionIsInOrder, PassesAreMaximal, SchedulerImplementsLedger |
| `ImageNamesProofs` | ImageNames | ParsesAreDenoted, NamesKeepTheirMeaning |

**SnapshotterProofs.** The inductive invariant is the conjunction of type, ParentCommitted,
BackedByDir and SnapshotTree. None is inductive alone: Commit keeps the tree only because it cannot rename
onto an existing snapshot, which BackedByDir gives; Prepare keeps it because the parent exists
and is not the key itself, which ParentCommitted gives for the steps after. SnapshotTree is stated as
well-foundedness over subsets, which needs no recursion. No failure is assumed away.
`parentChain` is a recursive function over the parents, and the tree is its induction principle: a set of keys
for which a claim about the chain fails has a member whose parent is not in it. So the chain
exists, is the parent followed by the chain of the parent (`ChainStep`), has only committed keys on
it (`ChainMembers`), and does not change when something is added or removed that it does not name
(`ChainsStay`). With that a held mount stays equal to what Mounts would return (`MountsInv`).

**TaskManagerProofs.** The inductive invariant adds to the types `ExitProtocol`, which ties the
place of the monitor to the state of the process, the pid and the channel, and
`RequestOK`, which says that a request that is past its lookup holds a task that was created. `StatusFollowsDiagram`
is the action property. PausedTasksRest needs `PauseInv` beside it: a task object names nobody's pid
or that of its own process, dead or alive, so that a process with a pid of its own is continued only by Resume
of its own task.
For the refinement of TaskLifecycle, Create, Start, Pause and Resume move the status along one arrow; Delete, Kill, lookups and
the exit of a process nobody has reaped yet are stutters; MonitorReap is the exit,
MonitorUpdate of a running task a stop because `ExitProtocol` says that the process is reaped and the
channel still empty at that point, MonitorSend a notice for the same reason, and a waiter
takes the notice that the channel holds.

**ContainerLifecycleProofs.** `CommandsInv` is the invariant of TaskManager and, for each command, what is left of
what it has seen: a task seen RUNNING is on the daemon's list or its process is reaped (`SeenRunning`), the
task a run waits for is on the list or STOPPED (`RunWaits`), and without a docker start the task
of a run is the only one of its id (`Kept`). `RecordInv` does the same for records: without a removal the
record of a run is there from NewRecord on, and a run that gives up deletes it only when its
process is gone or never was. `DaemonRefined` (LifecycleSpec => Spec) shows that the commands drive
the daemon through steps of TaskManager only, so the theorems of TaskManagerProofs hold under them (`CommandsKeepDaemonCorrect`). Reuse of pids is
allowed in these proofs, though not in the lifecycle runs.

**ImageStoreProofs.** The argument is that uploads act as a lock: a ref is committed once and stays so, hence
of the daemon's pulls that want a layer only one gets past storeContent with it and claims it (`ClaimedOnce`). That pull
alone prepares and commits its snapshot (`Layered`), an active layer has such a pull (`ActiveOwned`), and
a record is that of a pull that succeeded (`Recorded`).

**ContentStoreProofs.** `StoreInv` describes an upload byte by byte (`Follows`): unless a write has failed half way since the last
seek, the hasher has seen the bytes of the file that end at Offset. EntriesHaveFiles is inductive with the types,
because the rename comes before the entry.

**PullClientsProofs.** A ref is made of the digest it is for, so an upload expects the digest of its ref and a client that
has begun is on a stream of an upload that has begun (`PullsInv`, whatever was downloaded and whatever fails). It contains `StoreInv`, so the
store's own properties hold under these clients (`StoreCorrectUnderPulls`): with the two exemptions they have, torn
uploads and the entries of scan. `FilesAreBlobs` and `PullsImplementBlobMap` assume `SoundWrites`, no write that fails half
way, and `NoLonger`, no download longer than its blob; the code guarantees neither, and `pull_corrupt` shows each to be needed. Then no
temporary file is longer than its blob, and when offset and hasher have come to the end the file is the blob,
so what is on disk under a digest is the blob (`FilesInv`), and a read has sent a prefix of it (`ReadsInv`). COMMIT is
Put or invisible, removal is Remove, opening a file that is there begins a read, the chunk at the end ends
it, and a restart is Forget.

**KueueSchedulerProofs.** All of it is about one request at a time. What does not depend on what clients finish is proved for
any of them: types, sorted queues (`QueuesAreSorted`) and that a workload is in exactly one list
(`WorkloadsHavePlaces`). The other theorems assume `FinishOnce` (only an admitted workload is finished)
and `UniqueNames`: otherwise quota is released twice, which the code does not prevent. `PassInv` says that what a
pass has checked still holds when it acts on it, which is what fails in `kueue_race`. Used is a sum over the workloads of a
flavor. The first part of the module proves that such a sum does not depend on the order in which the fold takes the elements; its inductions
go by the smallest counterexample, because the library's induction theorems take an operator
as a parameter, which the provers cannot instantiate.

**ImageNamesProofs.** Names are words of any number and any depth. The parsers search for a separator and cut there, so
no induction over the name is needed: a position that is first or last exists because the naturals are
well ordered, and the first lemmas say what each cut returns for a name that is put together around a separator.
On them rests one description of a name: every parser cuts it into the same stem and tag (`CutAs`). `Means` says that the stem is one of the places
of the reference that was meant and the tag its tag. The inductive invariant `NameInv` is that names of common references
keep their meaning in this sense; NamesKeepMeaning alone is not inductive, as it says what is fetched from a name and not how
the next client rewrites it. A client's rewriting maps a stem of the reference to another
one of it and leaves the tag (`NerdctlPull`, `DockerPull`).

Only model-checked: all liveness (ExitIsReported, DeadPidIsCleared, CommandEnds, RunEnds, PassEnds),
because the prover has no rule for fairness.

## Not modelled

* The services that answer with constants and the namespaces map, which nothing else
  reads; the metadata store and the other packages that have only a comment.
* HTTP, tokens and the formats of manifests and layers beyond what ImageStore tells apart.
* The Dockerfile parser and the builder's loop: FROM is a pull of the name as it stands (ImageNames
  needs no step for it), RUN and COPY run programs on the host, and no image is stored.
* Listings (ps, images, logs, the GET handlers of mini-docker), printing and flags.
* Labels of blobs, filters, Read with an offset or a size (a read with a size sends whole
  chunks and may exceed it), Update of a container record, which no client calls.
* kubepray's scripts, whose effects are on hosts that the repository does not describe.
* Races of /submit and /finish with a pass of the scheduler, and two slices over one backing array; KueueRace has
  those of two passes.
* Reads that tear under Go's memory model (labels maps, `taskToProto`); they are listed
  as hazards.
