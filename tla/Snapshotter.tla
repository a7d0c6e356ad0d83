----------------------------- MODULE Snapshotter -----------------------------
(***************************************************************************)
(* The overlayfs snapshotter of mini-containerd                            *)
(* (mini-containerd/internal/snapshot/snapshot.go, behind the gRPC         *)
(* handlers of service.go).  Every public method takes s.mu for its whole  *)
(* body, so each one is a single action.  A request the code refuses       *)
(* returns an error and changes nothing: its guard is false here.          *)
(*                                                                         *)
(* Two pieces of state must stay in step: the in-memory map                *)
(* `snapshots', which a restart of the daemon loses, and the directory     *)
(* `dirs[k]' of each key, which it does not.  `held' is a history variable:*)
(* the mounts the owner of a key was last given and has not given back by  *)
(* removing or committing that key.                                        *)
(***************************************************************************)
EXTENDS Naturals, Sequences

CONSTANTS
    Keys,     \* snapshot keys; each is one path component below the root
    None,     \* the empty parent string
    Labels,   \* label keys that Update may set
    Faults    \* what the environment may do to the snapshotter

AllFaults == {"mkdir", "removeall", "removeall_bare", "restart"}

ASSUME NoneAssumption == None \notin Keys
ASSUME FaultsAssumption == Faults \subseteq AllFaults

VARIABLES
    snapshots,   \* s.snapshots: key -> SnapshotInfo
    dirs,        \* what is on disk at filepath.Join(root, key)
    held         \* history: mounts handed to the owner of a key

vars == <<snapshots, dirs, held>>

-----------------------------------------------------------------------------
(* SnapshotInfo.  A key that is not in the map has NoSnapshot.             *)
Kind == {"view", "active", "committed"}

NoSnapshot == [kind |-> "absent", parent |-> None, labels |-> {}]

SnapshotInfo ==
    {NoSnapshot} \cup
    [kind : Kind, parent : Keys \cup {None}, labels : SUBSET Labels]

(* The directory of a key: nothing, the empty directory, the fs            *)
(* subdirectory without work (a MkdirAll that failed half way), what is    *)
(* left after a RemoveAll that failed half way, both subdirectories        *)
(* without any file, and a layer that somebody has written to.             *)
DirState == {"absent", "bare", "partial", "gutted", "clean", "written"}

(* Mutant: rename(2) itself, which replaces an empty directory.            *)
RenameTargetMutant == {"absent", "bare"}

(* os.Rename looks at the target first and refuses any directory that      *)
(* exists, an empty one too.                                               *)
RenameTarget == {"absent"}

Exists(k) == snapshots[k].kind # "absent"

Committed(k) == snapshots[k].kind = "committed"

HasChild(k) == \E c \in Keys : snapshots[c].parent = k

-----------------------------------------------------------------------------
(* Mounts.                                                                 *)

(* The ancestors of key, nearest first, as the loop of parentChain         *)
(* collects them.                                                          *)
parentChain(snaps, key) ==
    LET chain[k \in Keys] ==
            IF snaps[k].parent = None
            THEN << >>
            ELSE <<snaps[k].parent>> \o chain[snaps[k].parent]
    IN  chain[key]

NoMount == [type |-> "none", upper |-> None, lowers |-> << >>]

(* upper is the key whose fs directory the mount can write: both bind      *)
(* mounts carry the options rbind and rprivate and no ro.                  *)
mountsWithoutLock(snaps, key) ==
    LET lowers == parentChain(snaps, key) IN
    IF snaps[key].kind = "committed" \/ lowers = << >>
    THEN [type |-> "bind", upper |-> key, lowers |-> << >>]
    ELSE [type   |-> "overlay",
          upper  |-> IF snaps[key].kind = "view" THEN None ELSE key,
          lowers |-> lowers]

-----------------------------------------------------------------------------
(* os.MkdirAll of fs and work, on whatever is at the key's path.  It       *)
(* accepts directories that exist already, with the files in them.         *)
MkdirAll(state) ==
    CASE state \in {"absent", "bare", "partial"} -> {"clean"}
      [] state = "gutted" -> {"clean", "written"}
      [] OTHER -> {state}

(* What a MkdirAll that fails can leave.                                   *)
MkdirAllFails(state) ==
    CASE state = "absent" -> {"absent", "bare", "partial"}
      [] state = "bare" -> {"bare", "partial"}
      [] OTHER -> {state}

(* What an os.RemoveAll that fails can leave: part of the tree or, when    *)
(* only the last rmdir fails, the empty directory.                         *)
RemoveAllFails(state) ==
    (IF "removeall" \in Faults /\ state \in {"partial", "gutted", "clean", "written"}
     THEN {"gutted"} ELSE {})
    \cup
    (IF "removeall_bare" \in Faults /\ state # "absent" THEN {"bare"} ELSE {})

Init ==
    /\ snapshots = [k \in Keys |-> NoSnapshot]
    /\ dirs = [k \in Keys |-> "absent"]
    /\ held = [k \in Keys |-> NoMount]

(* Mutant: no test that the key is free.                                   *)
CanPrepareMutant(key, parent) ==
    parent # None => Committed(parent) /\ parent # key

(* The checks Prepare makes before it touches the disk.                    *)
CanPrepare(key, parent) ==
    /\ parent # None => Committed(parent)
    /\ ~Exists(key)

Prepare(key, parent) ==
    /\ CanPrepare(key, parent)
    /\ snapshots' = [snapshots EXCEPT ![key] =
                        [kind |-> "active", parent |-> parent, labels |-> {}]]
    /\ \E d \in MkdirAll(dirs[key]) : dirs' = [dirs EXCEPT ![key] = d]
    /\ held' = [held EXCEPT ![key] = mountsWithoutLock(snapshots', key)]

(* Mutant: the entry is recorded before the directories are made.          *)
PrepareFailsMutant(key, parent) ==
    /\ "mkdir" \in Faults
    /\ CanPrepare(key, parent)
    /\ snapshots' = [snapshots EXCEPT ![key] =
                        [kind |-> "active", parent |-> parent, labels |-> {}]]
    /\ \E d \in MkdirAllFails(dirs[key]) : dirs' = [dirs EXCEPT ![key] = d]
    /\ UNCHANGED held

(* The same call when MkdirAll returns an error: what it created stays.    *)
PrepareFails(key, parent) ==
    /\ "mkdir" \in Faults
    /\ CanPrepare(key, parent)
    /\ \E d \in MkdirAllFails(dirs[key]) : dirs' = [dirs EXCEPT ![key] = d]
    /\ UNCHANGED <<snapshots, held>>

(* Mutant: a view of a parent that is still active.                        *)
ViewMutant(key, parent) ==
    /\ parent # None
    /\ Exists(parent)
    /\ ~Exists(key)
    /\ snapshots' = [snapshots EXCEPT ![key] =
                        [kind |-> "view", parent |-> parent, labels |-> {}]]
    /\ held' = [held EXCEPT ![key] = mountsWithoutLock(snapshots', key)]
    /\ UNCHANGED dirs

(* View records a child of parent and creates no directory.                *)
View(key, parent) ==
    /\ parent # None
    /\ Committed(parent)
    /\ ~Exists(key)
    /\ snapshots' = [snapshots EXCEPT ![key] =
                        [kind |-> "view", parent |-> parent, labels |-> {}]]
    /\ held' = [held EXCEPT ![key] = mountsWithoutLock(snapshots', key)]
    /\ UNCHANGED dirs

(* Commit does not look name up in the map: only the rename can refuse a   *)
(* name that is taken.                                                     *)
Commit(key, name) ==
    /\ snapshots[key].kind = "active"
    /\ name # key => dirs[name] \in RenameTarget
    /\ snapshots' = [k \in Keys |->
            CASE k = name -> [snapshots[key] EXCEPT !.kind = "committed"]
              [] k = key /\ name # key -> NoSnapshot
              [] OTHER -> snapshots[k]]
    /\ dirs' = [k \in Keys |->
            CASE k = name -> dirs[key]
              [] k = key /\ name # key -> "absent"
              [] OTHER -> dirs[k]]
    /\ held' = [held EXCEPT ![key] = NoMount]

(* Mutant: children are not looked for.                                    *)
RemoveMutant(key) ==
    /\ Exists(key)
    /\ snapshots' = [snapshots EXCEPT ![key] = NoSnapshot]
    /\ dirs' = [dirs EXCEPT ![key] = "absent"]
    /\ held' = [held EXCEPT ![key] = NoMount]

Remove(key) ==
    /\ Exists(key)
    /\ ~HasChild(key)
    /\ snapshots' = [snapshots EXCEPT ![key] = NoSnapshot]
    /\ dirs' = [dirs EXCEPT ![key] = "absent"]
    /\ held' = [held EXCEPT ![key] = NoMount]

(* RemoveAll returned an error: Remove returns before it deletes the entry.*)
RemoveFails(key) ==
    /\ Exists(key)
    /\ ~HasChild(key)
    /\ \E d \in RemoveAllFails(dirs[key]) : dirs' = [dirs EXCEPT ![key] = d]
    /\ UNCHANGED <<snapshots, held>>

Mounts(key) ==
    /\ Exists(key)
    /\ held' = [held EXCEPT ![key] = mountsWithoutLock(snapshots, key)]
    /\ UNCHANGED <<snapshots, dirs>>

(* Mutant: no test that the key is in the map.                             *)
UpdateMutant(key, labels) ==
    /\ snapshots' = [snapshots EXCEPT ![key].labels = @ \cup labels]
    /\ UNCHANGED <<dirs, held>>

Update(key, labels) ==
    /\ Exists(key)
    /\ snapshots' = [snapshots EXCEPT ![key].labels = @ \cup labels]
    /\ UNCHANGED <<dirs, held>>

(* The holder of a writable mount puts a file into the layer it was given. *)
WriteLayer(key) ==
    /\ \E k \in Keys : held[k].upper = key
    /\ dirs[key] \in {"partial", "gutted", "clean"}
    /\ dirs' = [dirs EXCEPT ![key] = "written"]
    /\ UNCHANGED <<snapshots, held>>

(* The daemon is restarted: NewSnapshotter makes an empty map over the     *)
(* root it finds, and whoever holds a mount still holds it.                *)
Restart ==
    /\ "restart" \in Faults
    /\ snapshots' = [k \in Keys |-> NoSnapshot]
    /\ UNCHANGED <<dirs, held>>

Next ==
    \/ \E key \in Keys, parent \in Keys \cup {None} :
            \/ Prepare(key, parent)
            \/ PrepareFails(key, parent)
            \/ View(key, parent)
    \/ \E key, name \in Keys : Commit(key, name)
    \/ \E key \in Keys :
            \/ Remove(key)
            \/ RemoveFails(key)
            \/ Mounts(key)
            \/ WriteLayer(key)
    \/ \E key \in Keys, labels \in SUBSET Labels : Update(key, labels)
    \/ Restart

Spec == Init /\ [][Next]_vars

-----------------------------------------------------------------------------
(* Properties.                                                             *)

Mount == [type : {"none", "bind", "overlay"}, upper : Keys \cup {None},
          lowers : Seq(Keys)]

MapAndDiskType ==
    /\ snapshots \in [Keys -> SnapshotInfo]
    /\ dirs \in [Keys -> DirState]

(* The map holds snapshot infos, the disk directories in one of the states *)
(* above, and what was handed out are mounts.                              *)
TypeOK == MapAndDiskType /\ held \in [Keys -> Mount]

(* The parent of every snapshot is in the map and committed, whatever      *)
(* Remove, Commit (which renames) and View did since the child was         *)
(* created.                                                                *)
ParentCommitted ==
    \A k \in Keys :
        snapshots[k].parent # None => Committed(snapshots[k].parent)

(* Every active or committed snapshot has its directory, if only what a    *)
(* failed Remove left of it: map and disk agree although MkdirAll and      *)
(* RemoveAll may fail half way.                                            *)
BackedByDir ==
    \A k \in Keys :
        snapshots[k].kind \in {"active", "committed"} => dirs[k] # "absent"

(* Snapshots form a tree: every non-empty set of snapshots has one whose   *)
(* parent lies outside the set, so that the loop of parentChain ends.      *)
SnapshotTree ==
    \A S \in SUBSET Keys :
        S # {} => \E k \in S : snapshots[k].parent \notin S

(* A step never turns a committed snapshot into another one: it keeps its  *)
(* kind and its parent until it is removed (or forgotten by a restart).    *)
CommittedStable ==
    [][\A k \in Keys :
          Committed(k) =>
            \/ snapshots'[k] = NoSnapshot
            \/ /\ snapshots'[k].kind = "committed"
               /\ snapshots'[k].parent = snapshots[k].parent]_vars

(* As long as a snapshot is active or a view, the mount its owner was      *)
(* given names the layers that the snapshotter would name today, and all   *)
(* of them are committed and have a directory (which a Remove that failed  *)
(* before the child was created may have emptied).                         *)
MountsCurrent ==
    \A k \in Keys :
        snapshots[k].kind \in {"active", "view"} =>
            /\ held[k] = mountsWithoutLock(snapshots, k)
            /\ \A i \in DOMAIN held[k].lowers :
                  /\ Committed(held[k].lowers[i])
                  /\ dirs[held[k].lowers[i]] # "absent"
=============================================================================
