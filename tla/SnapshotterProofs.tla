-------------------------- MODULE SnapshotterProofs --------------------------
(***************************************************************************)
(* The snapshots form a tree of committed layers, for every set of keys    *)
(* and labels.  The argument is about the pair (map, disk): Commit never   *)
(* looks its target up in the map, so the map stays a tree only because    *)
(* every snapshot that can have children also has a directory              *)
(* (BackedByDir), onto which os.Rename refuses to move another one.        *)
(* Where the parents form a tree parentChain is defined, and a mount names *)
(* the chain of its snapshot until that is committed or removed.           *)
(***************************************************************************)
EXTENDS Snapshotter, TLAPS

IInv == MapAndDiskType /\ ParentCommitted /\ BackedByDir /\ SnapshotTree

(* What the initial state and every failing system call leave on disk is a *)
(* directory state.                                                        *)
LEMMA DiskResults ==
    ASSUME NEW d \in DirState
    PROVE  /\ MkdirAll(d) \subseteq DirState \ {"absent"}
           /\ MkdirAllFails(d) \subseteq DirState
           /\ RemoveAllFails(d) \subseteq DirState
           /\ "absent" \notin RemoveAllFails(d)
  BY DEF MkdirAll, MkdirAllFails, RemoveAllFails, DirState

(* The type of the map and of the disk is inductive by itself.             *)
LEMMA MapAndDiskTypeStep ==
    ASSUME MapAndDiskType, [Next]_vars
    PROVE  MapAndDiskType'
<1> USE DEF MapAndDiskType
<1>1. ASSUME NEW key \in Keys, NEW parent \in Keys \cup {None}, Prepare(key, parent)
      PROVE  MapAndDiskType'
  <2>1. snapshots' \in [Keys -> SnapshotInfo]
    BY <1>1 DEF Prepare, SnapshotInfo, Kind
  <2>2. dirs' \in [Keys -> DirState]
    BY <1>1, DiskResults DEF Prepare
  <2> QED BY <2>1, <2>2
<1>2. ASSUME NEW key \in Keys, NEW parent \in Keys \cup {None}, PrepareFails(key, parent)
      PROVE  MapAndDiskType'
  BY <1>2, DiskResults DEF PrepareFails
<1>3. ASSUME NEW key \in Keys, NEW parent \in Keys \cup {None}, View(key, parent)
      PROVE  MapAndDiskType'
  BY <1>3 DEF View, SnapshotInfo, Kind
<1>4. ASSUME NEW key \in Keys, NEW name \in Keys, Commit(key, name)
      PROVE  MapAndDiskType'
  <2>1. [snapshots[key] EXCEPT !.kind = "committed"] \in SnapshotInfo
    BY <1>4 DEF Commit, SnapshotInfo, Kind, NoSnapshot
  <2>2. snapshots' \in [Keys -> SnapshotInfo]
    BY <1>4, <2>1 DEF Commit, SnapshotInfo
  <2>3. dirs' \in [Keys -> DirState]
    BY <1>4 DEF Commit, DirState
  <2> QED BY <2>2, <2>3
<1>5. ASSUME NEW key \in Keys, Remove(key)
      PROVE  MapAndDiskType'
  BY <1>5 DEF Remove, SnapshotInfo, DirState
<1>6. ASSUME NEW key \in Keys, RemoveFails(key)
      PROVE  MapAndDiskType'
  BY <1>6, DiskResults DEF RemoveFails
<1>7. ASSUME NEW key \in Keys, Mounts(key)
      PROVE  MapAndDiskType'
  BY <1>7 DEF Mounts
<1>8. ASSUME NEW key \in Keys, WriteLayer(key)
      PROVE  MapAndDiskType'
  BY <1>8 DEF WriteLayer, DirState
<1>9. ASSUME NEW key \in Keys, NEW labels \in SUBSET Labels, Update(key, labels)
      PROVE  MapAndDiskType'
  <2>1. [snapshots[key] EXCEPT !.labels = @ \cup labels] \in SnapshotInfo
    BY <1>9 DEF Update, SnapshotInfo, Kind, NoSnapshot, Exists
  <2> QED BY <1>9, <2>1 DEF Update
<1>10. ASSUME Restart
       PROVE  MapAndDiskType'
  BY <1>10 DEF Restart, SnapshotInfo
<1>11. ASSUME UNCHANGED vars
       PROVE  MapAndDiskType'
  BY <1>11 DEF vars
<1> QED BY <1>1, <1>2, <1>3, <1>4, <1>5, <1>6, <1>7, <1>8, <1>9, <1>10, <1>11
        DEF Next

(* The map of snapshots and the state of every directory are well-typed in *)
(* every reachable state, whatever faults are allowed.                     *)
THEOREM TypeCorrect == Spec => []MapAndDiskType
<1>1. Init => MapAndDiskType
  BY DEF Init, MapAndDiskType, SnapshotInfo, DirState
<1>2. MapAndDiskType /\ [Next]_vars => MapAndDiskType'
  BY MapAndDiskTypeStep
<1> QED BY <1>1, <1>2, PTL DEF Spec

-----------------------------------------------------------------------------
Tree(p) == \A S \in SUBSET Keys : S # {} => \E k \in S : p[k] \notin S

ParentOf == [k \in Keys |-> snapshots[k].parent]

(* A parent relation stays a tree when some entries lose their parent and  *)
(* one key n, which is the parent of nobody, is given a new one.           *)
LEMMA TreeGrows ==
    ASSUME NEW p, NEW q, NEW n \in Keys,
           Tree(p),
           \A k \in Keys \ {n} : q[k] \in {p[k], None},
           \A k \in Keys : q[k] # n
    PROVE  Tree(q)
<1> SUFFICES ASSUME NEW S \in SUBSET Keys, S # {}
             PROVE  \E k \in S : q[k] \notin S
  BY DEF Tree
<1>1. CASE S = {n}
  BY <1>1
<1>2. CASE S # {n}
  <2>1. PICK m \in S \ {n} : p[m] \notin S \ {n}
    <3>1. S \ {n} \in SUBSET Keys /\ S \ {n} # {}
      BY <1>2
    <3> QED BY <3>1 DEF Tree
  <2>2. q[m] \notin S
    BY <2>1, NoneAssumption
  <2> QED BY <2>1, <2>2
<1> QED BY <1>1, <1>2

(* A parent relation stays a tree when entries only lose their parent.     *)
LEMMA TreeShrinks ==
    ASSUME NEW p, NEW q, Tree(p),
           \A k \in Keys : q[k] \in {p[k], None}
    PROVE  Tree(q)
<1> SUFFICES ASSUME NEW S \in SUBSET Keys, S # {}
             PROVE  \E k \in S : q[k] \notin S
  BY DEF Tree
<1>1. PICK m \in S : p[m] \notin S
  BY DEF Tree
<1> QED BY <1>1, NoneAssumption

LEMMA TreeOfSnapshots == SnapshotTree <=> Tree(ParentOf)
  BY DEF SnapshotTree, Tree, ParentOf

LEMMA TreeOfSnapshotsPrimed == SnapshotTree' <=> Tree(ParentOf')
  BY DEF SnapshotTree, Tree, ParentOf

(* A key that is not committed is the parent of nobody.                    *)
LEMMA OnlyCommittedHaveChildren ==
    ASSUME MapAndDiskType, ParentCommitted, NEW n \in Keys, ~Committed(n)
    PROVE  ~HasChild(n)
  BY NoneAssumption DEF ParentCommitted, HasChild

(* A new entry for n, whose parent is committed or empty, leaves the map   *)
(* a tree of committed parents: shared by Prepare and View.                *)
LEMMA NewChild ==
    ASSUME IInv, NEW key \in Keys, NEW parent \in Keys \cup {None}, NEW info,
           ~Exists(key), parent # None => Committed(parent),
           info.parent = parent, info.kind # "absent",
           snapshots' = [snapshots EXCEPT ![key] = info]
    PROVE  ParentCommitted' /\ SnapshotTree'
<1> USE DEF IInv
<1>1. ~HasChild(key) /\ parent # key
  BY OnlyCommittedHaveChildren, NoneAssumption DEF Exists, Committed
<1>2. \A k \in Keys \ {key} : snapshots'[k] = snapshots[k]
  BY DEF MapAndDiskType
<1>3. snapshots'[key] = info
  BY DEF MapAndDiskType
<1>4. ParentCommitted'
  <2> SUFFICES ASSUME NEW k \in Keys, snapshots'[k].parent # None
               PROVE  snapshots'[snapshots'[k].parent].kind = "committed"
    BY DEF ParentCommitted, Committed
  <2>1. CASE k = key
    BY <2>1, <1>1, <1>2, <1>3 DEF Committed
  <2>2. CASE k # key
    <3>1. snapshots[k].parent \in Keys
      BY <2>2, <1>2 DEF MapAndDiskType, SnapshotInfo, NoSnapshot
    <3> QED BY <2>2, <1>1, <1>2, <3>1 DEF ParentCommitted, Committed, HasChild
  <2> QED BY <2>1, <2>2
<1>5. SnapshotTree'
  <2>1. \A k \in Keys \ {key} : ParentOf'[k] = ParentOf[k]
    BY <1>2 DEF ParentOf
  <2>2. \A k \in Keys : ParentOf'[k] # key
    BY <1>1, <1>2, <1>3 DEF ParentOf, HasChild
  <2> QED BY <2>1, <2>2, TreeGrows, TreeOfSnapshots, TreeOfSnapshotsPrimed
<1> QED BY <1>4, <1>5

LEMMA CommitKeepsIInv ==
    ASSUME IInv, NEW key \in Keys, NEW name \in Keys, Commit(key, name)
    PROVE  ParentCommitted' /\ BackedByDir' /\ SnapshotTree'
<1> USE DEF IInv
<1>1. ~Committed(name) /\ ~Committed(key)
  BY DEF Commit, Committed, BackedByDir, RenameTarget
<1>2. ~HasChild(name) /\ ~HasChild(key)
  BY <1>1, OnlyCommittedHaveChildren
<1>3. snapshots'[name].parent = snapshots[key].parent /\ snapshots'[name].kind = "committed"
  BY DEF Commit, MapAndDiskType, SnapshotInfo, NoSnapshot
<1>4. key # name => snapshots'[key] = NoSnapshot
  BY DEF Commit
<1>5. \A k \in Keys \ {key, name} : snapshots'[k] = snapshots[k]
  BY DEF Commit
<1>6. ParentCommitted'
  <2> SUFFICES ASSUME NEW k \in Keys, snapshots'[k].parent # None
               PROVE  snapshots'[snapshots'[k].parent].kind = "committed"
    BY DEF ParentCommitted, Committed
  <2>1. PICK j \in Keys : snapshots'[k].parent = snapshots[j].parent
    BY <1>3, <1>4, <1>5 DEF NoSnapshot
  <2>2. snapshots[j].parent \in Keys \ {key, name}
    BY <2>1, <1>2 DEF MapAndDiskType, SnapshotInfo, NoSnapshot, HasChild
  <2> QED BY <2>1, <2>2, <1>5 DEF ParentCommitted, Committed
<1>7. BackedByDir'
  <2> SUFFICES ASSUME NEW k \in Keys, snapshots'[k].kind \in {"active", "committed"}
               PROVE  dirs'[k] # "absent"
    BY DEF BackedByDir
  <2>1. CASE k = name
    BY <2>1 DEF Commit, BackedByDir
  <2>2. CASE k # name
    <3>1. k # key
      BY <2>2, <1>4 DEF NoSnapshot
    <3> QED BY <2>2, <3>1, <1>5 DEF Commit, BackedByDir
  <2> QED BY <2>1, <2>2
<1>8. SnapshotTree'
  <2>1. \A k \in Keys \ {name} : ParentOf'[k] \in {ParentOf[k], None}
    BY <1>4, <1>5 DEF ParentOf, NoSnapshot
  <2>2. \A k \in Keys : ParentOf'[k] # name
    BY <1>2, <1>3, <1>4, <1>5, NoneAssumption DEF ParentOf, HasChild, NoSnapshot
  <2> QED BY <2>1, <2>2, TreeGrows, TreeOfSnapshots, TreeOfSnapshotsPrimed
<1> QED BY <1>6, <1>7, <1>8

LEMMA IInvStep ==
    ASSUME IInv, [Next]_vars
    PROVE  IInv'
<1> USE DEF IInv
<1>0. MapAndDiskType'
  BY MapAndDiskTypeStep
<1>1. ASSUME NEW key \in Keys, NEW parent \in Keys \cup {None}, Prepare(key, parent)
      PROVE  ParentCommitted' /\ BackedByDir' /\ SnapshotTree'
  <2>1. ParentCommitted' /\ SnapshotTree'
    <3> DEFINE info == [kind |-> "active", parent |-> parent, labels |-> {}]
    <3>1. info.parent = parent /\ info.kind # "absent"
      OBVIOUS
    <3>2. snapshots' = [snapshots EXCEPT ![key] = info]
      BY <1>1 DEF Prepare
    <3> HIDE DEF info
    <3> QED BY <1>1, <3>1, <3>2, NewChild DEF Prepare, CanPrepare
  <2>2. BackedByDir'
    BY <1>1, DiskResults DEF Prepare, BackedByDir, MapAndDiskType
  <2> QED BY <2>1, <2>2
<1>2. ASSUME NEW key \in Keys, NEW parent \in Keys \cup {None}, PrepareFails(key, parent)
      PROVE  ParentCommitted' /\ BackedByDir' /\ SnapshotTree'
  <2>1. BackedByDir'
    BY <1>2 DEF PrepareFails, CanPrepare, Exists, BackedByDir, MapAndDiskType
  <2> QED BY <1>2, <2>1 DEF PrepareFails, ParentCommitted, Committed, SnapshotTree
<1>3. ASSUME NEW key \in Keys, NEW parent \in Keys \cup {None}, View(key, parent)
      PROVE  ParentCommitted' /\ BackedByDir' /\ SnapshotTree'
  <2>1. ParentCommitted' /\ SnapshotTree'
    <3> DEFINE info == [kind |-> "view", parent |-> parent, labels |-> {}]
    <3>1. info.parent = parent /\ info.kind # "absent"
      OBVIOUS
    <3>2. snapshots' = [snapshots EXCEPT ![key] = info]
      BY <1>3 DEF View
    <3> HIDE DEF info
    <3> QED BY <1>3, <3>1, <3>2, NewChild DEF View
  <2>2. BackedByDir'
    BY <1>3 DEF View, BackedByDir, MapAndDiskType
  <2> QED BY <2>1, <2>2
<1>4. ASSUME NEW key \in Keys, NEW name \in Keys, Commit(key, name)
      PROVE  ParentCommitted' /\ BackedByDir' /\ SnapshotTree'
  BY <1>4, CommitKeepsIInv
<1>5. ASSUME NEW key \in Keys, Remove(key)
      PROVE  ParentCommitted' /\ BackedByDir' /\ SnapshotTree'
  <2>1. /\ snapshots'[key] = NoSnapshot
        /\ \A k \in Keys \ {key} : snapshots'[k] = snapshots[k]
    BY <1>5 DEF Remove, MapAndDiskType
  <2>2. ParentCommitted'
    <3> SUFFICES ASSUME NEW k \in Keys, snapshots'[k].parent # None
                 PROVE  snapshots'[snapshots'[k].parent].kind = "committed"
      BY DEF ParentCommitted, Committed
    <3>1. k # key /\ snapshots'[k] = snapshots[k]
      BY <2>1 DEF NoSnapshot
    <3>2. snapshots[k].parent \in Keys \ {key}
      BY <1>5, <3>1 DEF Remove, HasChild, MapAndDiskType, SnapshotInfo, NoSnapshot
    <3> QED BY <2>1, <3>1, <3>2 DEF ParentCommitted, Committed
  <2>3. BackedByDir'
    BY <1>5, <2>1 DEF Remove, BackedByDir, MapAndDiskType, NoSnapshot
  <2>4. SnapshotTree'
    <3>1. \A k \in Keys : ParentOf'[k] \in {ParentOf[k], None}
      BY <2>1 DEF ParentOf, NoSnapshot
    <3> QED BY <3>1, TreeShrinks, TreeOfSnapshots, TreeOfSnapshotsPrimed
  <2> QED BY <2>2, <2>3, <2>4
<1>6. ASSUME NEW key \in Keys, RemoveFails(key)
      PROVE  ParentCommitted' /\ BackedByDir' /\ SnapshotTree'
  <2>1. BackedByDir'
    BY <1>6, DiskResults DEF RemoveFails, BackedByDir, MapAndDiskType
  <2> QED BY <1>6, <2>1 DEF RemoveFails, ParentCommitted, Committed, SnapshotTree
<1>7. ASSUME NEW key \in Keys, Mounts(key)
      PROVE  ParentCommitted' /\ BackedByDir' /\ SnapshotTree'
  BY <1>7 DEF Mounts, ParentCommitted, Committed, BackedByDir, SnapshotTree
<1>8. ASSUME NEW key \in Keys, WriteLayer(key)
      PROVE  ParentCommitted' /\ BackedByDir' /\ SnapshotTree'
  BY <1>8 DEF WriteLayer, ParentCommitted, Committed, BackedByDir, SnapshotTree,
              MapAndDiskType
<1>9. ASSUME NEW key \in Keys, NEW labels \in SUBSET Labels, Update(key, labels)
      PROVE  ParentCommitted' /\ BackedByDir' /\ SnapshotTree'
  <2>1. \A k \in Keys : /\ snapshots'[k].kind = snapshots[k].kind
                        /\ snapshots'[k].parent = snapshots[k].parent
    BY <1>9 DEF Update, MapAndDiskType, SnapshotInfo, NoSnapshot
  <2>2. ParentCommitted'
    <3> SUFFICES ASSUME NEW k \in Keys, snapshots'[k].parent # None
                 PROVE  snapshots'[snapshots'[k].parent].kind = "committed"
      BY DEF ParentCommitted, Committed
    <3>1. snapshots[k].parent \in Keys
      BY <2>1 DEF MapAndDiskType, SnapshotInfo, NoSnapshot
    <3> QED BY <2>1, <3>1 DEF ParentCommitted, Committed
  <2>3. BackedByDir' /\ SnapshotTree'
    BY <1>9, <2>1 DEF Update, BackedByDir, SnapshotTree
  <2> QED BY <2>2, <2>3
<1>10. ASSUME Restart
       PROVE  ParentCommitted' /\ BackedByDir' /\ SnapshotTree'
  BY <1>10, NoneAssumption
     DEF Restart, NoSnapshot, ParentCommitted, Committed, BackedByDir, SnapshotTree
<1>11. ASSUME UNCHANGED vars
       PROVE  ParentCommitted' /\ BackedByDir' /\ SnapshotTree'
  BY <1>11 DEF vars, ParentCommitted, Committed, BackedByDir, SnapshotTree
<1> QED BY <1>0, <1>1, <1>2, <1>3, <1>4, <1>5, <1>6, <1>7, <1>8, <1>9, <1>10, <1>11
        DEF Next

LEMMA Inductive == Spec => []IInv
<1>1. Init => IInv
  BY NoneAssumption
     DEF Init, IInv, MapAndDiskType, SnapshotInfo, DirState, NoSnapshot,
         ParentCommitted, Committed, BackedByDir, SnapshotTree
<1>2. IInv /\ [Next]_vars => IInv'
  BY IInvStep
<1> QED BY <1>1, <1>2, PTL DEF Spec

(* The parent of every snapshot is committed and in the map: Remove,       *)
(* Commit's renaming and restarts never leave a child without its parent.  *)
THEOREM ParentsStay == Spec => []ParentCommitted
<1>1. IInv => ParentCommitted
  BY DEF IInv
<1> QED BY <1>1, Inductive, PTL

(* Every active or committed snapshot has its directory, whichever system  *)
(* calls fail.                                                             *)
THEOREM LayersStay == Spec => []BackedByDir
<1>1. IInv => BackedByDir
  BY DEF IInv
<1> QED BY <1>1, Inductive, PTL

(* The snapshots form a tree, so that parentChain terminates, although     *)
(* Commit never checks the name it commits to.                             *)
THEOREM AlwaysTree == Spec => []SnapshotTree
<1>1. IInv => SnapshotTree
  BY DEF IInv
<1> QED BY <1>1, Inductive, PTL

(* A committed snapshot keeps its kind and parent until it is removed or   *)
(* the daemon restarts: no Commit can replace it.                          *)
THEOREM CommittedStays == Spec => CommittedStable
<1> DEFINE Kept(k) == Committed(k) =>
                \/ snapshots'[k] = NoSnapshot
                \/ /\ snapshots'[k].kind = "committed"
                   /\ snapshots'[k].parent = snapshots[k].parent
<1>1. ASSUME IInv, [Next]_vars, NEW k \in Keys
      PROVE  Kept(k)
  <2> USE <1>1 DEF IInv, Committed
  <2>1. ASSUME NEW key \in Keys, NEW parent \in Keys \cup {None},
               Prepare(key, parent) \/ PrepareFails(key, parent) \/ View(key, parent)
        PROVE  Kept(k)
    BY <2>1 DEF Prepare, PrepareFails, View, CanPrepare, Exists, MapAndDiskType
  <2>2. ASSUME NEW key \in Keys, NEW name \in Keys, Commit(key, name)
        PROVE  Kept(k)
    BY <2>2 DEF Commit, BackedByDir, RenameTarget
  <2>3. ASSUME NEW key \in Keys,
               Remove(key) \/ RemoveFails(key) \/ Mounts(key) \/ WriteLayer(key)
        PROVE  Kept(k)
    BY <2>3 DEF Remove, RemoveFails, Mounts, WriteLayer, MapAndDiskType
  <2>4. ASSUME NEW key \in Keys, NEW labels \in SUBSET Labels, Update(key, labels)
        PROVE  Kept(k)
    BY <2>4 DEF Update, MapAndDiskType, SnapshotInfo, NoSnapshot
  <2>5. CASE Restart
    BY <2>5 DEF Restart
  <2>6. CASE UNCHANGED vars
    BY <2>6 DEF vars
  <2> QED BY <2>1, <2>2, <2>3, <2>4, <2>5, <2>6 DEF Next
<1>2. IInv /\ [Next]_vars => [\A k \in Keys : Kept(k)]_vars
  BY <1>1
<1> QED BY <1>2, Inductive, PTL DEF Spec, CommittedStable

-----------------------------------------------------------------------------
(* What parentChain computes.  Its loop follows the parents, so it is      *)
(* defined where they form a tree: the tree is the induction principle of  *)
(* the lemmas below, applied to the set of keys for which one fails.       *)

(* One round of the loop of parentChain over the parents p.                *)
Round(p, f, k) == IF p[k] = None THEN << >> ELSE <<p[k]>> \o f[p[k]]

ParentsIn(snaps) == [k \in Keys |-> snaps[k].parent]

(* g is the chain of every key of A, a set that has the parents of its     *)
(* members.                                                                *)
Solves(p, A, g) ==
    /\ A \subseteq Keys
    /\ \A k \in A : p[k] \in A \cup {None}
    /\ \A k \in A : g[k] = Round(p, g, k)

LEMMA ChainsAgree ==
    ASSUME NEW p, Tree(p), NEW A, NEW B, NEW g, NEW h,
           Solves(p, A, g), Solves(p, B, h), NEW k \in A \cap B
    PROVE  g[k] = h[k]
<1> DEFINE S == {j \in A \cap B : g[j] # h[j]}
<1> SUFFICES ASSUME S # {} PROVE FALSE
  OBVIOUS
<1>1. PICK m \in S : p[m] \notin S
  BY DEF Solves, Tree
<1>2. m \in A /\ m \in B /\ g[m] # h[m]
  OBVIOUS
<1>3. p[m] \in A \cap B \/ p[m] = None
  BY <1>2, NoneAssumption DEF Solves
<1>4. p[m] # None => g[p[m]] = h[p[m]]
  BY <1>1, <1>3
<1>5. g[m] = Round(p, g, m) /\ h[m] = Round(p, h, m)
  BY <1>2 DEF Solves
<1>6. Round(p, g, m) = Round(p, h, m)
  BY <1>4 DEF Round
<1> QED BY <1>2, <1>5, <1>6

LEMMA EveryKeyHasChain ==
    ASSUME NEW p, Tree(p), \A k \in Keys : p[k] \in Keys \cup {None}, NEW key \in Keys
    PROVE  \E A, g : Solves(p, A, g) /\ key \in A
<1> DEFINE Has(k) == \E A, g : Solves(p, A, g) /\ k \in A
           S == {k \in Keys : ~Has(k)}
<1> SUFFICES ASSUME S # {} PROVE FALSE
  OBVIOUS
<1>1. PICK m \in S : p[m] \notin S
  BY DEF Tree
<1>2. m \in Keys /\ ~Has(m)
  OBVIOUS
<1>3. CASE p[m] = None
  <2> DEFINE g == [k \in {m} |-> << >>]
  <2>1. Solves(p, {m}, g)
    BY <1>2, <1>3 DEF Solves, Round
  <2> QED BY <2>1, <1>2
<1>4. CASE p[m] \in Keys
  <2>1. PICK A, g : Solves(p, A, g) /\ p[m] \in A
    BY <1>1, <1>4
  <2>2. m \notin A
    BY <2>1, <1>2
  <2> DEFINE h == [k \in A \cup {m} |-> IF k = m THEN <<p[m]>> \o g[p[m]] ELSE g[k]]
  <2>3. h[m] = <<p[m]>> \o g[p[m]] /\ \A k \in A : h[k] = g[k]
    BY <2>2
  <2> HIDE DEF h
  <2>4. A \cup {m} \subseteq Keys /\ \A k \in A \cup {m} : p[k] \in A \cup {m} \cup {None}
    BY <2>1, <1>2 DEF Solves
  <2>5. h[m] = Round(p, h, m)
    BY <2>1, <2>3, <1>4, NoneAssumption DEF Round
  <2>6. ASSUME NEW k \in A PROVE h[k] = Round(p, h, k)
    <3>1. g[k] = Round(p, g, k) /\ p[k] \in A \cup {None}
      BY <2>1 DEF Solves
    <3>2. p[k] # None => h[p[k]] = g[p[k]]
      BY <3>1, <2>3
    <3> QED BY <3>1, <3>2, <2>3 DEF Round
  <2>7. Solves(p, A \cup {m}, h)
    BY <2>4, <2>5, <2>6 DEF Solves
  <2> QED BY <2>7, <1>2
<1> QED BY <1>2, <1>3, <1>4

(* The recursion of parentChain has a solution.                            *)
LEMMA ChainExists ==
    ASSUME NEW p, Tree(p), \A k \in Keys : p[k] \in Keys \cup {None}
    PROVE  \E f : f = [k \in Keys |-> Round(p, f, k)]
<1> DEFINE Is(k, s) == \E A, g : Solves(p, A, g) /\ k \in A /\ s = g[k]
           f == [k \in Keys |-> CHOOSE s : Is(k, s)]
<1>1. ASSUME NEW k \in Keys, NEW A, NEW g, Solves(p, A, g), k \in A
      PROVE  f[k] = g[k]
  <2>1. Is(k, g[k])
    BY <1>1
  <2>2. Is(k, f[k])
    BY <2>1
  <2>3. PICK B, h : Solves(p, B, h) /\ k \in B /\ f[k] = h[k]
    BY <2>2
  <2> QED BY <2>3, <1>1, ChainsAgree
<1> HIDE DEF f
<1>2. ASSUME NEW k \in Keys PROVE f[k] = Round(p, f, k)
  <2>1. PICK A, g : Solves(p, A, g) /\ k \in A
    BY EveryKeyHasChain
  <2>2. f[k] = g[k] /\ g[k] = Round(p, g, k) /\ p[k] \in A \cup {None}
    BY <2>1, <1>1 DEF Solves
  <2>3. p[k] # None => f[p[k]] = g[p[k]]
    BY <2>1, <2>2, <1>1
  <2> QED BY <2>2, <2>3 DEF Round
<1>3. f = [k \in Keys |-> f[k]]
  BY DEF f
<1>4. f = [k \in Keys |-> Round(p, f, k)]
  BY <1>2, <1>3, Zenon
<1> QED BY <1>4

(* parentChain takes the parent and goes on from there.                    *)
LEMMA ChainStep ==
    ASSUME NEW snaps, Tree(ParentsIn(snaps)),
           \A k \in Keys : snaps[k].parent \in Keys \cup {None}, NEW key \in Keys
    PROVE  parentChain(snaps, key) =
               IF snaps[key].parent = None THEN << >>
               ELSE <<snaps[key].parent>> \o parentChain(snaps, snaps[key].parent)
<1> DEFINE chain == CHOOSE f : f = [k \in Keys |-> IF snaps[k].parent = None THEN << >>
                                    ELSE <<snaps[k].parent>> \o f[snaps[k].parent]]
<1>1. \A k \in Keys : parentChain(snaps, k) = chain[k]
  BY Zenon DEF parentChain
<1>2. \E f : f = [k \in Keys |-> Round(ParentsIn(snaps), f, k)]
  <2>1. \A k \in Keys : ParentsIn(snaps)[k] \in Keys \cup {None}
    BY Zenon DEF ParentsIn
  <2> QED BY <2>1, ChainExists
<1>3. \E f : f = [k \in Keys |-> IF snaps[k].parent = None THEN << >>
                                 ELSE <<snaps[k].parent>> \o f[snaps[k].parent]]
  <2>1. PICK f : f = [k \in Keys |-> Round(ParentsIn(snaps), f, k)]
    BY <1>2
  <2>2. \A k \in Keys : Round(ParentsIn(snaps), f, k) =
            IF snaps[k].parent = None THEN << >> ELSE <<snaps[k].parent>> \o f[snaps[k].parent]
    BY Zenon DEF Round, ParentsIn
  <2>3. f = [k \in Keys |-> IF snaps[k].parent = None THEN << >>
                            ELSE <<snaps[k].parent>> \o f[snaps[k].parent]]
    BY <2>1, <2>2, Zenon
  <2> QED BY <2>3, Zenon
<1>4. chain = [k \in Keys |-> IF snaps[k].parent = None THEN << >>
                              ELSE <<snaps[k].parent>> \o chain[snaps[k].parent]]
  BY <1>3, Zenon
<1> HIDE DEF chain
<1> QED BY <1>1, <1>4

(* What holds of every parent holds of everything on a chain.              *)
LEMMA ChainMembers ==
    ASSUME NEW snaps, Tree(ParentsIn(snaps)), NEW C \in SUBSET Keys,
           \A k \in Keys : snaps[k].parent \in C \cup {None}, NEW key \in Keys
    PROVE  parentChain(snaps, key) \in Seq(C)
<1> DEFINE S == {k \in Keys : parentChain(snaps, k) \notin Seq(C)}
<1> SUFFICES ASSUME S # {} PROVE FALSE
  OBVIOUS
<1>1. PICK m \in S : ParentsIn(snaps)[m] \notin S
  BY DEF Tree
<1>2. m \in Keys /\ parentChain(snaps, m) \notin Seq(C)
  OBVIOUS
<1>3. snaps[m].parent \notin S
  BY <1>1, <1>2 DEF ParentsIn
<1>4. parentChain(snaps, m) =
          IF snaps[m].parent = None THEN << >>
          ELSE <<snaps[m].parent>> \o parentChain(snaps, snaps[m].parent)
  BY <1>2, ChainStep
<1>5. CASE snaps[m].parent = None
  <2>1. parentChain(snaps, m) = << >>
    BY <1>4, <1>5
  <2> QED BY <2>1, <1>2
<1>6. CASE snaps[m].parent # None
  <2>1. snaps[m].parent \in C /\ snaps[m].parent \in Keys
    BY <1>2, <1>6
  <2> DEFINE rest == parentChain(snaps, snaps[m].parent)
             first == snaps[m].parent
  <2>2. rest \in Seq(C)
    BY <2>1, <1>3
  <2>3. parentChain(snaps, m) = <<first>> \o rest
    BY <1>4, <1>6
  <2>4. first \in C
    BY <2>1
  <2> HIDE DEF rest, first
  <2>5. <<first>> \o rest \in Seq(C)
    BY <2>2, <2>4
  <2> QED BY <2>3, <2>5, <1>2
<1> QED BY <1>5, <1>6

(* A chain is the same in two maps that agree on a set of keys that has    *)
(* the parents of its members.                                             *)
LEMMA ChainsStay ==
    ASSUME NEW s, NEW t, Tree(ParentsIn(s)), Tree(ParentsIn(t)),
           \A k \in Keys : s[k].parent \in Keys \cup {None},
           \A k \in Keys : t[k].parent \in Keys \cup {None},
           NEW A \in SUBSET Keys,
           \A k \in A : s[k].parent \in A \cup {None} /\ t[k].parent = s[k].parent,
           NEW key \in A
    PROVE  parentChain(t, key) = parentChain(s, key)
<1> DEFINE S == {k \in A : parentChain(t, k) # parentChain(s, k)}
<1> SUFFICES ASSUME S # {} PROVE FALSE
  OBVIOUS
<1>1. PICK m \in S : ParentsIn(s)[m] \notin S
  BY DEF Tree
<1>2. m \in A /\ m \in Keys /\ parentChain(t, m) # parentChain(s, m)
  OBVIOUS
<1>3. s[m].parent \notin S /\ t[m].parent = s[m].parent
  BY <1>1, <1>2 DEF ParentsIn
<1>4. parentChain(s, m) =
          IF s[m].parent = None THEN << >>
          ELSE <<s[m].parent>> \o parentChain(s, s[m].parent)
  BY <1>2, ChainStep
<1>5. parentChain(t, m) =
          IF t[m].parent = None THEN << >>
          ELSE <<t[m].parent>> \o parentChain(t, t[m].parent)
  BY <1>2, ChainStep
<1>6. s[m].parent # None => parentChain(t, s[m].parent) = parentChain(s, s[m].parent)
  BY <1>2, <1>3
<1> QED BY <1>2, <1>3, <1>4, <1>5, <1>6

-----------------------------------------------------------------------------
(* Mounts.  The owner of an active snapshot or of a view holds the mount   *)
(* that the snapshotter would give it again: what is on its chain is       *)
(* committed, and no step changes the entry of a committed snapshot that   *)
(* has children.                                                           *)
MountsInv ==
    \A k \in Keys :
        snapshots[k].kind \in {"active", "view"} =>
            held[k] = mountsWithoutLock(snapshots, k)

HeldType == held \in [Keys -> Mount]

CommittedKeys == {k \in Keys : Committed(k)}

LEMMA ParentsOfSnapshots ==
    ASSUME IInv
    PROVE  /\ Tree(ParentsIn(snapshots))
           /\ \A k \in Keys : snapshots[k].parent \in Keys \cup {None}
           /\ \A k \in Keys : snapshots[k].parent \in CommittedKeys \cup {None}
<1>1. Tree(ParentsIn(snapshots))
  BY Zenon DEF IInv, SnapshotTree, Tree, ParentsIn
<1>2. ASSUME NEW k \in Keys PROVE snapshots[k].parent \in Keys \cup {None}
  <2>1. snapshots[k] \in SnapshotInfo
    BY DEF IInv, MapAndDiskType
  <2> QED BY <2>1 DEF SnapshotInfo, NoSnapshot
<1>3. ASSUME NEW k \in Keys PROVE snapshots[k].parent \in CommittedKeys \cup {None}
  BY <1>2 DEF IInv, ParentCommitted, CommittedKeys
<1> QED BY <1>1, <1>2, <1>3

LEMMA ParentsOfSnapshotsPrimed ==
    ASSUME IInv'
    PROVE  /\ Tree(ParentsIn(snapshots'))
           /\ \A k \in Keys : snapshots'[k].parent \in Keys \cup {None}
<1>1. Tree(ParentsIn(snapshots'))
  BY DEF IInv, SnapshotTree, Tree, ParentsIn
<1>2. ASSUME NEW k \in Keys PROVE snapshots'[k].parent \in Keys \cup {None}
  <2>1. snapshots'[k] \in SnapshotInfo
    BY DEF IInv, MapAndDiskType
  <2> QED BY <2>1 DEF SnapshotInfo, NoSnapshot
<1> QED BY <1>1, <1>2

LEMMA MountTyped ==
    ASSUME NEW snaps, Tree(ParentsIn(snaps)),
           \A k \in Keys : snaps[k].parent \in Keys \cup {None}, NEW key \in Keys
    PROVE  mountsWithoutLock(snaps, key) \in Mount
<1>1. parentChain(snaps, key) \in Seq(Keys)
  BY ChainMembers
<1>2. << >> \in Seq(Keys)
  OBVIOUS
<1> QED BY <1>1, <1>2 DEF mountsWithoutLock, Mount

(* The mount of k is what it was after a step that changes the entries of  *)
(* D only, if D has no children.                                           *)
LEMMA SameMount ==
    ASSUME IInv, IInv', NEW D \in SUBSET Keys,
           \A k \in Keys \ D : /\ snapshots'[k].kind = snapshots[k].kind
                               /\ snapshots'[k].parent = snapshots[k].parent
                               /\ snapshots[k].parent \notin D,
           NEW k \in Keys \ D
    PROVE  mountsWithoutLock(snapshots', k) = mountsWithoutLock(snapshots, k)
<1>1. PICK A \in SUBSET Keys : A = Keys \ D
  OBVIOUS
<1>2. \A j \in A : /\ snapshots[j].parent \in A \cup {None}
                   /\ snapshots'[j].parent = snapshots[j].parent
  BY <1>1, ParentsOfSnapshots
<1>3. k \in A
  BY <1>1
<1>4. parentChain(snapshots', k) = parentChain(snapshots, k)
  BY <1>2, <1>3, ChainsStay, ParentsOfSnapshots, ParentsOfSnapshotsPrimed
<1>5. snapshots'[k].kind = snapshots[k].kind
  OBVIOUS
<1> QED BY <1>4, <1>5 DEF mountsWithoutLock

(* A step keeps MountsInv if it disturbs no ancestor and leaves no stale   *)
(* mount with what it disturbs.                                            *)
LEMMA MountsKept ==
    ASSUME IInv, IInv', MountsInv, NEW D \in SUBSET Keys,
           \A k \in Keys \ D : /\ snapshots'[k].kind = snapshots[k].kind
                               /\ snapshots'[k].parent = snapshots[k].parent
                               /\ snapshots[k].parent \notin D
                               /\ held'[k] \in {held[k], mountsWithoutLock(snapshots', k)},
           \A k \in D : snapshots'[k].kind \in {"active", "view"}
                            => held'[k] = mountsWithoutLock(snapshots', k)
    PROVE  MountsInv'
<1> SUFFICES ASSUME NEW k \in Keys, snapshots'[k].kind \in {"active", "view"}
             PROVE  held'[k] = mountsWithoutLock(snapshots', k)
  BY DEF MountsInv
<1>1. CASE k \in D
  BY <1>1
<1>2. CASE k \notin D
  <2>1. mountsWithoutLock(snapshots', k) = mountsWithoutLock(snapshots, k)
    BY <1>2, SameMount
  <2>2. held[k] = mountsWithoutLock(snapshots, k)
    BY <1>2 DEF MountsInv
  <2> QED BY <1>2, <2>1, <2>2
<1> QED BY <1>1, <1>2

LEMMA MountsStep ==
    ASSUME IInv, HeldType, MountsInv, [Next]_vars
    PROVE  HeldType' /\ MountsInv'
<1>0. IInv'
  BY IInvStep
<1>1. \A k \in Keys : mountsWithoutLock(snapshots', k) \in Mount
  BY <1>0, MountTyped, ParentsOfSnapshotsPrimed
<1>2. NoMount \in Mount
  BY DEF NoMount, Mount
<1>3. ASSUME NEW n \in Keys, ~Committed(n), NEW k \in Keys PROVE snapshots[k].parent # n
  BY <1>3, OnlyCommittedHaveChildren DEF IInv, HasChild
<1>4. ASSUME NEW key \in Keys, NEW parent \in Keys \cup {None},
             Prepare(key, parent) \/ View(key, parent)
      PROVE  HeldType' /\ MountsInv'
  <2>1. ~Committed(key)
    BY <1>4 DEF Prepare, CanPrepare, View, Exists, Committed
  <2>2. \A k \in Keys \ {key} : snapshots'[k] = snapshots[k]
    BY <1>4 DEF Prepare, View, IInv, MapAndDiskType
  <2>3. held' = [held EXCEPT ![key] = mountsWithoutLock(snapshots', key)]
    BY <1>4 DEF Prepare, View
  <2>4. \A k \in Keys : snapshots[k].parent \notin {key}
    BY <2>1, <1>3
  <2>5. /\ held'[key] = mountsWithoutLock(snapshots', key)
        /\ \A k \in Keys \ {key} : held'[k] = held[k]
    BY <2>3 DEF HeldType
  <2>6. HeldType'
    BY <2>3, <1>1 DEF HeldType
  <2>7. PICK D \in SUBSET Keys : D = {key}
    OBVIOUS
  <2>8. MountsInv'
    BY <2>2, <2>4, <2>5, <2>7, <1>0, MountsKept
  <2> QED BY <2>6, <2>8
<1>5. ASSUME NEW key \in Keys, NEW name \in Keys, Commit(key, name)
      PROVE  HeldType' /\ MountsInv'
  <2>1. ~Committed(key) /\ ~Committed(name)
    BY <1>5 DEF Commit, Committed, IInv, BackedByDir, RenameTarget
  <2>2. \A k \in Keys \ {key, name} : snapshots'[k] = snapshots[k]
    BY <1>5 DEF Commit
  <2>3. \A k \in {key, name} : snapshots'[k].kind \notin {"active", "view"}
    BY <1>5 DEF Commit, NoSnapshot, IInv, MapAndDiskType, SnapshotInfo
  <2>4. held' = [held EXCEPT ![key] = NoMount]
    BY <1>5 DEF Commit
  <2>5. \A k \in Keys : snapshots[k].parent \notin {key, name}
    BY <2>1, <1>3
  <2>6. \A k \in Keys \ {key, name} : held'[k] = held[k]
    BY <2>4 DEF HeldType
  <2> QED BY <2>2, <2>3, <2>4, <2>5, <2>6, <1>0, <1>2, MountsKept DEF HeldType
<1>6. ASSUME NEW key \in Keys, Remove(key)
      PROVE  HeldType' /\ MountsInv'
  <2>1. \A k \in Keys \ {key} : snapshots'[k] = snapshots[k]
    BY <1>6 DEF Remove, IInv, MapAndDiskType
  <2>2. snapshots'[key].kind \notin {"active", "view"}
    BY <1>6 DEF Remove, NoSnapshot, IInv, MapAndDiskType
  <2>3. held' = [held EXCEPT ![key] = NoMount]
    BY <1>6 DEF Remove
  <2>4. \A k \in Keys : snapshots[k].parent \notin {key}
    BY <1>6 DEF Remove, HasChild
  <2>5. \A k \in Keys \ {key} : held'[k] = held[k]
    BY <2>3 DEF HeldType
  <2>6. HeldType'
    BY <2>3, <1>2 DEF HeldType
  <2>7. PICK D \in SUBSET Keys : D = {key}
    OBVIOUS
  <2>8. MountsInv'
    BY <2>1, <2>2, <2>4, <2>5, <2>7, <1>0, MountsKept
  <2> QED BY <2>6, <2>8
<1>7. ASSUME NEW key \in Keys, Mounts(key)
      PROVE  HeldType' /\ MountsInv'
  <2>1. snapshots' = snapshots
    BY <1>7 DEF Mounts
  <2>2. held' = [held EXCEPT ![key] = mountsWithoutLock(snapshots', key)]
    BY <1>7, <2>1 DEF Mounts
  <2>3. PICK D \in SUBSET Keys : D = {}
    OBVIOUS
  <2> QED BY <2>1, <2>2, <2>3, <1>0, <1>1, MountsKept DEF HeldType
<1>8. ASSUME NEW key \in Keys, NEW labels \in SUBSET Labels, Update(key, labels)
      PROVE  HeldType' /\ MountsInv'
  <2>1. \A k \in Keys : /\ snapshots'[k].kind = snapshots[k].kind
                        /\ snapshots'[k].parent = snapshots[k].parent
    BY <1>8 DEF Update, IInv, MapAndDiskType, SnapshotInfo, NoSnapshot
  <2>2. held' = held
    BY <1>8 DEF Update
  <2>3. PICK D \in SUBSET Keys : D = {}
    OBVIOUS
  <2> QED BY <2>1, <2>2, <2>3, <1>0, MountsKept DEF HeldType
<1>9. CASE Restart
  <2>1. \A k \in Keys : snapshots'[k].kind \notin {"active", "view"}
    BY <1>9 DEF Restart, NoSnapshot
  <2>2. held' = held
    BY <1>9 DEF Restart
  <2> QED BY <2>1, <2>2 DEF HeldType, MountsInv
<1>10. CASE UNCHANGED <<snapshots, held>>
  BY <1>10 DEF HeldType, MountsInv
<1>11. ASSUME NEW key \in Keys,
              RemoveFails(key) \/ WriteLayer(key) \/
                  \E parent \in Keys \cup {None} : PrepareFails(key, parent)
       PROVE  UNCHANGED <<snapshots, held>>
  BY <1>11 DEF RemoveFails, WriteLayer, PrepareFails
<1>12. CASE UNCHANGED vars
  BY <1>10, <1>12 DEF vars
<1> QED BY <1>4, <1>5, <1>6, <1>7, <1>8, <1>9, <1>10, <1>11, <1>12 DEF Next

LEMMA MountsInductive == Spec => [](HeldType /\ MountsInv)
<1>1. Init => HeldType /\ MountsInv
  <2>1. NoMount \in Mount
    BY DEF NoMount, Mount
  <2> QED BY <2>1 DEF Init, NoSnapshot, HeldType, MountsInv
<1>2. IInv /\ HeldType /\ MountsInv /\ [Next]_vars => (HeldType /\ MountsInv)'
  BY MountsStep
<1> QED BY <1>1, <1>2, Inductive, PTL DEF Spec

(* What Prepare, View and Mounts hand out are mounts: the loop of          *)
(* parentChain ends and collects keys.                                     *)
THEOREM MountsAreTyped == Spec => []TypeOK
<1>1. IInv /\ HeldType => TypeOK
  BY DEF IInv, HeldType, TypeOK
<1> QED BY <1>1, Inductive, MountsInductive, PTL

(* As long as a snapshot is active or a view, the mount its owner holds    *)
(* names the layers that Mounts would name today, and each of them is      *)
(* committed and has its directory, whatever is committed, removed or      *)
(* prepared meanwhile.                                                     *)
THEOREM MountsStayCurrent == Spec => []MountsCurrent
<1>1. ASSUME IInv, MountsInv PROVE MountsCurrent
  <2> SUFFICES ASSUME NEW k \in Keys, snapshots[k].kind \in {"active", "view"},
                      NEW i \in DOMAIN held[k].lowers
               PROVE  /\ Committed(held[k].lowers[i])
                      /\ dirs[held[k].lowers[i]] # "absent"
    BY <1>1 DEF MountsCurrent, MountsInv
  <2>1. CommittedKeys \in SUBSET Keys
    BY DEF CommittedKeys
  <2>2. parentChain(snapshots, k) \in Seq(CommittedKeys)
    BY <1>1, <2>1, ChainMembers, ParentsOfSnapshots
  <2>3. held[k].lowers \in Seq(CommittedKeys)
    <3>1. held[k] = mountsWithoutLock(snapshots, k)
      BY <1>1 DEF MountsInv
    <3>2. << >> \in Seq(CommittedKeys)
      OBVIOUS
    <3> QED BY <2>2, <3>1, <3>2 DEF mountsWithoutLock
  <2>4. held[k].lowers[i] \in CommittedKeys
    BY <2>3
  <2> QED BY <1>1, <2>4 DEF CommittedKeys, Committed, IInv, BackedByDir
<1>2. IInv /\ MountsInv => MountsCurrent
  BY <1>1
<1> QED BY <1>2, Inductive, MountsInductive, PTL
=============================================================================
