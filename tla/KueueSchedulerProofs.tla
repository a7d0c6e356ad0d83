------------------------ MODULE KueueSchedulerProofs ------------------------
(***************************************************************************)
(* Proofs about KueueScheduler, for any queues, flavors and workloads and  *)
(* requests that come one after the other.                                 *)
(*                                                                         *)
(* What does not depend on how clients behave is proved first: every       *)
(* workload that was submitted is in exactly one list (PlaceInv) and the   *)
(* queues are sorted (QueuesSorted).  The rest assumes of the clients what *)
(* the code does not enforce: they finish only what is admitted            *)
(* (FinishOnce), and no two workloads have one name (UniqueNames).  Then   *)
(* the status tells the list (StatusInv), FlavorQuota.Used is the sum of   *)
(* what runs in the flavor (UsedIsGranted), and what a pass checked is     *)
(* still so when it acts on it (PassInv): the quota is kept, admission is  *)
(* in order, a pass is maximal, and the scheduler implements the ledger.   *)
(***************************************************************************)
EXTENDS KueueScheduler, FiniteSetTheorems, SequenceTheorems, TLAPS

-----------------------------------------------------------------------------
(***************************************************************************)
(* SumFunctionOnSet(f, S), the sum of f[x] over a finite set S.  It is a   *)
(* fold that takes the elements of S in the order in which CHOOSE finds    *)
(* them.  What is needed of it is that the order makes no difference: any  *)
(* element can be split off (SumRemove).                                   *)
(*                                                                         *)
(* The library's induction theorems take a predicate as a parameter, which *)
(* the provers cannot instantiate.  The inductions here go by the smallest *)
(* counterexample instead: strict inclusion is well founded on the subsets *)
(* of a finite set.                                                        *)
(***************************************************************************)

(* A nonempty collection of subsets of a finite set has a minimal element. *)
LEMMA SmallestSet ==
    ASSUME NEW S, IsFiniteSet(S), NEW Bad, Bad \subseteq SUBSET S, Bad # {}
    PROVE  \E T \in Bad : \A U \in SUBSET T : U # T => U \notin Bad
<1>1. IsWellFoundedOn(StrictSubsetOrdering(S), FiniteSubsetsOf(S))
  BY FS_StrictSubsetOrderingWellFounded
<1>2. Bad \subseteq FiniteSubsetsOf(S)
  BY FS_Subset DEF FiniteSubsetsOf
<1>3. PICK T \in Bad : \A U \in Bad : <<U, T>> \notin StrictSubsetOrdering(S)
  BY <1>1, <1>2, WFMin
<1> QED BY <1>3 DEF StrictSubsetOrdering

-----------------------------------------------------------------------------
(* The recursion behind the fold.                                          *)

First(s) == CHOOSE x \in s : TRUE

LEMMA FirstIn == ASSUME NEW s, s # {} PROVE First(s) \in s
BY DEF First

(* What the fold makes of s, when g holds what it makes of smaller sets.   *)
Step(f, g, s) == IF s = {} THEN 0 ELSE f[First(s)] + g[s \ {First(s)}]

Sums(g, f, S) == g = [s \in SUBSET S |-> Step(f, g, s)]

LEMMA SumIsFold ==
    ASSUME NEW f, NEW S
    PROVE  SumFunctionOnSet(f, S) = (CHOOSE g : Sums(g, f, S))[S]
BY DEF SumFunctionOnSet, FoldFunctionOnSet, MapThenFoldSet, Sums, Step, First

LEMMA SumsAt ==
    ASSUME NEW f, NEW S, NEW g, Sums(g, f, S), NEW s \in SUBSET S
    PROVE  g[s] = Step(f, g, s)
BY DEF Sums

(* Two functions that satisfy the recursion agree where both are defined.  *)
LEMMA SumsAgree ==
    ASSUME NEW f, NEW S, IsFiniteSet(S), NEW T, S \subseteq T,
           NEW g, Sums(g, f, S), NEW h, Sums(h, f, T)
    PROVE  g[S] = h[S]
<1> DEFINE Bad == {s \in SUBSET S : g[s] # h[s]}
<1>1. Bad = {}
  <2> SUFFICES ASSUME Bad # {} PROVE FALSE
    OBVIOUS
  <2>0. Bad \subseteq SUBSET S /\ Bad # {}
    OBVIOUS
  <2>1. PICK s \in Bad : \A u \in SUBSET s : u # s => u \notin Bad
    <3> HIDE DEF Bad
    <3> QED BY <2>0, SmallestSet
  <2>2. g[s] = Step(f, g, s) /\ h[s] = Step(f, h, s)
    BY SumsAt
  <2>3. s # {}
    BY <2>1, <2>2 DEF Step
  <2>4. g[s \ {First(s)}] = h[s \ {First(s)}]
    BY <2>1, <2>3, FirstIn
  <2> QED BY <2>1, <2>2, <2>4 DEF Step
<1> QED BY <1>1

(* The recursion has a solution on the subsets of every finite set.        *)
LEMMA SumsExist ==
    ASSUME NEW f, NEW S, IsFiniteSet(S)
    PROVE  \E g : Sums(g, f, S)
<1> DEFINE Bad == {T \in SUBSET S : ~ \E g : Sums(g, f, T)}
<1> SUFFICES ASSUME Bad # {} PROVE FALSE
  OBVIOUS
<1>0. Bad \subseteq SUBSET S /\ Bad # {}
  OBVIOUS
<1>1. PICK T \in Bad : \A U \in SUBSET T : U # T => U \notin Bad
  <2> HIDE DEF Bad
  <2> QED BY <1>0, SmallestSet
<1> DEFINE G(U) == CHOOSE g : Sums(g, f, U)
           V(s) == IF s = {} THEN 0 ELSE f[First(s)] + G(s \ {First(s)})[s \ {First(s)}]
           k == [s \in SUBSET T |-> V(s)]
<1>2. ASSUME NEW U \in SUBSET T, U # T PROVE Sums(G(U), f, U) /\ IsFiniteSet(U)
  <2>1. U \in SUBSET S /\ U \notin Bad
    BY <1>0, <1>1, <1>2
  <2>2. \E g : Sums(g, f, U)
    BY <2>1
  <2> QED BY <2>1, <2>2, FS_Subset
<1>3. ASSUME NEW U \in SUBSET T, U # T PROVE G(U)[U] = V(U)
  <2>1. G(U)[U] = Step(f, G(U), U)
    <3>1. Sums(G(U), f, U)
      BY <1>2, <1>3
    <3> HIDE DEF G
    <3> QED BY <3>1, SumsAt
  <2>2. CASE U = {}
    BY <2>1, <2>2 DEF Step
  <2>3. CASE U # {}
    <3> DEFINE W == U \ {First(U)}
    <3>1. W \in SUBSET U /\ W \in SUBSET T /\ W # T
      BY <1>3
    <3>2. Sums(G(W), f, W) /\ IsFiniteSet(W) /\ Sums(G(U), f, U)
      BY <1>2, <1>3, <3>1
    <3> HIDE DEF W, G
    <3>3. G(W)[W] = G(U)[W]
      BY <3>1, <3>2, SumsAgree
    <3> QED BY <2>1, <2>3, <3>3 DEF Step, W
  <2> QED BY <2>2, <2>3
<1>4. ASSUME NEW s \in SUBSET T PROVE V(s) = Step(f, k, s)
  <2>1. CASE s = {}
    BY <2>1 DEF Step
  <2>2. CASE s # {}
    <3> DEFINE W == s \ {First(s)}
    <3>1. W \in SUBSET T /\ W # T
      BY <2>2, FirstIn
    <3>2. k[W] = V(W) /\ G(W)[W] = V(W)
      BY <1>3, <3>1
    <3> QED BY <2>2, <3>2 DEF Step
  <2> QED BY <2>1, <2>2
<1>5. Sums(k, f, T)
  BY <1>4 DEF Sums
<1> QED BY <1>1, <1>5

-----------------------------------------------------------------------------
(* Sums of integers.                                                       *)

(* The sum is the value that any solution has for the set.                 *)
LEMMA SumIsSolution ==
    ASSUME NEW f, NEW S, IsFiniteSet(S), NEW T, S \subseteq T, NEW g, Sums(g, f, T)
    PROVE  SumFunctionOnSet(f, S) = g[S]
<1> DEFINE h == CHOOSE x : Sums(x, f, S)
<1>1. Sums(h, f, S)
  BY SumsExist
<1>2. SumFunctionOnSet(f, S) = h[S]
  BY SumIsFold
<1> HIDE DEF h
<1> QED BY <1>1, <1>2, SumsAgree

LEMMA SumEmpty == ASSUME NEW f PROVE SumFunctionOnSet(f, {}) = 0
<1>1. IsFiniteSet({})
  BY FS_EmptySet
<1>2. PICK g : Sums(g, f, {})
  BY <1>1, SumsExist
<1>3. SumFunctionOnSet(f, {}) = g[{}]
  BY <1>1, <1>2, SumIsSolution
<1>4. g[{}] = Step(f, g, {})
  BY <1>2, SumsAt
<1> QED BY <1>3, <1>4 DEF Step

LEMMA SumFirst ==
    ASSUME NEW f, NEW S, IsFiniteSet(S), S # {}
    PROVE  SumFunctionOnSet(f, S) = f[First(S)] + SumFunctionOnSet(f, S \ {First(S)})
<1> DEFINE W == S \ {First(S)}
<1>1. PICK g : Sums(g, f, S)
  BY SumsExist
<1>2. IsFiniteSet(W) /\ W \subseteq S
  BY FS_Subset
<1>3. SumFunctionOnSet(f, S) = g[S] /\ g[S] = Step(f, g, S)
  BY <1>1, SumIsSolution, SumsAt
<1>4. SumFunctionOnSet(f, W) = g[W]
  <2> HIDE DEF W
  <2> QED BY <1>1, <1>2, SumIsSolution
<1> QED BY <1>3, <1>4 DEF Step

(* A sum of integers is an integer.                                        *)
LEMMA SumInt ==
    ASSUME NEW S, IsFiniteSet(S), NEW f, \A x \in S : f[x] \in Int
    PROVE  SumFunctionOnSet(f, S) \in Int
<1> DEFINE Bad == {T \in SUBSET S : SumFunctionOnSet(f, T) \notin Int}
<1> SUFFICES ASSUME Bad # {} PROVE FALSE
  OBVIOUS
<1>0. Bad \subseteq SUBSET S /\ Bad # {}
  OBVIOUS
<1>1. PICK T \in Bad : \A U \in SUBSET T : U # T => U \notin Bad
  <2> HIDE DEF Bad
  <2> QED BY <1>0, SmallestSet
<1>2. T \in SUBSET S /\ SumFunctionOnSet(f, T) \notin Int /\ IsFiniteSet(T)
  BY <1>1, FS_Subset
<1>3. T # {}
  BY <1>2, SumEmpty
<1>4. First(T) \in T /\ f[First(T)] \in Int
  BY <1>2, <1>3, FirstIn
<1>5. SumFunctionOnSet(f, T \ {First(T)}) \in Int
  BY <1>1, <1>2, <1>4
<1>6. SumFunctionOnSet(f, T) = f[First(T)] + SumFunctionOnSet(f, T \ {First(T)})
  BY <1>2, <1>3, SumFirst
<1> QED BY <1>2, <1>4, <1>5, <1>6

(* Any element can be split off: the order of the fold does not matter.    *)
LEMMA SumRemove ==
    ASSUME NEW S, IsFiniteSet(S), NEW f, \A x \in S : f[x] \in Int, NEW y \in S
    PROVE  SumFunctionOnSet(f, S) = f[y] + SumFunctionOnSet(f, S \ {y})
<1> DEFINE Sum(T) == SumFunctionOnSet(f, T)
           Split(T, x) == Sum(T) = f[x] + Sum(T \ {x})
           Bad == {T \in SUBSET S : \E x \in T : ~ Split(T, x)}
<1> SUFFICES ASSUME Bad # {} PROVE FALSE
  OBVIOUS
<1>0. Bad \subseteq SUBSET S /\ Bad # {}
  OBVIOUS
<1>1. PICK T \in Bad : \A U \in SUBSET T : U # T => U \notin Bad
  <2> HIDE DEF Bad
  <2> QED BY <1>0, SmallestSet
<1>2. PICK x \in T : ~ Split(T, x)
  BY <1>1
<1> DEFINE c == First(T)
           A == T \ {c}
           B == T \ {x}
           W == T \ {c, x}
<1>3. T \in SUBSET S /\ c \in T /\ IsFiniteSet(T)
  BY <1>1, <1>2, FirstIn, FS_Subset
<1>4. Sum(T) = f[c] + Sum(A)
  BY <1>2, <1>3, SumFirst
<1>5. c # x
  BY <1>2, <1>4
<1>6. x \in A /\ c \in B /\ A \ {x} = W /\ B \ {c} = W
  BY <1>3, <1>5
<1>7. /\ A \in SUBSET T /\ A # T /\ B \in SUBSET T /\ B # T
      /\ W \in SUBSET S /\ IsFiniteSet(W)
  BY <1>3, FS_Subset
<1>8. A \notin Bad /\ B \notin Bad
  <2> HIDE DEF Bad
  <2> QED BY <1>1, <1>7
<1>9. Split(A, x) /\ Split(B, c)
  BY <1>3, <1>6, <1>7, <1>8
<1>10. Sum(A) = f[x] + Sum(W) /\ Sum(B) = f[c] + Sum(W)
  BY <1>6, <1>9
<1>11. f[x] \in Int /\ f[c] \in Int /\ Sum(W) \in Int
  BY <1>3, <1>7, SumInt
<1>12. Sum(T) = f[x] + Sum(B)
  <2> HIDE DEF Sum, A, B, W, c
  <2> QED BY <1>4, <1>10, <1>11
<1> QED BY <1>2, <1>12

(* Adding an element that is not in the set adds its value.                *)
LEMMA SumAdd ==
    ASSUME NEW S, IsFiniteSet(S), NEW y, y \notin S,
           NEW f, \A x \in S \cup {y} : f[x] \in Int
    PROVE  SumFunctionOnSet(f, S \cup {y}) = f[y] + SumFunctionOnSet(f, S)
<1>1. IsFiniteSet(S \cup {y}) /\ (S \cup {y}) \ {y} = S
  BY FS_AddElement
<1>2. SumFunctionOnSet(f, S \cup {y}) = f[y] + SumFunctionOnSet(f, (S \cup {y}) \ {y})
  BY <1>1, SumRemove
<1> QED BY <1>1, <1>2

-----------------------------------------------------------------------------
(* A name denotes one workload: FinishByName takes the first workload of   *)
(* that name, which may have finished long ago if a name is used again.    *)
UniqueNames == \A v, w \in Workloads : Name[v] = Name[w] => v = w

-----------------------------------------------------------------------------
(* The inductive invariant.                                                *)

HeldBy(ps) == ToSet(ps.toRetry) \cup ({ps.cur} \ {None})

(* What a pass holds at each point of Schedule.                            *)
PassOK(ps) ==
    /\ ps.pc \in {"idle", "range"} => ps.cq = None /\ ps.toRetry = << >>
    /\ ps.pc \in {"dequeue", "fit", "reserve", "requeue"} => ps.cq \in ClusterQueues
    /\ ps.pc \in {"fit", "reserve"} <=> ps.cur \in Workloads
    /\ ps.pc = "reserve" => ps.flavor \in FlavorNames
    /\ \A w \in HeldBy(ps) : RouteOf[w] = ps.cq

TypesInv ==
    /\ TypeOK
    /\ \A p \in Passes : PassOK(pass[p]) /\ \A w \in HeldBy(pass[p]) : created[w] > 0

(* w is in exactly one of its queue q, the hands hs of the passes, its     *)
(* list a of active workloads and the workloads fr not submitted.          *)
OnePlace(w, q, hs, a, fr) ==
    /\ w \in q => w \notin a \cup fr
    /\ w \in a => w \notin fr
    /\ \A p \in Passes : w \in hs[p] => w \notin q \cup a \cup fr
    /\ \A p1, p2 \in Passes : w \in hs[p1] /\ w \in hs[p2] => p1 = p2
    /\ w \in q \cup a \cup fr \/ \E p \in Passes : w \in hs[p]

PlacedOK(qs, hs, ac, fr) ==
    \A w \in Workloads : OnePlace(w, qs[RouteOf[w]], hs, ac[RouteOf[w]], fr)

Members(qs) == [cq \in ClusterQueues |-> ToSet(qs[cq])]
InQueue == Members(queue)
InActive == Members(active)
InPass == [p \in Passes |-> HeldBy(pass[p])]
Fresh == {w \in Workloads : status[w] = "new"}

ListsOK(qs) == \A cq \in ClusterQueues : IsInjective(qs[cq])

HandOK(ps) == IsInjective(ps.toRetry) /\ ps.cur \notin ToSet(ps.toRetry)

PlaceInv ==
    /\ PlacedOK(InQueue, InPass, InActive, Fresh)
    /\ ListsOK(queue) /\ ListsOK(active)
    /\ \A p \in Passes : HandOK(pass[p])

(* The queue is in the order of sortQueue.                                 *)
Sorted(age, q) == \A i, j \in DOMAIN q : i < j => ~Precedes(age, q[j], q[i])

QueuesSorted == \A cq \in ClusterQueues : Sorted(created, queue[cq])

(* The status of a workload tells which list it is in.                     *)
StatusOK(qs, hs, ac, st) ==
    \A w \in Workloads :
        /\ w \in qs[RouteOf[w]] => st[w] = "Pending"
        /\ w \in ac[RouteOf[w]] => st[w] \in {"Admitted", "Finished"}
        /\ \A p \in Passes : w \in hs[p] => st[w] = "Pending"

StatusInv == StatusOK(InQueue, InPass, InActive, status)

(* No flavor of w's ClusterQueue has room for it when u is used.           *)
Room(u, f, w) ==
    /\ DOMAIN Request[w] \subseteq DOMAIN Quota[f]
    /\ \A r \in DOMAIN Request[w] : TotalRequests(w)[r] <= Quota[f][r] - u[f][r]
NoRoom(u, w) == \A i \in DOMAIN Flavors[RouteOf[w]] : ~Room(u, Flavors[RouteOf[w]][i], w)

(* What a pass has checked still holds: the flavor that it chose has room, *)
(* and the workloads that it could not admit, of this ClusterQueue or an   *)
(* earlier one, do not fit. What is left in the queue comes after the      *)
(* workload in hand.                                                       *)
CheckedOK(ps, u, age, qs) ==
    /\ ps.pc = "reserve" => ps.flavor \in ToSet(Flavors[ps.cq]) /\ Room(u, ps.flavor, ps.cur)
    /\ \A w \in ToSet(ps.toRetry) : NoRoom(u, w)
    /\ ps.pc # "idle" =>
          \A cq \in ClusterQueues \ (ps.left \cup {ps.cq}) : \A w \in qs[cq] : NoRoom(u, w)
    /\ ps.pc = "requeue" => \A w \in qs[ps.cq] : NoRoom(u, w)
    /\ ps.pc \in {"fit", "reserve"} => \A w \in qs[ps.cq] : ~Precedes(age, w, ps.cur)

PassInv ==
    /\ \A p, q \in Passes : p # q => pass[p] = NoPass \/ pass[q] = NoPass
    /\ \A p \in Passes : CheckedOK(pass[p], used, created, InQueue)

(* No flavor uses more than its quota.                                     *)
UsedFits == \A f \in FlavorNames : \A r \in DOMAIN Quota[f] : used[f][r] <= Quota[f][r]

LedgerInv == TypesInv /\ PlaceInv /\ StatusInv /\ UsedIsGranted

KueueInv == LedgerInv /\ QueuesSorted /\ PassInv /\ UsedFits

-----------------------------------------------------------------------------
(* Queues: Enqueue, Dequeue and append put one workload in one position.   *)

(* e is q with w put in at position k.                                     *)
Inserted(S, q, k, w, e) ==
    /\ e \in Seq(S) /\ Len(e) = Len(q) + 1 /\ k \in 1 .. Len(q) + 1
    /\ e[k] = w
    /\ \A i \in 1 .. Len(q) : e[IF i < k THEN i ELSE i + 1] = q[i]

LEMMA PartOfSeq ==
    ASSUME NEW S, NEW s, NEW m \in Int, NEW n \in Int, \A i \in m .. n : s[i] \in S
    PROVE  /\ SubSeq(s, m, n) \in Seq(S)
           /\ Len(SubSeq(s, m, n)) = IF m <= n THEN n - m + 1 ELSE 0
           /\ \A i \in 1 .. n - m + 1 : SubSeq(s, m, n)[i] = s[m + i - 1]
BY SubSeqProperties

LEMMA JoinedSeq ==
    ASSUME NEW S, NEW s \in Seq(S), NEW t \in Seq(S)
    PROVE  /\ s \o t \in Seq(S)
           /\ Len(s \o t) = Len(s) + Len(t)
           /\ \A i \in 1 .. Len(s) + Len(t) :
                 (s \o t)[i] = IF i <= Len(s) THEN s[i] ELSE t[i - Len(s)]
BY ConcatProperties, Zenon

LEMMA InsertAtInserts ==
    ASSUME NEW S, NEW q \in Seq(S), NEW k \in 1 .. Len(q), NEW w \in S
    PROVE  Inserted(S, q, k, w, InsertAt(q, k, w))
<1> DEFINE n == Len(q)
           a == SubSeq(q, 1, k - 1)
           b == SubSeq(q, k, n)
           c == a \o <<w>>
           e == c \o b
<1>0. n \in Nat /\ k \in Nat /\ \A i \in 1 .. n : q[i] \in S
  OBVIOUS
<1>1. a \in Seq(S) /\ Len(a) = k - 1 /\ \A i \in 1 .. k - 1 : a[i] = q[i]
  <2>1. \A i \in 1 .. k - 1 : q[i] \in S
    BY <1>0
  <2>2. /\ a \in Seq(S) /\ Len(a) = IF 1 <= k - 1 THEN k - 1 - 1 + 1 ELSE 0
        /\ \A i \in 1 .. k - 1 - 1 + 1 : a[i] = q[1 + i - 1]
    BY <1>0, <2>1, PartOfSeq
  <2> HIDE DEF a
  <2> QED BY <1>0, <2>2
<1>2. b \in Seq(S) /\ Len(b) = n - k + 1 /\ \A i \in 1 .. n - k + 1 : b[i] = q[k + i - 1]
  <2>1. \A i \in k .. n : q[i] \in S
    BY <1>0
  <2>2. /\ b \in Seq(S) /\ Len(b) = IF k <= n THEN n - k + 1 ELSE 0
        /\ \A i \in 1 .. n - k + 1 : b[i] = q[k + i - 1]
    BY <1>0, <2>1, PartOfSeq
  <2> HIDE DEF b
  <2> QED BY <1>0, <2>2
<1> HIDE DEF a, b
<1>3. <<w>> \in Seq(S) /\ Len(<<w>>) = 1 /\ <<w>>[1] = w
  OBVIOUS
<1>4. /\ c \in Seq(S) /\ Len(c) = k
      /\ \A i \in 1 .. k : c[i] = IF i < k THEN q[i] ELSE w
  <2>1. /\ c \in Seq(S) /\ Len(c) = Len(a) + 1
        /\ \A i \in 1 .. Len(a) + 1 : c[i] = IF i <= Len(a) THEN a[i] ELSE <<w>>[i - Len(a)]
    BY <1>1, <1>3, JoinedSeq
  <2> HIDE DEF c
  <2> QED BY <1>0, <1>1, <1>3, <2>1
<1> HIDE DEF c
<1>5. /\ e \in Seq(S) /\ Len(e) = Len(c) + Len(b)
      /\ \A i \in 1 .. Len(c) + Len(b) : e[i] = IF i <= Len(c) THEN c[i] ELSE b[i - Len(c)]
  BY <1>2, <1>4, JoinedSeq
<1> HIDE DEF e
<1>6. Len(e) = n + 1 /\ e[k] = w
  BY <1>0, <1>2, <1>4, <1>5
<1>7. ASSUME NEW i \in 1 .. n PROVE e[IF i < k THEN i ELSE i + 1] = q[i]
  <2>1. CASE i < k
    BY <1>0, <1>2, <1>4, <1>5, <2>1
  <2>2. CASE ~(i < k)
    <3>1. i + 1 \in 1 .. Len(c) + Len(b) /\ ~(i + 1 <= k) /\ i + 1 - k \in 1 .. n - k + 1
      BY <1>0, <1>2, <1>4, <2>2
    <3>2. e[i + 1] = b[i + 1 - k]
      BY <1>4, <1>5, <3>1
    <3>3. b[i + 1 - k] = q[k + (i + 1 - k) - 1] /\ k + (i + 1 - k) - 1 = i
      BY <1>0, <1>2, <3>1
    <3> QED BY <2>2, <3>2, <3>3
  <2> QED BY <2>1, <2>2
<1>8. InsertAt(q, k, w) = e
  BY DEF InsertAt, e, c, a, b
<1> QED BY <1>0, <1>5, <1>6, <1>7, <1>8 DEF Inserted

LEMMA AppendInserts ==
    ASSUME NEW S, NEW q \in Seq(S), NEW w \in S
    PROVE  Inserted(S, q, Len(q) + 1, w, Append(q, w))
<1>1. /\ Append(q, w) \in Seq(S) /\ Len(Append(q, w)) = Len(q) + 1 /\ Len(q) \in Nat
      /\ Append(q, w)[Len(q) + 1] = w
      /\ \A i \in 1 .. Len(q) : i < Len(q) + 1 /\ Append(q, w)[i] = q[i]
  OBVIOUS
<1> QED BY <1>1 DEF Inserted

LEMMA TailInserts ==
    ASSUME NEW S, NEW q \in Seq(S), q # << >>
    PROVE  Tail(q) \in Seq(S) /\ Inserted(S, Tail(q), 1, Head(q), q)
<1>1. /\ Tail(q) \in Seq(S) /\ Len(Tail(q)) = Len(q) - 1 /\ Len(q) \in Nat \ {0}
      /\ \A i \in 1 .. Len(Tail(q)) : Tail(q)[i] = q[i + 1]
      /\ q[1] = Head(q)
  BY HeadTailProperties, EmptySeq
<1> QED BY <1>1 DEF Inserted

(* The positions of the inserted sequence.                                 *)
LEMMA InsertedAt ==
    ASSUME NEW S, NEW q \in Seq(S), NEW k, NEW w \in S, NEW e, Inserted(S, q, k, w, e),
           NEW i \in DOMAIN e
    PROVE  \/ i = k /\ e[i] = w
           \/ i < k /\ i \in DOMAIN q /\ e[i] = q[i]
           \/ i > k /\ i - 1 \in DOMAIN q /\ e[i] = q[i - 1]
<1>1. /\ DOMAIN q = 1 .. Len(q) /\ Len(q) \in Nat /\ DOMAIN e = 1 .. Len(q) + 1
      /\ k \in 1 .. Len(q) + 1 /\ e[k] = w
      /\ \A j \in 1 .. Len(q) : e[IF j < k THEN j ELSE j + 1] = q[j]
  BY LenProperties DEF Inserted
<1>2. CASE i = k
  BY <1>1, <1>2
<1>3. CASE i < k
  <2>1. i \in 1 .. Len(q)
    BY <1>1, <1>3
  <2> QED BY <1>1, <1>3, <2>1
<1>4. CASE i > k
  <2>1. i - 1 \in 1 .. Len(q) /\ ~(i - 1 < k) /\ (i - 1) + 1 = i
    BY <1>1, <1>4
  <2> QED BY <1>1, <1>4, <2>1
<1>5. i \in Int /\ k \in Int
  BY <1>1
<1> QED BY <1>2, <1>3, <1>4, <1>5

LEMMA InsertedElements ==
    ASSUME NEW S, NEW q \in Seq(S), NEW k, NEW w \in S, NEW e, Inserted(S, q, k, w, e)
    PROVE  ToSet(e) = ToSet(q) \cup {w}
<1>1. /\ DOMAIN q = 1 .. Len(q) /\ Len(q) \in Nat /\ DOMAIN e = 1 .. Len(q) + 1
      /\ k \in DOMAIN e /\ e[k] = w
      /\ \A j \in 1 .. Len(q) : e[IF j < k THEN j ELSE j + 1] = q[j]
  BY LenProperties DEF Inserted
<1>2. ASSUME NEW x \in ToSet(e) PROVE x \in ToSet(q) \cup {w}
  <2>1. PICK i \in DOMAIN e : x = e[i]
    BY DEF ToSet
  <2> QED BY <2>1, InsertedAt DEF ToSet
<1>3. ASSUME NEW j \in DOMAIN q PROVE q[j] \in ToSet(e)
  <2>1. (IF j < k THEN j ELSE j + 1) \in DOMAIN e
    BY <1>1
  <2> QED BY <1>1, <2>1 DEF ToSet
<1>4. w \in ToSet(e)
  BY <1>1 DEF ToSet
<1> QED BY <1>2, <1>3, <1>4 DEF ToSet

LEMMA InsertedInjective ==
    ASSUME NEW S, NEW q \in Seq(S), NEW k, NEW w \in S, NEW e, Inserted(S, q, k, w, e)
    PROVE  IsInjective(e) <=> IsInjective(q) /\ w \notin ToSet(q)
<1>1. /\ DOMAIN q = 1 .. Len(q) /\ Len(q) \in Nat /\ DOMAIN e = 1 .. Len(q) + 1
      /\ k \in DOMAIN e /\ e[k] = w
      /\ \A j \in 1 .. Len(q) : e[IF j < k THEN j ELSE j + 1] = q[j]
  BY LenProperties DEF Inserted
<1> DEFINE up(j) == IF j < k THEN j ELSE j + 1
<1>2. \A j \in DOMAIN q : up(j) \in DOMAIN e /\ up(j) # k /\ e[up(j)] = q[j]
  BY <1>1
<1>3. \A i, j \in DOMAIN q : up(i) = up(j) => i = j
  BY <1>1
<1>4. ASSUME IsInjective(e) PROVE IsInjective(q) /\ w \notin ToSet(q)
  <2> HIDE DEF up
  <2>1. IsInjective(q)
    BY <1>2, <1>3, <1>4 DEF IsInjective
  <2>2. w \notin ToSet(q)
    BY <1>1, <1>2, <1>4 DEF IsInjective, ToSet
  <2> QED BY <2>1, <2>2
<1>5. ASSUME IsInjective(q), w \notin ToSet(q), NEW a \in DOMAIN e, NEW b \in DOMAIN e, e[a] = e[b]
      PROVE  a = b
  <2>1. \A i \in DOMAIN q : q[i] # w
    BY <1>5 DEF ToSet
  <2>2. /\ a = k \/ (a < k /\ a \in DOMAIN q /\ e[a] = q[a])
                 \/ (a > k /\ a - 1 \in DOMAIN q /\ e[a] = q[a - 1])
        /\ b = k \/ (b < k /\ b \in DOMAIN q /\ e[b] = q[b])
                 \/ (b > k /\ b - 1 \in DOMAIN q /\ e[b] = q[b - 1])
    BY InsertedAt
  <2>3. \A i, j \in DOMAIN q : q[i] = q[j] => i = j
    BY <1>5 DEF IsInjective
  <2> QED BY <1>1, <1>5, <2>1, <2>2, <2>3
<1>6. ASSUME IsInjective(q), w \notin ToSet(q) PROVE IsInjective(e)
  BY <1>5, <1>6 DEF IsInjective
<1> QED BY <1>4, <1>6

(* The set of positions that satisfy a condition has a first one.          *)
LEMMA FirstPosition ==
    ASSUME NEW n \in Nat, NEW P \in SUBSET (1 .. n), P # {}
    PROVE  Min(P) \in P /\ \A i \in P : Min(P) <= i
<1> DEFINE Bad == {1 .. i : i \in P}
<1>1. Bad \subseteq SUBSET (1 .. n) /\ Bad # {} /\ IsFiniteSet(1 .. n)
  <2>1. \A i \in P : 1 .. i \in SUBSET (1 .. n)
    OBVIOUS
  <2>2. IsFiniteSet(1 .. n)
    BY FS_Interval
  <2> QED BY <2>1, <2>2, Zenon
<1>2. PICK T \in Bad : \A U \in SUBSET T : U # T => U \notin Bad
  <2> HIDE DEF Bad
  <2> QED BY <1>1, SmallestSet
<1>3. PICK k \in P : T = 1 .. k
  BY <1>2, Zenon
<1>4. ASSUME NEW i \in P PROVE k <= i
  <2> SUFFICES ASSUME i < k PROVE FALSE
    OBVIOUS
  <2>1. 1 .. i \in SUBSET (1 .. k) /\ k \in 1 .. k /\ k \notin 1 .. i
    OBVIOUS
  <2>2. 1 .. i \in Bad
    OBVIOUS
  <2> HIDE DEF Bad
  <2> QED BY <1>2, <1>3, <2>1, <2>2
<1>5. \E x \in P : \A y \in P : x =< y
  BY <1>4
<1> QED BY <1>5 DEF Min

(* The order of sortQueue is a strict weak order.                          *)
LEMMA PrecedesOrder ==
    ASSUME NEW age \in [Workloads -> Nat],
           NEW a \in Workloads, NEW b \in Workloads, NEW c \in Workloads
    PROVE  /\ Precedes(age, a, b) => ~Precedes(age, b, a)
           /\ Precedes(age, a, b) /\ Precedes(age, b, c) => Precedes(age, a, c)
<1>1. /\ Priority[a] \in Int /\ Priority[b] \in Int /\ Priority[c] \in Int
      /\ age[a] \in Nat /\ age[b] \in Nat /\ age[c] \in Nat
  BY WorkloadAssumption
<1> QED BY <1>1 DEF Precedes

(* Enqueue puts w behind all that it does not precede.                     *)
LEMMA EnqueuedInserts ==
    ASSUME NEW age, NEW q \in Seq(Workloads), NEW w \in Workloads
    PROVE  \E k : /\ Inserted(Workloads, q, k, w, Enqueued(age, q, w))
                  /\ \A i \in DOMAIN q : i < k => ~Precedes(age, w, q[i])
                  /\ k \in DOMAIN q => Precedes(age, w, q[k])
<1> DEFINE after == {i \in DOMAIN q : Precedes(age, w, q[i])}
<1>1. Len(q) \in Nat /\ DOMAIN q = 1 .. Len(q)
  BY LenProperties
<1>2. CASE after = {}
  <2>1. Enqueued(age, q, w) = Append(q, w)
    BY <1>2 DEF Enqueued
  <2>2. Len(q) + 1 \notin DOMAIN q
    BY <1>1
  <2> QED BY <1>2, <2>1, <2>2, AppendInserts
<1>3. CASE after # {}
  <2> DEFINE k == Min(after)
  <2>1. Enqueued(age, q, w) = InsertAt(q, k, w)
    BY <1>3 DEF Enqueued
  <2>2. k \in after /\ \A i \in after : k <= i
    <3>1. after \in SUBSET (1 .. Len(q))
      BY <1>1
    <3> HIDE DEF after
    <3> QED BY <1>1, <1>3, <3>1, FirstPosition
  <2> HIDE DEF k
  <2>3. k \in 1 .. Len(q) /\ Precedes(age, w, q[k])
    BY <1>1, <2>2
  <2>4. Inserted(Workloads, q, k, w, InsertAt(q, k, w))
    BY <2>3, InsertAtInserts
  <2>5. ASSUME NEW i \in DOMAIN q, i < k PROVE ~Precedes(age, w, q[i])
    <3>1. ~(k <= i)
      BY <1>1, <2>3, <2>5
    <3> QED BY <2>2, <3>1
  <2> QED BY <2>1, <2>3, <2>4, <2>5
<1> QED BY <1>2, <1>3

LEMMA EnqueuedSorted ==
    ASSUME NEW age \in [Workloads -> Nat], NEW q \in Seq(Workloads), NEW w \in Workloads,
           Sorted(age, q)
    PROVE  Sorted(age, Enqueued(age, q, w))
<1> DEFINE e == Enqueued(age, q, w)
<1>1. PICK k : /\ Inserted(Workloads, q, k, w, e)
               /\ \A i \in DOMAIN q : i < k => ~Precedes(age, w, q[i])
               /\ k \in DOMAIN q => Precedes(age, w, q[k])
  BY EnqueuedInserts
<1>2. /\ DOMAIN q = 1 .. Len(q) /\ Len(q) \in Nat /\ DOMAIN e = 1 .. Len(q) + 1
      /\ k \in 1 .. Len(q) + 1 /\ \A i \in DOMAIN q : q[i] \in Workloads
  BY <1>1, LenProperties, ElementOfSeq DEF Inserted
<1>3. \A i, j \in DOMAIN q : i < j => ~Precedes(age, q[j], q[i])
  BY DEF Sorted
<1>4. SUFFICES ASSUME NEW i \in DOMAIN e, NEW j \in DOMAIN e, i < j
               PROVE  ~Precedes(age, e[j], e[i])
  BY DEF Sorted
<1> HIDE DEF e
<1>5. /\ \/ i = k /\ e[i] = w
         \/ i < k /\ i \in DOMAIN q /\ e[i] = q[i]
         \/ i > k /\ i - 1 \in DOMAIN q /\ e[i] = q[i - 1]
      /\ \/ j = k /\ e[j] = w
         \/ j < k /\ j \in DOMAIN q /\ e[j] = q[j]
         \/ j > k /\ j - 1 \in DOMAIN q /\ e[j] = q[j - 1]
  BY <1>1, InsertedAt
<1>6. i \in Int /\ j \in Int /\ k \in Int
  BY <1>2
<1>7. CASE i = k
  <2>1. j - 1 \in DOMAIN q /\ e[j] = q[j - 1] /\ j - 1 >= k /\ e[i] = w
    BY <1>4, <1>5, <1>6, <1>7
  <2>2. k \in DOMAIN q /\ Precedes(age, w, q[k])
    BY <1>1, <1>2, <1>6, <2>1
  <2>3. CASE j - 1 = k
    BY <1>2, <2>1, <2>2, <2>3, PrecedesOrder
  <2>4. CASE j - 1 > k
    <3>1. ~Precedes(age, q[j - 1], q[k])
      BY <1>3, <2>1, <2>2, <2>4
    <3>2. q[j - 1] \in Workloads /\ q[k] \in Workloads
      BY <1>2, <2>1, <2>2
    <3> QED BY <2>1, <2>2, <3>1, <3>2, PrecedesOrder
  <2> QED BY <1>6, <2>1, <2>3, <2>4
<1>8. CASE j = k
  BY <1>1, <1>4, <1>5, <1>6, <1>8
<1>9. CASE i # k /\ j # k
  <2>1. CASE j < k
    BY <1>3, <1>4, <1>5, <1>6, <2>1
  <2>2. CASE i < k /\ j > k
    <3>1. i < j - 1
      BY <1>6, <2>2
    <3> QED BY <1>3, <1>5, <1>6, <2>2, <3>1
  <2>3. CASE i > k
    <3>1. i - 1 < j - 1 /\ j > k
      BY <1>4, <1>6, <2>3
    <3> QED BY <1>3, <1>5, <1>6, <2>3, <3>1
  <2> QED BY <1>4, <1>6, <1>9, <2>1, <2>2, <2>3
<1> QED BY <1>7, <1>8, <1>9

LEMMA TailSorted ==
    ASSUME NEW age, NEW q \in Seq(Workloads), q # << >>, Sorted(age, q)
    PROVE  /\ Sorted(age, Tail(q))
           /\ \A v \in ToSet(Tail(q)) : ~Precedes(age, v, Head(q))
<1>1. /\ Tail(q) \in Seq(Workloads) /\ Len(Tail(q)) = Len(q) - 1 /\ Len(q) \in Nat \ {0}
      /\ \A i \in 1 .. Len(Tail(q)) : Tail(q)[i] = q[i + 1]
      /\ q[1] = Head(q)
  BY HeadTailProperties, EmptySeq
<1>2. DOMAIN q = 1 .. Len(q) /\ DOMAIN Tail(q) = 1 .. Len(q) - 1
  BY <1>1, LenProperties
<1>3. \A i, j \in DOMAIN q : i < j => ~Precedes(age, q[j], q[i])
  BY DEF Sorted
<1>4. ASSUME NEW i \in DOMAIN Tail(q), NEW j \in DOMAIN Tail(q), i < j
      PROVE  ~Precedes(age, Tail(q)[j], Tail(q)[i])
  <2>1. i + 1 \in DOMAIN q /\ j + 1 \in DOMAIN q /\ i + 1 < j + 1
    BY <1>1, <1>2, <1>4
  <2>2. Tail(q)[i] = q[i + 1] /\ Tail(q)[j] = q[j + 1]
    BY <1>1, <1>2
  <2> QED BY <1>3, <2>1, <2>2
<1>5. ASSUME NEW i \in DOMAIN Tail(q) PROVE ~Precedes(age, Tail(q)[i], Head(q))
  <2>1. i + 1 \in DOMAIN q /\ 1 \in DOMAIN q /\ 1 < i + 1 /\ Tail(q)[i] = q[i + 1]
    BY <1>1, <1>2
  <2> QED BY <1>1, <1>3, <2>1
<1> QED BY <1>4, <1>5 DEF Sorted, ToSet

(* Sorting looks only at the age of what is in the queue.                  *)
LEMMA SameAgeSorted ==
    ASSUME NEW age, NEW new, NEW q, Sorted(age, q), \A v \in ToSet(q) : new[v] = age[v]
    PROVE  Sorted(new, q)
<1>1. \A i \in DOMAIN q : new[q[i]] = age[q[i]]
  BY DEF ToSet
<1> QED BY <1>1 DEF Sorted, Precedes

(* e has one element more than q.                                          *)
Added(q, w, e) ==
    /\ e \in Seq(Workloads)
    /\ ToSet(e) = ToSet(q) \cup {w}
    /\ IsInjective(e) <=> IsInjective(q) /\ w \notin ToSet(q)

LEMMA InsertedAdds ==
    ASSUME NEW q \in Seq(Workloads), NEW k, NEW w \in Workloads, NEW e,
           Inserted(Workloads, q, k, w, e)
    PROVE  Added(q, w, e)
<1>1. e \in Seq(Workloads)
  BY DEF Inserted
<1>2. ToSet(e) = ToSet(q) \cup {w}
  BY InsertedElements
<1>3. IsInjective(e) <=> IsInjective(q) /\ w \notin ToSet(q)
  BY InsertedInjective
<1> QED BY <1>1, <1>2, <1>3 DEF Added

LEMMA EnqueuedAdds ==
    ASSUME NEW age, NEW q \in Seq(Workloads), NEW w \in Workloads
    PROVE  Added(q, w, Enqueued(age, q, w))
BY EnqueuedInserts, InsertedAdds

LEMMA AppendAdds ==
    ASSUME NEW q \in Seq(Workloads), NEW w \in Workloads
    PROVE  Added(q, w, Append(q, w))
BY AppendInserts, InsertedAdds

LEMMA TailAdds ==
    ASSUME NEW q \in Seq(Workloads), q # << >>
    PROVE  Head(q) \in Workloads /\ Tail(q) \in Seq(Workloads) /\ Added(Tail(q), Head(q), q)
<1> DEFINE t == Tail(q)
           h == Head(q)
<1>1. h \in Workloads /\ t \in Seq(Workloads)
  BY HeadTailProperties
<1>2. Inserted(Workloads, t, 1, h, q)
  BY TailInserts
<1> HIDE DEF t, h
<1>3. Added(t, h, q)
  BY <1>1, <1>2, InsertedAdds
<1> QED BY <1>1, <1>3 DEF t, h

LEMMA Elements ==
    /\ ToSet(<< >>) = {} /\ IsInjective(<< >>)
    /\ \A q \in Seq(Workloads) : ToSet(q) \subseteq Workloads
BY DEF ToSet, IsInjective

(* The same for one list among those of all ClusterQueues.                 *)
LEMMA ListSet ==
    ASSUME NEW qs \in [ClusterQueues -> Seq(Workloads)], NEW cq \in ClusterQueues,
           NEW e \in Seq(Workloads), NEW new, new = [qs EXCEPT ![cq] = e]
    PROVE  /\ new \in [ClusterQueues -> Seq(Workloads)] /\ new[cq] = e
           /\ \A c \in ClusterQueues : c # cq => new[c] = qs[c]
OBVIOUS

(* new has one workload more, in the list of cq.                           *)
AddedTo(qs, cq, w, new) ==
    /\ qs \in [ClusterQueues -> Seq(Workloads)]
    /\ new \in [ClusterQueues -> Seq(Workloads)]
    /\ Added(qs[cq], w, new[cq])
    /\ \A c \in ClusterQueues : c # cq => new[c] = qs[c]

EnqueueTo(age, qs, cq, w, new) == new = [qs EXCEPT ![cq] = Enqueued(age, qs[cq], w)]

LEMMA EnqueueInto ==
    ASSUME NEW age, NEW qs \in [ClusterQueues -> Seq(Workloads)], NEW cq \in ClusterQueues,
           NEW w \in Workloads, NEW new, EnqueueTo(age, qs, cq, w, new)
    PROVE  /\ AddedTo(qs, cq, w, new)
           /\ age \in [Workloads -> Nat] /\ Sorted(age, qs[cq]) => Sorted(age, new[cq])
<1> DEFINE q == qs[cq]
           e == Enqueued(age, q, w)
<1>1. q \in Seq(Workloads)
  OBVIOUS
<1> HIDE DEF q
<1>2. Added(q, w, e)
  BY <1>1, EnqueuedAdds
<1>3. age \in [Workloads -> Nat] /\ Sorted(age, q) => Sorted(age, e)
  BY <1>1, EnqueuedSorted
<1>4. new = [qs EXCEPT ![cq] = e]
  BY DEF EnqueueTo, q
<1> HIDE DEF e
<1>5. /\ new \in [ClusterQueues -> Seq(Workloads)] /\ new[cq] = e
      /\ \A c \in ClusterQueues : c # cq => new[c] = qs[c]
  BY <1>2, <1>4, ListSet DEF Added
<1> QED BY <1>2, <1>3, <1>5 DEF q, AddedTo

LEMMA AppendInto ==
    ASSUME NEW qs \in [ClusterQueues -> Seq(Workloads)], NEW cq \in ClusterQueues,
           NEW w \in Workloads, NEW new, new = [qs EXCEPT ![cq] = Append(@, w)]
    PROVE  AddedTo(qs, cq, w, new)
<1> DEFINE q == qs[cq]
           e == Append(q, w)
<1>1. q \in Seq(Workloads)
  OBVIOUS
<1> HIDE DEF q
<1>2. Added(q, w, e)
  BY <1>1, AppendAdds
<1>3. new = [qs EXCEPT ![cq] = e]
  BY DEF q
<1> HIDE DEF e
<1>4. /\ new \in [ClusterQueues -> Seq(Workloads)] /\ new[cq] = e
      /\ \A c \in ClusterQueues : c # cq => new[c] = qs[c]
  BY <1>2, <1>3, ListSet DEF Added
<1> QED BY <1>2, <1>4 DEF q, AddedTo

LEMMA TailFrom ==
    ASSUME NEW qs \in [ClusterQueues -> Seq(Workloads)], NEW cq \in ClusterQueues,
           qs[cq] # << >>, NEW new, new = [qs EXCEPT ![cq] = Tail(@)]
    PROVE  Head(qs[cq]) \in Workloads /\ AddedTo(new, cq, Head(qs[cq]), qs)
<1> DEFINE q == qs[cq]
           t == Tail(q)
           h == Head(q)
<1>1. q \in Seq(Workloads) /\ q # << >>
  OBVIOUS
<1> HIDE DEF q
<1>2. h \in Workloads /\ t \in Seq(Workloads) /\ Added(t, h, q)
  BY <1>1, TailAdds
<1>3. new = [qs EXCEPT ![cq] = t] /\ h = Head(qs[cq])
  BY DEF q
<1> HIDE DEF t, h
<1>4. /\ new \in [ClusterQueues -> Seq(Workloads)] /\ new[cq] = t
      /\ \A c \in ClusterQueues : c # cq => new[c] = qs[c]
  BY <1>2, <1>3, ListSet
<1> QED BY <1>2, <1>3, <1>4 DEF q, AddedTo

-----------------------------------------------------------------------------
(* What the steps of a pass do to it.                                      *)

Becomes(p, pc, cq, left, cur, fl, retry) ==
    /\ pass' \in [Passes -> PassStates]
    /\ \A q \in Passes : q # p => pass'[q] = pass[q]
    /\ pass'[p].pc = pc /\ pass'[p].cq = cq /\ pass'[p].left = left
    /\ pass'[p].cur = cur /\ pass'[p].flavor = fl /\ pass'[p].toRetry = retry

LEMMA Fields ==
    ASSUME TypesInv, NEW p \in Passes
    PROVE  /\ pass \in [Passes -> PassStates]
           /\ pass[p].pc \in {"idle", "range", "dequeue", "fit", "reserve", "requeue"}
           /\ pass[p].cq \in ClusterQueues \cup {None}
           /\ pass[p].left \in SUBSET ClusterQueues
           /\ pass[p].cur \in Workloads \cup {None}
           /\ pass[p].flavor \in FlavorNames \cup {None}
           /\ pass[p].toRetry \in Seq(Workloads)
           /\ PassOK(pass[p])
<1>1. pass \in [Passes -> PassStates] /\ pass[p] \in PassStates /\ PassOK(pass[p])
  BY DEF TypesInv, TypeOK
<1> QED BY <1>1 DEF PassStates

LEMMA PassSet ==
    ASSUME pass \in [Passes -> PassStates], NEW p \in Passes, NEW ps \in PassStates,
           pass' = [pass EXCEPT ![p] = ps]
    PROVE  Becomes(p, ps.pc, ps.cq, ps.left, ps.cur, ps.flavor, ps.toRetry)
BY DEF Becomes

LEMMA NextQueueBecomes ==
    ASSUME TypesInv, NEW p \in Passes, NextQueue(p)
    PROVE  \E cq \in pass[p].left :
              Becomes(p, "dequeue", cq, pass[p].left \ {cq}, pass[p].cur, pass[p].flavor,
                      pass[p].toRetry)
<1>1. PICK cq \in pass[p].left :
          pass' = [pass EXCEPT ![p].pc = "dequeue", ![p].cq = cq, ![p].left = @ \ {cq}]
  BY DEF NextQueue
<1>2. cq \in ClusterQueues /\ pass[p].left \in SUBSET ClusterQueues
  BY Fields
<1>3. pass \in [Passes -> PassStates]
  BY Fields
<1> DEFINE ps == [pass[p] EXCEPT !.pc = "dequeue", !.cq = cq, !.left = pass[p].left \ {cq}]
<1>4. ps \in PassStates /\ pass' = [pass EXCEPT ![p] = ps]
  BY <1>1, <1>2, <1>3 DEF PassStates
<1>5. /\ ps.pc = "dequeue" /\ ps.cq = cq /\ ps.left = pass[p].left \ {cq}
      /\ ps.cur = pass[p].cur /\ ps.flavor = pass[p].flavor /\ ps.toRetry = pass[p].toRetry
  BY <1>3 DEF PassStates
<1> HIDE DEF ps
<1>6. Becomes(p, ps.pc, ps.cq, ps.left, ps.cur, ps.flavor, ps.toRetry)
  BY <1>3, <1>4, PassSet
<1> QED BY <1>5, <1>6

(* Each step of a pass, by what it leaves in it.                           *)
LEMMA DequeueBecomes ==
    ASSUME TypesInv, NEW p \in Passes, Dequeue(p)
    PROVE  \/ /\ queue[pass[p].cq] # << >>
              /\ Becomes(p, "fit", pass[p].cq, pass[p].left, Head(queue[pass[p].cq]),
                         pass[p].flavor, pass[p].toRetry)
              /\ queue' = [queue EXCEPT ![pass[p].cq] = Tail(@)]
           \/ /\ queue[pass[p].cq] = << >>
              /\ Becomes(p, "requeue", pass[p].cq, pass[p].left, pass[p].cur,
                         pass[p].flavor, pass[p].toRetry)
              /\ queue' = queue
<1>1. pass \in [Passes -> PassStates]
  BY Fields
<1>2. pass[p].cq \in ClusterQueues
  BY Fields DEF Dequeue, PassOK
<1>3. queue[pass[p].cq] \in Seq(Workloads)
  BY <1>2 DEF TypesInv, TypeOK
<1>4. CASE queue[pass[p].cq] # << >>
  <2>1. /\ pass' = [pass EXCEPT ![p].pc = "fit", ![p].cur = Head(queue[pass[p].cq])]
        /\ queue' = [queue EXCEPT ![pass[p].cq] = Tail(@)]
    BY <1>4 DEF Dequeue
  <2>2. Head(queue[pass[p].cq]) \in Workloads
    BY <1>3, <1>4, TailAdds
  <2> DEFINE w == Head(queue[pass[p].cq])
             ps == [pass[p] EXCEPT !.pc = "fit", !.cur = w]
  <2> HIDE DEF w
  <2>3. ps \in PassStates
    BY <1>1, <2>2 DEF PassStates, w
  <2>4. pass' = [pass EXCEPT ![p] = ps]
    BY <1>1, <2>1, Zenon DEF w
  <2>5. /\ ps.pc = "fit" /\ ps.cq = pass[p].cq /\ ps.left = pass[p].left
        /\ ps.cur = w /\ ps.flavor = pass[p].flavor /\ ps.toRetry = pass[p].toRetry
    BY <1>1 DEF PassStates
  <2> HIDE DEF ps
  <2>6. Becomes(p, ps.pc, ps.cq, ps.left, ps.cur, ps.flavor, ps.toRetry)
    BY <1>1, <2>3, <2>4, PassSet
  <2> QED BY <1>4, <2>1, <2>5, <2>6 DEF w
<1>5. CASE queue[pass[p].cq] = << >>
  <2>1. pass' = [pass EXCEPT ![p].pc = "requeue"] /\ queue' = queue
    BY <1>5 DEF Dequeue
  <2> DEFINE ps == [pass[p] EXCEPT !.pc = "requeue"]
  <2>2. ps \in PassStates /\ pass' = [pass EXCEPT ![p] = ps]
    BY <1>1, <2>1 DEF PassStates
  <2>3. /\ ps.pc = "requeue" /\ ps.cq = pass[p].cq /\ ps.left = pass[p].left
        /\ ps.cur = pass[p].cur /\ ps.flavor = pass[p].flavor /\ ps.toRetry = pass[p].toRetry
    BY <1>1 DEF PassStates
  <2> HIDE DEF ps
  <2>4. Becomes(p, ps.pc, ps.cq, ps.left, ps.cur, ps.flavor, ps.toRetry)
    BY <1>1, <2>2, PassSet
  <2> QED BY <1>5, <2>1, <2>3, <2>4
<1> QED BY <1>4, <1>5

LEMMA NoFlavorFitsBecomes ==
    ASSUME TypesInv, NEW p \in Passes, NoFlavorFits(p)
    PROVE  /\ pass[p].cur \in Workloads
           /\ Becomes(p, "dequeue", pass[p].cq, pass[p].left, None, pass[p].flavor,
                      Append(pass[p].toRetry, pass[p].cur))
<1>1. pass \in [Passes -> PassStates] /\ pass[p].toRetry \in Seq(Workloads)
  BY Fields
<1>2. pass[p].cur \in Workloads
  BY Fields DEF NoFlavorFits, PassOK
<1>3. Append(pass[p].toRetry, pass[p].cur) \in Seq(Workloads)
  BY <1>1, <1>2, AppendAdds DEF Added
<1>4. pass' = [pass EXCEPT ![p].pc = "dequeue", ![p].cur = None,
                           ![p].toRetry = Append(@, pass[p].cur)]
  BY DEF NoFlavorFits
<1> DEFINE retry == Append(pass[p].toRetry, pass[p].cur)
           ps == [pass[p] EXCEPT !.pc = "dequeue", !.cur = None, !.toRetry = retry]
<1> HIDE DEF retry
<1>5. ps \in PassStates /\ pass' = [pass EXCEPT ![p] = ps]
  BY <1>1, <1>3, <1>4 DEF PassStates, retry
<1>6. /\ ps.pc = "dequeue" /\ ps.cq = pass[p].cq /\ ps.left = pass[p].left
      /\ ps.cur = None /\ ps.flavor = pass[p].flavor /\ ps.toRetry = retry
  BY <1>1 DEF PassStates
<1> HIDE DEF ps
<1>7. Becomes(p, ps.pc, ps.cq, ps.left, ps.cur, ps.flavor, ps.toRetry)
  BY <1>1, <1>5, PassSet
<1> QED BY <1>2, <1>6, <1>7 DEF retry

(* AssignFlavor takes a flavor of the queue that has room.                 *)
LEMMA ChooseFlavorBecomes ==
    ASSUME TypesInv, NEW p \in Passes, ChooseFlavor(p)
    PROVE  \E f \in ToSet(Flavors[pass[p].cq]) :
              /\ f \in FlavorNames /\ CanFit(f, pass[p].cur)
              /\ Becomes(p, "reserve", pass[p].cq, pass[p].left, pass[p].cur, f, pass[p].toRetry)
<1> DEFINE fl == Flavors[pass[p].cq]
           fits == {i \in DOMAIN fl : CanFit(fl[i], pass[p].cur)}
           f == fl[Min(fits)]
<1>1. pass \in [Passes -> PassStates]
  BY Fields
<1>2. pass[p].cq \in ClusterQueues
  BY Fields DEF ChooseFlavor, PassOK
<1>3. fl \in Seq(FlavorNames) /\ DOMAIN fl = 1 .. Len(fl) /\ Len(fl) \in Nat
  BY <1>2, QuotaAssumption, LenProperties
<1>4. fits # {} /\ pass' = [pass EXCEPT ![p].pc = "reserve", ![p].flavor = f]
  BY DEF ChooseFlavor
<1>5. Min(fits) \in fits
  <2>1. fits \subseteq DOMAIN fl
    OBVIOUS
  <2> HIDE DEF fits, fl
  <2>2. fits \in SUBSET (1 .. Len(fl))
    BY <1>3, <2>1
  <2> QED BY <1>3, <1>4, <2>2, FirstPosition
<1>6. f \in ToSet(fl) /\ f \in FlavorNames /\ CanFit(f, pass[p].cur)
  <2>1. \A i \in DOMAIN fl : fl[i] \in ToSet(fl) /\ fl[i] \in FlavorNames
    BY <1>3, ElementOfSeq DEF ToSet
  <2> QED BY <1>5, <2>1
<1> HIDE DEF f, fits
<1> DEFINE ps == [pass[p] EXCEPT !.pc = "reserve", !.flavor = f]
<1>7. ps \in PassStates /\ pass' = [pass EXCEPT ![p] = ps]
  BY <1>1, <1>4, <1>6 DEF PassStates
<1>8. /\ ps.pc = "reserve" /\ ps.cq = pass[p].cq /\ ps.left = pass[p].left
      /\ ps.cur = pass[p].cur /\ ps.flavor = f /\ ps.toRetry = pass[p].toRetry
  BY <1>1 DEF PassStates
<1> HIDE DEF ps
<1>9. Becomes(p, ps.pc, ps.cq, ps.left, ps.cur, ps.flavor, ps.toRetry)
  BY <1>1, <1>7, PassSet
<1> QED BY <1>6, <1>8, <1>9

LEMMA AdmitBecomes ==
    ASSUME TypesInv, NEW p \in Passes, Admit(p)
    PROVE  /\ pass[p].cur \in Workloads /\ pass[p].flavor \in FlavorNames
           /\ pass[p].cq \in ClusterQueues
           /\ Becomes(p, "dequeue", pass[p].cq, pass[p].left, None, None, pass[p].toRetry)
<1>1. pass \in [Passes -> PassStates]
  BY Fields
<1>2. /\ pass[p].cur \in Workloads /\ pass[p].flavor \in FlavorNames
      /\ pass[p].cq \in ClusterQueues
  BY Fields DEF Admit, PassOK
<1>3. pass' = [pass EXCEPT ![p].pc = "dequeue", ![p].cur = None, ![p].flavor = None]
  BY DEF Admit
<1> DEFINE ps == [pass[p] EXCEPT !.pc = "dequeue", !.cur = None, !.flavor = None]
<1>4. ps \in PassStates /\ pass' = [pass EXCEPT ![p] = ps]
  BY <1>1, <1>3 DEF PassStates
<1>5. /\ ps.pc = "dequeue" /\ ps.cq = pass[p].cq /\ ps.left = pass[p].left
      /\ ps.cur = None /\ ps.flavor = None /\ ps.toRetry = pass[p].toRetry
  BY <1>1 DEF PassStates
<1> HIDE DEF ps
<1>6. Becomes(p, ps.pc, ps.cq, ps.left, ps.cur, ps.flavor, ps.toRetry)
  BY <1>1, <1>4, PassSet
<1> QED BY <1>2, <1>5, <1>6

LEMMA RequeueBecomes ==
    ASSUME TypesInv, NEW p \in Passes, Requeue(p)
    PROVE  /\ pass[p].cq \in ClusterQueues /\ pass[p].toRetry \in Seq(Workloads)
           /\ Becomes(p, "requeue", pass[p].cq, pass[p].left, pass[p].cur, pass[p].flavor,
                      Tail(pass[p].toRetry))
<1>1. pass \in [Passes -> PassStates] /\ pass[p].toRetry \in Seq(Workloads)
  BY Fields
<1>2. pass[p].cq \in ClusterQueues
  BY Fields DEF Requeue, PassOK
<1>3. Tail(pass[p].toRetry) \in Seq(Workloads)
  BY <1>1, TailAdds DEF Requeue
<1>4. pass' = [pass EXCEPT ![p].toRetry = Tail(@)] /\ pass[p].pc = "requeue"
  BY DEF Requeue
<1> DEFINE retry == Tail(pass[p].toRetry)
           ps == [pass[p] EXCEPT !.toRetry = retry]
<1> HIDE DEF retry
<1>5. ps \in PassStates /\ pass' = [pass EXCEPT ![p] = ps]
  BY <1>1, <1>3, <1>4 DEF PassStates, retry
<1>6. /\ ps.pc = "requeue" /\ ps.cq = pass[p].cq /\ ps.left = pass[p].left
      /\ ps.cur = pass[p].cur /\ ps.flavor = pass[p].flavor /\ ps.toRetry = retry
  BY <1>1, <1>4 DEF PassStates
<1> HIDE DEF ps
<1>7. Becomes(p, ps.pc, ps.cq, ps.left, ps.cur, ps.flavor, ps.toRetry)
  BY <1>1, <1>5, PassSet
<1> QED BY <1>1, <1>2, <1>6, <1>7 DEF retry

LEMMA QueueDoneBecomes ==
    ASSUME TypesInv, NEW p \in Passes, QueueDone(p)
    PROVE  Becomes(p, "range", None, pass[p].left, pass[p].cur, pass[p].flavor, pass[p].toRetry)
<1>1. pass \in [Passes -> PassStates]
  BY Fields
<1>2. pass' = [pass EXCEPT ![p].pc = "range", ![p].cq = None]
  BY DEF QueueDone
<1> DEFINE ps == [pass[p] EXCEPT !.pc = "range", !.cq = None]
<1>3. ps \in PassStates /\ pass' = [pass EXCEPT ![p] = ps]
  BY <1>1, <1>2 DEF PassStates
<1>4. /\ ps.pc = "range" /\ ps.cq = None /\ ps.left = pass[p].left
      /\ ps.cur = pass[p].cur /\ ps.flavor = pass[p].flavor /\ ps.toRetry = pass[p].toRetry
  BY <1>1 DEF PassStates
<1> HIDE DEF ps
<1>5. Becomes(p, ps.pc, ps.cq, ps.left, ps.cur, ps.flavor, ps.toRetry)
  BY <1>1, <1>3, PassSet
<1> QED BY <1>4, <1>5

LEMMA NoPassState ==
    /\ NoPass \in PassStates /\ PassOK(NoPass) /\ HeldBy(NoPass) = {}
    /\ NoPass.pc = "idle" /\ NoPass.toRetry = << >> /\ NoPass.cur = None /\ NoPass.left = {}
BY NoneAssumption, Elements DEF NoPass, PassStates, PassOK, HeldBy

(* A pass begins and ends with nothing in hand.                            *)
LEMMA BoundsBecome ==
    ASSUME TypesInv, NEW p \in Passes
    PROVE  /\ BeginPass(p) => Becomes(p, "range", None, ClusterQueues, None, None, << >>)
           /\ EndPass(p) => /\ Becomes(p, "idle", None, {}, None, None, << >>)
                            /\ pass'[p] = NoPass
<1>1. pass \in [Passes -> PassStates]
  BY Fields
<1>2. ASSUME BeginPass(p) PROVE Becomes(p, "range", None, ClusterQueues, None, None, << >>)
  <2>1. pass' = [pass EXCEPT ![p] = [NoPass EXCEPT !.pc = "range", !.left = ClusterQueues]]
    BY <1>2 DEF BeginPass
  <2>2. [NoPass EXCEPT !.pc = "range", !.left = ClusterQueues] \in PassStates
    BY NoPassState DEF PassStates
  <2>3. pass' \in [Passes -> PassStates]
    BY <1>1, <2>1, <2>2
  <2> QED BY <1>1, <2>1, <2>3 DEF Becomes, NoPass
<1>3. ASSUME EndPass(p)
      PROVE  Becomes(p, "idle", None, {}, None, None, << >>) /\ pass'[p] = NoPass
  <2>1. pass' = [pass EXCEPT ![p] = NoPass]
    BY <1>3 DEF EndPass
  <2>2. pass' \in [Passes -> PassStates]
    BY <1>1, <2>1, NoPassState
  <2> QED BY <1>1, <2>1, <2>2 DEF Becomes, NoPass
<1> QED BY <1>2, <1>3

-----------------------------------------------------------------------------
(* Types, and what a pass holds: for any clients.                          *)

LEMMA HeldTyped ==
    ASSUME NEW ps \in PassStates
    PROVE  HeldBy(ps) \in SUBSET Workloads
<1>1. ps.toRetry \in Seq(Workloads) /\ ps.cur \in Workloads \cup {None}
  BY DEF PassStates
<1>2. ToSet(ps.toRetry) \subseteq Workloads
  BY <1>1, Elements
<1> QED BY <1>1, <1>2 DEF HeldBy

LEMMA PassesStay ==
    ASSUME TypesInv, NEW p \in Passes,
           pass' \in [Passes -> PassStates], \A q \in Passes : q # p => pass'[q] = pass[q],
           PassOK(pass'[p]), \A w \in HeldBy(pass'[p]) : created'[w] > 0,
           \A w \in Workloads : created[w] > 0 => created'[w] > 0
    PROVE  \A q \in Passes : PassOK(pass'[q]) /\ \A w \in HeldBy(pass'[q]) : created'[w] > 0
<1> SUFFICES ASSUME NEW q \in Passes, q # p
             PROVE  PassOK(pass'[q]) /\ \A w \in HeldBy(pass'[q]) : created'[w] > 0
  OBVIOUS
<1>1. pass'[q] = pass[q] /\ pass[q] \in PassStates
  BY DEF TypesInv, TypeOK
<1>2. PassOK(pass[q]) /\ \A w \in HeldBy(pass[q]) : created[w] > 0
  BY DEF TypesInv
<1>3. HeldBy(pass[q]) \in SUBSET Workloads
  BY <1>1, HeldTyped
<1> QED BY <1>1, <1>2, <1>3

(* A step that changes only one pass, and holds no more than before.       *)
LEMMA PassOnly ==
    ASSUME TypesInv, NEW p \in Passes,
           pass' \in [Passes -> PassStates], \A q \in Passes : q # p => pass'[q] = pass[q],
           PassOK(pass'[p]), HeldBy(pass'[p]) \subseteq HeldBy(pass[p]),
           UNCHANGED <<queue, active, used, status, flavor, created>>
    PROVE  TypesInv'
<1>1. \A q \in Passes : PassOK(pass'[q]) /\ \A w \in HeldBy(pass'[q]) : created'[w] > 0
  <2>1. \A w \in HeldBy(pass'[p]) : created'[w] > 0
    BY DEF TypesInv
  <2> QED BY <2>1, PassesStay
<1>2. TypeOK'
  BY DEF TypesInv, TypeOK
<1> QED BY <1>1, <1>2 DEF TypesInv

(* The stamp of a workload that was new.                                   *)
LEMMA StampTyped ==
    ASSUME NEW w \in Workloads, status[w] = "new"
    PROVE  1 + Cardinality({v \in Workloads : status[v] # "new"}) \in 1 .. Cardinality(Workloads)
<1> DEFINE S == {v \in Workloads : status[v] # "new"}
           R == Workloads \ {w}
<1>0. IsFiniteSet(Workloads) /\ S \in SUBSET R
  BY NoneAssumption
<1>1. IsFiniteSet(R) /\ Cardinality(R) = Cardinality(Workloads) - 1
  BY <1>0, FS_RemoveElement
<1> HIDE DEF S, R
<1>2. Cardinality(S) <= Cardinality(R) /\ IsFiniteSet(S)
  BY <1>0, <1>1, FS_Subset
<1>3. Cardinality(S) \in Nat /\ Cardinality(R) \in Nat /\ Cardinality(Workloads) \in Nat
  BY <1>0, <1>1, <1>2, FS_CardinalityType
<1>4. 1 + Cardinality(S) \in 1 .. Cardinality(Workloads)
  BY <1>1, <1>2, <1>3
<1> QED BY <1>4 DEF S

LEMMA SubmitTypes ==
    ASSUME TypesInv, NEW w \in Workloads, Submit(w)
    PROVE  /\ TypesInv'
           /\ EnqueueTo(created', queue, RouteOf[w], w, queue')
           /\ AddedTo(queue, RouteOf[w], w, queue')
<1> DEFINE cq == RouteOf[w]
           stamp == 1 + Cardinality({v \in Workloads : status[v] # "new"})
<1>1. stamp \in 1 .. Cardinality(Workloads)
  BY StampTyped DEF Submit
<1>2. cq \in ClusterQueues
  BY WorkloadAssumption
<1> HIDE DEF stamp
<1>3. /\ created' = [created EXCEPT ![w] = stamp]
      /\ status' = [status EXCEPT ![w] = "Pending"]
      /\ queue' = [queue EXCEPT ![cq] = Enqueued(created', queue[cq], w)]
      /\ active' = active /\ used' = used /\ flavor' = flavor /\ pass' = pass
  BY DEF Submit, stamp
<1>4. created \in [Workloads -> 0 .. Cardinality(Workloads)] /\ queue \in [ClusterQueues -> Seq(Workloads)]
  BY DEF TypesInv, TypeOK
<1>5. created' \in [Workloads -> 0 .. Cardinality(Workloads)]
  BY <1>1, <1>3, <1>4
<1>6. created'[w] > 0 /\ \A v \in Workloads : created[v] > 0 => created'[v] > 0
  BY <1>1, <1>3, <1>4
<1>7. EnqueueTo(created', queue, cq, w, queue') /\ AddedTo(queue, cq, w, queue')
  <2> HIDE DEF cq
  <2>1. EnqueueTo(created', queue, cq, w, queue')
    BY <1>3 DEF EnqueueTo
  <2> QED BY <1>2, <1>4, <2>1, EnqueueInto
<1>8. /\ queue' \in [ClusterQueues -> Seq(Workloads)]
      /\ ToSet(queue'[cq]) = ToSet(queue[cq]) \cup {w}
      /\ \A c \in ClusterQueues : c # cq => queue'[c] = queue[c]
  BY <1>7 DEF AddedTo, Added
<1>9. ASSUME NEW c \in ClusterQueues, NEW v \in ToSet(queue'[c])
      PROVE  RouteOf[v] = c /\ created'[v] > 0
  <2>1. v \in ToSet(queue[c]) \/ (v = w /\ c = cq)
    BY <1>8
  <2>2. ASSUME v \in ToSet(queue[c]) PROVE v \in Workloads /\ RouteOf[v] = c /\ created[v] > 0
    <3>1. ToSet(queue[c]) \subseteq Workloads
      BY <1>4, Elements
    <3> QED BY <2>2, <3>1 DEF TypesInv, TypeOK
  <2> QED BY <1>6, <2>1, <2>2
<1>10. \A q \in Passes : PassOK(pass'[q]) /\ \A v \in HeldBy(pass'[q]) : created'[v] > 0
  <2> SUFFICES ASSUME NEW q \in Passes
               PROVE  PassOK(pass'[q]) /\ \A v \in HeldBy(pass'[q]) : created'[v] > 0
    OBVIOUS
  <2>1. pass[q] \in PassStates /\ PassOK(pass[q]) /\ \A v \in HeldBy(pass[q]) : created[v] > 0
    BY DEF TypesInv, TypeOK
  <2>2. HeldBy(pass[q]) \in SUBSET Workloads
    BY <2>1, HeldTyped
  <2> QED BY <1>3, <1>6, <2>1, <2>2
<1>11. status' \in [Workloads -> {"new", "Pending", "Admitted", "Finished"}]
  BY <1>3 DEF TypesInv, TypeOK
<1>12. TypeOK'
  BY <1>3, <1>5, <1>8, <1>9, <1>11 DEF TypesInv, TypeOK
<1> QED BY <1>7, <1>10, <1>12 DEF TypesInv

LEMMA TotalIsNat ==
    ASSUME NEW w \in Workloads, NEW r \in Resources
    PROVE  TotalRequests(w)[r] \in Nat
<1>1. CASE r \in DOMAIN Request[w]
  <2>1. Request[w][r] \in Nat /\ PodCount[w] \in Nat
    BY <1>1, WorkloadAssumption
  <2> DEFINE a == Request[w][r]
             b == PodCount[w]
  <2> HIDE DEF a, b
  <2>2. a * b \in Nat
    BY <2>1 DEF a, b
  <2> QED BY <1>1, <2>2 DEF TotalRequests, a, b
<1>2. CASE r \notin DOMAIN Request[w]
  BY <1>2 DEF TotalRequests
<1> QED BY <1>1, <1>2

(* Between two ClusterQueues a pass holds nothing.                         *)
LEMMA NothingHeld ==
    ASSUME TypesInv, NEW p \in Passes,
           pass[p].pc \in {"idle", "range"} \/ (pass[p].pc = "requeue" /\ pass[p].toRetry = << >>)
    PROVE  HeldBy(pass[p]) = {} /\ pass[p].toRetry = << >> /\ pass[p].cur = None
<1>1. PassOK(pass[p]) /\ pass[p].cur \in Workloads \cup {None}
  BY Fields
<1>2. pass[p].cur \notin Workloads /\ pass[p].toRetry = << >>
  BY <1>1 DEF PassOK
<1>3. pass[p].cur = None
  BY <1>1, <1>2
<1>4. ToSet(<< >>) = {}
  BY Elements
<1> QED BY <1>2, <1>3, <1>4 DEF HeldBy

LEMMA RangeTypes ==
    ASSUME TypesInv, NEW p \in Passes,
           BeginPass(p) \/ NextQueue(p) \/ QueueDone(p) \/ EndPass(p)
    PROVE  TypesInv' /\ HeldBy(pass[p]) = {} /\ HeldBy(pass'[p]) = {}
<1>0. UNCHANGED <<queue, active, used, status, flavor, created>>
  BY DEF BeginPass, NextQueue, QueueDone, EndPass
<1>1. HeldBy(pass[p]) = {} /\ pass[p].toRetry = << >> /\ pass[p].cur = None
  <2>1. pass[p].pc \in {"idle", "range"} \/ (pass[p].pc = "requeue" /\ pass[p].toRetry = << >>)
    <3>1. BeginPass(p) => pass[p].pc = "idle"
      BY NoPassState DEF BeginPass
    <3>2. NextQueue(p) \/ EndPass(p) => pass[p].pc = "range"
      BY Zenon DEF NextQueue, EndPass
    <3>3. QueueDone(p) => pass[p].pc = "requeue" /\ pass[p].toRetry = << >>
      BY DEF QueueDone
    <3> QED BY <3>1, <3>2, <3>3
  <2> QED BY <2>1, NothingHeld
<1>2. ToSet(<< >>) = {} /\ None \notin Workloads
  BY Elements, NoneAssumption
<1>3. ASSUME NEW pc \in {"idle", "range", "dequeue"}, NEW cq \in ClusterQueues \cup {None},
             pc = "dequeue" => cq \in ClusterQueues, pc # "dequeue" => cq = None,
             NEW left, NEW fl, Becomes(p, pc, cq, left, None, fl, << >>)
      PROVE  TypesInv' /\ HeldBy(pass'[p]) = {}
  <2>1. HeldBy(pass'[p]) = {}
    <3>1. pass'[p].toRetry = << >> /\ pass'[p].cur = None
      BY <1>3 DEF Becomes
    <3> QED BY <1>2, <3>1 DEF HeldBy
  <2>2. PassOK(pass'[p])
    BY <1>2, <1>3, <2>1 DEF PassOK, Becomes
  <2> QED BY <1>0, <1>3, <2>1, <2>2, PassOnly DEF Becomes
<1>4. CASE BeginPass(p)
  BY <1>1, <1>3, <1>4, BoundsBecome
<1>5. CASE NextQueue(p)
  <2>1. PICK cq \in pass[p].left :
          Becomes(p, "dequeue", cq, pass[p].left \ {cq}, None, pass[p].flavor, << >>)
    BY <1>1, <1>5, NextQueueBecomes
  <2>2. cq \in ClusterQueues
    BY Fields
  <2> QED BY <1>1, <1>3, <2>1, <2>2
<1>6. CASE QueueDone(p)
  <2>1. Becomes(p, "range", None, pass[p].left, None, pass[p].flavor, << >>)
    BY <1>1, <1>6, QueueDoneBecomes
  <2> QED BY <1>1, <1>3, <2>1
<1>7. CASE EndPass(p)
  BY <1>1, <1>3, <1>7, BoundsBecome
<1> QED BY <1>4, <1>5, <1>6, <1>7

LEMMA FitTypes ==
    ASSUME TypesInv, NEW p \in Passes, NoFlavorFits(p) \/ ChooseFlavor(p)
    PROVE  TypesInv' /\ HeldBy(pass'[p]) = HeldBy(pass[p])
<1>0. UNCHANGED <<queue, active, used, status, flavor, created>>
  <2>1. NoFlavorFits(p) => UNCHANGED <<queue, active, used, status, flavor, created>>
    BY DEF NoFlavorFits
  <2>2. ChooseFlavor(p) => UNCHANGED <<queue, active, used, status, flavor, created>>
    BY DEF ChooseFlavor
  <2> QED BY <2>1, <2>2
<1>1. /\ pass[p].cur \in Workloads /\ pass[p].cq \in ClusterQueues
      /\ pass[p].toRetry \in Seq(Workloads)
      /\ \A w \in HeldBy(pass[p]) : RouteOf[w] = pass[p].cq
  BY Fields DEF NoFlavorFits, ChooseFlavor, PassOK
<1>2. None \notin Workloads
  BY NoneAssumption
<1>3. CASE NoFlavorFits(p)
  <2> DEFINE retry == Append(pass[p].toRetry, pass[p].cur)
  <2>1. Becomes(p, "dequeue", pass[p].cq, pass[p].left, None, pass[p].flavor, retry)
    BY <1>3, NoFlavorFitsBecomes
  <2>2. ToSet(retry) = ToSet(pass[p].toRetry) \cup {pass[p].cur}
    BY <1>1, AppendAdds DEF Added
  <2> HIDE DEF retry
  <2>3. HeldBy(pass'[p]) = HeldBy(pass[p])
    <3>0. pass'[p].toRetry = retry /\ pass'[p].cur = None
      BY <2>1 DEF Becomes
    <3>1. HeldBy(pass'[p]) = ToSet(retry)
      BY <3>0 DEF HeldBy
    <3>2. HeldBy(pass[p]) = ToSet(pass[p].toRetry) \cup {pass[p].cur}
      BY <1>1, <1>2 DEF HeldBy
    <3> QED BY <2>2, <3>1, <3>2
  <2>4. PassOK(pass'[p])
    BY <1>1, <1>2, <2>1, <2>3 DEF PassOK, Becomes
  <2> QED BY <1>0, <2>1, <2>3, <2>4, PassOnly DEF Becomes
<1>4. CASE ChooseFlavor(p)
  <2>1. PICK f \in FlavorNames :
          Becomes(p, "reserve", pass[p].cq, pass[p].left, pass[p].cur, f, pass[p].toRetry)
    BY <1>4, ChooseFlavorBecomes
  <2>2. HeldBy(pass'[p]) = HeldBy(pass[p])
    BY <2>1 DEF HeldBy, Becomes
  <2>3. PassOK(pass'[p])
    BY <1>1, <2>1, <2>2 DEF PassOK, Becomes
  <2> QED BY <1>0, <2>1, <2>2, <2>3, PassOnly DEF Becomes
<1> QED BY <1>3, <1>4

LEMMA DequeueTypes ==
    ASSUME TypesInv, NEW p \in Passes, Dequeue(p)
    PROVE  /\ TypesInv'
           /\ \/ queue' = queue /\ HeldBy(pass'[p]) = HeldBy(pass[p]) /\ queue[pass[p].cq] = << >>
              \/ /\ AddedTo(queue', pass[p].cq, pass'[p].cur, queue)
                 /\ pass'[p].cur \in Workloads
                 /\ HeldBy(pass'[p]) = HeldBy(pass[p]) \cup {pass'[p].cur}
<1> DEFINE cq == pass[p].cq
           w == Head(queue[cq])
<1>0. UNCHANGED <<active, used, status, flavor, created>>
  BY DEF Dequeue
<1>1. /\ cq \in ClusterQueues /\ pass[p].toRetry \in Seq(Workloads)
      /\ pass[p].pc = "dequeue" /\ pass[p].cur = None
      /\ \A v \in HeldBy(pass[p]) : RouteOf[v] = cq
  <2>1. pass[p].pc = "dequeue"
    BY DEF Dequeue
  <2> QED BY <2>1, Fields DEF PassOK
<1>2. None \notin Workloads /\ queue \in [ClusterQueues -> Seq(Workloads)]
  BY NoneAssumption DEF TypesInv, TypeOK
<1>3. CASE queue[cq] = << >>
  <2>1. /\ Becomes(p, "requeue", cq, pass[p].left, pass[p].cur, pass[p].flavor, pass[p].toRetry)
        /\ queue' = queue
    BY <1>3, DequeueBecomes
  <2>2. HeldBy(pass'[p]) = HeldBy(pass[p])
    BY <2>1 DEF HeldBy, Becomes
  <2>3. PassOK(pass'[p])
    BY <1>1, <1>2, <2>1, <2>2 DEF PassOK, Becomes
  <2>4. TypesInv'
    BY <1>0, <2>1, <2>2, <2>3, PassOnly DEF Becomes
  <2> QED BY <1>3, <2>1, <2>2, <2>4
<1>4. CASE queue[cq] # << >>
  <2>1. /\ Becomes(p, "fit", cq, pass[p].left, w, pass[p].flavor, pass[p].toRetry)
        /\ queue' = [queue EXCEPT ![cq] = Tail(@)]
    BY <1>4, DequeueBecomes
  <2>2. w \in Workloads /\ AddedTo(queue', cq, w, queue)
    <3> HIDE DEF cq
    <3> QED BY <1>1, <1>2, <1>4, <2>1, TailFrom
  <2> HIDE DEF w
  <2>3. /\ queue' \in [ClusterQueues -> Seq(Workloads)]
        /\ ToSet(queue[cq]) = ToSet(queue'[cq]) \cup {w}
        /\ \A c \in ClusterQueues : ToSet(queue'[c]) \subseteq ToSet(queue[c])
    BY <2>2 DEF AddedTo, Added
  <2>4. RouteOf[w] = cq /\ created[w] > 0
    BY <1>1, <2>3 DEF TypesInv, TypeOK
  <2>5. HeldBy(pass'[p]) = HeldBy(pass[p]) \cup {w}
    <3>0. pass'[p].toRetry = pass[p].toRetry /\ pass'[p].cur = w
      BY <2>1 DEF Becomes
    <3>1. HeldBy(pass'[p]) = ToSet(pass[p].toRetry) \cup {w}
      BY <1>2, <2>2, <3>0 DEF HeldBy
    <3>2. HeldBy(pass[p]) = ToSet(pass[p].toRetry)
      BY <1>1 DEF HeldBy
    <3> QED BY <1>2, <2>2, <3>1, <3>2
  <2>6. PassOK(pass'[p])
    BY <1>1, <2>1, <2>2, <2>4, <2>5 DEF PassOK, Becomes
  <2>7. \A q \in Passes : PassOK(pass'[q]) /\ \A v \in HeldBy(pass'[q]) : created'[v] > 0
    <3>1. \A v \in HeldBy(pass'[p]) : created'[v] > 0
      BY <1>0, <2>4, <2>5 DEF TypesInv
    <3>2. pass' \in [Passes -> PassStates] /\ \A q \in Passes : q # p => pass'[q] = pass[q]
      BY <2>1 DEF Becomes
    <3> QED BY <1>0, <2>6, <3>1, <3>2, PassesStay
  <2>8. \A c \in ClusterQueues : \A v \in ToSet(queue'[c]) : RouteOf[v] = c /\ created'[v] > 0
    BY <1>0, <2>3 DEF TypesInv, TypeOK
  <2>9. TypeOK'
    <3>1. pass' \in [Passes -> PassStates]
      BY <2>1 DEF Becomes
    <3> QED BY <1>0, <2>3, <2>8, <3>1 DEF TypesInv, TypeOK
  <2>10. pass'[p].cur = w
    BY <2>1 DEF Becomes
  <2> QED BY <2>2, <2>5, <2>7, <2>9, <2>10 DEF TypesInv
<1> QED BY <1>3, <1>4

LEMMA AdmitTypes ==
    ASSUME TypesInv, NEW p \in Passes, Admit(p)
    PROVE  /\ TypesInv'
           /\ AddedTo(active, pass[p].cq, pass[p].cur, active')
           /\ HeldBy(pass'[p]) = ToSet(pass[p].toRetry) /\ pass[p].cur \in HeldBy(pass[p])
           /\ HeldBy(pass[p]) = HeldBy(pass'[p]) \cup {pass[p].cur}
           /\ RouteOf[pass[p].cur] = pass[p].cq
<1> DEFINE cq == pass[p].cq
           w == pass[p].cur
           f == pass[p].flavor
<1>1. /\ w \in Workloads /\ f \in FlavorNames /\ cq \in ClusterQueues
      /\ Becomes(p, "dequeue", cq, pass[p].left, None, None, pass[p].toRetry)
  BY AdmitBecomes
<1>2. None \notin Workloads /\ \A v \in HeldBy(pass[p]) : RouteOf[v] = cq
  BY NoneAssumption, Fields DEF PassOK
<1>3. /\ used' = [used EXCEPT ![f] = [r \in Resources |-> used[f][r] + TotalRequests(w)[r]]]
      /\ flavor' = [flavor EXCEPT ![w] = f]
      /\ status' = [status EXCEPT ![w] = "Admitted"]
      /\ active' = [active EXCEPT ![cq] = Append(@, w)]
      /\ queue' = queue /\ created' = created
  BY DEF Admit, Reserve
<1>4. HeldBy(pass[p]) = ToSet(pass[p].toRetry) \cup {w} /\ w \in HeldBy(pass[p])
  BY <1>1, <1>2 DEF HeldBy
<1>5. HeldBy(pass'[p]) = ToSet(pass[p].toRetry)
  <2>1. pass'[p].toRetry = pass[p].toRetry /\ pass'[p].cur = None
    BY <1>1 DEF Becomes
  <2> QED BY <2>1 DEF HeldBy
<1>6. RouteOf[w] = cq
  BY <1>2, <1>4
<1> HIDE DEF w, cq, f
<1>7. AddedTo(active, cq, w, active')
  <2>1. active \in [ClusterQueues -> Seq(Workloads)]
    BY DEF TypesInv, TypeOK
  <2> QED BY <1>1, <1>3, <2>1, AppendInto
<1>8. PassOK(pass'[p])
  BY <1>1, <1>2, <1>4, <1>5 DEF PassOK, Becomes
<1>9. \A q \in Passes : PassOK(pass'[q]) /\ \A v \in HeldBy(pass'[q]) : created'[v] > 0
  <2>1. \A v \in HeldBy(pass'[p]) : created'[v] > 0
    BY <1>3, <1>4, <1>5 DEF TypesInv
  <2>2. pass' \in [Passes -> PassStates] /\ \A q \in Passes : q # p => pass'[q] = pass[q]
    BY <1>1 DEF Becomes
  <2> QED BY <1>3, <1>8, <2>1, <2>2, PassesStay
<1>10. used' \in [FlavorNames -> [Resources -> Int]]
  <2>1. used \in [FlavorNames -> [Resources -> Int]]
    BY DEF TypesInv, TypeOK
  <2>2. [r \in Resources |-> used[f][r] + TotalRequests(w)[r]] \in [Resources -> Int]
    <3>1. \A r \in Resources : used[f][r] \in Int /\ TotalRequests(w)[r] \in Int
      BY <1>1, <2>1, TotalIsNat
    <3> QED BY <3>1
  <2> QED BY <1>1, <1>3, <2>1, <2>2
<1>11. /\ status' \in [Workloads -> {"new", "Pending", "Admitted", "Finished"}]
       /\ flavor' \in [Workloads -> FlavorNames \cup {None}]
       /\ flavor'[w] = f /\ \A v \in Workloads : v # w => flavor'[v] = flavor[v]
  BY <1>1, <1>3 DEF TypesInv, TypeOK
<1>12. /\ active' \in [ClusterQueues -> Seq(Workloads)]
       /\ ToSet(active'[cq]) = ToSet(active[cq]) \cup {w}
       /\ \A c \in ClusterQueues : c # cq => active'[c] = active[c]
  BY <1>7 DEF AddedTo, Added
<1>13. ASSUME NEW c \in ClusterQueues, NEW v \in ToSet(active'[c])
       PROVE  RouteOf[v] = c /\ flavor'[v] \in FlavorNames
  <2>1. CASE v = w /\ c = cq
    BY <1>1, <1>6, <1>11, <2>1
  <2>2. CASE v \in ToSet(active[c])
    <3>1. RouteOf[v] = c /\ flavor[v] \in FlavorNames /\ v \in Workloads
      BY <2>2, Elements DEF TypesInv, TypeOK
    <3> QED BY <1>1, <1>11, <3>1
  <2> QED BY <1>12, <2>1, <2>2
<1>14. TypeOK'
  <2>1. pass' \in [Passes -> PassStates]
    BY <1>1 DEF Becomes
  <2> QED BY <1>3, <1>10, <1>11, <1>12, <1>13, <2>1 DEF TypesInv, TypeOK
<1>15. TypesInv'
  BY <1>9, <1>14 DEF TypesInv
<1> QED BY <1>4, <1>5, <1>6, <1>7, <1>15 DEF w, cq

LEMMA RequeueTypes ==
    ASSUME TypesInv, NEW p \in Passes, Requeue(p)
    PROVE  /\ TypesInv'
           /\ EnqueueTo(created, queue, pass[p].cq, Head(pass[p].toRetry), queue')
           /\ AddedTo(queue, pass[p].cq, Head(pass[p].toRetry), queue')
           /\ Added(pass'[p].toRetry, Head(pass[p].toRetry), pass[p].toRetry)
           /\ pass'[p].cur = pass[p].cur /\ pass[p].cur = None /\ pass'[p].pc = "requeue"
           /\ Head(pass[p].toRetry) \in Workloads /\ RouteOf[Head(pass[p].toRetry)] = pass[p].cq
<1> DEFINE cq == pass[p].cq
           q == pass[p].toRetry
           w == Head(q)
<1>1. /\ cq \in ClusterQueues /\ q \in Seq(Workloads)
      /\ Becomes(p, "requeue", cq, pass[p].left, pass[p].cur, pass[p].flavor, Tail(q))
  BY RequeueBecomes
<1>2. /\ q # << >> /\ pass[p].pc = "requeue" /\ status' = [status EXCEPT ![w] = "Pending"]
      /\ queue' = [queue EXCEPT ![cq] = Enqueued(created, queue[cq], w)]
      /\ active' = active /\ used' = used /\ flavor' = flavor /\ created' = created
  BY DEF Requeue
<1>3. /\ \A v \in HeldBy(pass[p]) : RouteOf[v] = cq
      /\ pass[p].cur = None
  BY <1>2, Fields DEF PassOK
<1> HIDE DEF q
<1>4. w \in Workloads /\ Tail(q) \in Seq(Workloads) /\ Added(Tail(q), w, q)
  BY <1>1, <1>2, TailAdds
<1> HIDE DEF w
<1>5. HeldBy(pass[p]) = ToSet(q) /\ HeldBy(pass'[p]) = ToSet(Tail(q)) /\ w \in ToSet(q)
  <2>1. HeldBy(pass[p]) = ToSet(q)
    BY <1>3 DEF HeldBy, q
  <2>2. pass'[p].toRetry = Tail(q) /\ pass'[p].cur = None
    BY <1>1, <1>3 DEF Becomes
  <2>3. HeldBy(pass'[p]) = ToSet(Tail(q))
    BY <2>2 DEF HeldBy
  <2> QED BY <1>4, <2>1, <2>3 DEF Added
<1>6. RouteOf[w] = cq /\ created[w] > 0
  BY <1>3, <1>5 DEF TypesInv
<1> HIDE DEF cq
<1>7. EnqueueTo(created, queue, cq, w, queue') /\ AddedTo(queue, cq, w, queue')
  <2>1. EnqueueTo(created, queue, cq, w, queue')
    BY <1>2 DEF EnqueueTo
  <2>2. queue \in [ClusterQueues -> Seq(Workloads)]
    BY DEF TypesInv, TypeOK
  <2> QED BY <1>1, <1>4, <2>1, <2>2, EnqueueInto
<1>8. /\ queue' \in [ClusterQueues -> Seq(Workloads)]
      /\ ToSet(queue'[cq]) = ToSet(queue[cq]) \cup {w}
      /\ \A c \in ClusterQueues : c # cq => queue'[c] = queue[c]
  BY <1>7 DEF AddedTo, Added
<1>9. ASSUME NEW c \in ClusterQueues, NEW v \in ToSet(queue'[c])
      PROVE  RouteOf[v] = c /\ created'[v] > 0
  <2>1. v \in ToSet(queue[c]) \/ (v = w /\ c = cq)
    BY <1>8
  <2> QED BY <1>2, <1>6, <2>1 DEF TypesInv, TypeOK
<1>10. HeldBy(pass'[p]) \subseteq HeldBy(pass[p])
  BY <1>4, <1>5 DEF Added
<1>11. PassOK(pass'[p])
  <2>1. None \notin Workloads
    BY NoneAssumption
  <2> QED BY <1>1, <1>3, <1>10, <2>1 DEF PassOK, Becomes
<1>12. \A r \in Passes : PassOK(pass'[r]) /\ \A v \in HeldBy(pass'[r]) : created'[v] > 0
  <2>1. \A v \in HeldBy(pass'[p]) : created'[v] > 0
    BY <1>2, <1>10 DEF TypesInv
  <2>2. pass' \in [Passes -> PassStates] /\ \A r \in Passes : r # p => pass'[r] = pass[r]
    BY <1>1 DEF Becomes
  <2> QED BY <1>2, <1>11, <2>1, <2>2, PassesStay
<1>13. TypeOK'
  <2>1. pass' \in [Passes -> PassStates]
    BY <1>1 DEF Becomes
  <2>2. status' \in [Workloads -> {"new", "Pending", "Admitted", "Finished"}]
    BY <1>2, <1>4 DEF TypesInv, TypeOK
  <2> QED BY <1>2, <1>8, <1>9, <2>1, <2>2 DEF TypesInv, TypeOK
<1>14. pass'[p].toRetry = Tail(q) /\ pass'[p].cur = pass[p].cur /\ pass'[p].pc = "requeue"
  BY <1>1 DEF Becomes
<1> QED BY <1>3, <1>4, <1>6, <1>7, <1>12, <1>13, <1>14 DEF TypesInv, cq, q, w

LEMMA ReleaseTypes ==
    ASSUME TypesInv, NEW w \in Workloads, ReleaseWorkload(w)
    PROVE  TypesInv'
<1>1. /\ used' = Release(flavor[w], w) /\ status' = [status EXCEPT ![w] = "Finished"]
      /\ UNCHANGED <<queue, active, flavor, created, pass>>
  BY DEF ReleaseWorkload
<1>2. used \in [FlavorNames -> [Resources -> Int]] /\ flavor[w] \in FlavorNames \cup {None}
  BY DEF TypesInv, TypeOK
<1>3. used' \in [FlavorNames -> [Resources -> Int]]
  <2>1. CASE flavor[w] = None
    BY <1>1, <1>2, <2>1 DEF Release
  <2>2. CASE flavor[w] # None
    <3> DEFINE f == flavor[w]
    <3>1. f \in FlavorNames
      BY <1>2, <2>2
    <3>2. used' = [used EXCEPT ![f] = [r \in Resources |-> used[f][r] - TotalRequests(w)[r]]]
      BY <1>1, <2>2 DEF Release
    <3> HIDE DEF f
    <3>3. \A r \in Resources : used[f][r] \in Int /\ TotalRequests(w)[r] \in Int
      BY <1>2, <3>1, TotalIsNat
    <3>4. [r \in Resources |-> used[f][r] - TotalRequests(w)[r]] \in [Resources -> Int]
      BY <3>3
    <3> QED BY <1>2, <3>1, <3>2, <3>4
  <2> QED BY <2>1, <2>2
<1>4. status' \in [Workloads -> {"new", "Pending", "Admitted", "Finished"}]
  BY <1>1 DEF TypesInv, TypeOK
<1> QED BY <1>1, <1>3, <1>4 DEF TypesInv, TypeOK

(* FinishByName finds a workload of the list.                              *)
LEMMA FoundByName ==
    ASSUME TypesInv, NEW cq \in ClusterQueues, NEW name, FinishByName(cq, name)
    PROVE  \E w \in ToSet(active[cq]) :
              w \in Workloads /\ Name[w] = name /\ ReleaseWorkload(w)
<1> DEFINE q == active[cq]
           named == {i \in DOMAIN q : Name[q[i]] = name}
           k == Min(named)
<1>1. q \in Seq(Workloads)
  BY DEF TypesInv, TypeOK
<1>2. DOMAIN q = 1 .. Len(q) /\ Len(q) \in Nat /\ \A i \in DOMAIN q : q[i] \in Workloads
  BY <1>1, LenProperties, ElementOfSeq
<1>3. named # {} /\ ReleaseWorkload(q[k])
  BY DEF FinishByName
<1>4. k \in named
  <2>1. named \in SUBSET (1 .. Len(q))
    BY <1>2
  <2> HIDE DEF named
  <2> QED BY <1>2, <1>3, <2>1, FirstPosition
<1> HIDE DEF k
<1>5. k \in DOMAIN q /\ Name[q[k]] = name
  BY <1>4
<1>6. q[k] \in ToSet(q)
  BY <1>5 DEF ToSet
<1> QED BY <1>2, <1>3, <1>5, <1>6

LEMMA TypesInit == Init => TypesInv
<1> SUFFICES ASSUME Init PROVE TypesInv
  OBVIOUS
<1>1. TypeOK
  <2>1. Cardinality(Workloads) \in Nat
    BY NoneAssumption, FS_CardinalityType
  <2>2. /\ queue = [cq \in ClusterQueues |-> << >>] /\ active = [cq \in ClusterQueues |-> << >>]
        /\ used = [f \in FlavorNames |-> [r \in Resources |-> 0]]
        /\ status = [w \in Workloads |-> "new"] /\ flavor = [w \in Workloads |-> None]
        /\ created = [w \in Workloads |-> 0] /\ pass = [p \in Passes |-> NoPass]
    BY DEF Init
  <2>3. pass \in [Passes -> PassStates]
    BY <2>2, NoPassState
  <2>4. /\ queue \in [ClusterQueues -> Seq(Workloads)] /\ active \in [ClusterQueues -> Seq(Workloads)]
        /\ \A cq \in ClusterQueues : ToSet(queue[cq]) = {} /\ ToSet(active[cq]) = {}
    BY <2>2, Elements
  <2>5. /\ used \in [FlavorNames -> [Resources -> Int]]
        /\ status \in [Workloads -> {"new", "Pending", "Admitted", "Finished"}]
        /\ flavor \in [Workloads -> FlavorNames \cup {None}]
        /\ created \in [Workloads -> 0 .. Cardinality(Workloads)]
    BY <2>1, <2>2
  <2> QED BY <2>3, <2>4, <2>5 DEF TypeOK
<1>2. \A p \in Passes : PassOK(pass[p]) /\ HeldBy(pass[p]) = {}
  BY NoPassState DEF Init
<1> QED BY <1>1, <1>2 DEF TypesInv

LEMMA TypesNext == TypesInv /\ [Next]_vars => TypesInv'
<1> SUFFICES ASSUME TypesInv, [Next]_vars PROVE TypesInv'
  OBVIOUS
<1>1. ASSUME NEW w \in Workloads, Submit(w) PROVE TypesInv'
  BY <1>1, SubmitTypes
<1>2. ASSUME NEW w \in Workloads, Finish(w) PROVE TypesInv'
  BY <1>2, ReleaseTypes DEF Finish
<1>3. ASSUME NEW cq \in ClusterQueues, NEW name, FinishByName(cq, name) PROVE TypesInv'
  BY <1>3, FoundByName, ReleaseTypes
<1>4. ASSUME NEW p \in Passes, BeginPass(p) PROVE TypesInv'
  BY <1>4, RangeTypes
<1>5. ASSUME NEW p \in Passes, PassStep(p) PROVE TypesInv'
  <2>1. CASE NextQueue(p) \/ QueueDone(p) \/ EndPass(p)
    BY <2>1, RangeTypes
  <2>2. CASE Dequeue(p)
    BY <2>2, DequeueTypes
  <2>3. CASE NoFlavorFits(p) \/ ChooseFlavor(p)
    BY <2>3, FitTypes
  <2>4. CASE Admit(p)
    BY <2>4, AdmitTypes
  <2>5. CASE Requeue(p)
    BY <2>5, RequeueTypes
  <2> QED BY <1>5, <2>1, <2>2, <2>3, <2>4, <2>5 DEF PassStep
<1>6. CASE UNCHANGED vars
  BY <1>6 DEF vars, TypesInv, TypeOK
<1> QED BY <1>1, <1>2, <1>3, <1>4, <1>5, <1>6 DEF Next, Serve

(* Every variable has its type, and the lists of a ClusterQueue hold only  *)
(* its own workloads, whatever clients finish.                             *)
THEOREM KueueTypes == Spec => []TypeOK
<1>1. TypesInv => TypeOK
  BY DEF TypesInv
<1> QED BY <1>1, TypesInit, TypesNext, PTL DEF Spec

-----------------------------------------------------------------------------
(* Places. A step moves at most one workload, from one list to another.    *)

(* w comes to the members of the list i.                                   *)
Gains(D, fs, i, w, new) ==
    /\ i \in D /\ w \notin fs[i] /\ new[i] = fs[i] \cup {w}
    /\ \A j \in D : j # i => new[j] = fs[j]

(* For the other workloads nothing changes.                                *)
LEMMA GainsOne ==
    ASSUME NEW D, NEW fs, NEW i, NEW w, NEW new, Gains(D, fs, i, w, new)
    PROVE  /\ w \in new[i] /\ w \notin fs[i]
           /\ \A j \in D : \A v : v # w => (v \in new[j] <=> v \in fs[j])
           /\ \A j \in D : j # i => (w \in new[j] <=> w \in fs[j])
BY DEF Gains

LEMMA SubmitPlaced ==
    ASSUME NEW qs, NEW hs, NEW ac, NEW fr, NEW w \in Workloads, w \in fr, NEW qn,
           PlacedOK(qs, hs, ac, fr), Gains(ClusterQueues, qs, RouteOf[w], w, qn)
    PROVE  PlacedOK(qn, hs, ac, fr \ {w})
<1> SUFFICES ASSUME NEW v \in Workloads
             PROVE  OnePlace(v, qn[RouteOf[v]], hs, ac[RouteOf[v]], fr \ {w})
  BY DEF PlacedOK
<1> DEFINE cq == RouteOf[v]
<1>1. cq \in ClusterQueues /\ OnePlace(v, qs[cq], hs, ac[cq], fr)
  BY WorkloadAssumption DEF PlacedOK
<1>2. v = w \/ (v \in qn[cq] <=> v \in qs[cq])
  BY <1>1, GainsOne
<1>3. v = w => v \in qn[cq] /\ v \notin qs[cq]
  BY GainsOne
<1> HIDE DEF cq
<1>4. OnePlace(v, qn[cq], hs, ac[cq], fr \ {w})
  BY <1>1, <1>2, <1>3 DEF OnePlace
<1> QED BY <1>4 DEF cq

LEMMA DequeuePlaced ==
    ASSUME NEW qs, NEW hs, NEW ac, NEW fr, NEW w \in Workloads, NEW p, NEW qn, NEW hn,
           PlacedOK(qs, hs, ac, fr), Gains(ClusterQueues, qn, RouteOf[w], w, qs),
           Gains(Passes, hs, p, w, hn)
    PROVE  PlacedOK(qn, hn, ac, fr)
<1> SUFFICES ASSUME NEW v \in Workloads
             PROVE  OnePlace(v, qn[RouteOf[v]], hn, ac[RouteOf[v]], fr)
  BY DEF PlacedOK
<1> DEFINE cq == RouteOf[v]
<1>1. cq \in ClusterQueues /\ OnePlace(v, qs[cq], hs, ac[cq], fr) /\ p \in Passes
  BY WorkloadAssumption DEF PlacedOK, Gains
<1>2. /\ w \in qs[RouteOf[w]] /\ w \notin qn[RouteOf[w]]
      /\ v # w => (v \in qs[cq] <=> v \in qn[cq])
  <2> HIDE DEF cq
  <2> QED BY <1>1, GainsOne
<1>3. /\ w \in hn[p] /\ w \notin hs[p]
      /\ \A q \in Passes : q # p \/ v # w => (v \in hn[q] <=> v \in hs[q])
  <2>1. /\ \A j \in Passes : \A u : u # w => (u \in hn[j] <=> u \in hs[j])
        /\ \A j \in Passes : j # p => (w \in hn[j] <=> w \in hs[j])
        /\ w \in hn[p] /\ w \notin hs[p]
    BY GainsOne
  <2> QED BY <2>1
<1>4. v = w => v \in qs[cq] /\ v \notin qn[cq]
  BY <1>2
<1> HIDE DEF cq
<1>5. OnePlace(v, qn[cq], hn, ac[cq], fr)
  BY <1>1, <1>2, <1>3, <1>4 DEF OnePlace
<1> QED BY <1>5 DEF cq

LEMMA AdmitPlaced ==
    ASSUME NEW qs, NEW hs, NEW ac, NEW fr, NEW w \in Workloads, NEW p, NEW an, NEW hn,
           PlacedOK(qs, hs, ac, fr), Gains(ClusterQueues, ac, RouteOf[w], w, an),
           Gains(Passes, hn, p, w, hs)
    PROVE  PlacedOK(qs, hn, an, fr)
<1> SUFFICES ASSUME NEW v \in Workloads
             PROVE  OnePlace(v, qs[RouteOf[v]], hn, an[RouteOf[v]], fr)
  BY DEF PlacedOK
<1> DEFINE cq == RouteOf[v]
<1>1. cq \in ClusterQueues /\ OnePlace(v, qs[cq], hs, ac[cq], fr) /\ p \in Passes
  BY WorkloadAssumption DEF PlacedOK, Gains
<1>2. /\ w \in an[RouteOf[w]] /\ w \notin ac[RouteOf[w]]
      /\ v # w => (v \in an[cq] <=> v \in ac[cq])
  <2> HIDE DEF cq
  <2> QED BY <1>1, GainsOne
<1>3. /\ w \in hs[p] /\ w \notin hn[p]
      /\ \A q \in Passes : q # p \/ v # w => (v \in hs[q] <=> v \in hn[q])
  <2>1. /\ \A j \in Passes : \A u : u # w => (u \in hs[j] <=> u \in hn[j])
        /\ \A j \in Passes : j # p => (w \in hs[j] <=> w \in hn[j])
        /\ w \in hs[p] /\ w \notin hn[p]
    BY GainsOne
  <2> QED BY <2>1
<1>4. v = w => v \in an[cq] /\ v \notin ac[cq]
  BY <1>2
<1> HIDE DEF cq
<1>5. OnePlace(v, qs[cq], hn, an[cq], fr)
  BY <1>1, <1>2, <1>3, <1>4 DEF OnePlace
<1> QED BY <1>5 DEF cq

LEMMA RequeuePlaced ==
    ASSUME NEW qs, NEW hs, NEW ac, NEW fr, NEW w \in Workloads, NEW p, NEW qn, NEW hn,
           PlacedOK(qs, hs, ac, fr), Gains(ClusterQueues, qs, RouteOf[w], w, qn),
           Gains(Passes, hn, p, w, hs)
    PROVE  PlacedOK(qn, hn, ac, fr)
<1> SUFFICES ASSUME NEW v \in Workloads
             PROVE  OnePlace(v, qn[RouteOf[v]], hn, ac[RouteOf[v]], fr)
  BY DEF PlacedOK
<1> DEFINE cq == RouteOf[v]
<1>1. cq \in ClusterQueues /\ OnePlace(v, qs[cq], hs, ac[cq], fr) /\ p \in Passes
  BY WorkloadAssumption DEF PlacedOK, Gains
<1>2. /\ w \in qn[RouteOf[w]] /\ w \notin qs[RouteOf[w]]
      /\ v # w => (v \in qn[cq] <=> v \in qs[cq])
  <2> HIDE DEF cq
  <2> QED BY <1>1, GainsOne
<1>3. /\ w \in hs[p] /\ w \notin hn[p]
      /\ \A q \in Passes : q # p \/ v # w => (v \in hs[q] <=> v \in hn[q])
  <2>1. /\ \A j \in Passes : \A u : u # w => (u \in hs[j] <=> u \in hn[j])
        /\ \A j \in Passes : j # p => (w \in hs[j] <=> w \in hn[j])
        /\ w \in hs[p] /\ w \notin hn[p]
    BY GainsOne
  <2> QED BY <2>1
<1>4. v = w => v \in qn[cq] /\ v \notin qs[cq]
  BY <1>2
<1> HIDE DEF cq
<1>5. OnePlace(v, qn[cq], hn, ac[cq], fr)
  BY <1>1, <1>2, <1>3, <1>4 DEF OnePlace
<1> QED BY <1>5 DEF cq

LEMMA ListGains ==
    ASSUME NEW qs, NEW cq \in ClusterQueues, NEW w, NEW new, AddedTo(qs, cq, w, new)
    PROVE  /\ ListsOK(qs) /\ w \notin ToSet(qs[cq]) =>
                 ListsOK(new) /\ Gains(ClusterQueues, Members(qs), cq, w, Members(new))
           /\ ListsOK(new) =>
                 ListsOK(qs) /\ Gains(ClusterQueues, Members(qs), cq, w, Members(new))
<1>1. /\ ToSet(new[cq]) = ToSet(qs[cq]) \cup {w}
      /\ IsInjective(new[cq]) <=> IsInjective(qs[cq]) /\ w \notin ToSet(qs[cq])
      /\ \A c \in ClusterQueues : c # cq => new[c] = qs[c]
  BY DEF AddedTo, Added
<1>2. w \notin ToSet(qs[cq]) => Gains(ClusterQueues, Members(qs), cq, w, Members(new))
  <2>1. \A c \in ClusterQueues : Members(qs)[c] = ToSet(qs[c]) /\ Members(new)[c] = ToSet(new[c])
    BY DEF Members
  <2> QED BY <1>1, <2>1 DEF Gains
<1>3. ListsOK(new) <=> ListsOK(qs) /\ w \notin ToSet(qs[cq])
  BY <1>1 DEF ListsOK
<1> QED BY <1>2, <1>3

LEMMA PassGains ==
    ASSUME NEW p \in Passes, NEW w, \A q \in Passes : q # p => pass'[q] = pass[q]
    PROVE  /\ w \notin HeldBy(pass[p]) /\ HeldBy(pass'[p]) = HeldBy(pass[p]) \cup {w} =>
                 Gains(Passes, InPass, p, w, InPass')
           /\ w \notin HeldBy(pass'[p]) /\ HeldBy(pass[p]) = HeldBy(pass'[p]) \cup {w} =>
                 Gains(Passes, InPass', p, w, InPass)
           /\ HeldBy(pass'[p]) = HeldBy(pass[p]) => InPass' = InPass
<1>1. \A q \in Passes : InPass[q] = HeldBy(pass[q]) /\ InPass'[q] = HeldBy(pass'[q])
  BY DEF InPass
<1>2. \A q \in Passes : q # p => InPass'[q] = InPass[q]
  BY <1>1
<1>3. HeldBy(pass'[p]) = HeldBy(pass[p]) => InPass' = InPass
  BY <1>1, <1>2 DEF InPass
<1> QED BY <1>1, <1>2, <1>3 DEF Gains

(* Where the members of the lists are, by name.                            *)
LEMMA PlaceFacts ==
    ASSUME TypesInv, PlaceInv, NEW w \in Workloads
    PROVE  /\ RouteOf[w] \in ClusterQueues
           /\ InQueue[RouteOf[w]] = ToSet(queue[RouteOf[w]])
           /\ InActive[RouteOf[w]] = ToSet(active[RouteOf[w]])
           /\ \A p \in Passes : InPass[p] = HeldBy(pass[p])
           /\ OnePlace(w, InQueue[RouteOf[w]], InPass, InActive[RouteOf[w]], Fresh)
<1>1. RouteOf[w] \in ClusterQueues
  BY WorkloadAssumption
<1> QED BY <1>1 DEF InQueue, InActive, InPass, Members, PlaceInv, PlacedOK

LEMMA HandsStay ==
    ASSUME PlaceInv, NEW p \in Passes, \A q \in Passes : q # p => pass'[q] = pass[q],
           HandOK(pass'[p])
    PROVE  \A q \in Passes : HandOK(pass'[q])
BY DEF PlaceInv

LEMMA SubmitPlaces ==
    ASSUME TypesInv, PlaceInv, NEW w \in Workloads, Submit(w)
    PROVE  /\ PlaceInv' /\ w \in Fresh
           /\ Gains(ClusterQueues, InQueue, RouteOf[w], w, InQueue')
<1>1. /\ status[w] = "new" /\ status' = [status EXCEPT ![w] = "Pending"]
      /\ active' = active /\ pass' = pass
  BY DEF Submit
<1>2. w \in Fresh /\ Fresh' = Fresh \ {w}
  BY <1>1 DEF Fresh, TypesInv, TypeOK
<1> DEFINE cq == RouteOf[w]
<1>3. cq \in ClusterQueues /\ w \notin ToSet(queue[cq])
  BY <1>2, PlaceFacts DEF OnePlace
<1>4. AddedTo(queue, cq, w, queue')
  BY SubmitTypes
<1> HIDE DEF cq
<1>5. ListsOK(queue') /\ Gains(ClusterQueues, Members(queue), cq, w, Members(queue'))
  BY <1>3, <1>4, ListGains DEF PlaceInv
<1>6. Gains(ClusterQueues, InQueue, cq, w, InQueue')
  BY <1>5 DEF InQueue
<1>7. PlacedOK(InQueue', InPass, InActive, Fresh \ {w})
  BY <1>2, <1>6, SubmitPlaced DEF cq, PlaceInv
<1>8. InPass' = InPass /\ InActive' = InActive
  BY <1>1 DEF InPass, InActive, Members
<1>9. PlaceInv'
  BY <1>1, <1>2, <1>5, <1>7, <1>8 DEF PlaceInv
<1> QED BY <1>2, <1>6, <1>9 DEF cq

LEMMA ReleasePlaces ==
    ASSUME TypesInv, PlaceInv, NEW w \in Workloads, ReleaseWorkload(w), w \notin Fresh
    PROVE  PlaceInv' /\ InQueue' = InQueue /\ InActive' = InActive /\ InPass' = InPass
<1>1. /\ status' = [status EXCEPT ![w] = "Finished"]
      /\ queue' = queue /\ active' = active /\ pass' = pass
  BY DEF ReleaseWorkload
<1>2. Fresh' = Fresh
  BY <1>1 DEF Fresh, TypesInv, TypeOK
<1>3. InQueue' = InQueue /\ InPass' = InPass /\ InActive' = InActive
  BY <1>1 DEF InQueue, InPass, InActive, Members
<1> QED BY <1>1, <1>2, <1>3 DEF PlaceInv

(* Steps that move nothing.                                                *)
LEMMA RangePlaces ==
    ASSUME TypesInv, PlaceInv, NEW p \in Passes,
           BeginPass(p) \/ NextQueue(p) \/ QueueDone(p) \/ EndPass(p)
    PROVE  PlaceInv' /\ InQueue' = InQueue /\ InActive' = InActive /\ InPass' = InPass
<1>1. UNCHANGED <<queue, active, used, status, flavor, created>>
  BY DEF BeginPass, NextQueue, QueueDone, EndPass
<1>2. HeldBy(pass[p]) = {} /\ HeldBy(pass'[p]) = {} /\ TypesInv'
  BY RangeTypes
<1>3. \A q \in Passes : q # p => pass'[q] = pass[q]
  <2>1. pass \in [Passes -> PassStates]
    BY Fields
  <2>2. BeginPass(p) \/ EndPass(p) => \A q \in Passes : q # p => pass'[q] = pass[q]
    BY BoundsBecome DEF Becomes
  <2>3. NextQueue(p) => \A q \in Passes : q # p => pass'[q] = pass[q]
    BY NextQueueBecomes DEF Becomes
  <2>4. QueueDone(p) => \A q \in Passes : q # p => pass'[q] = pass[q]
    BY QueueDoneBecomes DEF Becomes
  <2> QED BY <2>2, <2>3, <2>4
<1>4. InQueue' = InQueue /\ InActive' = InActive /\ Fresh' = Fresh
  BY <1>1 DEF InQueue, InActive, Members, Fresh
<1>5. InPass' = InPass
  BY <1>2, <1>3, PassGains
<1>6. HandOK(pass'[p])
  <2>1. pass'[p] \in PassStates
    BY <1>2 DEF TypesInv, TypeOK
  <2>2. pass'[p].toRetry \in Seq(Workloads) /\ ToSet(pass'[p].toRetry) = {}
    BY <1>2, <2>1 DEF HeldBy, PassStates
  <2>3. IsInjective(pass'[p].toRetry)
    BY <2>2 DEF IsInjective, ToSet
  <2> QED BY <2>2, <2>3 DEF HandOK
<1>7. \A q \in Passes : HandOK(pass'[q])
  BY <1>3, <1>6, HandsStay
<1> QED BY <1>1, <1>4, <1>5, <1>7 DEF PlaceInv

LEMMA FitPlaces ==
    ASSUME TypesInv, PlaceInv, NEW p \in Passes, NoFlavorFits(p) \/ ChooseFlavor(p)
    PROVE  PlaceInv' /\ InQueue' = InQueue /\ InActive' = InActive /\ InPass' = InPass
<1>1. UNCHANGED <<queue, active, used, status, flavor, created>>
  BY DEF NoFlavorFits, ChooseFlavor
<1>2. HeldBy(pass'[p]) = HeldBy(pass[p])
  BY FitTypes
<1>3. /\ pass[p].toRetry \in Seq(Workloads) /\ None \notin Workloads
      /\ IsInjective(pass[p].toRetry) /\ pass[p].cur \notin ToSet(pass[p].toRetry)
  BY Fields, NoneAssumption DEF PlaceInv, HandOK
<1>4. HandOK(pass'[p]) /\ \A q \in Passes : q # p => pass'[q] = pass[q]
  <2>1. CASE NoFlavorFits(p)
    <3> DEFINE retry == Append(pass[p].toRetry, pass[p].cur)
    <3>1. /\ pass[p].cur \in Workloads
          /\ Becomes(p, "dequeue", pass[p].cq, pass[p].left, None, pass[p].flavor, retry)
      BY <2>1, NoFlavorFitsBecomes
    <3>2. Added(pass[p].toRetry, pass[p].cur, retry)
      BY <1>3, <3>1, AppendAdds
    <3> HIDE DEF retry
    <3>3. IsInjective(retry) /\ None \notin ToSet(retry)
      BY <1>3, <3>2, Elements DEF Added
    <3> QED BY <3>1, <3>3 DEF HandOK, Becomes
  <2>2. CASE ChooseFlavor(p)
    <3>1. PICK f \in FlavorNames :
            Becomes(p, "reserve", pass[p].cq, pass[p].left, pass[p].cur, f, pass[p].toRetry)
      BY <2>2, ChooseFlavorBecomes
    <3> QED BY <1>3, <3>1 DEF HandOK, Becomes
  <2> QED BY <2>1, <2>2
<1>5. InQueue' = InQueue /\ InActive' = InActive /\ Fresh' = Fresh
  BY <1>1 DEF InQueue, InActive, Members, Fresh
<1>6. InPass' = InPass
  BY <1>2, <1>4, PassGains
<1>7. \A q \in Passes : HandOK(pass'[q])
  BY <1>4, HandsStay
<1>8. ListsOK(queue') /\ ListsOK(active')
  BY <1>1 DEF PlaceInv
<1>9. PlacedOK(InQueue, InPass, InActive, Fresh)
  BY DEF PlaceInv
<1> QED BY <1>5, <1>6, <1>7, <1>8, <1>9 DEF PlaceInv

LEMMA DequeuePlaces ==
    ASSUME TypesInv, PlaceInv, NEW p \in Passes, Dequeue(p)
    PROVE  /\ PlaceInv' /\ InActive' = InActive
           /\ \/ InQueue' = InQueue /\ InPass' = InPass /\ queue[pass[p].cq] = << >>
              \/ \E w \in Workloads :
                    /\ w = pass'[p].cur /\ pass[p].cq = RouteOf[w]
                    /\ Gains(ClusterQueues, InQueue', RouteOf[w], w, InQueue)
                    /\ Gains(Passes, InPass, p, w, InPass')
<1> DEFINE cq == pass[p].cq
<1>1. UNCHANGED <<active, used, status, flavor, created>>
  BY DEF Dequeue
<1>2. /\ pass[p].toRetry \in Seq(Workloads) /\ cq \in ClusterQueues
      /\ IsInjective(pass[p].toRetry) /\ pass[p].cur \notin ToSet(pass[p].toRetry)
  <2>1. pass[p].pc = "dequeue"
    BY DEF Dequeue
  <2> QED BY <2>1, Fields DEF PlaceInv, HandOK, PassOK
<1>3. /\ \A q \in Passes : q # p => pass'[q] = pass[q]
      /\ pass'[p].toRetry = pass[p].toRetry
      /\ queue[cq] = << >> => pass'[p].cur = pass[p].cur
  BY DequeueBecomes DEF Becomes
<1>4. InActive' = InActive /\ Fresh' = Fresh
  BY <1>1 DEF InActive, Members, Fresh
<1>5. CASE queue' = queue /\ HeldBy(pass'[p]) = HeldBy(pass[p]) /\ queue[cq] = << >>
  <2>1. InQueue' = InQueue /\ InPass' = InPass
    <3>1. InPass' = InPass
      BY <1>3, <1>5, PassGains
    <3> QED BY <1>5, <3>1 DEF InQueue
  <2>2. \A q \in Passes : HandOK(pass'[q])
    BY <1>2, <1>3, <1>5, HandsStay DEF HandOK
  <2> QED BY <1>1, <1>4, <1>5, <2>1, <2>2 DEF PlaceInv
<1>6. CASE /\ AddedTo(queue', cq, pass'[p].cur, queue)
           /\ pass'[p].cur \in Workloads
           /\ HeldBy(pass'[p]) = HeldBy(pass[p]) \cup {pass'[p].cur}
  <2> DEFINE w == pass'[p].cur
  <2>1. w \in Workloads /\ AddedTo(queue', cq, w, queue) /\ w \in ToSet(queue[cq])
    BY <1>6 DEF AddedTo, Added
  <2>2. RouteOf[w] = cq
    BY <1>2, <2>1 DEF TypesInv, TypeOK
  <2>3. w \notin HeldBy(pass[p])
    BY <1>2, <2>1, <2>2, PlaceFacts DEF OnePlace
  <2>4. HandOK(pass'[p])
    <3>1. w \notin ToSet(pass[p].toRetry)
      BY <2>3 DEF HeldBy
    <3> QED BY <1>2, <1>3, <3>1 DEF HandOK
  <2>5. \A q \in Passes : HandOK(pass'[q])
    BY <1>3, <2>4, HandsStay
  <2>6. HeldBy(pass'[p]) = HeldBy(pass[p]) \cup {w}
    BY <1>6
  <2> HIDE DEF w, cq
  <2>7. ListsOK(queue') /\ Gains(ClusterQueues, Members(queue'), cq, w, Members(queue))
    BY <1>2, <2>1, ListGains DEF PlaceInv
  <2>8. Gains(ClusterQueues, InQueue', cq, w, InQueue)
    BY <2>7 DEF InQueue
  <2>9. Gains(Passes, InPass, p, w, InPass')
    BY <1>3, <2>3, <2>6, PassGains
  <2>10. PlacedOK(InQueue', InPass', InActive, Fresh)
    <3>1. PlacedOK(InQueue, InPass, InActive, Fresh)
      BY DEF PlaceInv
    <3> QED BY <2>1, <2>2, <2>8, <2>9, <3>1, DequeuePlaced
  <2>11. PlaceInv'
    BY <1>1, <1>4, <2>5, <2>7, <2>10 DEF PlaceInv
  <2> QED BY <1>4, <2>1, <2>2, <2>8, <2>9, <2>11 DEF w, cq
<1>7. \/ queue' = queue /\ HeldBy(pass'[p]) = HeldBy(pass[p]) /\ queue[cq] = << >>
      \/ /\ AddedTo(queue', cq, pass'[p].cur, queue)
         /\ pass'[p].cur \in Workloads
         /\ HeldBy(pass'[p]) = HeldBy(pass[p]) \cup {pass'[p].cur}
  BY DequeueTypes
<1> QED BY <1>5, <1>6, <1>7

LEMMA AdmitPlaces ==
    ASSUME TypesInv, PlaceInv, NEW p \in Passes, Admit(p)
    PROVE  /\ PlaceInv' /\ InQueue' = InQueue
           /\ Gains(ClusterQueues, InActive, pass[p].cq, pass[p].cur, InActive')
           /\ Gains(Passes, InPass', p, pass[p].cur, InPass)
<1> DEFINE cq == pass[p].cq
           w == pass[p].cur
<1>1. /\ w \in Workloads /\ cq \in ClusterQueues
      /\ Becomes(p, "dequeue", cq, pass[p].left, None, None, pass[p].toRetry)
  BY AdmitBecomes
<1>2. queue' = queue /\ status' = [status EXCEPT ![w] = "Admitted"]
  BY DEF Admit
<1>3. /\ AddedTo(active, cq, w, active')
      /\ HeldBy(pass'[p]) = ToSet(pass[p].toRetry) /\ w \in HeldBy(pass[p])
      /\ HeldBy(pass[p]) = HeldBy(pass'[p]) \cup {w} /\ RouteOf[w] = cq
  BY AdmitTypes
<1>4. /\ pass[p].toRetry \in Seq(Workloads) /\ None \notin Workloads
      /\ IsInjective(pass[p].toRetry) /\ w \notin ToSet(pass[p].toRetry)
  BY Fields, NoneAssumption DEF PlaceInv, HandOK
<1>5. w \notin ToSet(active[cq]) /\ w \notin Fresh
  BY <1>1, <1>3, PlaceFacts DEF OnePlace
<1>6. /\ \A q \in Passes : q # p => pass'[q] = pass[q]
      /\ pass'[p].toRetry = pass[p].toRetry /\ pass'[p].cur = None
  BY <1>1 DEF Becomes
<1>7. HandOK(pass'[p])
  BY <1>4, <1>6, Elements DEF HandOK
<1>8. \A q \in Passes : HandOK(pass'[q])
  BY <1>6, <1>7, HandsStay
<1>9. Fresh' = Fresh
  BY <1>1, <1>2, <1>5 DEF Fresh, TypesInv, TypeOK
<1> HIDE DEF w, cq
<1>10. ListsOK(active') /\ Gains(ClusterQueues, Members(active), cq, w, Members(active'))
  BY <1>1, <1>3, <1>5, ListGains DEF PlaceInv
<1>11. Gains(ClusterQueues, InActive, cq, w, InActive')
  BY <1>10 DEF InActive
<1>12. Gains(Passes, InPass', p, w, InPass)
  BY <1>3, <1>4, <1>6, PassGains
<1>13. PlacedOK(InQueue, InPass', InActive', Fresh)
  <2>1. PlacedOK(InQueue, InPass, InActive, Fresh)
    BY DEF PlaceInv
  <2> QED BY <1>1, <1>3, <1>11, <1>12, <2>1, AdmitPlaced
<1>14. InQueue' = InQueue
  BY <1>2 DEF InQueue
<1>15. PlaceInv'
  BY <1>2, <1>8, <1>9, <1>10, <1>13, <1>14 DEF PlaceInv
<1> QED BY <1>11, <1>12, <1>14, <1>15 DEF w, cq

LEMMA RequeuePlaces ==
    ASSUME TypesInv, PlaceInv, NEW p \in Passes, Requeue(p)
    PROVE  /\ PlaceInv' /\ InActive' = InActive
           /\ Gains(ClusterQueues, InQueue, pass[p].cq, Head(pass[p].toRetry), InQueue')
           /\ Gains(Passes, InPass', p, Head(pass[p].toRetry), InPass)
<1> DEFINE cq == pass[p].cq
           w == Head(pass[p].toRetry)
<1>1. /\ cq \in ClusterQueues /\ pass[p].toRetry \in Seq(Workloads)
      /\ Becomes(p, "requeue", cq, pass[p].left, pass[p].cur, pass[p].flavor, Tail(pass[p].toRetry))
  BY RequeueBecomes
<1>2. active' = active /\ status' = [status EXCEPT ![w] = "Pending"]
  BY DEF Requeue
<1>3. /\ AddedTo(queue, cq, w, queue') /\ Added(pass'[p].toRetry, w, pass[p].toRetry)
      /\ pass'[p].cur = pass[p].cur /\ pass[p].cur = None
      /\ w \in Workloads /\ RouteOf[w] = cq
  BY RequeueTypes
<1>4. IsInjective(pass[p].toRetry) /\ None \notin Workloads
  BY NoneAssumption DEF PlaceInv, HandOK
<1>5. /\ ToSet(pass[p].toRetry) = ToSet(pass'[p].toRetry) \cup {w}
      /\ IsInjective(pass'[p].toRetry) /\ w \notin ToSet(pass'[p].toRetry)
  BY <1>3, <1>4 DEF Added
<1>6. HeldBy(pass[p]) = ToSet(pass[p].toRetry) /\ HeldBy(pass'[p]) = ToSet(pass'[p].toRetry)
  BY <1>3 DEF HeldBy
<1>7. w \notin ToSet(queue[cq]) /\ w \notin Fresh
  BY <1>3, <1>5, <1>6, PlaceFacts DEF OnePlace
<1>8. \A q \in Passes : q # p => pass'[q] = pass[q]
  BY <1>1 DEF Becomes
<1>9. HandOK(pass'[p])
  <2>1. ToSet(pass[p].toRetry) \subseteq Workloads
    BY <1>1, Elements
  <2> QED BY <1>3, <1>4, <1>5, <2>1 DEF HandOK
<1>10. \A q \in Passes : HandOK(pass'[q])
  BY <1>8, <1>9, HandsStay
<1>11. Fresh' = Fresh
  BY <1>2, <1>3, <1>7 DEF Fresh, TypesInv, TypeOK
<1> HIDE DEF w, cq
<1>12. ListsOK(queue') /\ Gains(ClusterQueues, Members(queue), cq, w, Members(queue'))
  BY <1>1, <1>3, <1>7, ListGains DEF PlaceInv
<1>13. Gains(ClusterQueues, InQueue, cq, w, InQueue')
  BY <1>12 DEF InQueue
<1>14. Gains(Passes, InPass', p, w, InPass)
  BY <1>5, <1>6, <1>8, PassGains
<1>15. PlacedOK(InQueue', InPass', InActive, Fresh)
  <2>1. PlacedOK(InQueue, InPass, InActive, Fresh)
    BY DEF PlaceInv
  <2> QED BY <1>3, <1>13, <1>14, <2>1, RequeuePlaced
<1>16. InActive' = InActive
  BY <1>2 DEF InActive
<1>17. PlaceInv'
  BY <1>2, <1>10, <1>11, <1>12, <1>15, <1>16 DEF PlaceInv
<1> QED BY <1>13, <1>14, <1>16, <1>17 DEF w, cq

LEMMA PlaceInit == Init => PlaceInv
<1> SUFFICES ASSUME Init PROVE PlaceInv
  OBVIOUS
<1>1. /\ queue = [cq \in ClusterQueues |-> << >>] /\ active = [cq \in ClusterQueues |-> << >>]
      /\ status = [w \in Workloads |-> "new"] /\ pass = [p \in Passes |-> NoPass]
  BY DEF Init
<1>2. ListsOK(queue) /\ ListsOK(active)
  BY <1>1, Elements DEF ListsOK
<1>3. /\ \A cq \in ClusterQueues : InQueue[cq] = {} /\ InActive[cq] = {}
      /\ \A p \in Passes : InPass[p] = {}
      /\ Fresh = Workloads
  <2>1. \A p \in Passes : InPass[p] = {}
    BY <1>1, NoPassState DEF InPass
  <2>2. \A cq \in ClusterQueues : InQueue[cq] = {} /\ InActive[cq] = {}
    BY <1>1, Elements DEF InQueue, InActive, Members
  <2> QED BY <1>1, <2>1, <2>2 DEF Fresh
<1>4. PlacedOK(InQueue, InPass, InActive, Fresh)
  BY <1>3, WorkloadAssumption DEF PlacedOK, OnePlace
<1>5. \A p \in Passes : HandOK(pass[p])
  <2>1. HandOK(NoPass)
    BY NoPassState, Elements DEF HandOK
  <2> QED BY <1>1, <2>1
<1> QED BY <1>2, <1>4, <1>5 DEF PlaceInv

(* A workload that can be finished was submitted.                          *)
LEMMA FinishedIsKnown ==
    ASSUME TypesInv, PlaceInv
    PROVE  /\ \A w \in Workloads : Finish(w) => w \notin Fresh
           /\ \A cq \in ClusterQueues : \A w \in ToSet(active[cq]) :
                 w \in Workloads /\ w \notin Fresh /\ w \in InActive[RouteOf[w]]
<1>1. \A w \in Workloads : Finish(w) => w \notin Fresh
  BY DEF Finish, Fresh
<1>2. ASSUME NEW cq \in ClusterQueues, NEW w \in ToSet(active[cq])
      PROVE  w \in Workloads /\ w \notin Fresh /\ w \in InActive[RouteOf[w]]
  <2>1. w \in Workloads /\ RouteOf[w] = cq
    BY Elements DEF TypesInv, TypeOK
  <2>2. w \in InActive[cq]
    BY DEF InActive, Members
  <2> QED BY <2>1, <2>2, PlaceFacts DEF OnePlace
<1> QED BY <1>1, <1>2

LEMMA PlaceNext == TypesInv /\ PlaceInv /\ [Next]_vars => PlaceInv'
<1> SUFFICES ASSUME TypesInv, PlaceInv, [Next]_vars PROVE PlaceInv'
  OBVIOUS
<1>1. ASSUME NEW w \in Workloads, Submit(w) PROVE PlaceInv'
  BY <1>1, SubmitPlaces
<1>2. ASSUME NEW w \in Workloads, Finish(w) PROVE PlaceInv'
  <2>1. w \notin Fresh /\ ReleaseWorkload(w)
    BY <1>2, FinishedIsKnown DEF Finish
  <2> QED BY <2>1, ReleasePlaces
<1>3. ASSUME NEW cq \in ClusterQueues, NEW name, FinishByName(cq, name) PROVE PlaceInv'
  <2>1. PICK w \in ToSet(active[cq]) : w \in Workloads /\ Name[w] = name /\ ReleaseWorkload(w)
    BY <1>3, FoundByName
  <2>2. w \notin Fresh
    BY FinishedIsKnown
  <2> QED BY <2>1, <2>2, ReleasePlaces
<1>4. ASSUME NEW p \in Passes, BeginPass(p) PROVE PlaceInv'
  BY <1>4, RangePlaces
<1>5. ASSUME NEW p \in Passes, PassStep(p) PROVE PlaceInv'
  <2>1. CASE NextQueue(p) \/ QueueDone(p) \/ EndPass(p)
    BY <2>1, RangePlaces
  <2>2. CASE Dequeue(p)
    BY <2>2, DequeuePlaces
  <2>3. CASE NoFlavorFits(p) \/ ChooseFlavor(p)
    BY <2>3, FitPlaces
  <2>4. CASE Admit(p)
    BY <2>4, AdmitPlaces
  <2>5. CASE Requeue(p)
    BY <2>5, RequeuePlaces
  <2> QED BY <1>5, <2>1, <2>2, <2>3, <2>4, <2>5 DEF PassStep
<1>6. CASE UNCHANGED vars
  BY <1>6 DEF vars, PlaceInv, InQueue, InPass, InActive, Fresh
<1> QED BY <1>1, <1>2, <1>3, <1>4, <1>5, <1>6 DEF Next, Serve

-----------------------------------------------------------------------------
(* Order: the queues are sorted at all times.                              *)

LEMMA SubmitSorted ==
    ASSUME TypesInv, PlaceInv, QueuesSorted, NEW w \in Workloads, Submit(w)
    PROVE  QueuesSorted'
<1> DEFINE cq == RouteOf[w]
<1>1. cq \in ClusterQueues
  BY WorkloadAssumption
<1>2. created' \in [Workloads -> Nat] /\ queue \in [ClusterQueues -> Seq(Workloads)]
  <2>1. TypesInv'
    BY SubmitTypes
  <2> QED BY <2>1 DEF TypesInv, TypeOK
<1>3. \A v \in Workloads : v # w => created'[v] = created[v]
  BY DEF Submit, TypesInv, TypeOK
<1>4. ASSUME NEW c \in ClusterQueues PROVE Sorted(created', queue[c])
  <2>1. ASSUME NEW v \in ToSet(queue[c]) PROVE created'[v] = created[v]
    <3>1. v \in Workloads /\ RouteOf[v] = c
      BY <1>2, Elements DEF TypesInv, TypeOK
    <3>2. w \in Fresh
      BY SubmitPlaces
    <3>3. v # w
      BY <3>1, <3>2, PlaceFacts DEF OnePlace
    <3> QED BY <1>3, <3>1, <3>3
  <2>2. Sorted(created, queue[c])
    BY DEF QueuesSorted
  <2> QED BY <2>1, <2>2, SameAgeSorted
<1>5. EnqueueTo(created', queue, cq, w, queue') /\ AddedTo(queue, cq, w, queue')
  BY SubmitTypes
<1> HIDE DEF cq
<1>6. Sorted(created', queue'[cq])
  BY <1>1, <1>2, <1>4, <1>5, EnqueueInto
<1>7. \A c \in ClusterQueues : c # cq => queue'[c] = queue[c]
  BY <1>5 DEF AddedTo
<1> QED BY <1>4, <1>6, <1>7 DEF QueuesSorted

(* What stays in the queue comes after the workload that Dequeue took.     *)
LEMMA DequeueSorted ==
    ASSUME TypesInv, QueuesSorted, NEW p \in Passes, Dequeue(p)
    PROVE  /\ QueuesSorted'
           /\ queue[pass[p].cq] # << >> =>
                 \A v \in InQueue'[pass[p].cq] : ~Precedes(created, v, pass'[p].cur)
<1> DEFINE cq == pass[p].cq
           q == queue[cq]
<1>1. cq \in ClusterQueues /\ created' = created
  <2>1. pass[p].pc = "dequeue" /\ created' = created
    BY DEF Dequeue
  <2> QED BY <2>1, Fields DEF PassOK
<1>2. queue \in [ClusterQueues -> Seq(Workloads)]
  BY DEF TypesInv, TypeOK
<1>3. CASE q = << >>
  <2>1. queue' = queue
    BY <1>3, DequeueBecomes
  <2> QED BY <1>1, <1>3, <2>1 DEF QueuesSorted
<1>4. CASE q # << >>
  <2>1. queue' = [queue EXCEPT ![cq] = Tail(q)] /\ pass'[p].cur = Head(q)
    BY <1>4, DequeueBecomes DEF Becomes
  <2>2. q \in Seq(Workloads) /\ Sorted(created, q)
    BY <1>1, <1>2 DEF QueuesSorted
  <2> HIDE DEF q, cq
  <2>3. Sorted(created, Tail(q)) /\ \A v \in ToSet(Tail(q)) : ~Precedes(created, v, Head(q))
    BY <1>4, <2>2, TailSorted
  <2>4. queue'[cq] = Tail(q) /\ \A c \in ClusterQueues : c # cq => queue'[c] = queue[c]
    BY <1>1, <1>2, <2>1
  <2>5. QueuesSorted'
    BY <1>1, <2>3, <2>4 DEF QueuesSorted
  <2>6. InQueue'[cq] = ToSet(Tail(q))
    BY <1>1, <2>4 DEF InQueue, Members
  <2> QED BY <2>1, <2>3, <2>5, <2>6 DEF cq
<1> QED BY <1>3, <1>4

LEMMA RequeueSorted ==
    ASSUME TypesInv, QueuesSorted, NEW p \in Passes, Requeue(p)
    PROVE  QueuesSorted'
<1> DEFINE cq == pass[p].cq
           w == Head(pass[p].toRetry)
<1>1. cq \in ClusterQueues
  BY RequeueBecomes
<1>2. created \in [Workloads -> Nat] /\ queue \in [ClusterQueues -> Seq(Workloads)]
  BY DEF TypesInv, TypeOK
<1>3. /\ EnqueueTo(created, queue, cq, w, queue') /\ AddedTo(queue, cq, w, queue')
      /\ w \in Workloads /\ created' = created
  BY RequeueTypes DEF Requeue
<1>4. \A c \in ClusterQueues : Sorted(created, queue[c])
  BY DEF QueuesSorted
<1> HIDE DEF cq, w
<1>5. Sorted(created, queue'[cq])
  BY <1>1, <1>2, <1>3, <1>4, EnqueueInto
<1>6. \A c \in ClusterQueues : c # cq => queue'[c] = queue[c]
  BY <1>3 DEF AddedTo
<1> QED BY <1>3, <1>4, <1>5, <1>6 DEF QueuesSorted

LEMMA SortedNext == TypesInv /\ PlaceInv /\ QueuesSorted /\ [Next]_vars => QueuesSorted'
<1> SUFFICES ASSUME TypesInv, PlaceInv, QueuesSorted, [Next]_vars PROVE QueuesSorted'
  OBVIOUS
<1>0. queue' = queue /\ created' = created => QueuesSorted'
  BY DEF QueuesSorted
<1>1. ASSUME NEW w \in Workloads, Submit(w) PROVE QueuesSorted'
  BY <1>1, SubmitSorted
<1>2. ASSUME NEW w \in Workloads, Finish(w) PROVE QueuesSorted'
  BY <1>0, <1>2 DEF Finish, ReleaseWorkload
<1>3. ASSUME NEW cq \in ClusterQueues, NEW name, FinishByName(cq, name) PROVE QueuesSorted'
  BY <1>0, <1>3, FoundByName DEF ReleaseWorkload
<1>4. ASSUME NEW p \in Passes, BeginPass(p) PROVE QueuesSorted'
  BY <1>0, <1>4 DEF BeginPass
<1>5. ASSUME NEW p \in Passes, PassStep(p) PROVE QueuesSorted'
  <2>1. CASE Dequeue(p)
    BY <2>1, DequeueSorted
  <2>2. CASE Requeue(p)
    BY <2>2, RequeueSorted
  <2>3. CASE NextQueue(p) \/ QueueDone(p) \/ EndPass(p)
    <3>1. NextQueue(p) => queue' = queue /\ created' = created
      BY DEF NextQueue
    <3>2. QueueDone(p) \/ EndPass(p) => queue' = queue /\ created' = created
      BY DEF QueueDone, EndPass
    <3> QED BY <1>0, <2>3, <3>1, <3>2
  <2>4. CASE NoFlavorFits(p) \/ ChooseFlavor(p)
    BY <1>0, <2>4 DEF NoFlavorFits, ChooseFlavor
  <2>5. CASE Admit(p)
    BY <1>0, <2>5 DEF Admit
  <2> QED BY <1>5, <2>1, <2>2, <2>3, <2>4, <2>5 DEF PassStep
<1>6. CASE UNCHANGED vars
  BY <1>0, <1>6 DEF vars
<1> QED BY <1>1, <1>2, <1>3, <1>4, <1>5, <1>6 DEF Next, Serve

LEMMA SortedInit == Init => QueuesSorted
BY DEF Init, QueuesSorted, Sorted

(* Every queue is in the order of sortQueue, so putting a workload in front *)
(* of the first one that it precedes is what appending and sorting does.   *)
(* That holds for any clients, with one request at a time.                 *)
THEOREM QueuesAreSorted == Spec => []QueuesSorted
BY TypesInit, TypesNext, PlaceInit, PlaceNext, SortedInit, SortedNext, PTL DEF Spec

(* Every workload that was submitted is in exactly one list, once: queued, *)
(* in the hands of the pass, or active. That holds for any clients, with   *)
(* one request at a time.                                                  *)
THEOREM WorkloadsHavePlaces == Spec => []PlaceInv
BY TypesInit, TypesNext, PlaceInit, PlaceNext, PTL DEF Spec

-----------------------------------------------------------------------------
(* Status. From here on clients finish only what is admitted: otherwise    *)
(* Finish marks a workload that is still queued.                           *)

(* Only the status of w changes, and only w moves.                         *)
LEMMA StatusStep ==
    ASSUME StatusInv, NEW w \in Workloads,
           \A v \in Workloads : v # w =>
               /\ status'[v] = status[v]
               /\ v \in InQueue'[RouteOf[v]] <=> v \in InQueue[RouteOf[v]]
               /\ v \in InActive'[RouteOf[v]] <=> v \in InActive[RouteOf[v]]
               /\ \A p \in Passes : v \in InPass'[p] <=> v \in InPass[p],
           w \in InQueue'[RouteOf[w]] => status'[w] = "Pending",
           w \in InActive'[RouteOf[w]] => status'[w] \in {"Admitted", "Finished"},
           \A p \in Passes : w \in InPass'[p] => status'[w] = "Pending"
    PROVE  StatusInv'
BY DEF StatusInv, StatusOK

LEMMA Routes == \A w \in Workloads : RouteOf[w] \in ClusterQueues
BY WorkloadAssumption

LEMMA SubmitStatus ==
    ASSUME TypesInv, PlaceInv, StatusInv, NEW w \in Workloads, Submit(w)
    PROVE  StatusInv'
<1>1. /\ Gains(ClusterQueues, InQueue, RouteOf[w], w, InQueue') /\ w \in Fresh
      /\ InPass' = InPass /\ InActive' = InActive
  BY SubmitPlaces DEF Submit, InPass, InActive
<1>2. status'[w] = "Pending" /\ \A v \in Workloads : v # w => status'[v] = status[v]
  BY DEF Submit, TypesInv, TypeOK
<1>3. \A v \in Workloads : v # w => (v \in InQueue'[RouteOf[v]] <=> v \in InQueue[RouteOf[v]])
  BY <1>1, Routes, GainsOne
<1>4. w \notin InActive'[RouteOf[w]] /\ \A p \in Passes : w \notin InPass'[p]
  BY <1>1, PlaceFacts DEF OnePlace
<1> QED BY <1>1, <1>2, <1>3, <1>4, StatusStep

LEMMA DequeueStatus ==
    ASSUME TypesInv, PlaceInv, StatusInv, NEW p \in Passes, Dequeue(p)
    PROVE  StatusInv'
<1>1. status' = status
  BY DEF Dequeue
<1>2. InActive' = InActive
  BY DequeuePlaces
<1>3. CASE InQueue' = InQueue /\ InPass' = InPass
  BY <1>1, <1>2, <1>3 DEF StatusInv
<1>4. CASE \E w \in Workloads :
              /\ Gains(ClusterQueues, InQueue', RouteOf[w], w, InQueue)
              /\ Gains(Passes, InPass, p, w, InPass')
  <2>1. PICK w \in Workloads :
              /\ Gains(ClusterQueues, InQueue', RouteOf[w], w, InQueue)
              /\ Gains(Passes, InPass, p, w, InPass')
    BY <1>4
  <2>2. \A v \in Workloads : v # w => (v \in InQueue'[RouteOf[v]] <=> v \in InQueue[RouteOf[v]])
    BY <2>1, Routes, GainsOne
  <2>3. \A v \in Workloads : v # w => \A q \in Passes : v \in InPass'[q] <=> v \in InPass[q]
    BY <2>1, GainsOne
  <2>4. w \in InQueue[RouteOf[w]] /\ w \notin InQueue'[RouteOf[w]]
    BY <2>1, GainsOne
  <2>5. status[w] = "Pending"
    BY <2>4 DEF StatusInv, StatusOK
  <2>6. w \notin InActive[RouteOf[w]]
    BY <2>4, PlaceFacts DEF OnePlace
  <2> QED BY <1>1, <1>2, <2>2, <2>3, <2>4, <2>5, <2>6, StatusStep
<1> QED BY <1>3, <1>4, DequeuePlaces

LEMMA AdmitStatus ==
    ASSUME TypesInv, PlaceInv, StatusInv, NEW p \in Passes, Admit(p)
    PROVE  StatusInv' /\ status[pass[p].cur] = "Pending"
<1> DEFINE w == pass[p].cur
           cq == pass[p].cq
<1>1. w \in Workloads /\ RouteOf[w] = cq
  BY AdmitBecomes, AdmitTypes
<1>2. /\ PlaceInv' /\ TypesInv' /\ InQueue' = InQueue
      /\ Gains(ClusterQueues, InActive, cq, w, InActive')
      /\ Gains(Passes, InPass', p, w, InPass)
  BY AdmitPlaces, AdmitTypes
<1>3. status'[w] = "Admitted" /\ \A v \in Workloads : v # w => status'[v] = status[v]
  BY <1>1 DEF Admit, TypesInv, TypeOK
<1> HIDE DEF w, cq
<1>4. \A v \in Workloads : v # w => (v \in InActive'[RouteOf[v]] <=> v \in InActive[RouteOf[v]])
  BY <1>2, Routes, GainsOne
<1>5. \A v \in Workloads : v # w => \A q \in Passes : v \in InPass'[q] <=> v \in InPass[q]
  BY <1>2, GainsOne
<1>6. w \in InPass[p] /\ w \notin InPass'[p] /\ \A q \in Passes : q # p => (w \in InPass'[q] <=> w \in InPass[q])
  BY <1>2, GainsOne
<1>7. status[w] = "Pending" /\ w \notin InQueue[RouteOf[w]] /\ \A q \in Passes : w \notin InPass'[q]
  BY <1>1, <1>6, PlaceFacts DEF StatusInv, StatusOK, OnePlace
<1>8. StatusInv'
  BY <1>1, <1>2, <1>3, <1>4, <1>5, <1>7, StatusStep
<1> QED BY <1>7, <1>8 DEF w

LEMMA RequeueStatus ==
    ASSUME TypesInv, PlaceInv, StatusInv, NEW p \in Passes, Requeue(p)
    PROVE  StatusInv' /\ status[Head(pass[p].toRetry)] = "Pending" /\ status' = status
<1> DEFINE w == Head(pass[p].toRetry)
           cq == pass[p].cq
<1>1. w \in Workloads /\ RouteOf[w] = cq
  BY RequeueTypes
<1>2. /\ InActive' = InActive
      /\ Gains(ClusterQueues, InQueue, cq, w, InQueue')
      /\ Gains(Passes, InPass', p, w, InPass)
  BY RequeuePlaces
<1>3. status' = [status EXCEPT ![w] = "Pending"] /\ status \in [Workloads -> {"new", "Pending", "Admitted", "Finished"}]
  BY <1>1 DEF Requeue, TypesInv, TypeOK
<1> HIDE DEF w, cq
<1>4. \A v \in Workloads : v # w => (v \in InQueue'[RouteOf[v]] <=> v \in InQueue[RouteOf[v]])
  BY <1>2, Routes, GainsOne
<1>5. \A v \in Workloads : v # w => \A q \in Passes : v \in InPass'[q] <=> v \in InPass[q]
  BY <1>2, GainsOne
<1>6. w \in InPass[p] /\ p \in Passes
  BY <1>2, GainsOne
<1>7. status[w] = "Pending" /\ w \notin InActive[RouteOf[w]]
  BY <1>1, <1>6, PlaceFacts DEF StatusInv, StatusOK, OnePlace
<1>8. status' = status
  BY <1>1, <1>3, <1>7
<1>9. StatusInv'
  BY <1>1, <1>2, <1>4, <1>5, <1>7, <1>8, StatusStep
<1> QED BY <1>7, <1>8, <1>9 DEF w

(* A workload that is finished was admitted, and knows its flavor.         *)
LEMMA ReleaseStatus ==
    ASSUME TypesInv, PlaceInv, StatusInv, NEW w \in Workloads, status[w] = "Admitted",
           ReleaseWorkload(w)
    PROVE  StatusInv' /\ flavor[w] \in FlavorNames
<1>1. w \notin Fresh
  BY DEF Fresh
<1>2. InQueue' = InQueue /\ InActive' = InActive /\ InPass' = InPass
  BY <1>1, ReleasePlaces
<1>3. w \notin InQueue[RouteOf[w]] /\ \A p \in Passes : w \notin InPass[p]
  BY DEF StatusInv, StatusOK
<1>4. w \in InActive[RouteOf[w]]
  BY <1>1, <1>3, PlaceFacts DEF OnePlace
<1>5. flavor[w] \in FlavorNames
  BY <1>4, PlaceFacts DEF TypesInv, TypeOK
<1>6. status'[w] = "Finished" /\ \A v \in Workloads : v # w => status'[v] = status[v]
  BY DEF ReleaseWorkload, TypesInv, TypeOK
<1>7. StatusInv'
  BY <1>2, <1>3, <1>6, StatusStep
<1> QED BY <1>5, <1>7

(* What a finished workload was before.                                    *)
LEMMA FinishedWasAdmitted ==
    ASSUME FinishOnce, UniqueNames, TypesInv
    PROVE  /\ \A w \in Workloads : Finish(w) => status[w] = "Admitted" /\ ReleaseWorkload(w)
           /\ \A cq \in ClusterQueues : \A name : FinishByName(cq, name) =>
                 \E w \in Workloads : status[w] = "Admitted" /\ ReleaseWorkload(w)
<1>1. \A w \in Workloads : Finish(w) => status[w] = "Admitted" /\ ReleaseWorkload(w)
  BY DEF Finish
<1>2. ASSUME NEW cq \in ClusterQueues, NEW name, FinishByName(cq, name)
      PROVE  \E w \in Workloads : status[w] = "Admitted" /\ ReleaseWorkload(w)
  <2>1. PICK w \in ToSet(active[cq]) : w \in Workloads /\ Name[w] = name /\ ReleaseWorkload(w)
    BY <1>2, FoundByName
  <2>2. PICK v \in Workloads : Name[v] = name /\ status[v] = "Admitted"
    BY <1>2 DEF FinishByName, Running
  <2> QED BY <2>1, <2>2 DEF UniqueNames
<1> QED BY <1>1, <1>2

-----------------------------------------------------------------------------
(* Quota: FlavorQuota.Used is a sum over the workloads that run.           *)

InFlavor(f) == {w \in Workloads : status[w] = "Admitted" /\ flavor[w] = f}

LEMMA GrantedSum ==
    ASSUME NEW f, NEW r
    PROVE  /\ Granted(f, r) = SumFunctionOnSet(Asked(r), InFlavor(f))
           /\ Granted(f, r)' = SumFunctionOnSet(Asked(r), InFlavor(f)')
BY DEF Granted, InFlavor

LEMMA FlavorSums ==
    ASSUME NEW r \in Resources, NEW S \in SUBSET Workloads
    PROVE  /\ IsFiniteSet(S) /\ SumFunctionOnSet(Asked(r), S) \in Int
           /\ \A w \in Workloads : w \notin S =>
                 SumFunctionOnSet(Asked(r), S \cup {w})
                     = TotalRequests(w)[r] + SumFunctionOnSet(Asked(r), S)
<1>1. IsFiniteSet(S)
  BY NoneAssumption, FS_Subset
<1>2. \A w \in Workloads : Asked(r)[w] = TotalRequests(w)[r] /\ Asked(r)[w] \in Int
  BY TotalIsNat DEF Asked
<1> DEFINE a == Asked(r)
<1> HIDE DEF a
<1>3. \A w \in Workloads : a[w] = TotalRequests(w)[r] /\ a[w] \in Int
  BY <1>2 DEF a
<1>4. SumFunctionOnSet(a, S) \in Int
  BY <1>1, <1>3, SumInt
<1>5. ASSUME NEW w \in Workloads, w \notin S
      PROVE  SumFunctionOnSet(a, S \cup {w}) = TotalRequests(w)[r] + SumFunctionOnSet(a, S)
  <2>1. SumFunctionOnSet(a, S \cup {w}) = a[w] + SumFunctionOnSet(a, S)
    BY <1>1, <1>3, <1>5, SumAdd
  <2> QED BY <1>3, <2>1
<1> QED BY <1>1, <1>4, <1>5 DEF a

(* A step after which the same workloads run in every flavor.              *)
LEMMA UsedStays ==
    ASSUME UsedIsGranted, used' = used, \A f \in FlavorNames : InFlavor(f)' = InFlavor(f)
    PROVE  UsedIsGranted'
<1> SUFFICES ASSUME NEW f \in FlavorNames, NEW r \in Resources
             PROVE  used'[f][r] = Granted(f, r)'
  BY DEF UsedIsGranted
<1>1. used[f][r] = Granted(f, r)
  BY DEF UsedIsGranted
<1>2. Granted(f, r)' = Granted(f, r)
  BY GrantedSum
<1> QED BY <1>1, <1>2

(* One workload begins to run in a flavor, or ends.                        *)
Begins(f, w) ==
    /\ w \notin InFlavor(f) /\ InFlavor(f)' = InFlavor(f) \cup {w}
    /\ \A r \in Resources : used'[f][r] = used[f][r] + TotalRequests(w)[r]

Ends(f, w) ==
    /\ w \notin InFlavor(f)' /\ InFlavor(f) = InFlavor(f)' \cup {w}
    /\ \A r \in Resources : used'[f][r] = used[f][r] - TotalRequests(w)[r]

SameFlavor(g) == InFlavor(g)' = InFlavor(g) /\ used'[g] = used[g]

LEMMA UsedMoves ==
    ASSUME TypesInv, UsedIsGranted, NEW f \in FlavorNames, NEW w \in Workloads,
           \A g \in FlavorNames : g # f => SameFlavor(g), Begins(f, w) \/ Ends(f, w)
    PROVE  UsedIsGranted'
<1> SUFFICES ASSUME NEW g \in FlavorNames, NEW r \in Resources
             PROVE  used'[g][r] = Granted(g, r)'
  BY DEF UsedIsGranted
<1>1. /\ used[g][r] = Granted(g, r)
      /\ Granted(g, r) = SumFunctionOnSet(Asked(r), InFlavor(g))
      /\ Granted(g, r)' = SumFunctionOnSet(Asked(r), InFlavor(g)')
  BY GrantedSum DEF UsedIsGranted
<1>2. CASE g # f
  BY <1>1, <1>2 DEF SameFlavor
<1>3. CASE g = f
  <2> DEFINE S == InFlavor(f)
             T == InFlavor(f)'
             Sum(X) == SumFunctionOnSet(Asked(r), X)
  <2>1. S \in SUBSET Workloads /\ T \in SUBSET Workloads
    BY DEF InFlavor
  <2>2. TotalRequests(w)[r] \in Int
    BY TotalIsNat
  <2> HIDE DEF S, T
  <2>3. /\ Sum(S) \in Int /\ Sum(T) \in Int
        /\ w \notin S => Sum(S \cup {w}) = TotalRequests(w)[r] + Sum(S)
        /\ w \notin T => Sum(T \cup {w}) = TotalRequests(w)[r] + Sum(T)
    BY <2>1, FlavorSums
  <2> HIDE DEF Sum
  <2>4. used[f][r] = Sum(S)
    BY <1>1, <1>3 DEF S, Sum
  <2>5. used'[f][r] = Sum(T)
    <3>1. CASE /\ w \notin S /\ T = S \cup {w}
               /\ used'[f][r] = used[f][r] + TotalRequests(w)[r]
      BY <2>2, <2>3, <2>4, <3>1
    <3>2. CASE /\ w \notin T /\ S = T \cup {w}
               /\ used'[f][r] = used[f][r] - TotalRequests(w)[r]
      <4> DEFINE a == TotalRequests(w)[r]
                 s == Sum(S)
                 t == Sum(T)
      <4>1. s = a + t
        BY <2>3, <3>2
      <4>2. a \in Int /\ s \in Int /\ t \in Int
        BY <2>2, <2>3
      <4>3. used'[f][r] = s - a
        BY <2>4, <3>2
      <4> HIDE DEF a, s, t
      <4>4. used'[f][r] = t
        BY <4>1, <4>2, <4>3
      <4> QED BY <4>4 DEF t
    <3> QED BY <3>1, <3>2 DEF S, T, Begins, Ends
  <2> QED BY <1>1, <1>3, <2>5 DEF T, Sum
<1> QED BY <1>2, <1>3

LEMMA AdmitUsed ==
    ASSUME TypesInv, PlaceInv, StatusInv, UsedIsGranted, NEW p \in Passes, Admit(p)
    PROVE  UsedIsGranted'
<1>0. PICK w \in Workloads, f \in FlavorNames : w = pass[p].cur /\ f = pass[p].flavor
  BY AdmitBecomes
<1>1. status[w] = "Pending"
  BY <1>0, AdmitStatus
<1>2. /\ used' = [used EXCEPT ![f] = [r \in Resources |-> used[f][r] + TotalRequests(w)[r]]]
      /\ flavor' = [flavor EXCEPT ![w] = f]
      /\ status' = [status EXCEPT ![w] = "Admitted"]
  BY <1>0 DEF Admit, Reserve
<1>3. /\ w \notin InFlavor(f) /\ InFlavor(f)' = InFlavor(f) \cup {w}
      /\ \A g \in FlavorNames : g # f => InFlavor(g)' = InFlavor(g)
  <2>1. /\ status'[w] = "Admitted" /\ flavor'[w] = f
        /\ \A v \in Workloads : v # w => status'[v] = status[v] /\ flavor'[v] = flavor[v]
    BY <1>1, <1>2 DEF TypesInv, TypeOK
  <2>2. w \notin InFlavor(f)
    BY <1>1 DEF InFlavor
  <2>3. InFlavor(f)' = InFlavor(f) \cup {w}
    BY <1>1, <2>1 DEF InFlavor
  <2>4. \A g \in FlavorNames : g # f => InFlavor(g)' = InFlavor(g)
    BY <1>1, <2>1 DEF InFlavor
  <2> QED BY <2>2, <2>3, <2>4
<1>4. /\ \A r \in Resources : used'[f][r] = used[f][r] + TotalRequests(w)[r]
      /\ \A g \in FlavorNames : g # f => used'[g] = used[g]
  BY <1>1, <1>2 DEF TypesInv, TypeOK
<1>5. Begins(f, w) /\ \A g \in FlavorNames : g # f => SameFlavor(g)
  BY <1>3, <1>4 DEF Begins, SameFlavor
<1> QED BY <1>1, <1>5, UsedMoves

LEMMA ReleaseUsed ==
    ASSUME TypesInv, PlaceInv, StatusInv, UsedIsGranted, NEW w \in Workloads,
           status[w] = "Admitted", ReleaseWorkload(w)
    PROVE  UsedIsGranted'
<1>1. PICK f \in FlavorNames : f = flavor[w] /\ f # None
  BY ReleaseStatus, NoneAssumption
<1>2. /\ used' = [used EXCEPT ![f] = [r \in Resources |-> used[f][r] - TotalRequests(w)[r]]]
      /\ flavor' = flavor /\ status' = [status EXCEPT ![w] = "Finished"]
  BY <1>1 DEF ReleaseWorkload, Release
<1>3. /\ w \notin InFlavor(f)' /\ InFlavor(f) = InFlavor(f)' \cup {w}
      /\ \A g \in FlavorNames : g # f => InFlavor(g)' = InFlavor(g)
  <2>1. status'[w] = "Finished" /\ \A v \in Workloads : v # w => status'[v] = status[v]
    BY <1>2 DEF TypesInv, TypeOK
  <2> QED BY <1>1, <1>2, <2>1 DEF InFlavor
<1>4. /\ \A r \in Resources : used'[f][r] = used[f][r] - TotalRequests(w)[r]
      /\ \A g \in FlavorNames : g # f => used'[g] = used[g]
  BY <1>1, <1>2 DEF TypesInv, TypeOK
<1>5. Ends(f, w) /\ \A g \in FlavorNames : g # f => SameFlavor(g)
  BY <1>3, <1>4 DEF Ends, SameFlavor
<1> QED BY <1>1, <1>5, UsedMoves

LEMMA SubmitUsed ==
    ASSUME TypesInv, UsedIsGranted, NEW w \in Workloads, Submit(w)
    PROVE  UsedIsGranted'
<1>1. /\ used' = used /\ flavor' = flavor /\ status[w] = "new"
      /\ status' = [status EXCEPT ![w] = "Pending"]
  BY DEF Submit
<1>2. \A f \in FlavorNames : InFlavor(f)' = InFlavor(f)
  BY <1>1 DEF InFlavor, TypesInv, TypeOK
<1> QED BY <1>1, <1>2, UsedStays

LEMMA LedgerInit == Init => LedgerInv
<1> SUFFICES ASSUME Init PROVE LedgerInv
  OBVIOUS
<1>1. TypesInv /\ PlaceInv
  BY TypesInit, PlaceInit
<1>2. /\ used = [f \in FlavorNames |-> [r \in Resources |-> 0]]
      /\ status = [w \in Workloads |-> "new"]
  BY DEF Init
<1>3. StatusInv
  <2>1. Fresh = Workloads
    BY <1>2 DEF Fresh
  <2>2. ASSUME NEW w \in Workloads
        PROVE  /\ w \notin InQueue[RouteOf[w]] /\ w \notin InActive[RouteOf[w]]
               /\ \A p \in Passes : w \notin InPass[p]
    BY <1>1, <2>1, PlaceFacts DEF OnePlace
  <2> QED BY <2>2 DEF StatusInv, StatusOK
<1>4. UsedIsGranted
  <2> SUFFICES ASSUME NEW f \in FlavorNames, NEW r \in Resources
               PROVE  used[f][r] = Granted(f, r)
    BY DEF UsedIsGranted
  <2>1. InFlavor(f) = {}
    BY <1>2 DEF InFlavor
  <2> QED BY <1>2, <2>1, GrantedSum, SumEmpty
<1> QED BY <1>1, <1>3, <1>4 DEF LedgerInv

LEMMA LedgerNext ==
    ASSUME FinishOnce, UniqueNames
    PROVE  LedgerInv /\ [Next]_vars => LedgerInv'
<1> SUFFICES ASSUME LedgerInv, [Next]_vars PROVE StatusInv' /\ UsedIsGranted'
  BY TypesNext, PlaceNext DEF LedgerInv
<1> USE DEF LedgerInv
<1>0. ASSUME InQueue' = InQueue, InActive' = InActive, InPass' = InPass,
             status' = status, flavor' = flavor, used' = used
      PROVE  StatusInv' /\ UsedIsGranted'
  <2>1. StatusInv'
    BY <1>0 DEF StatusInv
  <2>2. \A f \in FlavorNames : InFlavor(f)' = InFlavor(f)
    BY <1>0 DEF InFlavor
  <2> QED BY <1>0, <2>1, <2>2, UsedStays
<1>1. ASSUME NEW w \in Workloads, Submit(w) PROVE StatusInv' /\ UsedIsGranted'
  BY <1>1, SubmitStatus, SubmitUsed
<1>2. ASSUME NEW w \in Workloads, status[w] = "Admitted", ReleaseWorkload(w)
      PROVE  StatusInv' /\ UsedIsGranted'
  BY <1>2, ReleaseStatus, ReleaseUsed
<1>3. ASSUME NEW p \in Passes, BeginPass(p) PROVE StatusInv' /\ UsedIsGranted'
  BY <1>0, <1>3, RangePlaces DEF BeginPass
<1>4. ASSUME NEW p \in Passes, PassStep(p) PROVE StatusInv' /\ UsedIsGranted'
  <2>1. CASE NextQueue(p) \/ QueueDone(p) \/ EndPass(p)
    <3>1. status' = status /\ flavor' = flavor /\ used' = used
      <4>1. NextQueue(p) => status' = status /\ flavor' = flavor /\ used' = used
        BY DEF NextQueue
      <4>2. QueueDone(p) \/ EndPass(p) => status' = status /\ flavor' = flavor /\ used' = used
        BY DEF QueueDone, EndPass
      <4> QED BY <2>1, <4>1, <4>2
    <3> QED BY <1>0, <2>1, <3>1, RangePlaces
  <2>2. CASE Dequeue(p)
    <3>1. status' = status /\ flavor' = flavor /\ used' = used
      BY <2>2 DEF Dequeue
    <3>2. \A f \in FlavorNames : InFlavor(f)' = InFlavor(f)
      BY <3>1 DEF InFlavor
    <3> QED BY <2>2, <3>1, <3>2, DequeueStatus, UsedStays
  <2>3. CASE NoFlavorFits(p) \/ ChooseFlavor(p)
    <3>1. status' = status /\ flavor' = flavor /\ used' = used
      BY <2>3 DEF NoFlavorFits, ChooseFlavor
    <3> QED BY <1>0, <2>3, <3>1, FitPlaces
  <2>4. CASE Admit(p)
    BY <2>4, AdmitStatus, AdmitUsed
  <2>5. CASE Requeue(p)
    <3>1. StatusInv' /\ status' = status /\ flavor' = flavor /\ used' = used
      BY <2>5, RequeueStatus DEF Requeue
    <3>2. \A f \in FlavorNames : InFlavor(f)' = InFlavor(f)
      BY <3>1 DEF InFlavor
    <3> QED BY <3>1, <3>2, UsedStays
  <2> QED BY <1>4, <2>1, <2>2, <2>3, <2>4, <2>5 DEF PassStep
<1>5. CASE UNCHANGED vars
  BY <1>0, <1>5 DEF vars, InQueue, InActive, InPass
<1> QED BY <1>1, <1>2, <1>3, <1>4, <1>5, FinishedWasAdmitted DEF Next, Serve

(* FlavorQuota.Used is what the workloads that run in the flavor ask for,  *)
(* as long as clients finish only what is admitted and a name denotes one  *)
(* workload, with one request at a time.                                   *)
THEOREM UsedIsTheSum == ASSUME FinishOnce, UniqueNames PROVE Spec => []UsedIsGranted
<1>1. LedgerInv => UsedIsGranted
  BY DEF LedgerInv
<1>2. LedgerInv /\ [Next]_vars => LedgerInv'
  BY LedgerNext
<1> QED BY <1>1, <1>2, LedgerInit, PTL DEF Spec

(* In a list without repetitions a workload has one position or none.      *)
LEMMA CountInList ==
    ASSUME NEW q \in Seq(Workloads), IsInjective(q), NEW w
    PROVE  Cardinality({i \in DOMAIN q : q[i] = w}) = IF w \in ToSet(q) THEN 1 ELSE 0
<1> DEFINE at == {i \in DOMAIN q : q[i] = w}
<1>1. CASE w \in ToSet(q)
  <2>1. PICK k \in DOMAIN q : q[k] = w
    BY <1>1 DEF ToSet
  <2>2. at = {k}
    BY <2>1 DEF IsInjective
  <2> QED BY <1>1, <2>2, FS_Singleton
<1>2. CASE w \notin ToSet(q)
  <2>1. at = {}
    BY <1>2 DEF ToSet
  <2> QED BY <1>2, <2>1, FS_EmptySet
<1> QED BY <1>1, <1>2

LEMMA CountInPasses ==
    ASSUME NEW hs, NEW w,
           \A p1, p2 \in Passes : w \in hs[p1] /\ w \in hs[p2] => p1 = p2
    PROVE  Cardinality({p \in Passes : w \in hs[p]})
               = IF \E p \in Passes : w \in hs[p] THEN 1 ELSE 0
<1> DEFINE with == {p \in Passes : w \in hs[p]}
<1>1. CASE \E p \in Passes : w \in hs[p]
  <2>1. PICK p \in Passes : w \in hs[p]
    BY <1>1
  <2>2. with = {p}
    BY <2>1
  <2> QED BY <1>1, <2>2, FS_Singleton
<1>2. CASE ~ \E p \in Passes : w \in hs[p]
  <2>1. with = {}
    BY <1>2
  <2> QED BY <1>2, <2>1, FS_EmptySet
<1> QED BY <1>1, <1>2

LEMMA PlacesCount == LedgerInv => InOnePlace
<1> SUFFICES ASSUME LedgerInv, NEW w \in Workloads
             PROVE  LET cq == RouteOf[w]
                        places == Cardinality({i \in DOMAIN queue[cq] : queue[cq][i] = w})
                                  + Cardinality({p \in Passes : w \in Held(p)})
                        runs == Cardinality({i \in DOMAIN active[cq] : active[cq][i] = w})
                    IN  /\ places = IF status[w] = "Pending" THEN 1 ELSE 0
                        /\ runs = IF status[w] \in {"Admitted", "Finished"} THEN 1 ELSE 0
  BY DEF InOnePlace
<1> DEFINE cq == RouteOf[w]
           q == queue[cq]
           a == active[cq]
           inQ == Cardinality({i \in DOMAIN q : q[i] = w})
           inP == Cardinality({p \in Passes : w \in Held(p)})
           inA == Cardinality({i \in DOMAIN a : a[i] = w})
<1>1. /\ cq \in ClusterQueues /\ InQueue[cq] = ToSet(q) /\ InActive[cq] = ToSet(a)
      /\ \A p \in Passes : InPass[p] = Held(p)
      /\ OnePlace(w, InQueue[cq], InPass, InActive[cq], Fresh)
  <2>1. \A p \in Passes : Held(p) = HeldBy(pass[p])
    BY DEF Held, HeldBy
  <2> QED BY <2>1, PlaceFacts DEF LedgerInv
<1>2. /\ q \in Seq(Workloads) /\ IsInjective(q) /\ a \in Seq(Workloads) /\ IsInjective(a)
      /\ status[w] \in {"new", "Pending", "Admitted", "Finished"}
  BY <1>1 DEF LedgerInv, TypesInv, TypeOK, PlaceInv, ListsOK
<1>3. /\ w \in InQueue[cq] => status[w] = "Pending"
      /\ w \in InActive[cq] => status[w] \in {"Admitted", "Finished"}
      /\ \A p \in Passes : w \in InPass[p] => status[w] = "Pending"
      /\ w \in Fresh <=> status[w] = "new"
  BY DEF LedgerInv, StatusInv, StatusOK, Fresh
<1>4. inP = IF \E p \in Passes : w \in InPass[p] THEN 1 ELSE 0
  <2>1. {p \in Passes : w \in Held(p)} = {p \in Passes : w \in InPass[p]}
    BY <1>1
  <2>2. \A p1, p2 \in Passes : w \in InPass[p1] /\ w \in InPass[p2] => p1 = p2
    BY <1>1 DEF OnePlace
  <2> QED BY <2>1, <2>2, CountInPasses
<1> HIDE DEF q, a
<1>5. inQ = (IF w \in ToSet(q) THEN 1 ELSE 0) /\ inA = (IF w \in ToSet(a) THEN 1 ELSE 0)
  BY <1>2, CountInList
<1> HIDE DEF inQ, inP, inA, cq
<1>6. CASE w \in InQueue[cq]
  <2>1. inQ = 1 /\ inP = 0 /\ inA = 0 /\ status[w] = "Pending"
    BY <1>1, <1>3, <1>4, <1>5, <1>6 DEF OnePlace
  <2> QED BY <2>1 DEF inQ, inP, inA, cq, q, a
<1>7. CASE \E p \in Passes : w \in InPass[p]
  <2>1. inQ = 0 /\ inP = 1 /\ inA = 0 /\ status[w] = "Pending"
    BY <1>1, <1>3, <1>4, <1>5, <1>7 DEF OnePlace
  <2> QED BY <2>1 DEF inQ, inP, inA, cq, q, a
<1>8. CASE w \in InActive[cq]
  <2>1. inQ = 0 /\ inP = 0 /\ inA = 1 /\ status[w] \in {"Admitted", "Finished"}
    BY <1>1, <1>3, <1>4, <1>5, <1>8 DEF OnePlace
  <2> QED BY <2>1 DEF inQ, inP, inA, cq, q, a
<1>9. CASE w \in Fresh
  <2>1. inQ = 0 /\ inP = 0 /\ inA = 0 /\ status[w] = "new"
    BY <1>1, <1>3, <1>4, <1>5, <1>9 DEF OnePlace
  <2> QED BY <2>1 DEF inQ, inP, inA, cq, q, a
<1> QED BY <1>1, <1>6, <1>7, <1>8, <1>9 DEF OnePlace

(* A submitted workload is in one place, once, and its status tells which: *)
(* no pass of Schedule loses or duplicates one, with one request at a      *)
(* time, clients that finish only what runs and one workload per name.     *)
THEOREM WorkloadsAreKept == ASSUME FinishOnce, UniqueNames PROVE Spec => []InOnePlace
<1>1. LedgerInv /\ [Next]_vars => LedgerInv'
  BY LedgerNext
<1> QED BY <1>1, PlacesCount, LedgerInit, PTL DEF Spec

-----------------------------------------------------------------------------
(* One request at a time: what a pass has checked stays so.                *)

LEMMA FitIsRoom ==
    /\ \A f, w : CanFit(f, w) <=> Room(used, f, w)
    /\ \A w : Fits(w) <=> ~NoRoom(used, w)
BY DEF CanFit, Room, Available, Fits, NoRoom

(* Where there was no room there is none when more is used.                *)
LEMMA NoRoomStays ==
    ASSUME NEW u \in [FlavorNames -> [Resources -> Int]],
           NEW new \in [FlavorNames -> [Resources -> Int]],
           \A f \in FlavorNames, r \in Resources : u[f][r] <= new[f][r],
           NEW w \in Workloads, NoRoom(u, w)
    PROVE  NoRoom(new, w)
<1> SUFFICES ASSUME NEW i \in DOMAIN Flavors[RouteOf[w]], Room(new, Flavors[RouteOf[w]][i], w)
             PROVE  FALSE
  BY DEF NoRoom
<1> DEFINE f == Flavors[RouteOf[w]][i]
<1>1. f \in FlavorNames
  <2>1. Flavors[RouteOf[w]] \in Seq(FlavorNames)
    BY Routes, QuotaAssumption
  <2> QED BY <2>1, ElementOfSeq, LenProperties
<1>2. ~Room(u, f, w) /\ Room(new, f, w)
  BY DEF NoRoom
<1> HIDE DEF f
<1>3. ASSUME NEW r \in DOMAIN Request[w]
      PROVE  TotalRequests(w)[r] <= Quota[f][r] - u[f][r]
  <2>1. r \in Resources /\ r \in DOMAIN Quota[f]
    BY <1>2, WorkloadAssumption DEF Room
  <2> DEFINE a == TotalRequests(w)[r]
             b == Quota[f][r]
             c == u[f][r]
             d == new[f][r]
  <2>2. a \in Int /\ b \in Int /\ c \in Int /\ d \in Int /\ c <= d
    BY <1>1, <2>1, TotalIsNat, QuotaAssumption
  <2>3. a <= b - d
    BY <1>2 DEF Room
  <2> HIDE DEF a, b, c, d
  <2>4. a <= b - c
    BY <2>2, <2>3
  <2> QED BY <2>4 DEF a, b, c
<1> QED BY <1>2, <1>3 DEF Room

LEMMA IdleChecked == ASSUME NEW u, NEW age, NEW qs PROVE CheckedOK(NoPass, u, age, qs)
BY NoPassState, Elements DEF CheckedOK

(* The other passes wait, so only the pass that moves has something to     *)
(* keep.                                                                   *)
LEMMA OnePassMoves ==
    ASSUME PassInv, NEW p \in Passes, pass[p] # NoPass,
           \A q \in Passes : q # p => pass'[q] = pass[q],
           CheckedOK(pass'[p], used', created', InQueue')
    PROVE  PassInv'
<1>1. \A q \in Passes : q # p => pass'[q] = NoPass
  BY DEF PassInv
<1>2. \A q \in Passes : CheckedOK(pass'[q], used', created', InQueue')
  BY <1>1, IdleChecked
<1> QED BY <1>1, <1>2 DEF PassInv

LEMMA ServedPasses ==
    ASSUME MayServe, NEW p \in Passes
    PROVE  pass[p] = NoPass
BY DEF MayServe

LEMMA IdlePassInv ==
    ASSUME MayServe, pass' = pass
    PROVE  PassInv'
BY ServedPasses, IdleChecked DEF PassInv

LEMMA BeginChecked ==
    ASSUME TypesInv, MayServe, NEW p \in Passes, BeginPass(p)
    PROVE  PassInv'
<1>1. \A q \in Passes : pass[q] = NoPass
  BY ServedPasses
<1>2. Becomes(p, "range", None, ClusterQueues, None, None, << >>)
  BY BoundsBecome
<1>3. \A q \in Passes : q # p => pass'[q] = NoPass
  BY <1>1, <1>2 DEF Becomes
<1>4. CheckedOK(pass'[p], used', created', InQueue')
  BY <1>2, Elements DEF CheckedOK, Becomes
<1> QED BY <1>3, <1>4, IdleChecked DEF PassInv

LEMMA RangeChecked ==
    ASSUME TypesInv, PassInv, NEW p \in Passes, NextQueue(p) \/ QueueDone(p) \/ EndPass(p)
    PROVE  CheckedOK(pass'[p], used', created', InQueue')
<1>1. used' = used /\ created' = created /\ InQueue' = InQueue
  <2>1. NextQueue(p) => used' = used /\ created' = created /\ queue' = queue
    BY DEF NextQueue
  <2>2. QueueDone(p) \/ EndPass(p) => used' = used /\ created' = created /\ queue' = queue
    BY DEF QueueDone, EndPass
  <2> QED BY <2>1, <2>2 DEF InQueue
<1>2. CheckedOK(pass[p], used, created, InQueue)
  BY DEF PassInv
<1>3. CASE NextQueue(p)
  <2>1. PICK cq \in pass[p].left :
          Becomes(p, "dequeue", cq, pass[p].left \ {cq}, pass[p].cur, pass[p].flavor,
                  pass[p].toRetry)
    BY <1>3, NextQueueBecomes
  <2>2. pass[p].pc = "range" /\ pass[p].cq = None /\ None \notin ClusterQueues
    BY <1>3, Fields, NoneAssumption DEF NextQueue, PassOK
  <2>3. /\ pass'[p].pc = "dequeue" /\ pass'[p].cq = cq /\ pass'[p].left = pass[p].left \ {cq}
        /\ pass'[p].toRetry = pass[p].toRetry
    BY <2>1 DEF Becomes
  <2>4. ClusterQueues \ (pass'[p].left \cup {pass'[p].cq})
            = ClusterQueues \ (pass[p].left \cup {pass[p].cq})
    BY <2>1, <2>2, <2>3
  <2> QED BY <1>1, <1>2, <2>2, <2>3, <2>4 DEF CheckedOK
<1>4. CASE QueueDone(p)
  <2>1. Becomes(p, "range", None, pass[p].left, pass[p].cur, pass[p].flavor, pass[p].toRetry)
    BY <1>4, QueueDoneBecomes
  <2>2. pass[p].pc = "requeue"
    BY <1>4 DEF QueueDone
  <2>3. /\ pass'[p].pc = "range" /\ pass'[p].cq = None /\ pass'[p].left = pass[p].left
        /\ pass'[p].toRetry = pass[p].toRetry
    BY <2>1 DEF Becomes
  <2>4. ClusterQueues \ (pass'[p].left \cup {pass'[p].cq})
            \subseteq (ClusterQueues \ (pass[p].left \cup {pass[p].cq})) \cup {pass[p].cq}
    BY <2>3
  <2>5. \A cq \in ClusterQueues \ (pass'[p].left \cup {pass'[p].cq}) :
           \A w \in InQueue[cq] : NoRoom(used, w)
    BY <1>2, <2>2, <2>4 DEF CheckedOK
  <2> QED BY <1>1, <1>2, <2>3, <2>5 DEF CheckedOK
<1>5. CASE EndPass(p)
  <2>1. pass'[p] = NoPass
    BY <1>5, BoundsBecome
  <2> QED BY <2>1, IdleChecked
<1> QED BY <1>3, <1>4, <1>5

LEMMA FitChecked ==
    ASSUME TypesInv, PassInv, NEW p \in Passes, NoFlavorFits(p) \/ ChooseFlavor(p)
    PROVE  CheckedOK(pass'[p], used', created', InQueue')
<1>1. used' = used /\ created' = created /\ InQueue' = InQueue /\ pass[p].pc = "fit"
  BY DEF NoFlavorFits, ChooseFlavor, InQueue
<1>2. CheckedOK(pass[p], used, created, InQueue)
  BY DEF PassInv
<1>3. CASE NoFlavorFits(p)
  <2> DEFINE w == pass[p].cur
             retry == Append(pass[p].toRetry, w)
  <2>1. w \in Workloads /\ Becomes(p, "dequeue", pass[p].cq, pass[p].left, None, pass[p].flavor, retry)
    BY <1>3, NoFlavorFitsBecomes
  <2>2. RouteOf[w] = pass[p].cq /\ pass[p].toRetry \in Seq(Workloads)
    <3>1. w \in HeldBy(pass[p])
      BY <2>1, NoneAssumption DEF HeldBy
    <3> QED BY <3>1, Fields DEF PassOK
  <2>3. NoRoom(used, w)
    BY <1>3, <2>2, FitIsRoom DEF NoFlavorFits, NoRoom
  <2>4. ToSet(retry) = ToSet(pass[p].toRetry) \cup {w}
    BY <2>1, <2>2, AppendAdds DEF Added
  <2> HIDE DEF w, retry
  <2>5. /\ pass'[p].pc = "dequeue" /\ pass'[p].cq = pass[p].cq /\ pass'[p].left = pass[p].left
        /\ pass'[p].toRetry = retry
    BY <2>1 DEF Becomes
  <2>6. \A v \in ToSet(retry) : NoRoom(used, v)
    BY <1>2, <2>3, <2>4 DEF CheckedOK
  <2> QED BY <1>1, <1>2, <2>5, <2>6 DEF CheckedOK
<1>4. CASE ChooseFlavor(p)
  <2>1. PICK f \in ToSet(Flavors[pass[p].cq]) :
          /\ f \in FlavorNames /\ CanFit(f, pass[p].cur)
          /\ Becomes(p, "reserve", pass[p].cq, pass[p].left, pass[p].cur, f, pass[p].toRetry)
    BY <1>4, ChooseFlavorBecomes
  <2>2. /\ pass'[p].pc = "reserve" /\ pass'[p].cq = pass[p].cq /\ pass'[p].left = pass[p].left
        /\ pass'[p].toRetry = pass[p].toRetry /\ pass'[p].cur = pass[p].cur
        /\ pass'[p].flavor = f
    BY <2>1 DEF Becomes
  <2>3. Room(used, f, pass[p].cur)
    BY <2>1, FitIsRoom
  <2> QED BY <1>1, <1>2, <2>1, <2>2, <2>3 DEF CheckedOK
<1> QED BY <1>3, <1>4

LEMMA DequeueChecked ==
    ASSUME TypesInv, PlaceInv, QueuesSorted, PassInv, NEW p \in Passes, Dequeue(p)
    PROVE  CheckedOK(pass'[p], used', created', InQueue')
<1> DEFINE cq == pass[p].cq
<1>1. used' = used /\ created' = created /\ pass[p].pc = "dequeue"
  BY DEF Dequeue
<1>2. cq \in ClusterQueues
  BY <1>1, Fields DEF PassOK
<1>3. CheckedOK(pass[p], used, created, InQueue)
  BY DEF PassInv
<1>4. CASE queue[cq] = << >>
  <2>1. /\ Becomes(p, "requeue", cq, pass[p].left, pass[p].cur, pass[p].flavor, pass[p].toRetry)
        /\ queue' = queue
    BY <1>4, DequeueBecomes
  <2>2. /\ pass'[p].pc = "requeue" /\ pass'[p].cq = cq /\ pass'[p].left = pass[p].left
        /\ pass'[p].toRetry = pass[p].toRetry
    BY <2>1 DEF Becomes
  <2>3. InQueue' = InQueue /\ InQueue[cq] = {}
    BY <1>2, <1>4, <2>1, Elements DEF InQueue, Members
  <2> QED BY <1>1, <1>3, <2>2, <2>3 DEF CheckedOK
<1>5. CASE queue[cq] # << >>
  <2>1. Becomes(p, "fit", cq, pass[p].left, Head(queue[cq]), pass[p].flavor, pass[p].toRetry)
    BY <1>5, DequeueBecomes
  <2>2. /\ pass'[p].pc = "fit" /\ pass'[p].cq = cq /\ pass'[p].left = pass[p].left
        /\ pass'[p].toRetry = pass[p].toRetry
    BY <2>1 DEF Becomes
  <2>3. \A v \in InQueue'[cq] : ~Precedes(created, v, pass'[p].cur)
    BY <1>5, DequeueSorted
  <2>4. PICK w \in Workloads : Gains(ClusterQueues, InQueue', RouteOf[w], w, InQueue)
    BY <1>5, DequeuePlaces
  <2>5. \A c \in ClusterQueues : InQueue'[c] \subseteq InQueue[c]
    BY <2>4 DEF Gains
  <2> QED BY <1>1, <1>3, <2>2, <2>3, <2>5 DEF CheckedOK
<1> QED BY <1>4, <1>5

(* Admit takes quota, so what did not fit still does not.                  *)
LEMMA AdmitChecked ==
    ASSUME TypesInv, PlaceInv, PassInv, NEW p \in Passes, Admit(p)
    PROVE  CheckedOK(pass'[p], used', created', InQueue')
<1>1. PICK w \in Workloads, f \in FlavorNames : w = pass[p].cur /\ f = pass[p].flavor
  BY AdmitBecomes
<1>2. /\ used' = [used EXCEPT ![f] = [r \in Resources |-> used[f][r] + TotalRequests(w)[r]]]
      /\ queue' = queue /\ created' = created
  BY <1>1 DEF Admit, Reserve
<1>3. used \in [FlavorNames -> [Resources -> Int]] /\ used' \in [FlavorNames -> [Resources -> Int]]
  <2>1. TypesInv'
    BY AdmitTypes
  <2> QED BY <2>1 DEF TypesInv, TypeOK
<1>4. ASSUME NEW g \in FlavorNames, NEW r \in Resources PROVE used[g][r] <= used'[g][r]
  <2> DEFINE a == used[g][r]
             b == TotalRequests(w)[r]
  <2>1. a \in Int /\ b \in Nat
    BY <1>3, TotalIsNat
  <2>2. used'[g][r] = a \/ used'[g][r] = a + b
    BY <1>2, <1>3
  <2> HIDE DEF a, b
  <2>3. a <= used'[g][r]
    BY <2>1, <2>2
  <2> QED BY <2>3 DEF a
<1>5. \A v \in Workloads : NoRoom(used, v) => NoRoom(used', v)
  BY <1>3, <1>4, NoRoomStays
<1>6. CheckedOK(pass[p], used, created, InQueue) /\ pass[p].pc = "reserve"
  BY DEF PassInv, Admit
<1>7. /\ pass'[p].pc = "dequeue" /\ pass'[p].cq = pass[p].cq /\ pass'[p].left = pass[p].left
      /\ pass'[p].toRetry = pass[p].toRetry
  BY AdmitBecomes DEF Becomes
<1>8. InQueue' = InQueue
  BY <1>2 DEF InQueue
<1>9. /\ \A v \in ToSet(pass[p].toRetry) : v \in Workloads
      /\ \A c \in ClusterQueues : \A v \in InQueue[c] : v \in Workloads
  <2>1. /\ ToSet(pass[p].toRetry) \subseteq Workloads
        /\ \A c \in ClusterQueues : ToSet(queue[c]) \subseteq Workloads
    BY Fields, Elements DEF TypesInv, TypeOK
  <2> QED BY <2>1 DEF InQueue, Members
<1>10. \A v \in ToSet(pass[p].toRetry) : NoRoom(used', v)
  BY <1>5, <1>6, <1>9 DEF CheckedOK
<1>11. \A c \in ClusterQueues \ (pass[p].left \cup {pass[p].cq}) :
          \A v \in InQueue[c] : NoRoom(used', v)
  BY <1>5, <1>6, <1>9 DEF CheckedOK
<1> QED BY <1>7, <1>8, <1>10, <1>11 DEF CheckedOK

LEMMA RequeueChecked ==
    ASSUME TypesInv, PlaceInv, PassInv, NEW p \in Passes, Requeue(p)
    PROVE  CheckedOK(pass'[p], used', created', InQueue')
<1> DEFINE cq == pass[p].cq
           w == Head(pass[p].toRetry)
<1>1. used' = used /\ created' = created /\ pass[p].pc = "requeue"
  BY DEF Requeue
<1>2. /\ cq \in ClusterQueues
      /\ Becomes(p, "requeue", cq, pass[p].left, pass[p].cur, pass[p].flavor, Tail(pass[p].toRetry))
  BY RequeueBecomes
<1>3. pass'[p].pc = "requeue" /\ pass'[p].cq = cq /\ pass'[p].left = pass[p].left
  BY <1>2 DEF Becomes
<1>4. ToSet(pass[p].toRetry) = ToSet(pass'[p].toRetry) \cup {w}
  BY RequeueTypes DEF Added
<1>5. /\ InQueue'[cq] = InQueue[cq] \cup {w}
      /\ \A c \in ClusterQueues : c # cq => InQueue'[c] = InQueue[c]
  BY RequeuePlaces DEF Gains
<1>6. CheckedOK(pass[p], used, created, InQueue)
  BY DEF PassInv
<1> HIDE DEF w
<1>7. /\ \A v \in ToSet(pass'[p].toRetry) : NoRoom(used, v)
      /\ NoRoom(used, w)
  BY <1>4, <1>6 DEF CheckedOK
<1>8. \A v \in InQueue'[cq] : NoRoom(used, v)
  BY <1>1, <1>5, <1>6, <1>7 DEF CheckedOK
<1>9. \A c \in ClusterQueues \ (pass[p].left \cup {cq}) : \A v \in InQueue'[c] : NoRoom(used, v)
  BY <1>1, <1>5, <1>6 DEF CheckedOK
<1> QED BY <1>1, <1>3, <1>7, <1>8, <1>9 DEF CheckedOK

LEMMA StepChecked ==
    ASSUME TypesInv, PlaceInv, QueuesSorted, PassInv, NEW p \in Passes, PassStep(p)
    PROVE  PassInv' /\ pass[p] # NoPass
<1>1. pass[p] # NoPass
  <2>1. pass[p].pc # "idle"
    <3>1. NextQueue(p) \/ EndPass(p) => pass[p].pc = "range"
      BY Zenon DEF NextQueue, EndPass
    <3>2. Dequeue(p) => pass[p].pc = "dequeue"
      BY DEF Dequeue
    <3>3. NoFlavorFits(p) \/ ChooseFlavor(p) => pass[p].pc = "fit"
      BY DEF NoFlavorFits, ChooseFlavor
    <3>4. Admit(p) => pass[p].pc = "reserve"
      BY DEF Admit
    <3>5. Requeue(p) \/ QueueDone(p) => pass[p].pc = "requeue"
      BY DEF Requeue, QueueDone
    <3> QED BY <3>1, <3>2, <3>3, <3>4, <3>5 DEF PassStep
  <2> QED BY <2>1, NoPassState
<1>2. CheckedOK(pass'[p], used', created', InQueue')
  BY RangeChecked, FitChecked, DequeueChecked, AdmitChecked, RequeueChecked DEF PassStep
<1>3. \A q \in Passes : q # p => pass'[q] = pass[q]
  <2>1. NextQueue(p) => \A q \in Passes : q # p => pass'[q] = pass[q]
    BY NextQueueBecomes DEF Becomes
  <2>2. QueueDone(p) \/ EndPass(p) => \A q \in Passes : q # p => pass'[q] = pass[q]
    BY QueueDoneBecomes, BoundsBecome DEF Becomes
  <2>3. Dequeue(p) => \A q \in Passes : q # p => pass'[q] = pass[q]
    BY DequeueBecomes DEF Becomes
  <2>4. NoFlavorFits(p) \/ ChooseFlavor(p) => \A q \in Passes : q # p => pass'[q] = pass[q]
    BY NoFlavorFitsBecomes, ChooseFlavorBecomes DEF Becomes
  <2>5. Admit(p) \/ Requeue(p) => \A q \in Passes : q # p => pass'[q] = pass[q]
    BY AdmitBecomes, RequeueBecomes DEF Becomes
  <2> QED BY <2>1, <2>2, <2>3, <2>4, <2>5 DEF PassStep
<1>4. PassInv'
  BY <1>1, <1>2, <1>3, OnePassMoves
<1> QED BY <1>1, <1>4

(* The flavor that a pass chose still has room when it reserves.           *)
LEMMA AdmitFits ==
    ASSUME TypesInv, PassInv, UsedFits, NEW p \in Passes, Admit(p)
    PROVE  UsedFits'
<1>1. PICK w \in Workloads, f \in FlavorNames : w = pass[p].cur /\ f = pass[p].flavor
  BY AdmitBecomes
<1>2. used' = [used EXCEPT ![f] = [r \in Resources |-> used[f][r] + TotalRequests(w)[r]]]
  BY <1>1 DEF Admit, Reserve
<1>3. Room(used, f, w)
  BY <1>1 DEF PassInv, CheckedOK, Admit
<1> SUFFICES ASSUME NEW g \in FlavorNames, NEW r \in DOMAIN Quota[g]
             PROVE  used'[g][r] <= Quota[g][r]
  BY DEF UsedFits
<1>4. r \in Resources /\ used[g][r] <= Quota[g][r] /\ used \in [FlavorNames -> [Resources -> Int]]
  BY QuotaAssumption DEF UsedFits, TypesInv, TypeOK
<1>5. CASE g # f
  BY <1>2, <1>4, <1>5
<1>6. CASE g = f
  <2> DEFINE a == TotalRequests(w)[r]
             b == Quota[f][r]
             c == used[f][r]
  <2>1. used'[f][r] = c + a
    BY <1>2, <1>4
  <2>2. a \in Int /\ b \in Int /\ c \in Int /\ c <= b
    BY <1>4, <1>6, TotalIsNat, QuotaAssumption
  <2>3. a <= b - c \/ a = 0
    <3>1. CASE r \in DOMAIN Request[w]
      BY <1>3, <3>1 DEF Room
    <3>2. CASE r \notin DOMAIN Request[w]
      BY <1>4, <3>2 DEF TotalRequests
    <3> QED BY <3>1, <3>2
  <2> HIDE DEF a, b, c
  <2>4. c + a <= b
    BY <2>2, <2>3
  <2> QED BY <1>6, <2>1, <2>4 DEF b
<1> QED BY <1>5, <1>6

LEMMA ReleaseFits ==
    ASSUME TypesInv, UsedFits, NEW w \in Workloads, ReleaseWorkload(w)
    PROVE  UsedFits'
<1>1. used' = Release(flavor[w], w)
  BY DEF ReleaseWorkload
<1>2. used \in [FlavorNames -> [Resources -> Int]] /\ flavor[w] \in FlavorNames \cup {None}
  BY DEF TypesInv, TypeOK
<1>3. CASE flavor[w] = None
  BY <1>1, <1>3 DEF Release, UsedFits
<1>4. CASE flavor[w] # None
  <2>1. PICK f \in FlavorNames : f = flavor[w]
    BY <1>2, <1>4
  <2>2. used' = [used EXCEPT ![f] = [r \in Resources |-> used[f][r] - TotalRequests(w)[r]]]
    BY <1>1, <1>4, <2>1 DEF Release
  <2> SUFFICES ASSUME NEW g \in FlavorNames, NEW r \in DOMAIN Quota[g]
               PROVE  used'[g][r] <= Quota[g][r]
    BY DEF UsedFits
  <2>3. r \in Resources /\ used[g][r] <= Quota[g][r]
    BY QuotaAssumption DEF UsedFits
  <2> DEFINE a == TotalRequests(w)[r]
             b == Quota[g][r]
             c == used[g][r]
  <2>4. used'[g][r] = c \/ used'[g][r] = c - a
    BY <1>2, <2>2, <2>3
  <2>5. a \in Nat /\ b \in Int /\ c \in Int /\ c <= b
    BY <1>2, <2>3, TotalIsNat, QuotaAssumption
  <2> HIDE DEF a, b, c
  <2>6. used'[g][r] <= b
    BY <2>4, <2>5
  <2> QED BY <2>6 DEF b
<1> QED BY <1>3, <1>4

LEMMA KueueInit == Init => KueueInv
<1> SUFFICES ASSUME Init PROVE KueueInv
  OBVIOUS
<1>1. LedgerInv /\ QueuesSorted
  BY LedgerInit, SortedInit
<1>2. PassInv
  BY IdleChecked DEF Init, PassInv
<1>3. UsedFits
  <2> SUFFICES ASSUME NEW f \in FlavorNames, NEW r \in DOMAIN Quota[f]
               PROVE  used[f][r] <= Quota[f][r]
    BY DEF UsedFits
  <2>1. r \in Resources /\ Quota[f][r] \in Nat
    BY QuotaAssumption
  <2>2. used[f][r] = 0
    BY <2>1 DEF Init
  <2> QED BY <2>1, <2>2
<1> QED BY <1>1, <1>2, <1>3 DEF KueueInv

LEMMA KueueNext ==
    ASSUME FinishOnce, UniqueNames
    PROVE  KueueInv /\ [Next]_vars => KueueInv'
<1> SUFFICES ASSUME KueueInv, [Next]_vars PROVE KueueInv'
  OBVIOUS
<1>0. LedgerInv /\ TypesInv /\ PlaceInv /\ QueuesSorted /\ PassInv /\ UsedFits
  BY DEF KueueInv, LedgerInv
<1>u. used' = used => UsedFits'
  BY <1>0 DEF UsedFits
<1>1. ASSUME MayServe, NEW w \in Workloads, Submit(w) PROVE PassInv' /\ UsedFits'
  <2>1. pass' = pass /\ used' = used
    BY <1>1 DEF Submit
  <2> QED BY <1>1, <1>u, <2>1, IdlePassInv
<1>2. ASSUME MayServe, NEW w \in Workloads, Finish(w) PROVE PassInv' /\ UsedFits'
  <2>1. pass' = pass /\ ReleaseWorkload(w)
    BY <1>2 DEF Finish, ReleaseWorkload
  <2> QED BY <1>0, <1>2, <2>1, IdlePassInv, ReleaseFits
<1>3. ASSUME MayServe, NEW cq \in ClusterQueues, NEW name, FinishByName(cq, name)
      PROVE  PassInv' /\ UsedFits'
  <2>2. PICK w \in Workloads : ReleaseWorkload(w)
    BY <1>0, <1>3, FoundByName
  <2>3. pass' = pass
    BY <2>2 DEF ReleaseWorkload
  <2> QED BY <1>0, <1>3, <2>2, <2>3, IdlePassInv, ReleaseFits
<1>4. ASSUME MayServe, NEW p \in Passes, BeginPass(p) PROVE PassInv' /\ UsedFits'
  <2>1. used' = used
    BY <1>4 DEF BeginPass
  <2> QED BY <1>0, <1>4, <1>u, <2>1, BeginChecked
<1>5. ASSUME NEW p \in Passes, PassStep(p) PROVE PassInv' /\ UsedFits'
  <2>0. PassInv'
    BY <1>0, <1>5, StepChecked
  <2>1. CASE Admit(p)
    BY <1>0, <2>0, <2>1, AdmitFits
  <2>2. CASE ~Admit(p)
    <3>1. NextQueue(p) => used' = used
      BY DEF NextQueue
    <3>2. NoFlavorFits(p) \/ ChooseFlavor(p) => used' = used
      BY DEF NoFlavorFits, ChooseFlavor
    <3>3. Dequeue(p) \/ Requeue(p) \/ QueueDone(p) \/ EndPass(p) => used' = used
      BY DEF Dequeue, Requeue, QueueDone, EndPass
    <3>4. used' = used
      BY <1>5, <2>2, <3>1, <3>2, <3>3 DEF PassStep
    <3> QED BY <1>u, <2>0, <3>4
  <2> QED BY <2>1, <2>2
<1>6. ASSUME UNCHANGED vars PROVE PassInv' /\ UsedFits'
  <2>1. used' = used /\ pass' = pass /\ created' = created /\ InQueue' = InQueue
    BY <1>6 DEF vars, InQueue
  <2>2. PassInv'
    BY <1>0, <2>1 DEF PassInv
  <2> QED BY <1>u, <2>1, <2>2
<1>7. PassInv' /\ UsedFits'
  <2>1. CASE MayServe /\ Serve
    BY <1>1, <1>2, <1>3, <1>4, <2>1 DEF Serve
  <2>2. CASE \E p \in Passes : PassStep(p)
    BY <1>5, <2>2
  <2> QED BY <1>6, <2>1, <2>2 DEF Next
<1>8. LedgerInv' /\ QueuesSorted'
  BY <1>0, LedgerNext, SortedNext
<1> QED BY <1>7, <1>8 DEF KueueInv

(* The invariant holds for any queues, flavors and workloads when requests *)
(* come one at a time, clients finish only what runs and names are unique. *)
THEOREM KueueInvariant ==
    ASSUME FinishOnce, UniqueNames PROVE Spec => []KueueInv
<1>1. KueueInv /\ [Next]_vars => KueueInv'
  BY KueueNext
<1> QED BY <1>1, KueueInit, PTL DEF Spec

(* Admission never overcommits a flavor: although AssignFlavor reads Used  *)
(* in one step and adds to it in another, what runs in a flavor asks for   *)
(* no more than its quota. It takes all three: one request at a time,      *)
(* clients that finish only what runs, one workload per name.              *)
THEOREM QuotaIsKept ==
    ASSUME FinishOnce, UniqueNames PROVE Spec => []QuotaRespected
<1>1. KueueInv => QuotaRespected
  <2> SUFFICES ASSUME KueueInv, NEW f \in FlavorNames, NEW r \in DOMAIN Quota[f]
               PROVE  Granted(f, r) <= Quota[f][r]
    BY DEF QuotaRespected
  <2>1. r \in Resources
    BY QuotaAssumption
  <2> QED BY <2>1 DEF KueueInv, LedgerInv, UsedIsGranted, UsedFits
<1> QED BY <1>1, KueueInvariant, PTL

(* While p runs, a pending workload is queued or in the hands of p.        *)
LEMMA PendingPlace ==
    ASSUME KueueInv, NEW p \in Passes, pass[p] # NoPass,
           NEW w \in Workloads, status[w] = "Pending"
    PROVE  /\ RouteOf[w] \in ClusterQueues
           /\ w \in InQueue[RouteOf[w]] \/ w \in HeldBy(pass[p])
<1>1. TypesInv /\ PlaceInv /\ StatusInv /\ PassInv
  BY DEF KueueInv, LedgerInv
<1>2. /\ RouteOf[w] \in ClusterQueues
      /\ OnePlace(w, InQueue[RouteOf[w]], InPass, InActive[RouteOf[w]], Fresh)
      /\ \A q \in Passes : InPass[q] = HeldBy(pass[q])
  BY <1>1, PlaceFacts
<1>3. w \notin InActive[RouteOf[w]] /\ w \notin Fresh
  BY <1>1 DEF StatusInv, StatusOK, Fresh
<1>4. \A q \in Passes : q # p => InPass[q] = {}
  BY <1>1, <1>2, NoPassState DEF PassInv
<1> QED BY <1>2, <1>3, <1>4 DEF OnePlace

(* Only Admit makes a workload admitted.                                   *)
LEMMA AdmittedByAdmit ==
    ASSUME FinishOnce, UniqueNames, KueueInv, Next, NEW w \in Workloads,
           status[w] # "Admitted", status'[w] = "Admitted"
    PROVE  \E p \in Passes : Admit(p) /\ w = pass[p].cur
<1>0. /\ TypesInv /\ PlaceInv /\ StatusInv
      /\ status \in [Workloads -> {"new", "Pending", "Admitted", "Finished"}]
  BY DEF KueueInv, LedgerInv, TypesInv, TypeOK
<1>1. ASSUME NEW v \in Workloads, Submit(v) PROVE FALSE
  BY <1>0, <1>1 DEF Submit
<1>2. ASSUME NEW v \in Workloads, ReleaseWorkload(v) PROVE FALSE
  BY <1>0, <1>2 DEF ReleaseWorkload
<1>3. \A v \in Workloads : ~Finish(v)
  BY <1>2 DEF Finish
<1>4. \A cq \in ClusterQueues : \A name : ~FinishByName(cq, name)
  BY <1>0, <1>2, FoundByName
<1>5. PICK p \in Passes : BeginPass(p) \/ PassStep(p)
  BY <1>1, <1>3, <1>4 DEF Next, Serve
<1>6. CASE Admit(p)
  <2>1. status' = [status EXCEPT ![pass[p].cur] = "Admitted"]
    BY <1>6 DEF Admit
  <2> QED BY <1>0, <1>6, <2>1
<1>7. CASE ~Admit(p)
  <2>1. BeginPass(p) \/ NextQueue(p) => status' = status
    <3>1. BeginPass(p) => status' = status
      BY DEF BeginPass
    <3>2. NextQueue(p) => status' = status
      BY DEF NextQueue
    <3> QED BY <3>1, <3>2
  <2>2. Dequeue(p) \/ QueueDone(p) \/ EndPass(p) => status' = status
    <3>1. Dequeue(p) => status' = status
      BY DEF Dequeue
    <3>2. QueueDone(p) \/ EndPass(p) => status' = status
      BY DEF QueueDone, EndPass
    <3> QED BY <3>1, <3>2
  <2>3. NoFlavorFits(p) \/ ChooseFlavor(p) => status' = status
    BY DEF NoFlavorFits, ChooseFlavor
  <2>4. Requeue(p) => status' = status
    BY <1>0, RequeueStatus
  <2> QED BY <1>5, <1>7, <2>1, <2>2, <2>3, <2>4 DEF PassStep
<1> QED BY <1>6, <1>7

(* Backfilling takes only what the workloads in front cannot use: when     *)
(* Schedule admits w, those that come first by priority and age and are    *)
(* still pending do not fit (same assumptions as QuotaIsKept).             *)
THEOREM AdmissionIsInOrder ==
    ASSUME FinishOnce, UniqueNames PROVE Spec => AdmitInOrder
<1>1. ASSUME KueueInv, Next, NEW w \in Workloads, status[w] = "Pending", status'[w] = "Admitted",
             NEW v \in Workloads, Waiting(v, w), Precedes(created, v, w)
      PROVE  ~Fits(v)
  <2>1. PICK p \in Passes : Admit(p) /\ w = pass[p].cur
    BY <1>1, AdmittedByAdmit
  <2>2. TypesInv /\ PlaceInv /\ QueuesSorted /\ PassInv
    BY <1>1 DEF KueueInv, LedgerInv
  <2>3. pass[p] # NoPass
    BY <2>1, NoPassState DEF Admit
  <2>4. status[v] = "Pending" /\ RouteOf[v] = RouteOf[w] /\ v # w
    BY <1>1 DEF Waiting
  <2>5. RouteOf[w] = pass[p].cq /\ HeldBy(pass[p]) = ToSet(pass[p].toRetry) \cup {w}
    BY <2>1, <2>2, AdmitTypes
  <2>6. CheckedOK(pass[p], used, created, InQueue) /\ pass[p].pc = "reserve"
    BY <2>1, <2>2 DEF PassInv, Admit
  <2>7. v \notin InQueue[pass[p].cq]
    BY <1>1, <2>1, <2>6 DEF CheckedOK
  <2>8. v \in ToSet(pass[p].toRetry)
    BY <1>1, <2>3, <2>4, <2>5, <2>7, PendingPlace
  <2>9. NoRoom(used, v)
    BY <2>6, <2>8 DEF CheckedOK
  <2> QED BY <2>9, FitIsRoom
<1>2. KueueInv /\ [Next]_vars =>
        [\A w \in Workloads :
          status[w] = "Pending" /\ status'[w] = "Admitted" =>
              \A v \in Workloads :
                  Waiting(v, w) /\ Precedes(created, v, w) => ~Fits(v)]_vars
  BY <1>1
<1> QED BY <1>2, KueueInvariant, PTL DEF Spec, AdmitInOrder

(* When Schedule returns, nothing that is still pending fits in any flavor *)
(* of its ClusterQueue: a pass admits as many workloads as it can (same    *)
(* assumptions as QuotaIsKept).                                            *)
THEOREM PassesAreMaximal ==
    ASSUME FinishOnce, UniqueNames PROVE Spec => PassIsMaximal
<1>1. ASSUME KueueInv, NEW p \in Passes, EndPass(p), NEW w \in Workloads, status[w] = "Pending"
      PROVE  ~Fits(w)
  <2>1. TypesInv /\ PassInv
    BY <1>1 DEF KueueInv, LedgerInv
  <2>2. pass[p].pc = "range" /\ pass[p].left = {}
    BY <1>1 DEF EndPass
  <2>3. pass[p] # NoPass
    BY <2>2, NoPassState
  <2>4. HeldBy(pass[p]) = {} /\ pass[p].cq = None
    BY <2>1, <2>2, NothingHeld, Fields DEF PassOK
  <2>5. RouteOf[w] \in ClusterQueues /\ w \in InQueue[RouteOf[w]]
    BY <1>1, <2>3, <2>4, PendingPlace
  <2>6. RouteOf[w] \in ClusterQueues \ (pass[p].left \cup {pass[p].cq})
    BY <2>2, <2>4, <2>5, NoneAssumption
  <2>7. CheckedOK(pass[p], used, created, InQueue)
    BY <2>1 DEF PassInv
  <2>8. NoRoom(used, w)
    BY <2>2, <2>5, <2>6, <2>7 DEF CheckedOK
  <2> QED BY <2>8, FitIsRoom
<1>2. KueueInv /\ [Next]_vars =>
        [\A p \in Passes :
          EndPass(p) =>
              \A w \in Workloads : status[w] = "Pending" => ~Fits(w)]_vars
  BY <1>1
<1> QED BY <1>2, KueueInvariant, PTL DEF Spec, PassIsMaximal

-----------------------------------------------------------------------------
(* The ledger.                                                             *)

LEMMA LedgerAmount ==
    ASSUME NEW w \in Workloads, NEW r \in Resources
    PROVE  Ledger!Amount(w, r) = TotalRequests(w)[r]
BY DEF Ledger!Amount, TotalRequests

LEMMA LedgerSum ==
    ASSUME NEW f, NEW S
    PROVE  Ledger!SumFunctionOnSet(f, S) = SumFunctionOnSet(f, S)
<1>1. Ledger!SumFunctionOnSet(f, S) = (CHOOSE g : Sums(g, f, S))[S]
  BY DEF Ledger!SumFunctionOnSet, Ledger!FoldFunctionOnSet, Ledger!MapThenFoldSet,
         Sums, Step, First
<1> QED BY <1>1, SumIsFold

LEMMA LedgerTaken ==
    ASSUME NEW f, NEW r \in Resources
    PROVE  Ledger!Taken(f, r) = Granted(f, r)
<1>1. [v \in Workloads |-> Ledger!Amount(v, r)] = Asked(r)
  BY LedgerAmount DEF Asked
<1> QED BY <1>1, LedgerSum DEF Ledger!Taken, Granted

LEMMA AdmitIsLedger ==
    ASSUME KueueInv, NEW p \in Passes, Admit(p)
    PROVE  Ledger!Next
<1>0. TypesInv /\ PlaceInv /\ StatusInv /\ UsedIsGranted /\ PassInv
  BY DEF KueueInv, LedgerInv
<1>1. PICK w \in Workloads, f \in FlavorNames : w = pass[p].cur /\ f = pass[p].flavor
  BY <1>0, AdmitBecomes
<1>2. status[w] = "Pending" /\ RouteOf[w] = pass[p].cq
  BY <1>0, <1>1, AdmitStatus, AdmitTypes
<1>3. f \in ToSet(Flavors[RouteOf[w]]) /\ Room(used, f, w)
  BY <1>0, <1>1, <1>2 DEF PassInv, CheckedOK, Admit
<1>4. ASSUME NEW r \in DOMAIN Request[w]
      PROVE  r \in DOMAIN Quota[f] /\ Ledger!Taken(f, r) + TotalRequests(w)[r] <= Quota[f][r]
  <2>1. r \in Resources /\ r \in DOMAIN Quota[f]
    BY <1>3, WorkloadAssumption DEF Room
  <2> DEFINE a == TotalRequests(w)[r]
             b == Quota[f][r]
             c == used[f][r]
  <2>2. a \in Int /\ b \in Int /\ c \in Int
    BY <1>0, <2>1, TotalIsNat, QuotaAssumption DEF TypesInv, TypeOK
  <2>3. a <= b - c
    BY <1>3 DEF Room
  <2>4. Ledger!Taken(f, r) = c
    BY <1>0, <2>1, LedgerTaken DEF UsedIsGranted
  <2> HIDE DEF a, b, c
  <2>5. c + a <= b
    BY <2>2, <2>3
  <2> QED BY <2>1, <2>4, <2>5 DEF a, b
<1>5. status' = [status EXCEPT ![w] = "Admitted"] /\ flavor' = [flavor EXCEPT ![w] = f]
  BY <1>1 DEF Admit
<1> DEFINE demand == [v \in Workloads |-> [r \in DOMAIN Request[v] |-> TotalRequests(v)[r]]]
           offered == [v \in Workloads |-> ToSet(Flavors[RouteOf[v]])]
<1>6. f \in offered[w]
  BY <1>3
<1>7. \A r \in DOMAIN demand[w] :
          r \in DOMAIN Quota[f] /\ Ledger!Taken(f, r) + demand[w][r] <= Quota[f][r]
  BY <1>4
<1>8. Ledger!Admit(w, f)
  BY <1>2, <1>5, <1>6, <1>7 DEF Ledger!Admit
<1> QED BY <1>6, <1>8 DEF Ledger!Next

(* With one request at a time, clients that finish only what runs and one  *)
(* workload per name, the scheduler implements the ledger: although the    *)
(* quota is checked in one step and reserved in a later one, and although  *)
(* Used is kept beside the workloads, every admission fits what is really  *)
(* running.                                                                *)
THEOREM SchedulerImplementsLedger ==
    ASSUME FinishOnce, UniqueNames PROVE Spec => ImplementsLedger
<1>1. Init => Ledger!Init
  BY DEF Init, Ledger!Init, None
<1>2. KueueInv /\ [Next]_vars => [Ledger!Next]_(Ledger!vars)
  <2> SUFFICES ASSUME KueueInv, [Next]_vars
               PROVE  Ledger!Next \/ (status' = status /\ flavor' = flavor)
    BY DEF Ledger!vars
  <2>0. TypesInv /\ PlaceInv /\ StatusInv
    BY DEF KueueInv, LedgerInv
  <2>1. ASSUME NEW w \in Workloads, Submit(w) PROVE Ledger!Next
    <3>1. Ledger!Submit(w)
      BY <2>1 DEF Submit, Ledger!Submit
    <3> QED BY <3>1 DEF Ledger!Next
  <2>2. ASSUME NEW w \in Workloads, status[w] = "Admitted", ReleaseWorkload(w) PROVE Ledger!Next
    <3>1. Ledger!Finish(w)
      BY <2>2 DEF ReleaseWorkload, Ledger!Finish
    <3> QED BY <3>1 DEF Ledger!Next
  <2>3. ASSUME NEW p \in Passes, BeginPass(p) \/ PassStep(p), ~Admit(p)
        PROVE  status' = status /\ flavor' = flavor
    <3>1. BeginPass(p) => status' = status /\ flavor' = flavor
      BY DEF BeginPass
    <3>2. NextQueue(p) => status' = status /\ flavor' = flavor
      BY DEF NextQueue
    <3>3. Dequeue(p) => status' = status /\ flavor' = flavor
      BY DEF Dequeue
    <3>4. QueueDone(p) \/ EndPass(p) => status' = status /\ flavor' = flavor
      BY DEF QueueDone, EndPass
    <3>5. NoFlavorFits(p) \/ ChooseFlavor(p) => status' = status /\ flavor' = flavor
      BY DEF NoFlavorFits, ChooseFlavor
    <3>6. Requeue(p) => status' = status /\ flavor' = flavor
      <4>1. Requeue(p) => flavor' = flavor
        BY DEF Requeue
      <4> QED BY <2>0, <4>1, RequeueStatus
    <3> QED BY <2>3, <3>1, <3>2, <3>3, <3>4, <3>5, <3>6 DEF PassStep
  <2>4. CASE \E w \in Workloads : Submit(w) \/ Finish(w)
    BY <2>0, <2>1, <2>2, <2>4, FinishedWasAdmitted
  <2>5. CASE \E cq \in ClusterQueues, name \in {Name[w] : w \in Workloads} : FinishByName(cq, name)
    BY <2>0, <2>2, <2>5, FinishedWasAdmitted
  <2>6. CASE \E p \in Passes : BeginPass(p) \/ PassStep(p)
    BY <2>3, <2>6, AdmitIsLedger
  <2>7. CASE UNCHANGED vars
    BY <2>7 DEF vars
  <2> QED BY <2>4, <2>5, <2>6, <2>7 DEF Next, Serve
<1> QED BY <1>1, <1>2, KueueInvariant, PTL DEF Spec, ImplementsLedger, Ledger!Spec
=============================================================================
