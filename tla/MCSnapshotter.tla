---------------------------- MODULE MCSnapshotter ----------------------------
(* Snapshotter on three keys: enough for a chain of two parents, a name    *)
(* that is in use, and a view beside them.                                 *)
EXTENDS Snapshotter, TLC

Symmetry == Permutations(Keys)
=============================================================================
