--------------------------- MODULE MCContentStore ---------------------------
(* ContentStore with one shared ref, two streams and byte sequences of     *)
(* length up to two.                                                       *)
EXTENDS ContentStore, TLC

Symmetry == Permutations(Streams) \cup Permutations(Bytes)
=============================================================================
