------------------------- MODULE MCLoopbackForwarder -------------------------
(* Connections are alike, and so are the callers of Close: the safety run  *)
(* identifies states that differ only by a permutation of them.            *)
EXTENDS LoopbackForwarder, TLC

Symmetry == Permutations(Conns) \cup Permutations(Closers)
=============================================================================
