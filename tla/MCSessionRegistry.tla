------------------------- MODULE MCSessionRegistry -------------------------
(* Threads and places are interchangeable.                                 *)
EXTENDS SessionRegistry, TLC

Symmetry == Permutations(Threads) \union Permutations(Places)
=============================================================================
