------------------------------ MODULE MCServer ------------------------------
(* Server on a small instance; connections are interchangeable.            *)
EXTENDS Server, TLC

Symmetry == Permutations(Conns)
=============================================================================
