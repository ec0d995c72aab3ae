--------------------------- MODULE MCSegmentConfig --------------------------
(* SegmentConfig on a small instance. *)
EXTENDS SegmentConfig, TLC

Symmetry == Permutations(Procs)
=============================================================================
