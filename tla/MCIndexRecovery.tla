--------------------------- MODULE MCIndexRecovery ---------------------------
(* IndexRecovery on small instances; processes and keys are interchangeable *)
(* in the runs that check safety only.                                      *)
EXTENDS IndexRecovery, TLC

Symmetry == Permutations(Procs) \cup Permutations(Keys)
=============================================================================
